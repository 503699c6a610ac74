------------------------- MODULE PaperBrokerProofs -------------------------
(***************************************************************************)
(* Machine-checked proofs about PaperBroker, for every set of symbols,     *)
(* quotes, requests, amendments and callers.                               *)
(***************************************************************************)
EXTENDS BrokerLedger, SumTheorems, TLAPS

\* The inductive invariant, as two halves that most actions leave alone in
\* turn: the order book and the book of positions.
OrderBookOK ==
  /\ DOMAIN orders \subseteq FirstOrderId..(nextOrderId - 1)
  /\ \A id \in DOMAIN orders : orders[id] \in PaperOrder
  /\ nextOrderId \in FirstOrderId..(FirstOrderId + MaxOrders)
  /\ nextFillId \in Nat
  /\ accrued \in Nat
  /\ RestingOrdersAgree

PositionBookOK ==
  /\ DOMAIN positions \subseteq FirstPositionId..(nextPositionId - 1)
  /\ \A id \in DOMAIN positions : positions[id] \in PaperPosition
  /\ nextPositionId \in Nat /\ nextPositionId >= FirstPositionId
  /\ balance \in Int
  /\ charged \in Nat
  /\ OnePositionPerSymbol

EnvironmentOK ==
  /\ connected \in BOOLEAN
  /\ quotes \in [Symbols -> Quotes]
  /\ inflight \in [Calls -> Operations \cup {"none"}]
  /\ resets \in 0..MaxResets

Inv == OrderBookOK /\ PositionBookOK /\ EnvironmentOK

USE QuoteAssumption, RequestAssumption, ParameterAssumption
USE DEF NoPrice, Sides, OrderTypes, Statuses, Operations, FirstOrderId,
        FirstPositionId, FirstFillId

-----------------------------------------------------------------------------
(* Operators.                                                              *)

\* Put and Drop: the domain and the entries of the new dictionary.
LEMMA PutFacts ==
  ASSUME NEW f, NEW k, NEW v
  PROVE  /\ DOMAIN Put(f, k, v) = DOMAIN f \cup {k}
         /\ Put(f, k, v)[k] = v
         /\ \A x \in DOMAIN f \ {k} : Put(f, k, v)[x] = f[x]
BY DEF Put

LEMMA DropFacts ==
  ASSUME NEW f, NEW ks
  PROVE  /\ DOMAIN Drop(f, ks) = DOMAIN f \ ks
         /\ \A x \in DOMAIN f \ ks : Drop(f, ks)[x] = f[x]
BY DEF Drop

\* A fill has a positive price, whatever the slippage.
LEMMA FillPriceType ==
  ASSUME NEW side \in Sides, NEW q \in Quotes, NEW x \in Slippages
  PROVE  FillPrice(side, q, x) \in Nat \ {0}
BY DEF FillPrice, Larger, Quote

LEMMA ClosePriceType ==
  ASSUME NEW side \in Sides, NEW q \in Quotes
  PROVE  ClosePrice(side, q) \in Nat \ {0}
BY DEF ClosePrice, Quote

LEMMA ProductOfNats ==
  ASSUME NEW a \in Nat, NEW b \in Nat
  PROVE  a * b \in Nat
OBVIOUS

LEMMA CommissionType ==
  ASSUME NEW qty \in Nat, NEW price \in Nat
  PROVE  Commission(qty, price) \in Nat
BY ProductOfNats DEF Commission

LEMMA ProfitType ==
  ASSUME NEW side, NEW qty \in Int, NEW cost \in Int, NEW price \in Int
  PROVE  Profit(side, qty, cost, price) \in Int
BY DEF Profit

-----------------------------------------------------------------------------
(* Netting.                                                                *)

LEMMA NewPositionType ==
  ASSUME NEW o \in PaperOrder, NEW qty \in Nat \ {0}, NEW price \in Nat,
         NEW fee \in Nat, NEW mark \in Nat
  PROVE  /\ NewPosition(o, qty, price, fee, mark) \in PaperPosition
         /\ NewPosition(o, qty, price, fee, mark).symbol = o.symbol
<1>1. /\ o.symbol \in Symbols /\ o.side \in Sides
      /\ o.sl \in Nat /\ o.tp \in Nat /\ o.trail \in Nat
  BY DEF PaperOrder
<1>2. qty * price \in Int
  OBVIOUS
<1>3. /\ (IF o.side = "buy" THEN mark ELSE NoPrice) \in Nat
      /\ (IF o.side = "sell" THEN mark ELSE NoPrice) \in Nat
  OBVIOUS
<1> QED
  BY <1>1, <1>2, <1>3 DEF NewPosition, PaperPosition

LEMMA EnlargedType ==
  ASSUME NEW p \in PaperPosition, NEW o \in PaperOrder, NEW qty \in Nat \ {0},
         NEW price \in Nat, NEW fee \in Nat
  PROVE  /\ Enlarged(p, o, qty, price, fee) \in PaperPosition
         /\ Enlarged(p, o, qty, price, fee).symbol = p.symbol
<1>1. o.sl \in Nat /\ o.tp \in Nat /\ o.trail \in Nat
  BY DEF PaperOrder
<1>2. /\ p.symbol \in Symbols /\ p.side \in Sides /\ p.qty \in Nat \ {0}
      /\ p.basis \in Int /\ p.high \in Nat /\ p.low \in Nat /\ p.commission \in Nat
  BY DEF PaperPosition
<1>3. /\ p.qty + qty \in Nat \ {0}
      /\ p.basis + qty * price \in Int
      /\ p.commission + fee \in Nat
  BY <1>2
<1>4. Larger(p.high, price) \in Nat /\ Smaller(p.low, price) \in Nat
  BY <1>2 DEF Larger, Smaller
<1> DEFINE high == IF p.side = "buy" THEN Larger(p.high, price) ELSE NoPrice
           low == IF p.side = "buy" THEN NoPrice
                  ELSE IF p.low = NoPrice THEN price ELSE Smaller(p.low, price)
<1>5. high \in Nat /\ low \in Nat
  BY <1>4
<1>6. Enlarged(p, o, qty, price, fee) =
        [symbol |-> p.symbol, side |-> p.side, qty |-> p.qty + qty,
         basis |-> p.basis + qty * price, sl |-> o.sl, tp |-> o.tp,
         trail |-> o.trail, high |-> high, low |-> low,
         commission |-> p.commission + fee]
  BY DEF Enlarged
<1> HIDE DEF high, low
<1> QED
  BY <1>1, <1>2, <1>3, <1>5, <1>6 DEF PaperPosition

\* Adding a position for a symbol that holds none, under the next id.
LEMMA AddPosition ==
  ASSUME NEW f, NEW n \in Nat, NEW p \in PaperPosition,
         DOMAIN f \subseteq FirstPositionId..(n - 1),
         n >= FirstPositionId,
         \A i \in DOMAIN f : f[i] \in PaperPosition /\ f[i].symbol # p.symbol,
         \A i, j \in DOMAIN f : f[i].symbol = f[j].symbol => i = j
  PROVE  /\ DOMAIN Put(f, n, p) \subseteq FirstPositionId..n
         /\ \A i \in DOMAIN Put(f, n, p) : Put(f, n, p)[i] \in PaperPosition
         /\ \A i, j \in DOMAIN Put(f, n, p) :
              Put(f, n, p)[i].symbol = Put(f, n, p)[j].symbol => i = j
<1> DEFINE g == Put(f, n, p)
<1>1. /\ DOMAIN g = DOMAIN f \cup {n}
      /\ g[n] = p
      /\ \A i \in DOMAIN f \ {n} : g[i] = f[i]
  BY DEF Put
<1> HIDE DEF g
<1>2. n \notin DOMAIN f
  OBVIOUS
<1>3. \A i \in DOMAIN f : g[i] = f[i]
  BY <1>1, <1>2
<1>4. DOMAIN g \subseteq FirstPositionId..n
  BY <1>1
<1>5. \A i \in DOMAIN g : g[i] \in PaperPosition
  BY <1>1, <1>3, Zenon
<1>6. \A i, j \in DOMAIN g : g[i].symbol = g[j].symbol => i = j
  BY <1>1, <1>3, Zenon
<1> QED
  BY <1>4, <1>5, <1>6, Zenon DEF g

\* Replacing a position by one of the same symbol, and removing positions.
LEMMA ChangePosition ==
  ASSUME PositionBookOK, NEW id \in DOMAIN positions, NEW n \in PaperPosition,
         n.symbol = positions[id].symbol,
         positions' = [positions EXCEPT ![id] = n]
  PROVE  /\ DOMAIN positions' = DOMAIN positions
         /\ \A i \in DOMAIN positions' : positions'[i] \in PaperPosition
         /\ OnePositionPerSymbol'
BY DEF PositionBookOK, OnePositionPerSymbol

LEMMA DropPosition ==
  ASSUME PositionBookOK, NEW ids,
         positions' = Drop(positions, ids)
  PROVE  /\ DOMAIN positions' \subseteq DOMAIN positions
         /\ \A i \in DOMAIN positions' : positions'[i] \in PaperPosition
         /\ OnePositionPerSymbol'
BY DEF PositionBookOK, OnePositionPerSymbol, Drop

\* Whichever case of netting applies, the book of positions stays well formed.
LEMMA NettingOK ==
  ASSUME PositionBookOK,
         NEW o \in PaperOrder, NEW qty \in Nat \ {0}, NEW price \in Nat \ {0},
         NEW fee \in Nat,
         UpdatePosition(o, qty, price, fee)
  PROVE  PositionBookOK'
<1> USE DEF PositionBookOK, OnePositionPerSymbol
<1>1. CASE OpenPosition(o, qty, price, fee)
  <2> DEFINE p == NewPosition(o, qty, price, fee, price)
  <2>1. p \in PaperPosition /\ p.symbol = o.symbol
    <3>1. \A mark \in Nat : NewPosition(o, qty, price, fee, mark) \in PaperPosition
                            /\ NewPosition(o, qty, price, fee, mark).symbol = o.symbol
      BY NewPositionType
    <3> QED
      BY <3>1
  <2>2. \A i \in DOMAIN positions : positions[i].symbol # p.symbol
    BY <1>1, <2>1 DEF OpenPosition, HeldIn
  <2>3. positions' = Put(positions, nextPositionId, p)
    BY <1>1 DEF OpenPosition
  <2>4. /\ nextPositionId' = nextPositionId + 1
        /\ UNCHANGED <<balance, charged>>
    BY <1>1 DEF OpenPosition
  <2>5. /\ DOMAIN positions' \subseteq FirstPositionId..nextPositionId
        /\ \A i \in DOMAIN positions' : positions'[i] \in PaperPosition
        /\ \A i, j \in DOMAIN positions' :
             positions'[i].symbol = positions'[j].symbol => i = j
    <3> HIDE DEF p
    <3> QED
      BY <2>1, <2>2, <2>3, AddPosition
  <2> QED
    BY <2>4, <2>5
<1>2. CASE Accumulate(o, qty, price, fee)
  <2>1. PICK id \in HeldIn(o.symbol) :
          positions' = [positions EXCEPT ![id] = Enlarged(@, o, qty, price, fee)]
    BY <1>2 DEF Accumulate, FirstOf
  <2>2. UNCHANGED <<nextPositionId, balance, charged>>
    BY <1>2 DEF Accumulate
  <2>3. id \in DOMAIN positions /\ positions[id] \in PaperPosition
    BY DEF HeldIn
  <2>4. /\ Enlarged(positions[id], o, qty, price, fee) \in PaperPosition
        /\ Enlarged(positions[id], o, qty, price, fee).symbol = positions[id].symbol
    BY <2>3, EnlargedType
  <2> QED
    BY <2>1, <2>2, <2>3, <2>4, ChangePosition
<1>3. CASE Reduce(o, qty, price, fee)
  <2>1. PICK id \in HeldIn(o.symbol) :
          LET p == positions[id]
              cost == (p.basis * qty) \div p.qty
          IN /\ qty < p.qty
             /\ balance' = balance + Profit(p.side, qty, cost, price) - fee
             /\ positions' = [positions EXCEPT ![id] =
                  [p EXCEPT !.qty = p.qty - qty, !.basis = p.basis - cost]]
    BY <1>3 DEF Reduce, FirstOf
  <2>2. charged' = charged + fee /\ UNCHANGED nextPositionId
    BY <1>3 DEF Reduce
  <2> DEFINE p == positions[id]
             cost == (p.basis * qty) \div p.qty
             n == [p EXCEPT !.qty = p.qty - qty, !.basis = p.basis - cost]
  <2>3. id \in DOMAIN positions /\ p \in PaperPosition
    BY DEF HeldIn
  <2>4. p.qty \in Nat \ {0} /\ p.basis \in Int
    BY <2>3 DEF PaperPosition
  <2>5. p.basis * qty \in Int
    BY <2>4
  <2>6. cost \in Int
    BY <2>4, <2>5
  <2>7. p.qty - qty \in Nat \ {0} /\ p.basis - cost \in Int
    BY <2>1, <2>4, <2>6
  <2>8. n \in PaperPosition /\ n.symbol = p.symbol
    <3> HIDE DEF cost
    <3> QED
      BY <2>3, <2>7 DEF PaperPosition
  <2>9. balance' \in Int
    BY <2>1, <2>6, ProfitType
  <2>10. positions' = [positions EXCEPT ![id] = n]
    BY <2>1
  <2> HIDE DEF n, p, cost
  <2> QED
    BY <2>2, <2>3, <2>8, <2>9, <2>10, ChangePosition DEF p
<1>4. CASE Flatten(o, qty, price, fee)
  <2>1. PICK id \in HeldIn(o.symbol) :
          /\ balance' = balance + Profit(positions[id].side, qty, positions[id].basis, price) - fee
          /\ positions' = Drop(positions, {id})
    BY <1>4 DEF Flatten, FirstOf
  <2>2. charged' = charged + fee /\ UNCHANGED nextPositionId
    BY <1>4 DEF Flatten
  <2>3. positions[id].basis \in Int
    BY DEF HeldIn, PaperPosition
  <2>4. balance' \in Int
    BY <2>1, <2>3, ProfitType
  <2>5. /\ DOMAIN positions' \subseteq DOMAIN positions
        /\ \A i \in DOMAIN positions' : positions'[i] \in PaperPosition
        /\ OnePositionPerSymbol'
    BY <2>1, DropPosition
  <2> QED
    BY <2>2, <2>4, <2>5
<1>5. CASE Reverse(o, qty, price, fee)
  <2>1. PICK id \in HeldIn(o.symbol) :
          LET p == positions[id]
          IN /\ qty > p.qty
             /\ balance' = balance + Profit(p.side, p.qty, p.basis, price) - fee
             /\ positions' = Put(Drop(positions, {id}), nextPositionId,
                                 NewPosition(o, qty - p.qty, price, 0, NoPrice))
    BY <1>5 DEF Reverse, FirstOf
  <2>2. /\ charged' = charged + fee
        /\ nextPositionId' = nextPositionId + 1
    BY <1>5 DEF Reverse
  <2>3. /\ id \in DOMAIN positions
        /\ positions[id].symbol = o.symbol
        /\ positions[id].basis \in Int
        /\ positions[id].qty \in Nat \ {0}
    BY DEF HeldIn, PaperPosition
  <2>4. balance' \in Int
    BY <2>1, <2>3, ProfitType
  <2> DEFINE f == Drop(positions, {id})
             rest == qty - positions[id].qty
             n == NewPosition(o, rest, price, 0, NoPrice)
  <2>5. n \in PaperPosition /\ n.symbol = o.symbol
    <3>1. rest \in Nat \ {0}
      BY <2>1, <2>3
    <3> HIDE DEF rest
    <3>2. \A fees, mark \in Nat :
            /\ NewPosition(o, rest, price, fees, mark) \in PaperPosition
            /\ NewPosition(o, rest, price, fees, mark).symbol = o.symbol
      BY <3>1, NewPositionType
    <3> QED
      BY <3>2
  <2>6. /\ DOMAIN f \subseteq FirstPositionId..(nextPositionId - 1)
        /\ \A i \in DOMAIN f : f[i] \in PaperPosition /\ f[i].symbol # n.symbol
        /\ \A i, j \in DOMAIN f : f[i].symbol = f[j].symbol => i = j
    <3> HIDE DEF n, rest
    <3> QED
      BY <2>3, <2>5 DEF Drop
  <2>7. positions' = Put(f, nextPositionId, n)
    BY <2>1
  <2>8. /\ DOMAIN positions' \subseteq FirstPositionId..nextPositionId
        /\ \A i \in DOMAIN positions' : positions'[i] \in PaperPosition
        /\ \A i, j \in DOMAIN positions' :
             positions'[i].symbol = positions'[j].symbol => i = j
    <3> HIDE DEF f, n, rest
    <3> QED
      BY <2>5, <2>6, <2>7, AddPosition
  <2> QED
    BY <2>2, <2>4, <2>8
<1> QED
  BY <1>1, <1>2, <1>3, <1>4, <1>5 DEF UpdatePosition

-----------------------------------------------------------------------------
(* The order book.                                                         *)

LEMMA RestingType ==
  ASSUME NEW r \in Requests, NEW price \in Nat, NEW stop \in Int,
         NEW sl \in Nat, NEW tp \in Nat
  PROVE  /\ Resting(r, price, stop, sl, tp) \in PaperOrder
         /\ Resting(r, price, stop, sl, tp).status = "submitted"
<1>1. /\ r.symbol \in Symbols /\ r.side \in Sides /\ r.type \in OrderTypes
      /\ r.qty \in Nat \ {0} /\ r.trail \in Nat
  BY DEF Request
<1> QED
  BY <1>1 DEF Resting, PaperOrder

LEMMA RegisteredType ==
  ASSUME NEW r \in Requests
  PROVE  /\ Registered(r) \in PaperOrder
         /\ Registered(r).status = "pending"
BY DEF Registered, PaperOrder, Request

LEMMA FilledType ==
  ASSUME NEW o \in PaperOrder, NEW qty \in Nat, NEW price \in Nat
  PROVE  /\ Filled(o, qty, price) \in PaperOrder
         /\ Filled(o, qty, price).status # "submitted"
BY DEF Filled, PaperOrder

LEMMA AmendedType ==
  ASSUME NEW o \in PaperOrder, NEW a \in Amendments
  PROVE  /\ Amended(o, a) \in PaperOrder
         /\ Amended(o, a).status = o.status
BY DEF Amended, Given, PaperOrder, Amendment

LEMMA CancelledType ==
  ASSUME NEW o \in PaperOrder
  PROVE  /\ Cancelled(o) \in PaperOrder
         /\ Cancelled(o).status = "cancelled"
BY DEF Cancelled, PaperOrder

\* The ids in the book are below the next one.
LEMMA NextIdIsFresh ==
  ASSUME OrderBookOK
  PROVE  nextOrderId \notin DOMAIN orders
BY DEF OrderBookOK

\* A new order that does not rest.
LEMMA AddSettledOrder ==
  ASSUME OrderBookOK, NEW n \in PaperOrder, n.status # "submitted",
         orders' = Put(orders, nextOrderId, n),
         UNCHANGED <<pending, firing>>
  PROVE  /\ DOMAIN orders' \subseteq FirstOrderId..nextOrderId
         /\ \A id \in DOMAIN orders' : orders'[id] \in PaperOrder
         /\ RestingOrdersAgree'
<1>1. /\ DOMAIN orders' = DOMAIN orders \cup {nextOrderId}
      /\ orders'[nextOrderId] = n
      /\ \A id \in DOMAIN orders : orders'[id] = orders[id]
  BY NextIdIsFresh DEF Put
<1> QED
  BY <1>1, NextIdIsFresh DEF OrderBookOK, RestingOrdersAgree

\* A new order that rests.
LEMMA AddRestingOrder ==
  ASSUME OrderBookOK, NEW n \in PaperOrder, n.status = "submitted",
         orders' = Put(orders, nextOrderId, n),
         pending' = Put(pending, nextOrderId, n),
         UNCHANGED firing
  PROVE  /\ DOMAIN orders' \subseteq FirstOrderId..nextOrderId
         /\ \A id \in DOMAIN orders' : orders'[id] \in PaperOrder
         /\ RestingOrdersAgree'
<1>1. /\ DOMAIN orders' = DOMAIN orders \cup {nextOrderId}
      /\ orders'[nextOrderId] = n
      /\ \A id \in DOMAIN orders : orders'[id] = orders[id]
  BY NextIdIsFresh DEF Put
<1>2. nextOrderId \notin DOMAIN pending /\ nextOrderId \notin DOMAIN firing
  BY NextIdIsFresh DEF OrderBookOK, RestingOrdersAgree
<1>3. /\ DOMAIN pending' = DOMAIN pending \cup {nextOrderId}
      /\ pending'[nextOrderId] = n
      /\ \A id \in DOMAIN pending : pending'[id] = pending[id]
  BY <1>2 DEF Put
<1> QED
  BY <1>1, <1>2, <1>3, NextIdIsFresh DEF OrderBookOK, RestingOrdersAgree

\* Filling an order at the current quote: the order leaves "submitted" and the
\* fill is netted into a well-formed book of positions.
LEMMA ExecuteOK ==
  ASSUME PositionBookOK, quotes \in [Symbols -> Quotes],
         nextFillId \in Nat, accrued \in Nat,
         NEW id, NEW o \in PaperOrder, ExecuteMarket(id, o)
  PROVE  /\ PositionBookOK'
         /\ nextFillId' \in Nat /\ accrued' \in Nat
         /\ \E n \in PaperOrder : /\ n.status # "submitted"
                                 /\ orders' = Put(orders, id, n)
<1>1. PICK slippage \in Slippages, qty \in FillQuantities(o.qty) :
        LET price == FillPrice(o.side, quotes[o.symbol], slippage)
            fee == Commission(qty, price)
        IN /\ orders' = Put(orders, id, Filled(o, qty, price))
           /\ UpdatePosition(o, qty, price, fee)
           /\ accrued' = accrued + fee
           /\ nextFillId' = nextFillId + 1
  BY DEF ExecuteMarket
<1> DEFINE price == FillPrice(o.side, quotes[o.symbol], slippage)
           fee == Commission(qty, price)
<1>2. o.side \in Sides /\ o.symbol \in Symbols /\ o.qty \in Nat \ {0}
  BY DEF PaperOrder
<1>3. price \in Nat \ {0}
  BY <1>2, FillPriceType
<1>4. qty \in Nat \ {0}
  BY <1>2 DEF FillQuantities
<1> HIDE DEF price
<1>5. fee \in Nat
  BY <1>3, <1>4, CommissionType
<1> HIDE DEF fee
<1>6. PositionBookOK'
  BY <1>1, <1>3, <1>4, <1>5, NettingOK DEF price, fee
<1>7. Filled(o, qty, price) \in PaperOrder /\ Filled(o, qty, price).status # "submitted"
  BY <1>3, <1>4, FilledType
<1> QED
  BY <1>1, <1>5, <1>6, <1>7 DEF price, fee

-----------------------------------------------------------------------------
(* The inductive step, one lemma per action that changes the book.         *)

LEMMA SubmitOK ==
  ASSUME Inv, NEW c \in Calls, Submit(c)
  PROVE  Inv'
<1> USE DEF Inv
<1>1. /\ UNCHANGED <<connected, quotes, firing, resets>>
      /\ inflight' = [inflight EXCEPT ![c] = "none"]
      /\ nextOrderId < FirstOrderId + MaxOrders
      /\ nextOrderId' = nextOrderId + 1
  BY DEF Submit, Resume
<1>2. EnvironmentOK'
  BY <1>1 DEF EnvironmentOK
<1>3. nextOrderId' \in FirstOrderId..(FirstOrderId + MaxOrders) /\ nextOrderId = nextOrderId' - 1
  BY <1>1 DEF OrderBookOK
<1>4. PICK r \in Requests :
        \/ SubmitMarket(r)
        \/ SubmitLimit(r)
        \/ SubmitStop(r)
        \/ SubmitTrailingStop(r)
        \/ SubmitRejected(r)
  BY DEF Submit
<1>5. Registered(r) \in PaperOrder /\ Registered(r).status = "pending"
  BY RegisteredType
<1>6. CASE FillNow(Registered(r))
  <2>1. /\ PositionBookOK'
        /\ nextFillId' \in Nat /\ accrued' \in Nat
        /\ \E n \in PaperOrder : /\ n.status # "submitted"
                                /\ orders' = Put(orders, nextOrderId, n)
    BY <1>5, <1>6, ExecuteOK DEF FillNow, OrderBookOK, EnvironmentOK
  <2>2. UNCHANGED <<pending, firing>>
    BY <1>1, <1>6 DEF FillNow
  <2>3. /\ DOMAIN orders' \subseteq FirstOrderId..nextOrderId
        /\ \A id \in DOMAIN orders' : orders'[id] \in PaperOrder
        /\ RestingOrdersAgree'
    BY <2>1, <2>2, AddSettledOrder
  <2> QED
    BY <1>2, <1>3, <2>1, <2>3 DEF OrderBookOK
<1>7. ASSUME NEW n \in PaperOrder, n.status = "submitted", Rest(n)
      PROVE  Inv'
  <2>1. PositionBookOK'
    BY <1>7 DEF Rest, PositionBookOK, OnePositionPerSymbol
  <2>2. nextFillId' \in Nat /\ accrued' \in Nat
    BY <1>7 DEF Rest, OrderBookOK
  <2>3. /\ DOMAIN orders' \subseteq FirstOrderId..nextOrderId
        /\ \A id \in DOMAIN orders' : orders'[id] \in PaperOrder
        /\ RestingOrdersAgree'
    BY <1>1, <1>7, AddRestingOrder DEF Rest
  <2> QED
    BY <1>2, <1>3, <2>1, <2>2, <2>3 DEF OrderBookOK
<1>8. CASE SubmitMarket(r)
  BY <1>6, <1>8 DEF SubmitMarket
<1>9. CASE SubmitLimit(r)
  <2>1. /\ Resting(r, r.price, NoPrice, r.stop, r.tp) \in PaperOrder
        /\ Resting(r, r.price, NoPrice, r.stop, r.tp).status = "submitted"
    BY DEF Resting, PaperOrder, Request
  <2> QED
    BY <1>6, <1>7, <1>9, <2>1 DEF SubmitLimit
<1>10. CASE SubmitStop(r)
  <2>1. /\ Resting(r, r.price, r.stop, r.stop, r.tp) \in PaperOrder
        /\ Resting(r, r.price, r.stop, r.stop, r.tp).status = "submitted"
    BY DEF Resting, PaperOrder, Request
  <2> QED
    BY <1>6, <1>7, <1>10, <2>1 DEF SubmitStop
<1>11. CASE SubmitTrailingStop(r)
  <2> DEFINE stop == InitialStop(r, quotes[r.symbol])
  <2>1. quotes[r.symbol].bid \in Int /\ quotes[r.symbol].ask \in Int /\ r.trail \in Int
    BY DEF EnvironmentOK, Request, Quote
  <2>2. stop \in Int
    BY <2>1 DEF InitialStop
  <2>3. Rest(Resting(r, NoPrice, stop, NoPrice, NoPrice))
    BY <1>11 DEF SubmitTrailingStop
  <2> HIDE DEF stop
  <2>4. /\ Resting(r, NoPrice, stop, NoPrice, NoPrice) \in PaperOrder
        /\ Resting(r, NoPrice, stop, NoPrice, NoPrice).status = "submitted"
    BY <2>2, RestingType
  <2> QED
    BY <1>7, <2>3, <2>4
<1>12. CASE SubmitRejected(r)
  <2>1. PositionBookOK'
    BY <1>12 DEF SubmitRejected, PositionBookOK, OnePositionPerSymbol
  <2>2. nextFillId' \in Nat /\ accrued' \in Nat
    BY <1>12 DEF SubmitRejected, OrderBookOK
  <2>3. /\ DOMAIN orders' \subseteq FirstOrderId..nextOrderId
        /\ \A id \in DOMAIN orders' : orders'[id] \in PaperOrder
        /\ RestingOrdersAgree'
    BY <1>1, <1>5, <1>12, AddSettledOrder DEF SubmitRejected
  <2> QED
    BY <1>2, <1>3, <2>1, <2>2, <2>3 DEF OrderBookOK
<1> QED
  BY <1>4, <1>8, <1>9, <1>10, <1>11, <1>12

LEMMA ModifyOK ==
  ASSUME Inv, NEW c \in Calls, Modify(c)
  PROVE  Inv'
<1> USE DEF Inv
<1>1. EnvironmentOK' /\ UNCHANGED firing
  BY DEF Modify, Resume, EnvironmentOK
<1>2. PositionBookOK'
  BY DEF Modify, PositionBookOK, OnePositionPerSymbol
<1>3. PICK id \in DOMAIN orders, a \in Amendments :
        /\ orders' = [orders EXCEPT ![id] = Amended(@, a)]
        /\ pending' = IF id \in DOMAIN pending
                      THEN [pending EXCEPT ![id] = orders'[id]] ELSE pending
  BY DEF Modify
<1> DEFINE n == Amended(orders[id], a)
<1>4. n \in PaperOrder /\ n.status = orders[id].status
  BY AmendedType DEF OrderBookOK
<1>5. /\ DOMAIN orders' = DOMAIN orders
      /\ orders'[id] = n
      /\ \A i \in DOMAIN orders \ {id} : orders'[i] = orders[i]
  BY <1>3
<1>6. /\ DOMAIN pending' = DOMAIN pending
      /\ \A i \in DOMAIN pending : pending'[i] = IF i = id THEN n ELSE pending[i]
  BY <1>3, <1>5
<1>7. UNCHANGED <<nextOrderId, nextFillId, accrued>> /\ DOMAIN firing = {}
  BY DEF Modify, Resume, LoopFree
<1> HIDE DEF n
<1> QED
  BY <1>1, <1>2, <1>4, <1>5, <1>6, <1>7 DEF OrderBookOK, RestingOrdersAgree

LEMMA CancelOK ==
  ASSUME Inv, NEW c \in Calls, Cancel(c)
  PROVE  Inv'
<1> USE DEF Inv
<1>1. EnvironmentOK' /\ UNCHANGED firing
  BY DEF Cancel, Resume, EnvironmentOK
<1>2. PositionBookOK'
  BY DEF Cancel, PositionBookOK, OnePositionPerSymbol
<1>3. PICK id \in DOMAIN orders :
        /\ orders' = [orders EXCEPT ![id] = Cancelled(@)]
        /\ pending' = Drop(pending, {id})
  BY DEF Cancel
<1> DEFINE n == Cancelled(orders[id])
<1>4. n \in PaperOrder /\ n.status = "cancelled"
  BY CancelledType DEF OrderBookOK
<1>5. /\ DOMAIN orders' = DOMAIN orders
      /\ orders'[id] = n
      /\ \A i \in DOMAIN orders \ {id} : orders'[i] = orders[i]
  BY <1>3
<1>6. /\ DOMAIN pending' = DOMAIN pending \ {id}
      /\ \A i \in DOMAIN pending \ {id} : pending'[i] = pending[i]
  BY <1>3, DropFacts
<1>7. UNCHANGED <<nextOrderId, nextFillId, accrued>> /\ DOMAIN firing = {}
  BY DEF Cancel, Resume, LoopFree
<1> HIDE DEF n
<1> QED
  BY <1>1, <1>2, <1>4, <1>5, <1>6, <1>7 DEF OrderBookOK, RestingOrdersAgree

\* Closing a whole position at a price.
LEMMA ExitOK ==
  ASSUME PositionBookOK, NEW id \in DOMAIN positions, NEW price \in Nat,
         Exit(id, price), UNCHANGED nextPositionId
  PROVE  PositionBookOK'
<1>1. /\ positions[id].qty \in Nat /\ positions[id].basis \in Int
      /\ positions[id].commission \in Nat
  BY DEF PositionBookOK, PaperPosition
<1>2. balance' \in Int /\ charged' \in Nat
  BY <1>1, ProfitType DEF Exit, PositionBookOK
<1>3. positions' = Drop(positions, {id})
  BY DEF Exit
<1> QED
  BY <1>2, <1>3, DropPosition DEF PositionBookOK

LEMMA ClosePositionOK ==
  ASSUME Inv, NEW c \in Calls, ClosePosition(c)
  PROVE  Inv'
<1> USE DEF Inv
<1>1. EnvironmentOK' /\ UNCHANGED firing
  BY DEF ClosePosition, Resume, EnvironmentOK
<1>2. PICK id \in DOMAIN positions :
        Exit(id, ClosePrice(positions[id].side, quotes[positions[id].symbol]))
  BY DEF ClosePosition
<1>3. ClosePrice(positions[id].side, quotes[positions[id].symbol]) \in Nat
  <2>1. positions[id].side \in Sides /\ positions[id].symbol \in Symbols
    BY DEF PositionBookOK, PaperPosition
  <2>2. quotes[positions[id].symbol] \in Quotes
    BY <2>1 DEF EnvironmentOK
  <2> QED
    BY <2>1, <2>2, ClosePriceType
<1>4. PositionBookOK'
  BY <1>2, <1>3, ExitOK DEF ClosePosition
<1>5. UNCHANGED <<orders, pending, nextOrderId, accrued>> /\ nextFillId' = nextFillId + 1
  BY DEF ClosePosition
<1> QED
  BY <1>1, <1>4, <1>5 DEF OrderBookOK, RestingOrdersAgree

LEMMA TrailedType ==
  ASSUME NEW p \in PaperPosition, NEW q \in Quotes
  PROVE  Trailed(p, q) \in PaperPosition /\ Trailed(p, q).symbol = p.symbol
<1>1. q.bid \in Nat /\ q.ask \in Nat
  BY DEF Quote
<1>2. p.sl \in Int /\ p.trail \in Nat
  BY DEF PaperPosition
<1> DEFINE up == Larger(p.sl, q.bid - p.trail)
           down == IF p.sl = NoPrice THEN q.ask + p.trail
                   ELSE Smaller(p.sl, q.ask + p.trail)
<1>3. up \in Int /\ down \in Int
  BY <1>1, <1>2 DEF Larger, Smaller
<1>4. \/ Trailed(p, q) = p
      \/ Trailed(p, q) = [p EXCEPT !.sl = up, !.high = q.bid]
      \/ Trailed(p, q) = [p EXCEPT !.sl = down, !.low = q.ask]
  BY DEF Trailed
<1> HIDE DEF up, down
<1> QED
  BY <1>1, <1>3, <1>4 DEF PaperPosition

LEMMA IngestQuoteOK ==
  ASSUME Inv, NEW s \in Symbols, NEW q \in Quotes, IngestQuote(s, q)
  PROVE  Inv'
<1> USE DEF Inv
<1>1. EnvironmentOK'
  BY DEF IngestQuote, EnvironmentOK
<1> DEFINE touched == Touched(s, q)
<1>2. /\ touched \subseteq DOMAIN pending
      /\ firing' = [id \in touched |-> pending[id]]
      /\ pending' = Drop(pending, touched)
      /\ DOMAIN firing = {}
      /\ UNCHANGED <<orders, nextOrderId, nextFillId, nextPositionId, accrued>>
  BY DEF IngestQuote, Touched, LoopFree
<1> HIDE DEF touched
<1>3. OrderBookOK'
  <2>1. /\ DOMAIN pending' = DOMAIN pending \ touched
        /\ \A id \in DOMAIN pending \ touched : pending'[id] = pending[id]
    BY <1>2, DropFacts
  <2>2. DOMAIN firing' = touched /\ \A id \in touched : firing'[id] = pending[id]
    BY <1>2
  <2>3. RestingOrdersAgree'
    BY <1>2, <2>1, <2>2 DEF OrderBookOK, RestingOrdersAgree
  <2> QED
    BY <1>2, <2>3 DEF OrderBookOK
<1>4. PositionBookOK'
  <2>1. CASE UNCHANGED <<positions, balance, charged>>
    BY <1>2, <2>1 DEF PositionBookOK, OnePositionPerSymbol
  <2>2. CASE \E id \in HeldIn(s) :
               /\ positions' = [positions EXCEPT ![id] = Trailed(@, q)]
               /\ UNCHANGED <<balance, charged>>
    <3>1. PICK id \in DOMAIN positions :
            /\ positions' = [positions EXCEPT ![id] = Trailed(@, q)]
            /\ UNCHANGED <<balance, charged>>
      BY <2>2 DEF HeldIn
    <3>2. /\ Trailed(positions[id], q) \in PaperPosition
          /\ Trailed(positions[id], q).symbol = positions[id].symbol
      BY TrailedType DEF PositionBookOK
    <3> QED
      BY <1>2, <3>1, <3>2, ChangePosition DEF PositionBookOK
  <2>3. CASE \E id \in HeldIn(s) : Exit(id, ClosePrice(positions[id].side, q))
    <3>1. PICK id \in DOMAIN positions : Exit(id, ClosePrice(positions[id].side, q))
      BY <2>3 DEF HeldIn
    <3>2. ClosePrice(positions[id].side, q) \in Nat
      BY ClosePriceType DEF PositionBookOK, PaperPosition
    <3> QED
      BY <1>2, <3>1, <3>2, ExitOK
  <2> QED
    BY <2>1, <2>2, <2>3 DEF IngestQuote
<1> QED
  BY <1>1, <1>3, <1>4

LEMMA FireNextOK ==
  ASSUME Inv, FireNext
  PROVE  Inv'
<1> USE DEF Inv
<1>1. EnvironmentOK' /\ UNCHANGED <<pending, nextOrderId>>
  BY DEF FireNext, EnvironmentOK
<1>2. PICK id \in DOMAIN firing :
        ExecuteMarket(id, firing[id]) /\ firing' = Drop(firing, {id})
  BY DEF FireNext, FirstOf
<1>3. /\ id \in DOMAIN orders /\ id \notin DOMAIN pending
      /\ firing[id] = orders[id] /\ firing[id] \in PaperOrder
  BY DEF OrderBookOK, RestingOrdersAgree
<1>4. /\ PositionBookOK'
      /\ nextFillId' \in Nat /\ accrued' \in Nat
      /\ \E n \in PaperOrder : n.status # "submitted" /\ orders' = Put(orders, id, n)
  BY <1>2, <1>3, ExecuteOK DEF OrderBookOK, EnvironmentOK
<1>5. PICK n \in PaperOrder : n.status # "submitted" /\ orders' = Put(orders, id, n)
  BY <1>4
<1>6. /\ DOMAIN orders' = DOMAIN orders
      /\ orders'[id] = n
      /\ \A i \in DOMAIN orders \ {id} : orders'[i] = orders[i]
  BY <1>3, <1>5 DEF Put
<1>7. /\ DOMAIN firing' = DOMAIN firing \ {id}
      /\ \A i \in DOMAIN firing \ {id} : firing'[i] = firing[i]
  BY <1>2, DropFacts
<1> QED
  BY <1>1, <1>3, <1>4, <1>5, <1>6, <1>7 DEF OrderBookOK, RestingOrdersAgree

LEMMA ResetOK ==
  ASSUME Inv, ResetAccount
  PROVE  Inv'
BY DEF Inv, ResetAccount, OrderBookOK, PositionBookOK, EnvironmentOK,
       RestingOrdersAgree, OnePositionPerSymbol, LoopFree

\* Connecting, disconnecting, and the start of a call or its refusal.
LEMMA CallsOK ==
  ASSUME Inv,
         \/ Connect \/ Disconnect
         \/ \E c \in Calls, op \in Operations : BeginCall(c, op)
         \/ \E c \in Calls : Refused(c)
  PROVE  Inv'
<1>1. UNCHANGED <<book, quotes, firing, resets>>
  BY DEF Connect, Disconnect, BeginCall, Refused, Resume
<1>2. connected' \in BOOLEAN /\ inflight' \in [Calls -> Operations \cup {"none"}]
  BY DEF Inv, EnvironmentOK, Connect, Disconnect, BeginCall, Refused, Resume
<1> QED
  BY <1>1, <1>2 DEF Inv, OrderBookOK, PositionBookOK, EnvironmentOK, book,
                    RestingOrdersAgree, OnePositionPerSymbol

-----------------------------------------------------------------------------
(* The theorems.                                                           *)

LEMMA InitOK ==
  ASSUME Init
  PROVE  Inv
<1>1. DOMAIN << >> = {}
  OBVIOUS
<1>2. DOMAIN orders = {} /\ DOMAIN pending = {} /\ DOMAIN positions = {} /\ DOMAIN firing = {}
  BY <1>1 DEF Init
<1>3. OrderBookOK
  BY <1>2 DEF Init, OrderBookOK, RestingOrdersAgree
<1>4. PositionBookOK
  BY <1>2 DEF Init, PositionBookOK, OnePositionPerSymbol
<1>5. EnvironmentOK
  <2>1. quotes \in [Symbols -> Quotes]
    BY DEF Init
  <2>2. inflight \in [Calls -> Operations \cup {"none"}]
    BY DEF Init
  <2>3. resets \in 0..MaxResets
    BY DEF Init
  <2>4. connected \in BOOLEAN
    BY Zenon DEF Init
  <2> QED
    BY <2>1, <2>2, <2>3, <2>4 DEF EnvironmentOK
<1> QED
  BY <1>3, <1>4, <1>5 DEF Inv

LEMMA StutterOK ==
  ASSUME Inv, UNCHANGED vars
  PROVE  Inv'
BY DEF Inv, OrderBookOK, PositionBookOK, EnvironmentOK, RestingOrdersAgree,
       OnePositionPerSymbol, vars, book

\* Every step of the adapter keeps its order book and its positions coherent.
LEMMA StepOK ==
  ASSUME Inv, [Next]_vars
  PROVE  Inv'
<1>1. CASE Connect \/ Disconnect
  BY <1>1, CallsOK
<1>2. CASE \E c \in Calls, op \in Operations : BeginCall(c, op)
  BY <1>2, CallsOK
<1>3. CASE \E c \in Calls : Submit(c)
  BY <1>3, SubmitOK
<1>4. CASE \E c \in Calls : Modify(c)
  BY <1>4, ModifyOK
<1>5. CASE \E c \in Calls : Cancel(c)
  BY <1>5, CancelOK
<1>6. CASE \E c \in Calls : ClosePosition(c)
  BY <1>6, ClosePositionOK
<1>7. CASE \E c \in Calls : Refused(c)
  BY <1>7, CallsOK
<1>8. CASE \E s \in Symbols, q \in Quotes : IngestQuote(s, q)
  BY <1>8, IngestQuoteOK
<1>9. CASE FireNext
  BY <1>9, FireNextOK
<1>10. CASE ResetAccount
  BY <1>10, ResetOK
<1>11. CASE UNCHANGED vars
  BY <1>11, StutterOK
<1> QED
  BY <1>1, <1>2, <1>3, <1>4, <1>5, <1>6, <1>7, <1>8, <1>9, <1>10, <1>11 DEF Next

\* The order book and the positions of the adapter are coherent in every
\* reachable state.
THEOREM Coherent == Spec => []Inv
BY InitOK, StepOK, PTL DEF Spec

\* The dictionaries, counters and calls of the adapter keep their types, and
\* every resting or triggered order is a registered one.
THEOREM TypeCorrect == Spec => []TypeOK
<1>1. Inv => TypeOK
  BY DEF Inv, OrderBookOK, PositionBookOK, EnvironmentOK, TypeOK, RestingOrdersAgree
<1> QED
  BY <1>1, Coherent, PTL

\* _orders and _pending_orders never disagree about a resting order, however
\* submissions, amendments, cancellations and quotes interleave.
THEOREM RestingOrdersCorrect == Spec => []RestingOrdersAgree
<1>1. Inv => RestingOrdersAgree
  BY DEF Inv, OrderBookOK
<1> QED
  BY <1>1, Coherent, PTL

\* Netting never leaves two positions in one symbol, so the position that
\* _update_position_locked finds first is the only one.
THEOREM NettingCorrect == Spec => []OnePositionPerSymbol
<1>1. Inv => OnePositionPerSymbol
  BY DEF Inv, PositionBookOK
<1> QED
  BY <1>1, Coherent, PTL

-----------------------------------------------------------------------------
(* What a step may do to an order.                                         *)

\* What the batch of triggered orders and the resting orders still owe: a
\* triggered order is touched by the quote that triggered it, and an order
\* that rests has not been filled at all.
FillsOwed ==
  /\ \A id \in DOMAIN firing :
       ShouldTrigger(firing[id], quotes[firing[id].symbol])
  /\ \A id \in DOMAIN orders :
       orders[id].status = "submitted" => orders[id].filled = 0

Kept(id) == id \in DOMAIN orders' /\ orders'[id] = orders[id]
AmendedBy(id) ==
  /\ id \in DOMAIN orders'
  /\ orders[id].status \notin Terminal
  /\ orders'[id].status = orders[id].status
  /\ orders'[id].filled = orders[id].filled
CancelledBy(id) ==
  /\ id \in DOMAIN orders'
  /\ orders[id].status \notin Terminal
  /\ orders'[id].status = "cancelled"
  /\ orders'[id].filled = orders[id].filled
FiredBy(id) ==
  /\ id \in DOMAIN orders'
  /\ id \in DOMAIN firing
  /\ orders'[id].status # "submitted"
  /\ UNCHANGED <<quotes, resets>>

Fate(id) == Kept(id) \/ AmendedBy(id) \/ CancelledBy(id) \/ FiredBy(id)

\* A submission writes a fresh id only.
LEMMA SubmitKeeps ==
  ASSUME Inv, NEW c \in Calls, Submit(c), NEW id \in DOMAIN orders
  PROVE  Kept(id)
<1>1. nextOrderId \notin DOMAIN orders
  BY NextIdIsFresh DEF Inv, OrderBookOK
<1>2. PICK n : orders' = Put(orders, nextOrderId, n)
  <2>1. PICK r \in Requests :
          \/ SubmitMarket(r)
          \/ SubmitLimit(r)
          \/ SubmitStop(r)
          \/ SubmitTrailingStop(r)
          \/ SubmitRejected(r)
    BY DEF Submit
  <2>2. ASSUME NEW o, FillNow(o) PROVE \E n : orders' = Put(orders, nextOrderId, n)
    BY <2>2 DEF FillNow, ExecuteMarket
  <2>3. ASSUME NEW o, Rest(o) PROVE \E n : orders' = Put(orders, nextOrderId, n)
    BY <2>3 DEF Rest
  <2> QED
    BY <2>1, <2>2, <2>3 DEF SubmitMarket, SubmitLimit, SubmitStop,
                            SubmitTrailingStop, SubmitRejected
<1> QED
  BY <1>1, <1>2 DEF Kept, Put

LEMMA ModifyFate ==
  ASSUME Inv, NEW c \in Calls, Modify(c), NEW id \in DOMAIN orders
  PROVE  Kept(id) \/ AmendedBy(id)
<1>1. PICK k \in DOMAIN orders, a \in Amendments :
        /\ orders[k].status \in {"submitted", "pending", "partially_filled"}
        /\ orders' = [orders EXCEPT ![k] = Amended(@, a)]
  BY DEF Modify
<1>2. /\ Amended(orders[k], a).status = orders[k].status
      /\ Amended(orders[k], a).filled = orders[k].filled
  BY DEF Amended
<1> QED
  BY <1>1, <1>2 DEF Kept, AmendedBy, Terminal

LEMMA CancelFate ==
  ASSUME Inv, NEW c \in Calls, Cancel(c), NEW id \in DOMAIN orders
  PROVE  Kept(id) \/ CancelledBy(id)
<1>1. PICK k \in DOMAIN orders :
        /\ orders[k].status \notin Terminal
        /\ orders' = [orders EXCEPT ![k] = Cancelled(@)]
  BY DEF Cancel
<1>2. /\ Cancelled(orders[k]).status = "cancelled"
      /\ Cancelled(orders[k]).filled = orders[k].filled
  BY DEF Cancelled
<1> QED
  BY <1>1, <1>2 DEF Kept, CancelledBy

LEMMA FireFate ==
  ASSUME Inv, FireNext, NEW id \in DOMAIN orders
  PROVE  Kept(id) \/ FiredBy(id)
<1>1. PICK k \in DOMAIN firing : ExecuteMarket(k, firing[k])
  BY DEF FireNext, FirstOf
<1>2. PICK qty, price : orders' = Put(orders, k, Filled(firing[k], qty, price))
  BY <1>1 DEF ExecuteMarket
<1>3. k \in DOMAIN orders /\ firing[k] \in PaperOrder
  BY DEF Inv, OrderBookOK, RestingOrdersAgree
<1>4. Filled(firing[k], qty, price).status # "submitted"
  BY <1>3 DEF Filled, PaperOrder
<1>5. UNCHANGED <<quotes, resets>>
  BY DEF FireNext
<1>6. /\ DOMAIN orders' = DOMAIN orders
      /\ orders'[k] = Filled(firing[k], qty, price)
      /\ \A i \in DOMAIN orders \ {k} : orders'[i] = orders[i]
  BY <1>2, <1>3 DEF Put
<1> QED
  BY <1>1, <1>4, <1>5, <1>6 DEF Kept, FiredBy

\* Short of a reset, no step of the adapter does anything else to an order.
LEMMA OrderFate ==
  ASSUME Inv, [Next]_vars, resets' = resets, NEW id \in DOMAIN orders
  PROVE  Fate(id)
<1>1. CASE UNCHANGED orders
  BY <1>1 DEF Fate, Kept
<1>2. CASE \E c \in Calls : Submit(c)
  BY <1>2, SubmitKeeps DEF Fate
<1>3. CASE \E c \in Calls : Modify(c)
  BY <1>3, ModifyFate DEF Fate
<1>4. CASE \E c \in Calls : Cancel(c)
  BY <1>4, CancelFate DEF Fate
<1>5. CASE FireNext
  BY <1>5, FireFate DEF Fate
<1>6. CASE ResetAccount
  BY <1>6 DEF ResetAccount, Inv, EnvironmentOK
<1>7. CASE \/ Connect \/ Disconnect
           \/ \E c \in Calls, op \in Operations : BeginCall(c, op)
           \/ \E c \in Calls : ClosePosition(c)
           \/ \E c \in Calls : Refused(c)
           \/ \E s \in Symbols, q \in Quotes : IngestQuote(s, q)
           \/ UNCHANGED vars
  <2>1. UNCHANGED orders
    BY <1>7 DEF Connect, Disconnect, BeginCall, ClosePosition, Refused,
                IngestQuote, vars, book
  <2> QED
    BY <2>1, <1>1
<1> QED
  BY <1>2, <1>3, <1>4, <1>5, <1>6, <1>7 DEF Next

LEMMA FillsOwedInit ==
  ASSUME Init
  PROVE  FillsOwed
<1>1. DOMAIN << >> = {}
  OBVIOUS
<1> QED
  BY <1>1 DEF Init, FillsOwed

\* An order rests, or is registered otherwise, with nothing filled or with a
\* status that says so.
LEMMA SubmitOwes ==
  ASSUME Inv, FillsOwed, NEW c \in Calls, Submit(c)
  PROVE  \A id \in DOMAIN orders' :
           orders'[id].status = "submitted" => orders'[id].filled = 0
<1>1. ASSUME NEW o, FillNow(o), o \in PaperOrder
      PROVE  \E n : /\ orders' = Put(orders, nextOrderId, n)
                    /\ n.status = "submitted" => n.filled = 0
  <2>1. PICK qty, price : orders' = Put(orders, nextOrderId, Filled(o, qty, price))
    BY <1>1 DEF FillNow, ExecuteMarket
  <2>2. Filled(o, qty, price).status # "submitted"
    BY <1>1 DEF Filled, PaperOrder
  <2> QED
    BY <2>1, <2>2
<1>2. ASSUME NEW r \in Requests, NEW price, NEW stop, NEW sl, NEW tp,
             Rest(Resting(r, price, stop, sl, tp))
      PROVE  \E n : /\ orders' = Put(orders, nextOrderId, n)
                    /\ n.status = "submitted" => n.filled = 0
  BY <1>2 DEF Rest, Resting
<1>3. PICK n : /\ orders' = Put(orders, nextOrderId, n)
               /\ n.status = "submitted" => n.filled = 0
  <2>1. PICK r \in Requests :
          \/ SubmitMarket(r)
          \/ SubmitLimit(r)
          \/ SubmitStop(r)
          \/ SubmitTrailingStop(r)
          \/ SubmitRejected(r)
    BY DEF Submit
  <2>2. Registered(r) \in PaperOrder /\ Registered(r).status = "pending"
    BY RegisteredType
  <2>3. CASE SubmitRejected(r)
    BY <2>2, <2>3 DEF SubmitRejected
  <2>4. CASE SubmitMarket(r)
    BY <1>1, <2>2, <2>4 DEF SubmitMarket
  <2>5. CASE SubmitLimit(r)
    BY <1>1, <1>2, <2>2, <2>5 DEF SubmitLimit
  <2>6. CASE SubmitStop(r)
    BY <1>1, <1>2, <2>2, <2>6 DEF SubmitStop
  <2>7. CASE SubmitTrailingStop(r)
    BY <1>2, <2>7 DEF SubmitTrailingStop
  <2> QED
    BY <2>1, <2>3, <2>4, <2>5, <2>6, <2>7
<1> QED
  BY <1>3 DEF FillsOwed, Put

LEMMA FillsOwedStep ==
  ASSUME Inv, FillsOwed, [Next]_vars
  PROVE  FillsOwed'
<1>1. CASE \E c \in Calls : Submit(c)
  <2>1. UNCHANGED <<firing, quotes>>
    BY <1>1 DEF Submit, Resume
  <2> QED
    BY <1>1, <2>1, SubmitOwes DEF FillsOwed
<1>2. CASE \/ \E c \in Calls : Modify(c)
           \/ \E c \in Calls : Cancel(c)
  <2>1. UNCHANGED <<firing, quotes, resets>> /\ DOMAIN orders' = DOMAIN orders
    BY <1>2 DEF Modify, Cancel, Resume
  <2>2. \A id \in DOMAIN orders : Kept(id) \/ AmendedBy(id) \/ CancelledBy(id)
    BY <1>2, ModifyFate, CancelFate
  <2> QED
    BY <2>1, <2>2 DEF FillsOwed, Kept, AmendedBy, CancelledBy
<1>3. CASE \/ Connect \/ Disconnect
           \/ \E c \in Calls, op \in Operations : BeginCall(c, op)
           \/ \E c \in Calls : ClosePosition(c)
           \/ \E c \in Calls : Refused(c)
           \/ UNCHANGED vars
  <2>1. UNCHANGED <<orders, firing, quotes>>
    BY <1>3 DEF Connect, Disconnect, BeginCall, ClosePosition, Refused,
                Resume, vars, book
  <2> QED
    BY <2>1 DEF FillsOwed
<1>4. ASSUME NEW s \in Symbols, NEW q \in Quotes, IngestQuote(s, q)
      PROVE  FillsOwed'
  <2>1. /\ orders' = orders
        /\ quotes' = [quotes EXCEPT ![s] = q]
        /\ firing' = [id \in Touched(s, q) |-> pending[id]]
    BY <1>4 DEF IngestQuote
  <2>2. quotes'[s] = q
    BY <2>1 DEF Inv, EnvironmentOK
  <2>3. \A id \in Touched(s, q) : pending[id].symbol = s /\ ShouldTrigger(pending[id], q)
    BY DEF Touched
  <2> QED
    BY <2>1, <2>2, <2>3 DEF FillsOwed
<1>5. CASE FireNext
  <2>1. UNCHANGED <<quotes, resets>>
    BY <1>5 DEF FireNext
  <2>2. PICK k \in DOMAIN firing : firing' = Drop(firing, {k}) /\ ExecuteMarket(k, firing[k])
    BY <1>5 DEF FireNext, FirstOf
  <2>3. PICK n : orders' = Put(orders, k, n)
    BY <2>2 DEF ExecuteMarket
  <2>4. k \in DOMAIN orders
    BY <2>2 DEF Inv, OrderBookOK, RestingOrdersAgree
  <2>5. DOMAIN orders' = DOMAIN orders
    BY <2>3, <2>4 DEF Put
  <2>6. \A id \in DOMAIN orders : Kept(id) \/ FiredBy(id)
    BY <1>5, FireFate
  <2>7. /\ DOMAIN firing' \subseteq DOMAIN firing
        /\ \A id \in DOMAIN firing' : firing'[id] = firing[id]
    BY <2>2 DEF Drop
  <2>8. \A id \in DOMAIN firing' : ShouldTrigger(firing'[id], quotes'[firing'[id].symbol])
    BY <2>1, <2>7 DEF FillsOwed
  <2>9. \A id \in DOMAIN orders' :
          orders'[id].status = "submitted" => orders'[id].filled = 0
    BY <2>5, <2>6 DEF FillsOwed, Kept, FiredBy
  <2> QED
    BY <2>8, <2>9 DEF FillsOwed
<1>6. CASE ResetAccount
  <2>1. DOMAIN << >> = {}
    OBVIOUS
  <2>2. orders' = << >> /\ firing' = firing /\ DOMAIN firing = {}
    BY <1>6 DEF ResetAccount, LoopFree
  <2>3. DOMAIN orders' = {} /\ DOMAIN firing' = {}
    BY <2>1, <2>2
  <2> QED
    BY <2>3 DEF FillsOwed
<1> QED
  BY <1>1, <1>2, <1>3, <1>4, <1>5, <1>6 DEF Next

\* Short of a reset, what was filled or cancelled never changes again and what
\* was filled in part is never filled further.
THEOREM SettledOrdersCorrect == Spec => SettledOrdersAreFinal
<1>1. ASSUME Inv, FillsOwed, [Next]_vars, resets' = resets, NEW id \in DOMAIN orders
      PROVE  /\ id \in DOMAIN orders'
             /\ orders[id].status \in Terminal => orders'[id] = orders[id]
             /\ orders[id].filled > 0 => orders'[id].filled = orders[id].filled
  <2>1. Fate(id)
    BY <1>1, OrderFate
  <2>2. id \in DOMAIN firing => orders[id].status = "submitted"
    BY <1>1 DEF Inv, OrderBookOK, RestingOrdersAgree
  <2>3. id \in DOMAIN firing => ~(orders[id].filled > 0)
    BY <1>1, <2>2 DEF FillsOwed
  <2> QED
    BY <2>1, <2>2, <2>3 DEF Fate, Kept, AmendedBy, CancelledBy, FiredBy, Terminal
<1>2. Inv /\ FillsOwed /\ [Next]_vars =>
        [resets' = resets =>
           \A id \in DOMAIN orders :
             /\ id \in DOMAIN orders'
             /\ orders[id].status \in Terminal => orders'[id] = orders[id]
             /\ orders[id].filled > 0 => orders'[id].filled = orders[id].filled]_vars
  BY <1>1
<1>3. Spec => [](Inv /\ FillsOwed)
  BY InitOK, StepOK, FillsOwedInit, FillsOwedStep, PTL DEF Spec
<1> QED
  BY <1>2, <1>3, PTL DEF Spec, SettledOrdersAreFinal

\* Whatever happened to a resting order between its submission and its fill,
\* the quote in force when it fills touches it.
THEOREM FillsCorrect == Spec => FillsOnlyTouched
<1>1. ASSUME Inv, FillsOwed, [Next]_vars, NEW id \in DOMAIN orders \cap DOMAIN orders',
             orders[id].status = "submitted",
             orders'[id].status \in {"filled", "partially_filled"}
      PROVE  ShouldTrigger(orders[id], quotes[orders[id].symbol])
  <2>1. resets' = resets
    <3>1. CASE ResetAccount
      <4>1. DOMAIN << >> = {}
        OBVIOUS
      <4> QED
        BY <1>1, <3>1, <4>1 DEF ResetAccount
    <3>2. CASE ~ResetAccount
      BY <1>1, <3>2 DEF Next, Connect, Disconnect, BeginCall, Submit, Modify, Cancel,
                       ClosePosition, Refused, Resume, IngestQuote, FireNext, vars
    <3> QED
      BY <3>1, <3>2
  <2>2. Fate(id)
    BY <1>1, <2>1, OrderFate
  <2>3. id \in DOMAIN firing
    BY <1>1, <2>2 DEF Fate, Kept, AmendedBy, CancelledBy, FiredBy
  <2>4. firing[id] = orders[id]
    BY <1>1, <2>3 DEF Inv, OrderBookOK, RestingOrdersAgree
  <2> QED
    BY <1>1, <2>3, <2>4 DEF FillsOwed
<1>2. Inv /\ FillsOwed /\ [Next]_vars =>
        [\A id \in DOMAIN orders \cap DOMAIN orders' :
           /\ orders[id].status = "submitted"
           /\ orders'[id].status \in {"filled", "partially_filled"}
           => ShouldTrigger(orders[id], quotes[orders[id].symbol])]_vars
  BY <1>1
<1>3. Spec => [](Inv /\ FillsOwed)
  BY InitOK, StepOK, FillsOwedInit, FillsOwedStep, PTL DEF Spec
<1> QED
  BY <1>2, <1>3, PTL DEF Spec, FillsOnlyTouched

-----------------------------------------------------------------------------
(* Resting orders and the market.                                          *)

Untouched(o, quote) == o.type \in {"limit", "stop"} => ~ShouldTrigger(o, quote)

RestsUntouched == \A id \in DOMAIN pending : Untouched(pending[id], quotes[pending[id].symbol])

\* What modify_order may change here: anything but the prices an order rests at.
PricesStay == \A a \in Amendments : a.price = NoPrice /\ a.stop = NoPrice

\* An order is registered with no resting copy, or with one the market has not touched.
LEMMA SubmitRests ==
  ASSUME RestsUntouched, NEW c \in Calls, Submit(c)
  PROVE  RestsUntouched'
<1>1. quotes' = quotes
  BY DEF Submit, Resume
<1>2. ASSUME NEW o, Rest(o), Untouched(o, quotes[o.symbol])
      PROVE  RestsUntouched'
  <2>1. pending' = Put(pending, nextOrderId, o)
    BY <1>2 DEF Rest
  <2>2. ASSUME NEW id \in DOMAIN pending'
        PROVE  pending'[id] = o \/ (id \in DOMAIN pending /\ pending'[id] = pending[id])
    BY <2>1 DEF Put
  <2> QED
    BY <1>1, <1>2, <2>2 DEF RestsUntouched
<1>3. ASSUME pending' = pending
      PROVE  RestsUntouched'
  BY <1>1, <1>3 DEF RestsUntouched, Untouched
<1>4. PICK r \in Requests :
        \/ SubmitMarket(r)
        \/ SubmitLimit(r)
        \/ SubmitStop(r)
        \/ SubmitTrailingStop(r)
        \/ SubmitRejected(r)
  BY DEF Submit
<1>5. CASE SubmitMarket(r) \/ SubmitRejected(r)
  BY <1>3, <1>5 DEF SubmitMarket, SubmitRejected, FillNow
<1>6. CASE SubmitLimit(r)
  <2>1. CASE FillNow(Registered(r))
    BY <1>3, <2>1 DEF FillNow
  <2>2. CASE /\ ~LimitTouched(r.side, r.price, quotes[r.symbol])
             /\ Rest(Resting(r, r.price, NoPrice, r.stop, r.tp))
    <3>1. Untouched(Resting(r, r.price, NoPrice, r.stop, r.tp), quotes[r.symbol])
      BY <1>6, <2>2 DEF Untouched, ShouldTrigger, Resting, SubmitLimit
    <3> QED
      BY <1>2, <2>2, <3>1 DEF Resting
  <2> QED
    BY <1>6, <2>1, <2>2 DEF SubmitLimit
<1>7. CASE SubmitStop(r)
  <2>1. CASE FillNow(Registered(r))
    BY <1>3, <2>1 DEF FillNow
  <2>2. CASE /\ ~StopTouched(r.side, r.stop, quotes[r.symbol])
             /\ Rest(Resting(r, r.price, r.stop, r.stop, r.tp))
    <3>1. Untouched(Resting(r, r.price, r.stop, r.stop, r.tp), quotes[r.symbol])
      BY <1>7, <2>2 DEF Untouched, ShouldTrigger, Resting, SubmitStop
    <3> QED
      BY <1>2, <2>2, <3>1 DEF Resting
  <2> QED
    BY <1>7, <2>1, <2>2 DEF SubmitStop
<1>8. CASE SubmitTrailingStop(r)
  <2>1. Untouched(Resting(r, NoPrice, InitialStop(r, quotes[r.symbol]), NoPrice, NoPrice),
                  quotes[r.symbol])
    BY <1>8 DEF Untouched, Resting, SubmitTrailingStop
  <2> QED
    BY <1>2, <1>8, <2>1 DEF Resting, SubmitTrailingStop
<1> QED
  BY <1>4, <1>5, <1>6, <1>7, <1>8

LEMMA RestsStep ==
  ASSUME PricesStay, Inv, RestsUntouched, [Next]_vars
  PROVE  RestsUntouched'
<1>1. CASE \E c \in Calls : Submit(c)
  BY <1>1, SubmitRests
<1>2. CASE \E c \in Calls : Modify(c)
  <2>1. PICK id \in DOMAIN orders, a \in Amendments :
          /\ orders' = [orders EXCEPT ![id] = Amended(@, a)]
          /\ pending' = IF id \in DOMAIN pending
                        THEN [pending EXCEPT ![id] = orders'[id]]
                        ELSE pending
    BY <1>2 DEF Modify
  <2>2. quotes' = quotes
    BY <1>2 DEF Modify, Resume
  <2>3. CASE id \notin DOMAIN pending
    BY <2>1, <2>2, <2>3 DEF RestsUntouched, Untouched
  <2>4. CASE id \in DOMAIN pending
    <3>1. pending' = [pending EXCEPT ![id] = Amended(pending[id], a)]
      <4>1. pending[id] = orders[id]
        BY <2>4 DEF Inv, OrderBookOK, RestingOrdersAgree
      <4>2. orders'[id] = Amended(orders[id], a)
        BY <2>1
      <4> QED
        BY <2>1, <2>4, <4>1, <4>2
    <3>2. Amended(pending[id], a).type = pending[id].type
          /\ Amended(pending[id], a).side = pending[id].side
          /\ Amended(pending[id], a).symbol = pending[id].symbol
          /\ Amended(pending[id], a).price = pending[id].price
          /\ Amended(pending[id], a).stop = pending[id].stop
      BY DEF Amended, Given, PricesStay
    <3>3. Untouched(Amended(pending[id], a), quotes[pending[id].symbol])
      BY <2>4, <3>2 DEF RestsUntouched, Untouched, ShouldTrigger
    <3>4. ASSUME NEW k \in DOMAIN pending'
          PROVE  Untouched(pending'[k], quotes'[pending'[k].symbol])
      <4>1. CASE k = id
        BY <2>2, <2>4, <3>1, <3>2, <3>3, <4>1
      <4>2. CASE k # id
        BY <2>2, <3>1, <4>2 DEF RestsUntouched
      <4> QED
        BY <4>1, <4>2
    <3> QED
      BY <3>4 DEF RestsUntouched
  <2> QED
    BY <2>3, <2>4
<1>3. CASE \E c \in Calls : Cancel(c)
  <2>1. PICK id : pending' = Drop(pending, {id})
    BY <1>3 DEF Cancel
  <2>2. quotes' = quotes
    BY <1>3 DEF Cancel, Resume
  <2>3. ASSUME NEW k \in DOMAIN pending'
        PROVE  k \in DOMAIN pending /\ pending'[k] = pending[k]
    BY <2>1 DEF Drop
  <2> QED
    BY <2>2, <2>3 DEF RestsUntouched
<1>4. CASE \/ Connect \/ Disconnect
           \/ \E c \in Calls, op \in Operations : BeginCall(c, op)
           \/ \E c \in Calls : ClosePosition(c)
           \/ \E c \in Calls : Refused(c)
           \/ FireNext
           \/ UNCHANGED vars
  <2>1. UNCHANGED <<pending, quotes>>
    BY <1>4 DEF Connect, Disconnect, BeginCall, ClosePosition, Refused,
                Resume, FireNext, vars, book
  <2> QED
    BY <2>1 DEF RestsUntouched, Untouched
<1>5. ASSUME NEW s \in Symbols, NEW q \in Quotes, IngestQuote(s, q)
      PROVE  RestsUntouched'
  <2>1. /\ quotes' = [quotes EXCEPT ![s] = q]
        /\ pending' = Drop(pending, Touched(s, q))
    BY <1>5 DEF IngestQuote
  <2>2. quotes'[s] = q /\ \A x : x # s => quotes'[x] = quotes[x]
    BY <2>1 DEF Inv, EnvironmentOK
  <2>3. SUFFICES ASSUME NEW id \in DOMAIN pending'
                 PROVE  Untouched(pending'[id], quotes'[pending'[id].symbol])
    BY DEF RestsUntouched
  <2>4. id \in DOMAIN pending \ Touched(s, q) /\ pending'[id] = pending[id]
    BY <2>1, <2>3 DEF Drop
  <2>5. CASE pending[id].symbol = s
    BY <2>2, <2>4, <2>5 DEF Touched, Untouched
  <2>6. CASE pending[id].symbol # s
    BY <2>2, <2>4, <2>6 DEF RestsUntouched, Untouched
  <2> QED
    BY <2>5, <2>6
<1>6. CASE ResetAccount
  <2>1. DOMAIN << >> = {}
    OBVIOUS
  <2> QED
    BY <1>6, <2>1 DEF ResetAccount, RestsUntouched
<1> QED
  BY <1>1, <1>2, <1>3, <1>4, <1>5, <1>6 DEF Next

\* A limit or stop order rests only while the market has not touched it, provided
\* that no amendment changes the price it rests at.
THEOREM RestsCorrect ==
  ASSUME PricesStay
  PROVE  Spec => []RestsOnlyUntouched
<1>1. Init => RestsUntouched
  <2>1. DOMAIN << >> = {}
    OBVIOUS
  <2> QED
    BY <2>1 DEF Init, RestsUntouched
<1>2. RestsUntouched => RestsOnlyUntouched
  BY DEF RestsUntouched, Untouched, RestsOnlyUntouched
<1>3. Inv /\ RestsUntouched /\ [Next]_vars => RestsUntouched'
  BY RestsStep
<1> QED
  BY <1>1, <1>2, <1>3, InitOK, StepOK, PTL DEF Spec

-----------------------------------------------------------------------------
(* Trailing stops.                                                         *)

\* p and what becomes of it: with neither fill nor exit the stop only tightens.
Tightens(p, n) ==
  p.qty = n.qty /\ p.side = n.side /\ p.basis = n.basis /\ p.sl # NoPrice =>
    IF p.side = "buy" THEN n.sl >= p.sl ELSE n.sl <= p.sl

LEMMA TrailedTightens ==
  ASSUME NEW p \in PaperPosition, NEW quote \in Quotes
  PROVE  Tightens(p, Trailed(p, quote))
<1>1. /\ p.sl \in Int /\ p.trail \in Nat /\ p.side \in Sides
      /\ quote.bid \in Nat /\ quote.ask \in Nat
  BY DEF PaperPosition, Quote
<1>2. CASE p.side = "buy"
  <2>1. Trailed(p, quote).sl \in {p.sl, Larger(p.sl, quote.bid - p.trail)}
    BY <1>2 DEF Trailed, PaperPosition
  <2> QED
    BY <1>1, <1>2, <2>1 DEF Tightens, Larger
<1>3. CASE p.side # "buy" /\ p.sl # NoPrice
  <2>1. Trailed(p, quote).sl \in {p.sl, Smaller(p.sl, quote.ask + p.trail)}
    BY <1>3 DEF Trailed, PaperPosition
  <2> QED
    BY <1>1, <1>3, <2>1 DEF Tightens, Smaller
<1> QED
  BY <1>2, <1>3 DEF Tightens

LEMMA UnchangedTightens ==
  ASSUME NEW p \in PaperPosition
  PROVE  Tightens(p, p)
<1>1. p.sl \in Int
  BY DEF PaperPosition
<1> QED
  BY <1>1 DEF Tightens

\* A fill leaves a position alone, changes its quantity, or removes it.
LEMMA NettingTightens ==
  ASSUME PositionBookOK, NEW o, NEW qty \in Nat \ {0}, NEW price, NEW fee,
         UpdatePosition(o, qty, price, fee),
         NEW id \in DOMAIN positions \cap DOMAIN positions'
  PROVE  Tightens(positions[id], positions'[id])
<1>1. positions[id] \in PaperPosition /\ id # nextPositionId
  BY DEF PositionBookOK
<1>2. positions[id].qty \in Nat
  BY <1>1 DEF PaperPosition
<1>3. CASE positions'[id] = positions[id]
  BY <1>1, <1>3, UnchangedTightens
<1>4. CASE positions'[id].qty # positions[id].qty
  BY <1>4 DEF Tightens
<1>5. CASE OpenPosition(o, qty, price, fee)
  <2>1. positions'[id] = positions[id]
    BY <1>1, <1>5 DEF OpenPosition, Put
  <2> QED
    BY <1>3, <2>1
<1>6. CASE Accumulate(o, qty, price, fee)
  <2>1. PICK k \in DOMAIN positions :
          positions' = [positions EXCEPT ![k] = Enlarged(@, o, qty, price, fee)]
    BY <1>6 DEF Accumulate, FirstOf, HeldIn
  <2>2. k = id => positions'[id].qty = positions[id].qty + qty
    BY <2>1 DEF Enlarged
  <2>3. k # id => positions'[id] = positions[id]
    BY <2>1
  <2> QED
    BY <1>2, <1>3, <1>4, <2>2, <2>3
<1>7. CASE Reduce(o, qty, price, fee)
  <2>1. PICK k \in DOMAIN positions : \E basis :
          positions' = [positions EXCEPT ![k] =
            [positions[k] EXCEPT !.qty = positions[k].qty - qty, !.basis = basis]]
    BY <1>7 DEF Reduce, FirstOf, HeldIn
  <2>2. ASSUME k = id
        PROVE  positions'[id].qty = positions[id].qty - qty
    <3>1. PICK basis : positions'[id] =
            [positions[id] EXCEPT !.qty = positions[id].qty - qty, !.basis = basis]
      BY <2>1, <2>2
    <3> QED
      BY <1>1, <3>1 DEF PaperPosition
  <2>3. k # id => positions'[id] = positions[id]
    BY <2>1
  <2> QED
    BY <1>2, <1>3, <1>4, <2>2, <2>3
<1>8. CASE Flatten(o, qty, price, fee)
  <2>1. positions'[id] = positions[id]
    BY <1>8 DEF Flatten, Drop
  <2> QED
    BY <1>3, <2>1
<1>9. CASE Reverse(o, qty, price, fee)
  <2>1. positions'[id] = positions[id]
    BY <1>1, <1>9 DEF Reverse, Drop, Put
  <2> QED
    BY <1>3, <2>1
<1> QED
  BY <1>5, <1>6, <1>7, <1>8, <1>9 DEF UpdatePosition

LEMMA ExecuteTightens ==
  ASSUME PositionBookOK, NEW k, NEW o \in PaperOrder, ExecuteMarket(k, o),
         NEW id \in DOMAIN positions \cap DOMAIN positions'
  PROVE  Tightens(positions[id], positions'[id])
<1>1. o.qty \in Nat \ {0}
  BY DEF PaperOrder
<1>2. PICK slippage \in Slippages, qty \in FillQuantities(o.qty) :
        LET price == FillPrice(o.side, quotes[o.symbol], slippage)
        IN UpdatePosition(o, qty, price, Commission(qty, price))
  BY DEF ExecuteMarket
<1>3. qty \in Nat \ {0}
  BY <1>1 DEF FillQuantities
<1> QED
  BY <1>2, <1>3, NettingTightens

\* While a position receives no fill, its stop loss moves in its favour only.
THEOREM TrailCorrect == Spec => TrailNeverLoosens
<1>1. ASSUME Inv, [Next]_vars, NEW id \in DOMAIN positions \cap DOMAIN positions'
      PROVE  Tightens(positions[id], positions'[id])
  <2>1. positions[id] \in PaperPosition
    BY <1>1 DEF Inv, PositionBookOK
  <2>2. CASE positions' = positions
    BY <2>1, <2>2, UnchangedTightens
  <2>3. CASE \E c \in Calls : Submit(c)
    <3>1. PICK r \in Requests : \/ FillNow(Registered(r))
                                \/ positions' = positions
      BY <2>3 DEF Submit, SubmitMarket, SubmitLimit, SubmitStop, SubmitTrailingStop,
                  SubmitRejected, Rest
    <3>2. Registered(r) \in PaperOrder
      BY RegisteredType
    <3> QED
      BY <1>1, <2>2, <3>1, <3>2, ExecuteTightens DEF FillNow, Inv
  <2>4. CASE FireNext
    <3>1. PICK k \in DOMAIN firing : ExecuteMarket(k, firing[k])
      BY <2>4 DEF FireNext, FirstOf
    <3>2. firing[k] \in PaperOrder
      BY <1>1, <3>1 DEF Inv, OrderBookOK, RestingOrdersAgree
    <3> QED
      BY <1>1, <3>1, <3>2, ExecuteTightens DEF Inv
  <2>5. CASE \E c \in Calls : ClosePosition(c)
    <3>1. PICK k : positions' = Drop(positions, {k})
      BY <2>5 DEF ClosePosition, Exit
    <3>2. positions'[id] = positions[id]
      BY <1>1, <3>1 DEF Drop
    <3> QED
      BY <2>1, <3>2, UnchangedTightens
  <2>6. ASSUME NEW s \in Symbols, NEW q \in Quotes, IngestQuote(s, q)
        PROVE  Tightens(positions[id], positions'[id])
    <3>1. PICK k :
            \/ positions' = positions
            \/ positions' = [positions EXCEPT ![k] = Trailed(@, q)]
            \/ positions' = Drop(positions, {k})
      BY <2>6 DEF IngestQuote, Exit
    <3>2. positions'[id] = positions[id] \/ positions'[id] = Trailed(positions[id], q)
      BY <1>1, <3>1 DEF Drop
    <3> QED
      BY <2>1, <3>2, UnchangedTightens, TrailedTightens
  <2>7. CASE ResetAccount
    <3>1. DOMAIN << >> = {}
      OBVIOUS
    <3> QED
      BY <1>1, <2>7, <3>1 DEF ResetAccount
  <2>8. CASE \/ Connect \/ Disconnect
             \/ \E c \in Calls, op \in Operations : BeginCall(c, op)
             \/ \E c \in Calls : Modify(c)
             \/ \E c \in Calls : Cancel(c)
             \/ \E c \in Calls : Refused(c)
             \/ UNCHANGED vars
    <3>1. positions' = positions
      BY <2>8 DEF Connect, Disconnect, BeginCall, Modify, Cancel, Refused, vars, book
    <3> QED
      BY <2>2, <3>1
  <2> QED
    BY <1>1, <2>3, <2>4, <2>5, <2>6, <2>7, <2>8 DEF Next
<1>2. Inv /\ [Next]_vars =>
        [\A id \in DOMAIN positions \cap DOMAIN positions' :
           LET p == positions[id]  n == positions'[id]
           IN p.qty = n.qty /\ p.side = n.side /\ p.basis = n.basis /\ p.sl # NoPrice =>
                IF p.side = "buy" THEN n.sl >= p.sl ELSE n.sl <= p.sl]_vars
  BY <1>1 DEF Tightens
<1> QED
  BY <1>2, Coherent, PTL DEF Spec, TrailNeverLoosens

-----------------------------------------------------------------------------
(* Sums over a book of positions, and what the changes the adapter makes   *)
(* to its book do to them.                                                 *)

\* A book, and what it says of exposure, cost and fees.
Book(f) ==
  /\ IsFiniteSet(DOMAIN f)
  /\ \A id \in DOMAIN f : f[id] \in PaperPosition
  /\ \A i, j \in DOMAIN f : f[i].symbol = f[j].symbol => i = j

NetsOf(f) == [id \in DOMAIN f |-> Signed(f[id], f[id].qty)]
CostsOf(f) == [id \in DOMAIN f |-> Signed(f[id], f[id].basis)]
FeesOf(f) == [id \in DOMAIN f |-> f[id].commission]
NetOf(f, s) == SumFunctionOnSet(NetsOf(f), {id \in DOMAIN f : f[id].symbol = s})
CostOf(f) == SumFunctionOnSet(CostsOf(f), DOMAIN f)
FeeOf(f) == SumFunctionOnSet(FeesOf(f), DOMAIN f)

LEMMA SignedType ==
  ASSUME NEW p, NEW x \in Int
  PROVE  Signed(p, x) \in Int
BY DEF Signed

LEMMA PartsType ==
  ASSUME NEW f, Book(f), NEW id \in DOMAIN f
  PROVE  /\ NetsOf(f)[id] \in Int /\ CostsOf(f)[id] \in Int /\ FeesOf(f)[id] \in Nat
         /\ NetsOf(f)[id] = Signed(f[id], f[id].qty)
         /\ CostsOf(f)[id] = Signed(f[id], f[id].basis)
         /\ FeesOf(f)[id] = f[id].commission
<1>1. f[id].qty \in Int /\ f[id].basis \in Int /\ f[id].commission \in Nat
      BY DEF Book, PaperPosition
<1>2. Signed(f[id], f[id].qty) \in Int /\ Signed(f[id], f[id].basis) \in Int
      BY <1>1, SignedType
<1> QED BY <1>1, <1>2 DEF NetsOf, CostsOf, FeesOf

LEMMA TotalsType ==
  ASSUME NEW f, Book(f)
  PROVE  CostOf(f) \in Int /\ FeeOf(f) \in Nat
<1>1. IsFiniteSet(DOMAIN f)
      BY DEF Book
<1>2. CostOf(f) \in Int
      BY <1>1, PartsType, SumTakesOut DEF CostOf
<1>3. FeeOf(f) \in Nat
      BY <1>1, PartsType, SumNat DEF FeeOf
<1> QED BY <1>2, <1>3

\* With one position to a symbol the sum over the symbol is that position.
LEMMA NetIs ==
  ASSUME NEW f, Book(f), NEW s
  PROVE  /\ (\A id \in DOMAIN f : f[id].symbol # s) => NetOf(f, s) = 0
         /\ \A id \in DOMAIN f : f[id].symbol = s => NetOf(f, s) = Signed(f[id], f[id].qty)
<1> DEFINE held == {id \in DOMAIN f : f[id].symbol = s}
<1>1. ASSUME \A id \in DOMAIN f : f[id].symbol # s PROVE NetOf(f, s) = 0
      <2>1. held = {}
            BY <1>1
      <2> QED BY <2>1, SumEmpty DEF NetOf
<1>2. ASSUME NEW id \in DOMAIN f, f[id].symbol = s PROVE NetOf(f, s) = Signed(f[id], f[id].qty)
      <2>1. held = {id}
            BY <1>2 DEF Book
      <2>2. NetsOf(f)[id] \in Int /\ NetsOf(f)[id] = Signed(f[id], f[id].qty)
            BY PartsType
      <2> QED BY <2>1, <2>2, SumOne DEF NetOf
<1> QED BY <1>1, <1>2

\* A position is replaced by one in the same symbol.
LEMMA Changing ==
  ASSUME NEW f, Book(f), NEW g, NEW id \in DOMAIN f,
         DOMAIN g = DOMAIN f, \A i \in DOMAIN f \ {id} : g[i] = f[i],
         g[id] \in PaperPosition, g[id].symbol = f[id].symbol
  PROVE  /\ CostOf(g) = CostOf(f) + Signed(g[id], g[id].basis) - Signed(f[id], f[id].basis)
         /\ FeeOf(g) = FeeOf(f) + g[id].commission - f[id].commission
         /\ NetOf(f, g[id].symbol) = Signed(f[id], f[id].qty)
         /\ NetOf(g, g[id].symbol) = Signed(g[id], g[id].qty)
         /\ \A s : s # g[id].symbol => NetOf(g, s) = NetOf(f, s)
<1>1. /\ DOMAIN g = DOMAIN f
      /\ \A i \in DOMAIN f \ {id} : g[i] = f[i]
      OBVIOUS
<1>2. IsFiniteSet(DOMAIN f)
      BY DEF Book
<1>3. Book(g)
      <2>1. \A i \in DOMAIN g : g[i] \in PaperPosition
            BY <1>1 DEF Book
      <2>2. \A i, j \in DOMAIN g : g[i].symbol = g[j].symbol => i = j
            BY <1>1, Zenon DEF Book
      <2> QED BY <1>1, <1>2, <2>1, <2>2 DEF Book
<1>4. \A i \in DOMAIN f : i \in DOMAIN g /\ (i # id => g[i] = f[i])
      BY <1>1
<1>6. CostOf(g) = CostOf(f) + Signed(g[id], g[id].basis) - Signed(f[id], f[id].basis)
      <2>1. \A i \in DOMAIN f : /\ CostsOf(f)[i] \in Int /\ CostsOf(g)[i] \in Int
                                /\ i # id => CostsOf(g)[i] = CostsOf(f)[i]
            BY <1>3, <1>4, PartsType
      <2>2. CostsOf(g)[id] = Signed(g[id], g[id].basis) /\ CostsOf(f)[id] = Signed(f[id], f[id].basis)
            BY <1>1, <1>3, PartsType
      <2>3. CostOf(g) = CostOf(f) + CostsOf(g)[id] - CostsOf(f)[id]
            BY <1>1, <1>2, <2>1, SumChanges DEF CostOf
      <2> QED BY <2>2, <2>3
<1>7. FeeOf(g) = FeeOf(f) + g[id].commission - f[id].commission
      <2>1. \A i \in DOMAIN f : /\ FeesOf(f)[i] \in Int /\ FeesOf(g)[i] \in Int
                                /\ i # id => FeesOf(g)[i] = FeesOf(f)[i]
            BY <1>3, <1>4, PartsType
      <2>2. FeesOf(g)[id] = g[id].commission /\ FeesOf(f)[id] = f[id].commission
            BY <1>1, <1>3, PartsType
      <2>3. FeeOf(g) = FeeOf(f) + FeesOf(g)[id] - FeesOf(f)[id]
            BY <1>1, <1>2, <2>1, SumChanges DEF FeeOf
      <2> QED BY <2>2, <2>3
<1>8. /\ NetOf(f, g[id].symbol) = Signed(f[id], f[id].qty)
      /\ NetOf(g, g[id].symbol) = Signed(g[id], g[id].qty)
      BY <1>1, <1>3, NetIs
<1>9. ASSUME NEW s, s # g[id].symbol PROVE NetOf(g, s) = NetOf(f, s)
      <2>1. CASE \A i \in DOMAIN f : f[i].symbol # s
            <3>1. \A i \in DOMAIN g : g[i].symbol # s
                  BY <1>1, <1>9, <2>1
            <3> QED BY <1>3, <2>1, <3>1, NetIs
      <2>2. CASE \E i \in DOMAIN f : f[i].symbol = s
            BY <1>1, <1>3, <1>9, <2>2, NetIs
      <2> QED BY <2>1, <2>2
<1> QED BY <1>6, <1>7, <1>8, <1>9

\* A position is removed.
LEMMA Dropping ==
  ASSUME NEW f, Book(f), NEW g, NEW id \in DOMAIN f,
         DOMAIN g = DOMAIN f \ {id}, \A i \in DOMAIN f \ {id} : g[i] = f[i]
  PROVE  /\ Book(g)
         /\ CostOf(g) = CostOf(f) - Signed(f[id], f[id].basis)
         /\ FeeOf(g) = FeeOf(f) - f[id].commission
         /\ NetOf(f, f[id].symbol) = Signed(f[id], f[id].qty)
         /\ NetOf(g, f[id].symbol) = 0
         /\ \A s : s # f[id].symbol => NetOf(g, s) = NetOf(f, s)
<1>1. DOMAIN g = DOMAIN f \ {id} /\ \A i \in DOMAIN f \ {id} : g[i] = f[i]
      OBVIOUS
<1>2. IsFiniteSet(DOMAIN f) /\ IsFiniteSet(DOMAIN g)
      BY <1>1, FS_RemoveElement DEF Book
<1>3. Book(g)
      <2>1. \A i \in DOMAIN g : g[i] \in PaperPosition
            BY <1>1 DEF Book
      <2>2. \A i, j \in DOMAIN g : g[i].symbol = g[j].symbol => i = j
            BY <1>1, Zenon DEF Book
      <2> QED BY <1>2, <2>1, <2>2 DEF Book
<1>4. \A i \in DOMAIN f \ {id} : i \in DOMAIN f /\ i \in DOMAIN g /\ g[i] = f[i]
      BY <1>1
<1>6. CostOf(g) = CostOf(f) - Signed(f[id], f[id].basis)
      <2>1. \A i \in DOMAIN f : CostsOf(f)[i] \in Int
            BY PartsType
      <2>2. \A i \in DOMAIN f \ {id} : CostsOf(g)[i] = CostsOf(f)[i]
            BY <1>3, <1>4, PartsType
      <2>3. CostOf(g) = CostOf(f) - CostsOf(f)[id]
            BY <1>1, <1>2, <2>1, <2>2, SumShrinks DEF CostOf
      <2> QED BY <2>3, PartsType
<1>7. FeeOf(g) = FeeOf(f) - f[id].commission
      <2>1. \A i \in DOMAIN f : FeesOf(f)[i] \in Int
            BY PartsType
      <2>2. \A i \in DOMAIN f \ {id} : FeesOf(g)[i] = FeesOf(f)[i]
            BY <1>3, <1>4, PartsType
      <2>3. FeeOf(g) = FeeOf(f) - FeesOf(f)[id]
            BY <1>1, <1>2, <2>1, <2>2, SumShrinks DEF FeeOf
      <2> QED BY <2>3, PartsType
<1>8. NetOf(f, f[id].symbol) = Signed(f[id], f[id].qty) /\ NetOf(g, f[id].symbol) = 0
      <2>1. \A i \in DOMAIN g : g[i].symbol # f[id].symbol
            BY <1>1 DEF Book
      <2> QED BY <1>3, <2>1, NetIs
<1>9. ASSUME NEW s, s # f[id].symbol PROVE NetOf(g, s) = NetOf(f, s)
      <2>1. CASE \A i \in DOMAIN f : f[i].symbol # s
            <3>1. \A i \in DOMAIN g : g[i].symbol # s
                  BY <1>1, <2>1
            <3> QED BY <1>3, <2>1, <3>1, NetIs
      <2>2. CASE \E i \in DOMAIN f : f[i].symbol = s
            BY <1>1, <1>3, <1>9, <2>2, NetIs
      <2> QED BY <2>1, <2>2
<1> QED BY <1>3, <1>6, <1>7, <1>8, <1>9

\* A position is opened in a symbol that has none: dropping it again would lead
\* back to the book there was.
LEMMA Opening ==
  ASSUME NEW f, Book(f), NEW g, NEW n \in DOMAIN g,
         DOMAIN f = DOMAIN g \ {n}, \A i \in DOMAIN g \ {n} : f[i] = g[i],
         g[n] \in PaperPosition, \A i \in DOMAIN f : f[i].symbol # g[n].symbol
  PROVE  /\ Book(g)
         /\ CostOf(g) = CostOf(f) + Signed(g[n], g[n].basis)
         /\ FeeOf(g) = FeeOf(f) + g[n].commission
         /\ NetOf(f, g[n].symbol) = 0 /\ NetOf(g, g[n].symbol) = Signed(g[n], g[n].qty)
         /\ \A s : s # g[n].symbol => NetOf(g, s) = NetOf(f, s)
<1>1. Book(g)
      <2>1. IsFiniteSet(DOMAIN g)
            <3>1. DOMAIN g = DOMAIN f \cup {n}
                  OBVIOUS
            <3> QED BY <3>1, FS_AddElement DEF Book
      <2>2. \A i \in DOMAIN g : g[i] \in PaperPosition
            BY DEF Book
      <2>3. \A i, j \in DOMAIN g : g[i].symbol = g[j].symbol => i = j
            BY Zenon DEF Book
      <2> QED BY <2>1, <2>2, <2>3 DEF Book
<1>2. /\ CostOf(f) = CostOf(g) - Signed(g[n], g[n].basis)
      /\ FeeOf(f) = FeeOf(g) - g[n].commission
      /\ NetOf(g, g[n].symbol) = Signed(g[n], g[n].qty)
      /\ NetOf(f, g[n].symbol) = 0
      /\ \A s : s # g[n].symbol => NetOf(f, s) = NetOf(g, s)
      BY <1>1, Dropping
<1>3. CostOf(g) \in Int /\ FeeOf(g) \in Int
      BY <1>1, TotalsType
<1>4. Signed(g[n], g[n].basis) \in Int /\ g[n].commission \in Int
      BY SignedType DEF PaperPosition
<1> QED BY <1>1, <1>2, <1>3, <1>4

\* The adapter's positions are a book, before a step and after it.
LEMMA NumberedBook ==
  ASSUME NEW f, NEW n \in Nat, DOMAIN f \subseteq FirstPositionId..(n - 1),
         \A id \in DOMAIN f : f[id] \in PaperPosition,
         \A i, j \in DOMAIN f : f[i].symbol = f[j].symbol => i = j
  PROVE  Book(f)
<1>1. IsFiniteSet(FirstPositionId..(n - 1))
      BY FS_Interval
<1>2. IsFiniteSet(DOMAIN f)
      BY <1>1, FS_Subset
<1> QED BY <1>2 DEF Book

LEMMA PositionsAreABook ==
  ASSUME PositionBookOK
  PROVE  Book(positions)
BY NumberedBook DEF PositionBookOK, OnePositionPerSymbol

\* The parts of a position that is opened.
LEMMA NewPositionIs ==
  ASSUME NEW o \in PaperOrder, NEW qty \in Nat \ {0}, NEW price \in Nat, NEW fee \in Nat,
         NEW mark \in Nat
  PROVE  /\ NewPosition(o, qty, price, fee, mark).qty = qty
         /\ NewPosition(o, qty, price, fee, mark).basis = qty * price
         /\ NewPosition(o, qty, price, fee, mark).commission = fee
         /\ NewPosition(o, qty, price, fee, mark).side = o.side
BY DEF NewPosition

\* Positions on the same side count the same way.
LEMMA SameSide ==
  ASSUME NEW p, NEW o, p.side = o.side
  PROVE  \A x : Signed(p, x) = Signed(o, x)
BY DEF Signed

LEMMA PositionParts ==
  ASSUME NEW p \in PaperPosition
  PROVE  /\ p.side \in Sides /\ p.symbol \in Symbols
         /\ p.qty \in Nat \ {0} /\ p.basis \in Int /\ p.commission \in Nat
BY DEF PaperPosition

\* Every case of netting moves the exposure of one symbol by the fill and the
\* money by its price, up to the fees; and the fees charged and those the
\* positions still carry grow together by no more than the fee of the fill.
LEMMA NettingTrades ==
  ASSUME PositionBookOK,
         NEW o \in PaperOrder, NEW qty \in Nat \ {0}, NEW price \in Nat \ {0},
         NEW fee \in Nat,
         UpdatePosition(o, qty, price, fee)
  PROVE  /\ NetOf(positions', o.symbol) = NetOf(positions, o.symbol) + Signed(o, qty)
         /\ \A s : s # o.symbol => NetOf(positions', s) = NetOf(positions, s)
         /\ balance' + charged' - CostOf(positions') =
              balance + charged - CostOf(positions) - Signed(o, qty * price)
         /\ charged' + FeeOf(positions') <= charged + FeeOf(positions) + fee
<1> DEFINE m == qty * price
<1>a. m \in Int /\ o.side \in Sides /\ price \in Nat /\ qty \in Int /\ price \in Int
      BY DEF PaperOrder
<1>b. Book(positions)
      BY PositionsAreABook
<1>c. balance \in Int /\ charged \in Int /\ CostOf(positions) \in Int /\ FeeOf(positions) \in Int
      BY <1>b, TotalsType DEF PositionBookOK
<1>1. CASE OpenPosition(o, qty, price, fee)
      <2> DEFINE p == NewPosition(o, qty, price, fee, price)
      <2>1. /\ p \in PaperPosition /\ p.symbol = o.symbol
            /\ p.qty = qty /\ p.basis = m /\ p.commission = fee
            /\ p.side = o.side
            BY <1>a, NewPositionType, NewPositionIs
      <2>2. /\ \A i \in DOMAIN positions : positions[i].symbol # p.symbol
            /\ positions' = Put(positions, nextPositionId, p)
            /\ UNCHANGED <<balance, charged>>
            BY <1>1, <2>1 DEF OpenPosition, HeldIn
      <2>3. nextPositionId \notin DOMAIN positions
            BY DEF PositionBookOK
      <2> HIDE DEF p, m
      <2>a. /\ nextPositionId \in DOMAIN positions' /\ positions'[nextPositionId] = p
            /\ DOMAIN positions = DOMAIN positions' \ {nextPositionId}
            /\ \A i \in DOMAIN positions' \ {nextPositionId} : positions[i] = positions'[i]
            <3>1. positions' = Put(positions, nextPositionId, p)
                  BY <2>2
            <3> QED BY <2>3, <3>1 DEF Put
      <2>b. \A x : Signed(p, x) = Signed(o, x)
            BY <2>1, SameSide
      <2>4. /\ CostOf(positions') = CostOf(positions) + Signed(p, p.basis)
            /\ FeeOf(positions') = FeeOf(positions) + p.commission
            /\ NetOf(positions, p.symbol) = 0
            /\ NetOf(positions', p.symbol) = Signed(p, p.qty)
            /\ \A s : s # p.symbol => NetOf(positions', s) = NetOf(positions, s)
            BY <1>b, <2>1, <2>2, <2>a, Opening
      <2>5. Signed(o, m) \in Int /\ Signed(o, qty) \in Int
            BY <1>a, SignedType
      <2> QED BY <1>c, <2>1, <2>2, <2>4, <2>5, <2>b DEF m
<1>2. CASE Accumulate(o, qty, price, fee)
      <2>1. PICK id \in HeldIn(o.symbol) :
              /\ positions[id].side = o.side
              /\ positions' = [positions EXCEPT ![id] = Enlarged(@, o, qty, price, fee)]
            BY <1>2 DEF Accumulate, FirstOf
      <2>2. UNCHANGED <<balance, charged>>
            BY <1>2 DEF Accumulate
      <2> DEFINE p == positions[id]
                 n == Enlarged(p, o, qty, price, fee)
      <2>3. id \in DOMAIN positions /\ p \in PaperPosition /\ p.symbol = o.symbol
            BY DEF HeldIn, PositionBookOK
      <2>4. /\ n \in PaperPosition /\ n.symbol = p.symbol
            /\ n.qty = p.qty + qty /\ n.basis = p.basis + m
            /\ n.commission = p.commission + fee
            /\ n.side = p.side
            <3>1. n \in PaperPosition /\ n.symbol = p.symbol
                  BY <2>3, EnlargedType
            <3> HIDE DEF p
            <3> QED BY <3>1 DEF Enlarged
      <2>5. /\ DOMAIN positions' = DOMAIN positions /\ positions'[id] = n
            /\ \A i \in DOMAIN positions \ {id} : positions'[i] = positions[i]
            BY <2>1, <2>3
      <2>6. \A x : Signed(p, x) = Signed(o, x) /\ Signed(n, x) = Signed(p, x)
            BY <2>1, <2>4, SameSide
      <2>7. p.qty \in Int /\ p.basis \in Int /\ p.commission \in Int
            BY <2>3, PositionParts
      <2> HIDE DEF n, m
      <2>8. /\ CostOf(positions') = CostOf(positions) + Signed(n, n.basis) - Signed(p, p.basis)
            /\ FeeOf(positions') = FeeOf(positions) + n.commission - p.commission
            /\ NetOf(positions, n.symbol) = Signed(p, p.qty)
            /\ NetOf(positions', n.symbol) = Signed(n, n.qty)
            /\ \A s : s # n.symbol => NetOf(positions', s) = NetOf(positions, s)
            BY <1>b, <2>3, <2>4, <2>5, Changing
      <2> HIDE DEF p
      <2>9. /\ Signed(n, n.basis) = Signed(p, p.basis) + Signed(o, m)
            /\ Signed(n, n.qty) = Signed(p, p.qty) + Signed(o, qty)
            /\ Signed(o, m) \in Int /\ Signed(p, p.basis) \in Int
            BY <1>a, <2>4, <2>6, <2>7 DEF Signed
      <2> QED BY <1>c, <2>2, <2>3, <2>4, <2>7, <2>8, <2>9 DEF m
<1>3. CASE Reduce(o, qty, price, fee)
      <2>1. PICK id \in HeldIn(o.symbol) :
              LET p == positions[id]
                  cost == (p.basis * qty) \div p.qty
              IN /\ p.side # o.side /\ qty < p.qty
                 /\ balance' = balance + Profit(p.side, qty, cost, price) - fee
                 /\ positions' = [positions EXCEPT ![id] =
                      [p EXCEPT !.qty = p.qty - qty, !.basis = p.basis - cost]]
            BY <1>3 DEF Reduce, FirstOf
      <2>2. charged' = charged + fee
            BY <1>3 DEF Reduce
      <2> DEFINE p == positions[id]
                 cost == (p.basis * qty) \div p.qty
                 n == [p EXCEPT !.qty = p.qty - qty, !.basis = p.basis - cost]
      <2>3. id \in DOMAIN positions /\ p \in PaperPosition /\ p.symbol = o.symbol
            BY DEF HeldIn, PositionBookOK
      <2>4. p.side \in Sides /\ p.qty \in Nat \ {0} /\ p.basis \in Int /\ p.commission \in Nat
            BY <2>3, PositionParts
      <2>5. cost \in Int
            <3>1. p.basis * qty \in Int
                  BY <2>4
            <3> QED BY <2>4, <3>1
      <2>6. /\ p.side # o.side
            /\ balance' = balance + Profit(p.side, qty, cost, price) - fee
            /\ DOMAIN positions' = DOMAIN positions /\ positions'[id] = n
            /\ \A i \in DOMAIN positions \ {id} : positions'[i] = positions[i]
            /\ qty < p.qty
            BY <2>1, <2>3
      <2> HIDE DEF cost
      <2>7. p.qty - qty \in Nat \ {0} /\ p.basis - cost \in Int
            BY <2>4, <2>5, <2>6
      <2>8. /\ n \in PaperPosition /\ n.symbol = p.symbol /\ n.commission = p.commission
            /\ n.qty = p.qty - qty /\ n.basis = p.basis - cost /\ n.side = p.side
            BY <2>3, <2>7 DEF PaperPosition
      <2> HIDE DEF n, m
      <2>9. /\ CostOf(positions') = CostOf(positions) + Signed(n, n.basis) - Signed(p, p.basis)
            /\ FeeOf(positions') = FeeOf(positions) + n.commission - p.commission
            /\ NetOf(positions, n.symbol) = Signed(p, p.qty)
            /\ NetOf(positions', n.symbol) = Signed(n, n.qty)
            /\ \A s : s # n.symbol => NetOf(positions', s) = NetOf(positions, s)
            BY <1>b, <2>3, <2>6, <2>8, Changing
      <2> HIDE DEF p
      <2>10. /\ Signed(n, n.qty) = Signed(p, p.qty) + Signed(o, qty)
             /\ Signed(n, n.basis) - Signed(p, p.basis) = - Signed(p, cost)
             /\ Signed(n, n.basis) \in Int /\ Signed(p, p.basis) \in Int
             BY <1>a, <2>4, <2>5, <2>6, <2>8 DEF Signed
      <2>11. Profit(p.side, qty, cost, price) = - Signed(o, m) - Signed(p, cost)
             BY <1>a, <2>4, <2>5, <2>6 DEF Signed, Profit, m
      <2>12. Signed(o, m) \in Int /\ Signed(p, cost) \in Int
             BY <1>a, <2>5, SignedType
      <2>13. /\ NetOf(positions', o.symbol) = NetOf(positions, o.symbol) + Signed(o, qty)
             /\ \A s : s # o.symbol => NetOf(positions', s) = NetOf(positions, s)
             BY <2>3, <2>8, <2>9, <2>10
      <2>14. charged' + FeeOf(positions') <= charged + FeeOf(positions) + fee
             BY <1>c, <2>2, <2>4, <2>8, <2>9
      <2>15. balance' + charged' - CostOf(positions') =
               balance + charged - CostOf(positions) - Signed(o, m)
             BY <1>c, <2>2, <2>6, <2>9, <2>10, <2>11, <2>12
      <2> QED BY <2>13, <2>14, <2>15 DEF m
<1>4. CASE Flatten(o, qty, price, fee)
      <2>1. PICK id \in HeldIn(o.symbol) :
              LET p == positions[id]
              IN /\ p.side # o.side /\ qty = p.qty
                 /\ balance' = balance + Profit(p.side, qty, p.basis, price) - fee
                 /\ positions' = Drop(positions, {id})
            BY <1>4 DEF Flatten, FirstOf
      <2>2. charged' = charged + fee
            BY <1>4 DEF Flatten
      <2> DEFINE p == positions[id]
      <2>3. id \in DOMAIN positions /\ p \in PaperPosition /\ p.symbol = o.symbol
            BY DEF HeldIn, PositionBookOK
      <2>4. p.side \in Sides /\ p.qty \in Nat \ {0} /\ p.basis \in Int /\ p.commission \in Nat
            BY <2>3, PositionParts
      <2>a. /\ DOMAIN positions' = DOMAIN positions \ {id}
            /\ \A i \in DOMAIN positions \ {id} : positions'[i] = positions[i]
            <3>1. positions' = Drop(positions, {id})
                  BY <2>1
            <3> QED BY <3>1 DEF Drop
      <2>5. /\ CostOf(positions') = CostOf(positions) - Signed(p, p.basis)
            /\ FeeOf(positions') = FeeOf(positions) - p.commission
            /\ NetOf(positions, p.symbol) = Signed(p, p.qty)
            /\ NetOf(positions', p.symbol) = 0
            /\ \A s : s # p.symbol => NetOf(positions', s) = NetOf(positions, s)
            BY <1>b, <2>3, <2>a, Dropping
      <2>6. /\ p.side # o.side /\ qty = p.qty
            /\ balance' = balance + Profit(p.side, qty, p.basis, price) - fee
            BY <2>1
      <2> HIDE DEF p, m
      <2>7. /\ Signed(p, p.qty) + Signed(o, qty) = 0
            /\ Signed(p, p.basis) \in Int /\ Signed(o, m) \in Int
            BY <1>a, <2>4, <2>6 DEF Signed
      <2>8. Profit(p.side, qty, p.basis, price) = - Signed(o, m) - Signed(p, p.basis)
            BY <1>a, <2>4, <2>6 DEF Signed, Profit, m
      <2> QED BY <1>c, <2>2, <2>3, <2>4, <2>5, <2>6, <2>7, <2>8 DEF m
<1>5. CASE Reverse(o, qty, price, fee)
      <2>1. PICK id \in HeldIn(o.symbol) :
              LET p == positions[id]
              IN /\ p.side # o.side /\ qty > p.qty
                 /\ balance' = balance + Profit(p.side, p.qty, p.basis, price) - fee
                 /\ positions' = Put(Drop(positions, {id}), nextPositionId,
                                     NewPosition(o, qty - p.qty, price, 0, NoPrice))
            BY <1>5 DEF Reverse, FirstOf
      <2>2. charged' = charged + fee
            BY <1>5 DEF Reverse
      <2> DEFINE p == positions[id]
                 h == Drop(positions, {id})
                 rest == qty - p.qty
                 n == NewPosition(o, rest, price, 0, NoPrice)
      <2>3. id \in DOMAIN positions /\ p \in PaperPosition /\ p.symbol = o.symbol
            BY DEF HeldIn, PositionBookOK
      <2>4. p.side \in Sides /\ p.qty \in Nat \ {0} /\ p.basis \in Int /\ p.commission \in Nat
            BY <2>3, PositionParts
      <2>5. /\ Book(h)
            /\ CostOf(h) = CostOf(positions) - Signed(p, p.basis)
            /\ FeeOf(h) = FeeOf(positions) - p.commission
            /\ NetOf(positions, p.symbol) = Signed(p, p.qty)
            /\ NetOf(h, p.symbol) = 0
            /\ \A s : s # p.symbol => NetOf(h, s) = NetOf(positions, s)
            <3>1. /\ DOMAIN h = DOMAIN positions \ {id}
                  /\ \A i \in DOMAIN positions \ {id} : h[i] = positions[i]
                  BY DropFacts
            <3> HIDE DEF h
            <3> QED BY <1>b, <2>3, <3>1, Dropping
      <2>6. /\ p.side # o.side /\ qty > p.qty
            /\ balance' = balance + Profit(p.side, p.qty, p.basis, price) - fee
            /\ positions' = Put(h, nextPositionId, n)
            BY <2>1
      <2>7. rest \in Nat \ {0}
            BY <2>4, <2>6
      <2>8. /\ n \in PaperPosition /\ n.symbol = o.symbol
            /\ n.qty = rest /\ n.basis = rest * price /\ n.commission = 0
            /\ n.side = o.side
            <3> HIDE DEF rest
            <3>1. \A fees, mark \in Nat :
                    /\ NewPosition(o, rest, price, fees, mark) \in PaperPosition
                    /\ NewPosition(o, rest, price, fees, mark).symbol = o.symbol
                  BY <2>7, NewPositionType
            <3> QED BY <3>1 DEF NewPosition
      <2>9. /\ nextPositionId \notin DOMAIN h
            /\ \A i \in DOMAIN h : h[i].symbol # n.symbol
            <3>1. /\ DOMAIN h = DOMAIN positions \ {id}
                  /\ \A i \in DOMAIN positions \ {id} : h[i] = positions[i]
                  BY DropFacts
            <3> HIDE DEF h, n
            <3> QED BY <2>3, <2>8, <3>1 DEF PositionBookOK, OnePositionPerSymbol
      <2>a. \A x : Signed(n, x) = Signed(o, x)
            BY <2>8, SameSide
      <2> HIDE DEF h, n, p, m
      <2>b. /\ nextPositionId \in DOMAIN positions' /\ positions'[nextPositionId] = n
            /\ DOMAIN h = DOMAIN positions' \ {nextPositionId}
            /\ \A i \in DOMAIN positions' \ {nextPositionId} : h[i] = positions'[i]
            <3>1. positions' = Put(h, nextPositionId, n)
                  BY <2>6
            <3> QED BY <2>9, <3>1 DEF Put
      <2>10. /\ CostOf(positions') = CostOf(h) + Signed(n, n.basis)
             /\ FeeOf(positions') = FeeOf(h) + n.commission
             /\ NetOf(positions', n.symbol) = Signed(n, n.qty)
             /\ \A s : s # n.symbol => NetOf(positions', s) = NetOf(h, s)
             BY <2>5, <2>8, <2>9, <2>b, Opening
      <2>11. Signed(p, p.qty) + Signed(o, qty) = Signed(n, n.qty)
             BY <1>a, <2>4, <2>6, <2>8 DEF Signed, rest
      <2>12. n.basis \in Int /\ p.qty * price \in Int /\ m = n.basis + p.qty * price
             BY <1>a, <2>4, <2>7, <2>8 DEF m, rest
      <2>13. /\ Profit(p.side, p.qty, p.basis, price) =
                  Signed(n, n.basis) - Signed(o, m) - Signed(p, p.basis)
             /\ Signed(n, n.basis) \in Int /\ Signed(o, m) \in Int /\ Signed(p, p.basis) \in Int
             <3> DEFINE closed == p.qty * price
             <3>1. m = n.basis + closed /\ closed \in Int /\ n.basis \in Int
                   BY <2>12
             <3>2. Profit(p.side, p.qty, p.basis, price) =
                     IF p.side = "buy" THEN closed - p.basis ELSE p.basis - closed
                   BY DEF Profit
             <3> HIDE DEF closed
             <3>3. Signed(n, n.basis) = Signed(o, n.basis)
                   BY <2>a
             <3> QED BY <1>a, <2>4, <2>6, <3>1, <3>2, <3>3 DEF Signed
      <2>14. /\ NetOf(positions', o.symbol) = NetOf(positions, o.symbol) + Signed(o, qty)
             /\ \A s : s # o.symbol => NetOf(positions', s) = NetOf(positions, s)
             BY <2>3, <2>5, <2>8, <2>10, <2>11
      <2>15. charged' + FeeOf(positions') <= charged + FeeOf(positions) + fee
             BY <1>c, <2>2, <2>4, <2>5, <2>8, <2>10
      <2>16. balance' + charged' - CostOf(positions') =
               balance + charged - CostOf(positions) - Signed(o, m)
             BY <1>c, <2>2, <2>5, <2>6, <2>10, <2>13
      <2> QED BY <2>14, <2>15, <2>16 DEF m
<1> QED BY <1>1, <1>2, <1>3, <1>4, <1>5 DEF UpdatePosition

-----------------------------------------------------------------------------
(* What the operations do to the account: exposure, cash and fees.         *)

\* Money, were every open unit valued at nothing and no fee ever taken; and the
\* fees that were taken or that the open positions are still to pay.
Cash == balance + charged - CostOf(positions)
Dues == charged + FeeOf(positions)

\* One fill of the order o, and an exit from all of a symbol.
Traded(o, qty, price) ==
  /\ NetOf(positions', o.symbol) = NetOf(positions, o.symbol) + Signed(o, qty)
  /\ \A s : s # o.symbol => NetOf(positions', s) = NetOf(positions, s)
  /\ Cash' = Cash - Signed(o, qty * price)

Exited(s, price) ==
  /\ NetOf(positions, s) \in Int \ {0}
  /\ NetOf(positions', s) = 0
  /\ \A t : t # s => NetOf(positions', t) = NetOf(positions, t)
  /\ Cash' = Cash + NetOf(positions, s) * price

Stood ==
  /\ \A s : NetOf(positions', s) = NetOf(positions, s)
  /\ Cash' = Cash
  /\ Dues' = Dues

LEMMA AccountTypes ==
  ASSUME PositionBookOK
  PROVE  Cash \in Int /\ Dues \in Nat
<1>1. CostOf(positions) \in Int /\ FeeOf(positions) \in Nat
      BY PositionsAreABook, TotalsType
<1> QED BY <1>1 DEF Cash, Dues, PositionBookOK

\* What grows by no more than another grows stays below it.
LEMMA AddedAlike ==
  ASSUME NEW a \in Int, NEW x \in Int, NEW d \in Int, NEW e \in Int, e <= d + x
  PROVE  e + a <= d + (a + x)
OBVIOUS

LEMMA NothingStood ==
  ASSUME UNCHANGED <<positions, balance, charged>>
  PROVE  Stood
BY DEF Stood, Cash, Dues

\* A market fill trades at a price the slippage allows, and the fees grow by no
\* more than the fee of this fill.
LEMMA ExecuteTrades ==
  ASSUME PositionBookOK, quotes \in [Symbols -> Quotes], accrued \in Nat,
         NEW id, NEW o \in PaperOrder, ExecuteMarket(id, o)
  PROVE  /\ \E slippage \in Slippages, qty \in FillQuantities(o.qty) :
              LET price == FillPrice(o.side, quotes[o.symbol], slippage)
              IN /\ orders' = Put(orders, id, Filled(o, qty, price))
                 /\ Traded(o, qty, price)
         /\ Dues' + accrued <= Dues + accrued'
<1>1. PICK slippage \in Slippages, qty \in FillQuantities(o.qty) :
        LET price == FillPrice(o.side, quotes[o.symbol], slippage)
            fee == Commission(qty, price)
        IN /\ orders' = Put(orders, id, Filled(o, qty, price))
           /\ UpdatePosition(o, qty, price, fee)
           /\ accrued' = accrued + fee
      BY DEF ExecuteMarket
<1> DEFINE price == FillPrice(o.side, quotes[o.symbol], slippage)
           fee == Commission(qty, price)
<1>2. o.side \in Sides /\ o.symbol \in Symbols /\ o.qty \in Nat \ {0}
      BY DEF PaperOrder
<1>3. price \in Nat \ {0}
      BY <1>2, FillPriceType
<1>4. qty \in Nat \ {0}
      BY <1>2 DEF FillQuantities
<1>5. /\ orders' = Put(orders, id, Filled(o, qty, price))
      /\ UpdatePosition(o, qty, price, fee)
      /\ accrued' = accrued + fee
      BY <1>1
<1> HIDE DEF price
<1>6. fee \in Nat
      BY <1>3, <1>4, CommissionType
<1> HIDE DEF fee
<1>7. /\ NetOf(positions', o.symbol) = NetOf(positions, o.symbol) + Signed(o, qty)
      /\ \A s : s # o.symbol => NetOf(positions', s) = NetOf(positions, s)
      /\ balance' + charged' - CostOf(positions') =
           balance + charged - CostOf(positions) - Signed(o, qty * price)
      /\ charged' + FeeOf(positions') <= charged + FeeOf(positions) + fee
      BY <1>3, <1>4, <1>5, <1>6, NettingTrades
<1>8. PositionBookOK'
      BY <1>3, <1>4, <1>5, <1>6, NettingOK
<1>9. Book(positions') /\ balance' \in Int /\ charged' \in Nat
      BY <1>8, NumberedBook DEF PositionBookOK, OnePositionPerSymbol
<1>10. CostOf(positions') \in Int /\ FeeOf(positions') \in Nat
      BY <1>9, TotalsType
<1>11. Traded(o, qty, price)
      <2> DEFINE total == qty * price
      <2>1. Signed(o, total) \in Int
            BY <1>3, <1>4, SignedType
      <2>2. balance \in Int /\ charged \in Int /\ CostOf(positions) \in Int
            BY PositionsAreABook, TotalsType DEF PositionBookOK
      <2>3. balance' + charged' - CostOf(positions') =
              balance + charged - CostOf(positions) - Signed(o, total)
            BY <1>7
      <2> HIDE DEF total
      <2>4. Cash' = Cash - Signed(o, total)
            BY <1>9, <1>10, <2>1, <2>2, <2>3 DEF Cash
      <2> QED BY <1>7, <2>4, Zenon DEF Traded, total
<1>12. Dues' + accrued <= Dues + accrued'
      <2>1. Dues \in Int /\ Dues' \in Int
            BY <1>9, <1>10, AccountTypes DEF Dues
      <2>2. Dues' <= Dues + fee
            BY <1>7 DEF Dues
      <2>3. accrued' = accrued + fee /\ accrued' \in Int
            BY <1>5, <1>6
      <2>4. accrued \in Int /\ fee \in Int
            BY <1>6
      <2> QED BY <2>1, <2>2, <2>3, <2>4, AddedAlike, Zenon
<1> QED BY <1>5, <1>11, <1>12 DEF price

\* An exit at a price gives up the whole exposure, and takes the fee the position
\* was carrying.
LEMMA ExitTrades ==
  ASSUME PositionBookOK, NEW id \in DOMAIN positions, NEW price \in Nat, Exit(id, price)
  PROVE  /\ Exited(positions[id].symbol, price)
         /\ NetOf(positions, positions[id].symbol) > 0 <=> positions[id].side = "buy"
         /\ Dues' = Dues
<1> DEFINE p == positions[id]
<1>1. Book(positions)
      BY PositionsAreABook
<1>2. p.side \in Sides /\ p.qty \in Nat \ {0} /\ p.basis \in Int /\ p.commission \in Nat
      BY PositionParts DEF PositionBookOK
<1>3. /\ balance' = balance + Profit(p.side, p.qty, p.basis, price) - p.commission
      /\ charged' = charged + p.commission
      BY DEF Exit
<1>4. /\ DOMAIN positions' = DOMAIN positions \ {id}
      /\ \A i \in DOMAIN positions \ {id} : positions'[i] = positions[i]
      BY DEF Exit, Drop
<1> HIDE DEF p
<1>5. /\ CostOf(positions') = CostOf(positions) - Signed(p, p.basis)
      /\ FeeOf(positions') = FeeOf(positions) - p.commission
      /\ NetOf(positions, p.symbol) = Signed(p, p.qty)
      /\ NetOf(positions', p.symbol) = 0
      /\ \A s : s # p.symbol => NetOf(positions', s) = NetOf(positions, s)
      BY <1>1, <1>4, Dropping DEF p
<1>6. /\ CostOf(positions) \in Int /\ FeeOf(positions) \in Int
      /\ balance \in Int /\ charged \in Int
      BY <1>1, TotalsType DEF PositionBookOK
<1>7. /\ Signed(p, p.qty) \in Int \ {0} /\ Signed(p, p.basis) \in Int
      /\ Signed(p, p.qty) > 0 <=> p.side = "buy"
      BY <1>2 DEF Signed
<1> DEFINE sum == p.qty * price
<1>8. sum \in Int /\ Signed(p, p.qty) * price = Signed(p, sum)
      BY <1>2 DEF Signed
<1>9. Profit(p.side, p.qty, p.basis, price) = Signed(p, sum) - Signed(p, p.basis)
      <2>1. Profit(p.side, p.qty, p.basis, price) =
              IF p.side = "buy" THEN sum - p.basis ELSE p.basis - sum
            BY DEF Profit
      <2> HIDE DEF sum
      <2> QED BY <1>2, <1>8, <2>1 DEF Signed
<1>10. Signed(p, sum) \in Int
      BY <1>8, SignedType
<1> HIDE DEF sum
<1>11. Dues' = Dues
      BY <1>2, <1>3, <1>5, <1>6 DEF Dues
<1>12. Cash' = Cash + Signed(p, sum)
      BY <1>2, <1>3, <1>5, <1>6, <1>7, <1>9, <1>10 DEF Cash
<1>13. Exited(p.symbol, price)
      <2>1. Cash' = Cash + NetOf(positions, p.symbol) * price
            BY <1>5, <1>8, <1>12, Zenon
      <2> QED BY <1>5, <1>7, <2>1 DEF Exited
<1> QED BY <1>5, <1>7, <1>11, <1>13 DEF p

\* Trailing a stop loss moves nothing but the stop loss.
LEMMA TrailStood ==
  ASSUME PositionBookOK, NEW id \in DOMAIN positions, NEW q \in Quotes,
         DOMAIN positions' = DOMAIN positions, positions'[id] = Trailed(positions[id], q),
         \A i \in DOMAIN positions \ {id} : positions'[i] = positions[i],
         UNCHANGED <<balance, charged>>
  PROVE  Stood
<1> DEFINE p == positions[id]
           n == Trailed(p, q)
<1>1. Book(positions)
      BY PositionsAreABook
<1>2. p \in PaperPosition
      BY DEF PositionBookOK
<1>3. n \in PaperPosition /\ n.symbol = p.symbol
      BY <1>2, TrailedType
<1>4. /\ n.side = p.side /\ n.qty = p.qty /\ n.basis = p.basis
      /\ n.commission = p.commission
      <2> HIDE DEF p
      <2> QED BY <1>2 DEF Trailed, PaperPosition
<1>5. /\ DOMAIN positions' = DOMAIN positions /\ positions'[id] = n
      /\ \A i \in DOMAIN positions \ {id} : positions'[i] = positions[i]
      OBVIOUS
<1> HIDE DEF n
<1>6. /\ CostOf(positions') = CostOf(positions) + Signed(n, n.basis) - Signed(p, p.basis)
      /\ FeeOf(positions') = FeeOf(positions) + n.commission - p.commission
      /\ NetOf(positions, n.symbol) = Signed(p, p.qty)
      /\ NetOf(positions', n.symbol) = Signed(n, n.qty)
      /\ \A s : s # n.symbol => NetOf(positions', s) = NetOf(positions, s)
      BY <1>1, <1>3, <1>5, Changing
<1> HIDE DEF p
<1>7. \A x : Signed(n, x) = Signed(p, x)
      BY <1>4, SameSide
<1>8. p.basis \in Int /\ p.commission \in Int
      BY <1>2, PositionParts
<1>9. Signed(p, p.basis) \in Int
      BY <1>8, SignedType
<1>10. CostOf(positions) \in Int /\ FeeOf(positions) \in Int
      BY <1>1, TotalsType
<1>11. CostOf(positions') = CostOf(positions) /\ FeeOf(positions') = FeeOf(positions)
      BY <1>4, <1>6, <1>7, <1>8, <1>9, <1>10
<1> QED BY <1>4, <1>6, <1>7, <1>11 DEF Stood, Cash, Dues

LEMMA EmptyBook ==
  /\ CostOf(<< >>) = 0 /\ FeeOf(<< >>) = 0
  /\ \A s : NetOf(<< >>, s) = 0
<1>1. DOMAIN << >> = {}
      OBVIOUS
<1>2. \A s : {id \in DOMAIN << >> : << >>[id].symbol = s} = {}
      BY <1>1
<1> QED BY <1>1, <1>2, SumEmpty DEF CostOf, FeeOf, NetOf

\* The cases of a quote.
LEMMA IngestTrades ==
  ASSUME PositionBookOK, NEW s \in Symbols, NEW q \in Quotes, IngestQuote(s, q)
  PROVE  \/ Stood
         \/ /\ Dues' = Dues
            /\ \E price : /\ Exited(s, price)
                          /\ price = IF NetOf(positions, s) > 0 THEN q.bid ELSE q.ask
<1>1. CASE UNCHANGED <<positions, balance, charged>>
      BY <1>1, NothingStood
<1>2. ASSUME NEW id \in HeldIn(s),
             positions' = [positions EXCEPT ![id] = Trailed(@, q)],
             UNCHANGED <<balance, charged>>
      PROVE  Stood
      <2>1. id \in DOMAIN positions
            BY DEF HeldIn
      <2>2. /\ DOMAIN positions' = DOMAIN positions
            /\ positions'[id] = Trailed(positions[id], q)
            /\ \A i \in DOMAIN positions \ {id} : positions'[i] = positions[i]
            BY <1>2, <2>1
      <2> QED BY <1>2, <2>1, <2>2, TrailStood
<1>3. ASSUME NEW id \in HeldIn(s), Exit(id, ClosePrice(positions[id].side, q))
      PROVE  /\ Dues' = Dues
             /\ \E price : /\ Exited(s, price)
                           /\ price = IF NetOf(positions, s) > 0 THEN q.bid ELSE q.ask
      <2> DEFINE price == ClosePrice(positions[id].side, q)
      <2>1. id \in DOMAIN positions /\ positions[id].symbol = s /\ positions[id].side \in Sides
            BY PositionParts DEF HeldIn, PositionBookOK
      <2>2. price \in Nat \ {0}
            BY <2>1, ClosePriceType
      <2>3. price = IF positions[id].side = "buy" THEN q.bid ELSE q.ask
            BY DEF ClosePrice
      <2>4. Exit(id, price)
            BY <1>3
      <2> HIDE DEF price
      <2>5. /\ Exited(s, price)
            /\ NetOf(positions, s) > 0 <=> positions[id].side = "buy"
            /\ Dues' = Dues
            BY <2>1, <2>2, <2>4, ExitTrades
      <2> QED BY <2>3, <2>5
<1> QED BY <1>1, <1>2, <1>3 DEF IngestQuote

LEMMA CloseTrades ==
  ASSUME Inv, NEW c \in Calls, ClosePosition(c)
  PROVE  /\ Dues' = Dues
         /\ \E s \in Symbols : \E price :
              /\ Exited(s, price)
              /\ price = IF NetOf(positions, s) > 0 THEN quotes[s].bid ELSE quotes[s].ask
<1>1. PICK id \in DOMAIN positions :
        Exit(id, ClosePrice(positions[id].side, quotes[positions[id].symbol]))
      BY DEF ClosePosition
<1> DEFINE s == positions[id].symbol
           price == ClosePrice(positions[id].side, quotes[s])
<1>2. s \in Symbols /\ positions[id].side \in Sides
      BY PositionParts DEF Inv, PositionBookOK
<1>3. quotes[s] \in Quotes
      BY <1>2 DEF Inv, EnvironmentOK
<1> HIDE DEF s
<1>4. price \in Nat \ {0}
      BY <1>2, <1>3, ClosePriceType
<1>5. price = IF positions[id].side = "buy" THEN quotes[s].bid ELSE quotes[s].ask
      BY DEF ClosePrice
<1>6. Exit(id, price)
      BY <1>1 DEF s
<1> HIDE DEF price
<1>7. /\ Exited(s, price)
      /\ NetOf(positions, s) > 0 <=> positions[id].side = "buy"
      /\ Dues' = Dues
      BY <1>4, <1>6, ExitTrades DEF s, Inv
<1> QED BY <1>2, <1>5, <1>7

-----------------------------------------------------------------------------
(* Fees.                                                                   *)

\* FeesAreTakenOnce is not inductive: closing a position takes the fee it
\* carries.  What is inductive counts those fees too.
FeesCovered == Dues <= accrued

LEMMA ExecuteCovers ==
  ASSUME Inv, FeesCovered, NEW id, NEW o \in PaperOrder, ExecuteMarket(id, o)
  PROVE  FeesCovered'
<1>1. Dues' + accrued <= Dues + accrued'
      BY ExecuteTrades DEF Inv, OrderBookOK, EnvironmentOK
<1>2. PositionBookOK' /\ accrued' \in Nat
      BY ExecuteOK DEF Inv, OrderBookOK, EnvironmentOK
<1>3. Book(positions') /\ charged' \in Nat
      BY <1>2, NumberedBook DEF PositionBookOK, OnePositionPerSymbol
<1>4. FeeOf(positions') \in Nat
      BY <1>3, TotalsType
<1>5. Dues' \in Int
      BY <1>3, <1>4 DEF Dues
<1>6. Dues \in Int
      BY AccountTypes DEF Inv
<1>7. accrued \in Int /\ accrued' \in Int
      BY <1>2 DEF Inv, OrderBookOK
<1>8. \A a, b, d, e \in Int : d <= a /\ e + a <= d + b => e <= b
      OBVIOUS
<1> QED BY <1>1, <1>5, <1>6, <1>7, <1>8, Zenon DEF FeesCovered

LEMMA FeesStep ==
  ASSUME Inv, FeesCovered, [Next]_vars
  PROVE  FeesCovered'
<1>1. CASE Dues' = Dues /\ UNCHANGED accrued
      BY <1>1, Zenon DEF FeesCovered
<1>2. CASE UNCHANGED <<positions, charged, accrued>>
      BY <1>2 DEF FeesCovered, Dues
<1>3. CASE \E c \in Calls : Submit(c)
      <2>1. PICK r \in Requests : \/ FillNow(Registered(r))
                                  \/ UNCHANGED <<positions, charged, accrued>>
            BY <1>3 DEF Submit, SubmitMarket, SubmitLimit, SubmitStop, SubmitTrailingStop,
                        SubmitRejected, Rest
      <2>2. Registered(r) \in PaperOrder
            BY RegisteredType
      <2> QED BY <1>2, <2>1, <2>2, ExecuteCovers DEF FillNow
<1>4. CASE FireNext
      <2>1. PICK k \in DOMAIN firing : ExecuteMarket(k, firing[k])
            BY <1>4 DEF FireNext, FirstOf
      <2>2. firing[k] \in PaperOrder
            BY <2>1 DEF Inv, OrderBookOK, RestingOrdersAgree
      <2> QED BY <2>1, <2>2, ExecuteCovers
<1>5. CASE \E c \in Calls : ClosePosition(c)
      <2>1. Dues' = Dues
            BY <1>5, CloseTrades
      <2>2. UNCHANGED accrued
            BY <1>5 DEF ClosePosition
      <2> QED BY <1>1, <2>1, <2>2
<1>6. ASSUME NEW s \in Symbols, NEW q \in Quotes, IngestQuote(s, q)
      PROVE  FeesCovered'
      <2>1. Dues' = Dues
            BY <1>6, IngestTrades DEF Inv, Stood
      <2>2. UNCHANGED accrued
            BY <1>6 DEF IngestQuote
      <2> QED BY <1>1, <2>1, <2>2
<1>7. CASE ResetAccount
      <2>1. positions' = << >> /\ charged' = 0 /\ accrued' = 0
            BY <1>7 DEF ResetAccount
      <2>2. FeeOf(positions') = 0
            BY <2>1, EmptyBook
      <2> QED BY <2>1, <2>2 DEF FeesCovered, Dues
<1>8. CASE \/ Connect \/ Disconnect
           \/ \E c \in Calls, op \in Operations : BeginCall(c, op)
           \/ \E c \in Calls : Modify(c)
           \/ \E c \in Calls : Cancel(c)
           \/ \E c \in Calls : Refused(c)
           \/ UNCHANGED vars
      <2>1. UNCHANGED <<positions, charged, accrued>>
            BY <1>8 DEF Connect, Disconnect, BeginCall, Modify, Cancel, Refused, vars, book
      <2> QED BY <1>2, <2>1
<1> QED BY <1>3, <1>4, <1>5, <1>6, <1>7, <1>8 DEF Next

\* Whatever is netted, reversed or closed in between, the balance has paid no more
\* in fees than the fills since the reset have cost.
THEOREM FeesCorrect == Spec => []FeesAreTakenOnce
<1>1. Init => FeesCovered
      <2> SUFFICES ASSUME Init PROVE FeesCovered
          OBVIOUS
      <2>1. FeeOf(positions) = 0
            BY EmptyBook DEF Init
      <2> QED BY <2>1 DEF Init, FeesCovered, Dues
<1>2. Inv /\ FeesCovered => FeesAreTakenOnce
      <2> SUFFICES ASSUME Inv, FeesCovered PROVE FeesAreTakenOnce
          OBVIOUS
      <2>1. charged \in Int /\ accrued \in Int /\ FeeOf(positions) \in Nat
            BY PositionsAreABook, TotalsType DEF Inv, PositionBookOK, OrderBookOK
      <2>2. \A a, b, x \in Int : x \in Nat /\ a + x <= b => a <= b
            OBVIOUS
      <2> QED BY <2>1, <2>2 DEF FeesCovered, Dues, FeesAreTakenOnce
<1>3. Inv /\ FeesCovered /\ [Next]_vars => FeesCovered'
      BY FeesStep
<1> QED BY <1>1, <1>2, <1>3, Coherent, PTL DEF Spec

-----------------------------------------------------------------------------
(* The refinement of the ledger.                                           *)

\* The quantities an order may have: those it was submitted with or amended to.
LotSizes == {r.qty : r \in Requests} \cup {a.qty : a \in Amendments}
LotsOK == \A id \in DOMAIN orders : orders[id].qty \in LotSizes

LEMMA SubmitLots ==
  ASSUME LotsOK, NEW c \in Calls, Submit(c)
  PROVE  LotsOK'
<1>1. PICK r \in Requests : \E n : orders' = Put(orders, nextOrderId, n) /\ n.qty = r.qty
      <2>1. PICK r \in Requests :
              \/ SubmitMarket(r)
              \/ SubmitLimit(r)
              \/ SubmitStop(r)
              \/ SubmitTrailingStop(r)
              \/ SubmitRejected(r)
            BY DEF Submit
      <2>2. ASSUME NEW o, FillNow(o), o = Registered(r)
            PROVE  \E n : orders' = Put(orders, nextOrderId, n) /\ n.qty = r.qty
            <3>1. PICK qty, price : orders' = Put(orders, nextOrderId, Filled(o, qty, price))
                  BY <2>2 DEF FillNow, ExecuteMarket
            <3>2. Filled(o, qty, price).qty = r.qty
                  BY <2>2 DEF Filled, Registered
            <3> QED BY <3>1, <3>2
      <2>3. ASSUME NEW price, NEW stop, NEW sl, NEW tp, Rest(Resting(r, price, stop, sl, tp))
            PROVE  \E n : orders' = Put(orders, nextOrderId, n) /\ n.qty = r.qty
            BY <2>3 DEF Rest, Resting
      <2>4. CASE SubmitRejected(r)
            BY <2>4 DEF SubmitRejected, Registered
      <2> QED BY <2>1, <2>2, <2>3, <2>4 DEF SubmitMarket, SubmitLimit, SubmitStop,
                                            SubmitTrailingStop
<1>2. r.qty \in LotSizes
      BY DEF LotSizes
<1> QED BY <1>1, <1>2 DEF LotsOK, Put

LEMMA LotsStep ==
  ASSUME Inv, LotsOK, [Next]_vars
  PROVE  LotsOK'
<1>1. CASE UNCHANGED orders
      BY <1>1 DEF LotsOK
<1>2. CASE \E c \in Calls : Submit(c)
      BY <1>2, SubmitLots
<1>3. CASE \E c \in Calls : Modify(c)
      <2>1. PICK k \in DOMAIN orders, a \in Amendments :
              orders' = [orders EXCEPT ![k] = Amended(@, a)]
            BY <1>3 DEF Modify
      <2>2. Amended(orders[k], a).qty \in {a.qty, orders[k].qty}
            BY DEF Amended, Given
      <2>3. a.qty \in LotSizes
            BY DEF LotSizes
      <2> QED BY <2>1, <2>2, <2>3 DEF LotsOK
<1>4. CASE \E c \in Calls : Cancel(c)
      <2>1. PICK k \in DOMAIN orders : orders' = [orders EXCEPT ![k] = Cancelled(@)]
            BY <1>4 DEF Cancel
      <2>2. Cancelled(orders[k]).qty = orders[k].qty
            BY DEF Cancelled
      <2> QED BY <2>1, <2>2 DEF LotsOK
<1>5. CASE FireNext
      <2>1. PICK k \in DOMAIN firing : \E qty, price :
              orders' = Put(orders, k, Filled(firing[k], qty, price))
            BY <1>5 DEF FireNext, FirstOf, ExecuteMarket
      <2>2. k \in DOMAIN orders /\ firing[k] = orders[k]
            BY DEF Inv, OrderBookOK, RestingOrdersAgree
      <2>3. ASSUME NEW qty, NEW price
            PROVE  Filled(firing[k], qty, price).qty = orders[k].qty
            BY <2>2 DEF Filled
      <2> QED BY <2>1, <2>2, <2>3 DEF LotsOK, Put
<1>6. CASE ResetAccount
      <2>1. DOMAIN << >> = {}
            OBVIOUS
      <2> QED BY <1>6, <2>1 DEF ResetAccount, LotsOK
<1>7. CASE \/ Connect \/ Disconnect
           \/ \E c \in Calls, op \in Operations : BeginCall(c, op)
           \/ \E c \in Calls : ClosePosition(c)
           \/ \E c \in Calls : Refused(c)
           \/ \E s \in Symbols, q \in Quotes : IngestQuote(s, q)
           \/ UNCHANGED vars
      <2>1. UNCHANGED orders
            BY <1>7 DEF Connect, Disconnect, BeginCall, ClosePosition, Refused,
                        IngestQuote, vars, book
      <2> QED BY <1>1, <2>1
<1> QED BY <1>2, <1>3, <1>4, <1>5, <1>6, <1>7 DEF Next

\* What an order is filled with is a lot of the ledger.
LEMMA FillsAreLots ==
  ASSUME NEW size \in LotSizes, size \in Nat \ {0}, NEW lot \in FillQuantities(size)
  PROVE  lot \in Lots
<1>1. lot \in 1..size
      BY DEF FillQuantities
<1>2. CASE size \in {r.qty : r \in Requests}
      <2>1. PICK r \in Requests : size = r.qty
            BY <1>2
      <2> QED BY <1>1, <2>1 DEF Lots
<1>3. CASE size \in {a.qty : a \in Amendments}
      <2>1. PICK a \in Amendments : size = a.qty
            BY <1>3
      <2>2. 1..size \in {1..b.qty : b \in Amendments}
            BY <2>1
      <2>3. lot \in UNION {1..b.qty : b \in Amendments}
            BY <1>1, <2>2
      <2> QED BY <2>3 DEF Lots
<1> QED BY <1>2, <1>3 DEF LotSizes

\* The ledger's variables in the terms of the sums over the book.
LEMMA BarIs ==
  /\ \A s : NetIn(s) = NetOf(positions, s)
  /\ CostOfBook = CostOf(positions)
BY DEF NetIn, NetOf, Nets, NetsOf, CostOfBook, CostOf, Costs, CostsOf, HeldIn

LEMMA NextBarIs ==
  /\ \A s : NetIn(s)' = NetOf(positions', s)
  /\ CostOfBook' = CostOf(positions')
BY DEF NetIn, NetOf, Nets, NetsOf, CostOfBook, CostOf, Costs, CostsOf, HeldIn

\* The prices of a fill are the ledger's.
LEMMA PricesOffered ==
  ASSUME NEW s \in Symbols, NEW x \in Slippages, quotes \in [Symbols -> Quotes]
  PROVE  /\ FillPrice("buy", quotes[s], x) \in Ledger!BuyPrices(s)
         /\ FillPrice("sell", quotes[s], x) \in Ledger!SellPrices(s)
<1>1. quotes[s].bid \in Int /\ quotes[s].ask \in Int /\ x \in Int
      BY DEF Quote
<1>2. FillPrice("buy", quotes[s], x) = quotes[s].ask + x
      BY DEF FillPrice
<1>3. FillPrice("sell", quotes[s], x) =
        IF quotes[s].bid - x >= 1 THEN quotes[s].bid - x ELSE 1
      BY <1>1 DEF FillPrice, Larger
<1> QED BY <1>2, <1>3 DEF Ledger!BuyPrices, Ledger!SellPrices

\* Steps that neither trade nor register an order stutter.
LEMMA StoodStutters ==
  ASSUME Stood, UNCHANGED <<quotes, orders>>
  PROVE  UNCHANGED Ledger!vars
<1>1. Cash' = Cash /\ \A s : NetOf(positions', s) = NetOf(positions, s)
      BY DEF Stood
<1>2. (balance + charged - CostOfBook)' = balance + charged - CostOfBook
      BY <1>1, BarIs, NextBarIs DEF Cash
<1>3. [s \in Symbols |-> NetIn(s)]' = [s \in Symbols |-> NetIn(s)]
      BY <1>1, BarIs, NextBarIs
<1>4. [id \in DOMAIN orders |-> orders[id].filled]' = [id \in DOMAIN orders |-> orders[id].filled]
      OBVIOUS
<1> QED BY <1>2, <1>3, <1>4 DEF Ledger!vars

\* A fill is priced as the ledger allows.
LEMMA FillPriceOffered ==
  ASSUME quotes \in [Symbols -> Quotes], NEW o \in PaperOrder, NEW x \in Slippages
  PROVE  /\ FillPrice(o.side, quotes[o.symbol], x) \in Nat
         /\ o.side = "buy" => FillPrice(o.side, quotes[o.symbol], x) \in Ledger!BuyPrices(o.symbol)
         /\ o.side = "sell" => FillPrice(o.side, quotes[o.symbol], x) \in Ledger!SellPrices(o.symbol)
<1>1. o.symbol \in Symbols /\ o.side \in Sides /\ quotes[o.symbol] \in Quotes
      BY DEF PaperOrder
<1>2. FillPrice(o.side, quotes[o.symbol], x) \in Nat \ {0}
      BY <1>1, FillPriceType
<1>3. /\ FillPrice("buy", quotes[o.symbol], x) \in Ledger!BuyPrices(o.symbol)
      /\ FillPrice("sell", quotes[o.symbol], x) \in Ledger!SellPrices(o.symbol)
      BY <1>1, PricesOffered
<1> QED BY <1>2, <1>3

\* A trade moves the ledger's exposure and its cash.
LEMMA TradeMoves ==
  ASSUME Inv, NEW o \in PaperOrder, NEW lot \in Nat, NEW price, Traded(o, lot, price)
  PROVE  /\ \A t : NetIn(t)' = IF t = o.symbol THEN NetIn(t) + Signed(o, lot) ELSE NetIn(t)
         /\ NetIn(o.symbol) \in Int
         /\ balance + charged - CostOfBook \in Int
         /\ (balance + charged - CostOfBook)' =
              (balance + charged - CostOfBook) - Signed(o, lot * price)
<1> DEFINE s == o.symbol
<1>1. NetOf(positions, s) \in Int
      <2>1. Book(positions)
            BY PositionsAreABook DEF Inv
      <2>2. IsFiniteSet({i \in DOMAIN positions : positions[i].symbol = s})
            BY <2>1, FS_Subset DEF Book
      <2>3. \A i \in {j \in DOMAIN positions : positions[j].symbol = s} : NetsOf(positions)[i] \in Int
            BY <2>1, PartsType
      <2> QED BY <2>2, <2>3, SumTakesOut DEF NetOf
<1>2. balance + charged - CostOfBook = Cash
      BY BarIs DEF Cash
<1>3. (balance + charged - CostOfBook)' = Cash'
      BY NextBarIs DEF Cash
<1>4. Cash \in Int
      BY AccountTypes DEF Inv
<1>5. Cash' = Cash - Signed(o, lot * price)
      BY DEF Traded
<1>6. \A t : NetIn(t)' = IF t = s THEN NetIn(t) + Signed(o, lot) ELSE NetIn(t)
      BY BarIs, NextBarIs DEF Traded
<1>7. NetIn(s) \in Int
      BY <1>1, BarIs
<1> HIDE DEF Cash
<1> QED BY <1>2, <1>3, <1>4, <1>5, <1>6, <1>7

LEMMA TakeAway ==
  ASSUME NEW a \in Int, NEW b \in Int
  PROVE  a + (-b) = a - b /\ a - (-b) = a + b
OBVIOUS

\* A purchase, and a sale, of one lot in the ledger's terms.
LEMMA BuyMoves ==
  ASSUME Inv, NEW o \in PaperOrder, NEW lot \in Nat, NEW price \in Nat,
         Traded(o, lot, price), o.side = "buy"
  PROVE  /\ [t \in Symbols |-> NetIn(t)]' =
              [[t \in Symbols |-> NetIn(t)] EXCEPT ![o.symbol] = @ + lot]
         /\ (balance + charged - CostOfBook)' = (balance + charged - CostOfBook) - lot * price
<1>1. Signed(o, lot) = lot /\ Signed(o, lot * price) = lot * price
      BY DEF Signed
<1>2. \A t : NetIn(t)' = IF t = o.symbol THEN NetIn(t) + lot ELSE NetIn(t)
      BY <1>1, TradeMoves
<1>3. [t \in Symbols |-> NetIn(t)]' =
        [[t \in Symbols |-> NetIn(t)] EXCEPT ![o.symbol] = @ + lot]
      BY <1>2
<1> QED BY <1>1, <1>3, TradeMoves

LEMMA SellMoves ==
  ASSUME Inv, NEW o \in PaperOrder, NEW lot \in Nat, NEW price \in Nat,
         Traded(o, lot, price), o.side = "sell"
  PROVE  /\ [t \in Symbols |-> NetIn(t)]' =
              [[t \in Symbols |-> NetIn(t)] EXCEPT ![o.symbol] = @ - lot]
         /\ (balance + charged - CostOfBook)' = (balance + charged - CostOfBook) + lot * price
<1> DEFINE total == lot * price
<1>1. Signed(o, lot) = -lot /\ Signed(o, total) = -total
      BY DEF Signed
<1>2. total \in Int
      OBVIOUS
<1> HIDE DEF total
<1>3. NetIn(o.symbol) + (-lot) = NetIn(o.symbol) - lot
      BY TradeMoves, TakeAway
<1>4. \A t : NetIn(t)' = IF t = o.symbol THEN NetIn(t) - lot ELSE NetIn(t)
      BY <1>1, <1>3, TradeMoves
<1>5. [t \in Symbols |-> NetIn(t)]' =
        [[t \in Symbols |-> NetIn(t)] EXCEPT ![o.symbol] = @ - lot]
      BY <1>4
<1>6. (balance + charged - CostOfBook)' = (balance + charged - CostOfBook) - Signed(o, total)
      BY TradeMoves DEF total
<1>7. balance + charged - CostOfBook \in Int
      BY TradeMoves
<1>8. (balance + charged - CostOfBook) - (-total) = (balance + charged - CostOfBook) + total
      BY <1>2, <1>7, TakeAway
<1> QED BY <1>1, <1>5, <1>6, <1>8 DEF total

\* What a fill records.
LEMMA FillExecutes ==
  ASSUME NEW id, NEW o \in PaperOrder, NEW lot, NEW price,
         id \in DOMAIN orders => orders[id].filled = 0,
         orders' = Put(orders, id, Filled(o, lot, price))
  PROVE  Ledger!Executes(id, lot)
<1>1. Filled(o, lot, price).filled = lot
      BY DEF Filled, PaperOrder
<1>2. /\ DOMAIN orders' = DOMAIN orders \cup {id}
      /\ orders'[id].filled = lot
      /\ \A i \in DOMAIN orders \ {id} : orders'[i] = orders[i]
      BY <1>1 DEF Put
<1>3. [i \in DOMAIN orders |-> orders[i].filled]' =
        [i \in DOMAIN orders \cup {id} |->
           IF i = id THEN lot ELSE [j \in DOMAIN orders |-> orders[j].filled][i]]
      BY <1>2
<1> QED BY <1>3 DEF Ledger!Executes

\* A fill executes its order for one lot, at a price of the ledger, if the order
\* is not in its records yet or has not been executed.
LEMMA TradeRefines ==
  ASSUME Inv, NEW id, NEW o \in PaperOrder,
         id \in FirstOrderId..(FirstOrderId + MaxOrders - 1), o.qty \in LotSizes,
         id \in DOMAIN orders => orders[id].filled = 0,
         ExecuteMarket(id, o), UNCHANGED quotes
  PROVE  Ledger!Next
<1>0. quotes \in [Symbols -> Quotes]
      BY DEF Inv, EnvironmentOK
<1>1. PICK slippage \in Slippages, lot \in FillQuantities(o.qty) :
        LET price == FillPrice(o.side, quotes[o.symbol], slippage)
        IN /\ orders' = Put(orders, id, Filled(o, lot, price))
           /\ Traded(o, lot, price)
      BY ExecuteTrades DEF Inv, EnvironmentOK, OrderBookOK
<1>2. PICK price :
        /\ price = FillPrice(o.side, quotes[o.symbol], slippage)
        /\ orders' = Put(orders, id, Filled(o, lot, price))
        /\ Traded(o, lot, price)
      BY <1>1
<1>3. /\ price \in Nat
      /\ o.side = "buy" => price \in Ledger!BuyPrices(o.symbol)
      /\ o.side = "sell" => price \in Ledger!SellPrices(o.symbol)
      BY <1>0, <1>2, FillPriceOffered
<1>4. o.symbol \in Symbols /\ o.side \in Sides /\ o.qty \in Nat \ {0}
      BY DEF PaperOrder
<1>5. lot \in Lots /\ lot \in Nat
      BY <1>4, FillsAreLots DEF FillQuantities
<1>6. Ledger!Executes(id, lot)
      BY <1>2, FillExecutes
<1>7. CASE o.side = "buy"
      <2>1. Ledger!Buy(id, o.symbol, lot)
            BY <1>2, <1>3, <1>5, <1>6, <1>7, BuyMoves DEF Ledger!Buy
      <2> QED BY <1>4, <1>5, <2>1 DEF Ledger!Next
<1>8. CASE o.side = "sell"
      <2>1. Ledger!Sell(id, o.symbol, lot)
            BY <1>2, <1>3, <1>5, <1>6, <1>8, SellMoves DEF Ledger!Sell
      <2> QED BY <1>4, <1>5, <2>1 DEF Ledger!Next
<1> QED BY <1>4, <1>7, <1>8 DEF Sides

\* An order that rests or is refused is registered with nothing executed.
LEMMA RegisterRefines ==
  ASSUME Inv, NEW o, o.filled = 0, nextOrderId < FirstOrderId + MaxOrders,
         orders' = Put(orders, nextOrderId, o),
         UNCHANGED <<quotes, positions, balance, charged>>
  PROVE  Ledger!Next
<1> PICK id : id = nextOrderId
      OBVIOUS
<1>1. id \in FirstOrderId..(FirstOrderId + MaxOrders - 1) /\ id \notin DOMAIN orders
      BY NextIdIsFresh DEF Inv, OrderBookOK
<1>2. /\ DOMAIN orders' = DOMAIN orders \cup {id}
      /\ orders'[id].filled = 0
      /\ \A i \in DOMAIN orders : orders'[i] = orders[i]
      BY <1>1 DEF Put
<1>3. [i \in DOMAIN orders |-> orders[i].filled]' =
        [i \in DOMAIN orders \cup {id} |->
           IF i = id THEN 0 ELSE [j \in DOMAIN orders |-> orders[j].filled][i]]
      BY <1>1, <1>2
<1>4. /\ Cash' = Cash
      /\ \A s : NetOf(positions', s) = NetOf(positions, s)
      BY NothingStood DEF Stood
<1>5. /\ (balance + charged - CostOfBook)' = balance + charged - CostOfBook
      /\ [s \in Symbols |-> NetIn(s)]' = [s \in Symbols |-> NetIn(s)]
      BY <1>4, BarIs, NextBarIs DEF Cash
<1>6. Ledger!Register(id)
      BY <1>1, <1>3, <1>5 DEF Ledger!Register
<1> QED BY <1>1, <1>6 DEF Ledger!Next

LEMMA SubmitRefines ==
  ASSUME Inv, NEW c \in Calls, Submit(c)
  PROVE  Ledger!Next
<1>1. PICK r \in Requests :
        \/ SubmitMarket(r)
        \/ SubmitLimit(r)
        \/ SubmitStop(r)
        \/ SubmitTrailingStop(r)
        \/ SubmitRejected(r)
      BY DEF Submit
<1>2. /\ nextOrderId < FirstOrderId + MaxOrders /\ UNCHANGED quotes
      BY DEF Submit, Resume
<1>3. nextOrderId \in FirstOrderId..(FirstOrderId + MaxOrders - 1) /\ nextOrderId \notin DOMAIN orders
      BY <1>2, NextIdIsFresh DEF Inv, OrderBookOK
<1>4. /\ Registered(r) \in PaperOrder /\ Registered(r).filled = 0
      /\ Registered(r).qty \in LotSizes
      BY RegisteredType DEF Registered, LotSizes
<1>5. CASE FillNow(Registered(r))
      BY <1>2, <1>3, <1>4, <1>5, TradeRefines DEF FillNow
<1>6. ASSUME NEW price, NEW stop, NEW sl, NEW tp, Rest(Resting(r, price, stop, sl, tp))
      PROVE  Ledger!Next
      <2>1. Resting(r, price, stop, sl, tp).filled = 0
            BY DEF Resting
      <2> QED BY <1>2, <1>6, <2>1, RegisterRefines DEF Rest
<1>7. CASE SubmitRejected(r)
      BY <1>2, <1>4, <1>7, RegisterRefines DEF SubmitRejected
<1> QED BY <1>1, <1>5, <1>6, <1>7 DEF SubmitMarket, SubmitLimit, SubmitStop,
                                      SubmitTrailingStop

\* The orders of a batch are registered, and nothing of them is executed yet.
LEMMA FireRefines ==
  ASSUME Inv, FillsOwed, LotsOK, FireNext
  PROVE  Ledger!Next
<1>1. PICK k \in DOMAIN firing : ExecuteMarket(k, firing[k])
      BY DEF FireNext, FirstOf
<1>2. /\ k \in DOMAIN orders /\ firing[k] = orders[k] /\ firing[k] \in PaperOrder
      /\ orders[k].status = "submitted"
      BY DEF Inv, OrderBookOK, RestingOrdersAgree
<1>3. orders[k].filled = 0
      BY <1>2 DEF FillsOwed
<1>4. firing[k].qty \in LotSizes
      BY <1>2 DEF LotsOK
<1>5. k \in FirstOrderId..(FirstOrderId + MaxOrders - 1)
      BY <1>2 DEF Inv, OrderBookOK
<1>6. UNCHANGED quotes
      BY DEF FireNext
<1> QED BY <1>1, <1>2, <1>3, <1>4, <1>5, <1>6, TradeRefines

\* An exit gives up all of a symbol at the top of the book.
LEMMA UnwindRefines ==
  ASSUME NEW s \in Symbols, NEW q, NEW price, Exited(s, price), UNCHANGED orders,
         price = IF NetOf(positions, s) > 0 THEN q.bid ELSE q.ask
  PROVE  Ledger!Unwind(s, q)
<1>1. /\ NetIn(s) # 0 /\ NetIn(s)' = 0
      /\ \A t : t # s => NetIn(t)' = NetIn(t)
      BY BarIs, NextBarIs DEF Exited
<1>2. [t \in Symbols |-> NetIn(t)]' = [[t \in Symbols |-> NetIn(t)] EXCEPT ![s] = 0]
      <2>1. NetIn(s)' = 0 /\ \A t \in Symbols : t # s => NetIn(t)' = NetIn(t)
            BY <1>1
      <2>2. \A t \in Symbols : NetIn(t)' = [[u \in Symbols |-> NetIn(u)] EXCEPT ![s] = 0][t]
            BY <2>1
      <2> QED BY <2>2
<1>3. (balance + charged - CostOfBook)' = (balance + charged - CostOfBook) + NetIn(s) * price
      <2>1. Cash' = Cash + NetOf(positions, s) * price
            BY DEF Exited
      <2>2. Cash' = (balance + charged - CostOfBook)' /\ Cash = balance + charged - CostOfBook
            BY BarIs, NextBarIs DEF Cash
      <2>3. NetOf(positions, s) = NetIn(s)
            BY BarIs
      <2> QED BY <2>1, <2>2, <2>3, Zenon
<1>4. [t \in Symbols |-> NetIn(t)][s] = NetIn(s)
      OBVIOUS
<1>5. price = IF NetIn(s) > 0 THEN q.bid ELSE q.ask
      BY BarIs
<1>6. [id \in DOMAIN orders |-> orders[id].filled]' = [id \in DOMAIN orders |-> orders[id].filled]
      OBVIOUS
<1> QED BY <1>1, <1>2, <1>3, <1>4, <1>5, <1>6 DEF Ledger!Unwind

LEMMA StepRefines ==
  ASSUME Inv, FillsOwed, LotsOK, [Next]_vars
  PROVE  [Ledger!Next]_(Ledger!vars)
<1>1. CASE \E c \in Calls : Submit(c)
      BY <1>1, SubmitRefines
<1>2. CASE FireNext
      BY <1>2, FireRefines
<1>3. CASE \E c \in Calls : ClosePosition(c)
      <2>0. PICK s \in Symbols : \E price :
              /\ Exited(s, price)
              /\ price = IF NetOf(positions, s) > 0 THEN quotes[s].bid ELSE quotes[s].ask
            BY <1>3, CloseTrades
      <2>1. PICK price :
              /\ Exited(s, price)
              /\ price = IF NetOf(positions, s) > 0 THEN quotes[s].bid ELSE quotes[s].ask
            BY <2>0
      <2>2. UNCHANGED <<orders, quotes>>
            BY <1>3 DEF ClosePosition, Resume
      <2>3. Ledger!Unwind(s, quotes[s])
            BY <2>1, <2>2, UnwindRefines
      <2>4. Ledger!Exit(s)
            BY <2>2, <2>3 DEF Ledger!Exit
      <2> QED BY <2>4 DEF Ledger!Next
<1>4. ASSUME NEW s \in Symbols, NEW q \in Quotes, IngestQuote(s, q)
      PROVE  Ledger!Next
      <2>1. UNCHANGED orders /\ quotes' = [quotes EXCEPT ![s] = q]
            BY <1>4 DEF IngestQuote
      <2>2. CASE Stood
            <3>1. /\ Cash' = Cash
                  /\ \A t : NetOf(positions', t) = NetOf(positions, t)
                  BY <2>2 DEF Stood
            <3>2. /\ (balance + charged - CostOfBook)' = balance + charged - CostOfBook
                  /\ [t \in Symbols |-> NetIn(t)]' = [t \in Symbols |-> NetIn(t)]
                  /\ [id \in DOMAIN orders |-> orders[id].filled]' =
                       [id \in DOMAIN orders |-> orders[id].filled]
                  BY <2>1, <3>1, BarIs, NextBarIs DEF Cash
            <3>3. Ledger!Requote(s, q)
                  BY <2>1, <3>2 DEF Ledger!Requote
            <3> QED BY <3>3 DEF Ledger!Next
      <2>3. CASE \E price : /\ Exited(s, price)
                            /\ price = IF NetOf(positions, s) > 0 THEN q.bid ELSE q.ask
            <3>1. Ledger!Unwind(s, q)
                  BY <2>1, <2>3, UnwindRefines
            <3>2. Ledger!Requote(s, q)
                  BY <2>1, <3>1 DEF Ledger!Requote
            <3> QED BY <3>2 DEF Ledger!Next
      <2> QED BY <1>4, <2>2, <2>3, IngestTrades DEF Inv
<1>5. CASE ResetAccount
      <2>1. /\ positions' = << >> /\ orders' = << >> /\ charged' = 0
            /\ balance' \in StartBalance /\ UNCHANGED quotes
            BY <1>5 DEF ResetAccount
      <2>2. /\ CostOf(positions') = 0
            /\ \A s : NetOf(positions', s) = 0
            BY <2>1, EmptyBook
      <2>3. [s \in Symbols |-> NetIn(s)]' = [s \in Symbols |-> 0]
            BY <2>2, NextBarIs
      <2>4. (balance + charged - CostOfBook)' \in StartBalance
            BY <2>1, <2>2, NextBarIs
      <2>5. [id \in DOMAIN orders |-> orders[id].filled]' = << >>
            BY <2>1
      <2>6. Ledger!Reset
            BY <2>1, <2>3, <2>4, <2>5 DEF Ledger!Reset
      <2> QED BY <2>6 DEF Ledger!Next
<1>6. CASE \/ \E c \in Calls : Modify(c)
           \/ \E c \in Calls : Cancel(c)
      <2>1. /\ UNCHANGED <<quotes, positions, balance, charged>>
            /\ DOMAIN orders' = DOMAIN orders
            BY <1>6 DEF Modify, Cancel, Resume
      <2>2. \A id \in DOMAIN orders : orders'[id].filled = orders[id].filled
            BY <1>6, ModifyFate, CancelFate DEF Kept, AmendedBy, CancelledBy
      <2>3. [id \in DOMAIN orders |-> orders[id].filled]' = [id \in DOMAIN orders |-> orders[id].filled]
            BY <2>1, <2>2
      <2>4. /\ Cash' = Cash
            /\ \A t : NetOf(positions', t) = NetOf(positions, t)
            BY <2>1, NothingStood DEF Stood
      <2>5. /\ (balance + charged - CostOfBook)' = balance + charged - CostOfBook
            /\ [t \in Symbols |-> NetIn(t)]' = [t \in Symbols |-> NetIn(t)]
            BY <2>4, BarIs, NextBarIs DEF Cash
      <2> QED BY <2>1, <2>3, <2>5 DEF Ledger!vars
<1>7. CASE \/ Connect \/ Disconnect
           \/ \E c \in Calls, op \in Operations : BeginCall(c, op)
           \/ \E c \in Calls : Refused(c)
           \/ UNCHANGED vars
      <2>1. UNCHANGED <<quotes, orders, positions, balance, charged>>
            BY <1>7 DEF Connect, Disconnect, BeginCall, Refused, Resume, vars, book
      <2> QED BY <2>1, NothingStood, StoodStutters
<1> QED BY <1>1, <1>2, <1>3, <1>4, <1>5, <1>6, <1>7 DEF Next

LEMMA InitRefines ==
  ASSUME Init
  PROVE  Ledger!Init /\ LotsOK
<1>1. DOMAIN << >> = {}
      OBVIOUS
<1>2. /\ positions = << >> /\ orders = << >> /\ charged = 0
      /\ balance \in StartBalance /\ quotes = [s \in Symbols |-> DefaultQuote]
      BY DEF Init
<1>3. CostOf(positions) = 0 /\ \A s : NetOf(positions, s) = 0
      BY <1>2, EmptyBook
<1>4. [s \in Symbols |-> NetIn(s)] = [s \in Symbols |-> 0]
      BY <1>3, BarIs
<1>5. balance + charged - CostOfBook \in StartBalance
      BY <1>2, <1>3, BarIs
<1>6. [id \in DOMAIN orders |-> orders[id].filled] = << >>
      BY <1>2
<1>7. LotsOK
      BY <1>1, <1>2 DEF LotsOK
<1> QED BY <1>2, <1>4, <1>5, <1>6, <1>7 DEF Ledger!Init

\* The adapter implements the ledger: netting, partial fills, batches, stop losses
\* and resets never trade an order twice, trade at a price the market did not
\* offer, or make or lose money.
THEOREM LedgerImplemented == Spec => ImplementsLedger
<1>1. Init => Inv /\ FillsOwed /\ LotsOK /\ Ledger!Init
      BY InitOK, FillsOwedInit, InitRefines
<1>2. Inv /\ FillsOwed /\ LotsOK /\ [Next]_vars =>
        (Inv /\ FillsOwed /\ LotsOK)' /\ [Ledger!Next]_(Ledger!vars)
      BY StepOK, FillsOwedStep, LotsStep, StepRefines
<1> QED BY <1>1, <1>2, PTL DEF Spec, ImplementsLedger, Ledger!Spec

=============================================================================
