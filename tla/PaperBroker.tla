---------------------------- MODULE PaperBroker ----------------------------
(***************************************************************************)
(* The paper-trading broker adapter of Project ORION,                      *)
(* libraries/infrastructure/execution/paper_execution.py.                  *)
(*                                                                         *)
(* One adapter object is shared by every request handler and background    *)
(* task of the trading engine.  Its asyncio lock is never held across a    *)
(* suspension point, so what interleaves is this: a call checks the        *)
(* connection, sleeps for the simulated latency, and then runs to its end  *)
(* without yielding.  `inflight' holds the calls that are asleep.  A quote *)
(* and the fills it triggers are one such run as well; the fills are       *)
(* spread over several steps here, and `firing' (the batch still to be     *)
(* filled) disables every other action until the batch is empty.           *)
(*                                                                         *)
(* Prices, quantities and money are integers in units small enough for the *)
(* instances to be exact.  0 stands for Python's None wherever a price or  *)
(* a distance may be missing.  A position carries its cost `basis', which  *)
(* is open_price * quantity.                                               *)
(***************************************************************************)
EXTENDS Integers, FiniteSets, Sequences

CONSTANTS
  Symbols,         \* instruments
  Quotes,          \* the [bid, ask] pairs the feed may deliver
  DefaultQuote,    \* what _get_quote answers before the first quote
  Requests,        \* the orders a client may submit
  Amendments,      \* the changes modify_order may be asked for
  Slippages,       \* adverse slippage magnitudes
  PartialFills,    \* partial_fill_probability > 0
  CommissionRate,  \* fee per unit of notional
  StartBalance,    \* balances an account may start from or be reset to
  Calls,           \* concurrent callers of the adapter
  MaxOrders,       \* bound: orders registered between two resets
  MaxResets        \* bound: account resets

NoPrice == 0
Sides == {"buy", "sell"}
OrderTypes == {"market", "limit", "stop", "trailing_stop", "stop_limit"}
Statuses == {"pending", "submitted", "partially_filled", "filled", "cancelled"}
Terminal == {"filled", "cancelled", "rejected", "expired"}
Operations == {"submit", "modify", "cancel", "close"}
FirstOrderId == 1000
FirstPositionId == 100
FirstFillId == 1

Request ==
  [symbol : Symbols, side : Sides, type : OrderTypes, qty : Nat \ {0},
   price : Nat, stop : Nat, tp : Nat, trail : Nat]
Amendment == [qty : Nat, price : Nat, stop : Nat, sl : Nat, tp : Nat]
Quote == [bid : Nat \ {0}, ask : Nat \ {0}]

ASSUME QuoteAssumption == Quotes \subseteq Quote /\ DefaultQuote \in Quotes
ASSUME RequestAssumption ==
  Requests \subseteq Request /\ Amendments \subseteq Amendment
ASSUME ParameterAssumption ==
  /\ Slippages \subseteq Nat
  /\ PartialFills \in BOOLEAN
  /\ CommissionRate \in Nat
  /\ StartBalance \subseteq Nat
  /\ MaxOrders \in Nat
  /\ MaxResets \in Nat

\* PaperOrder, and PaperPosition (its swap stays 0: nothing ever charges it).
PaperOrder ==
  [symbol : Symbols, side : Sides, type : OrderTypes, qty : Nat \ {0},
   price : Nat, stop : Int, sl : Nat, tp : Nat, trail : Nat,
   status : Statuses, filled : Nat, fillPrice : Nat]
PaperPosition ==
  [symbol : Symbols, side : Sides, qty : Nat \ {0}, basis : Int,
   sl : Int, tp : Nat, trail : Nat, high : Nat, low : Nat, commission : Nat]

VARIABLES
  connected,       \* _connected
  quotes,          \* _current_quotes
  orders,          \* _orders: every order registered since the last reset
  pending,         \* _pending_orders: the resting ones, a second copy
  positions,       \* _positions
  nextOrderId, nextFillId, nextPositionId,
  balance,         \* _current_balance
  inflight,        \* per caller, the operation asleep in _simulate_latency
  firing,          \* triggered orders the running quote has still to fill
  resets,          \* number of resets (bounds the model)
  accrued,         \* history: commission of every fill since the reset
  charged          \* history: commission taken from the balance since then

book == <<orders, pending, positions, nextOrderId, nextFillId,
          nextPositionId, balance, accrued, charged>>
vars == <<connected, quotes, book, inflight, firing, resets>>

Put(f, k, v) == [x \in DOMAIN f \cup {k} |-> IF x = k THEN v ELSE f[x]]
Drop(f, ks) == [x \in DOMAIN f \ ks |-> f[x]]
\* Dictionaries are walked in the order their keys, increasing ids, were added.
FirstOf(S) == {x \in S : \A y \in S : x <= y}
Larger(a, b) == IF a >= b THEN a ELSE b
Smaller(a, b) == IF a <= b THEN a ELSE b

-----------------------------------------------------------------------------
(* Prices, and when an order or a position is touched by a quote.          *)

FillPrice(side, quote, slippage) ==
  IF side = "buy" THEN quote.ask + slippage
                  ELSE Larger(1, quote.bid - slippage)

\* Mutant: a position is closed on the side of the book it was opened on.
ClosePriceCrossed(side, quote) == IF side = "buy" THEN quote.ask ELSE quote.bid

ClosePrice(side, quote) == IF side = "buy" THEN quote.bid ELSE quote.ask

FillQuantities(qty) == IF PartialFills THEN 1..qty ELSE {qty}

Commission(qty, price) == qty * price * CommissionRate

LimitTouched(side, price, quote) ==
  IF side = "buy" THEN quote.ask <= price ELSE quote.bid >= price

StopTouched(side, stop, quote) ==
  IF side = "buy" THEN quote.ask >= stop ELSE quote.bid <= stop

\* The condition _evaluate_resting_triggers puts on a resting order (one that
\* rests has the price its type needs: the tests for None never fail).
ShouldTrigger(o, quote) ==
  \/ o.type = "limit" /\ LimitTouched(o.side, o.price, quote)
  \/ o.type \in {"stop", "trailing_stop"} /\ StopTouched(o.side, o.stop, quote)

\* Mutant: the stop loss follows every quote instead of favourable ones.
TrailedBothWays(p, quote) ==
  IF p.trail = NoPrice THEN p
  ELSE IF p.side = "buy" THEN [p EXCEPT !.sl = quote.bid - p.trail]
                         ELSE [p EXCEPT !.sl = quote.ask + p.trail]

\* The high or low water mark moves with a favourable quote, and the stop
\* loss with it, never back.
Trailed(p, quote) ==
  IF p.trail = NoPrice THEN p
  ELSE IF p.side = "buy"
  THEN IF p.high = NoPrice \/ quote.bid > p.high
       THEN [p EXCEPT !.sl = Larger(@, quote.bid - p.trail), !.high = quote.bid]
       ELSE p
  ELSE IF p.low = NoPrice \/ quote.ask < p.low
       THEN [p EXCEPT !.sl = IF @ = NoPrice THEN quote.ask + p.trail
                             ELSE Smaller(@, quote.ask + p.trail),
                      !.low = quote.ask]
       ELSE p

Breached(p, quote) ==
  IF p.side = "buy"
  THEN \/ p.sl # NoPrice /\ quote.bid <= p.sl
       \/ p.tp # NoPrice /\ quote.bid >= p.tp
  ELSE \/ p.sl # NoPrice /\ quote.ask >= p.sl
       \/ p.tp # NoPrice /\ quote.ask <= p.tp

\* Mutant: a short position is closed as if it were long.
ProfitOfLong(side, qty, cost, price) == qty * price - cost

\* Profit of closing `qty' units that cost `cost' at `price'.
Profit(side, qty, cost, price) ==
  IF side = "buy" THEN qty * price - cost ELSE cost - qty * price

-----------------------------------------------------------------------------
Init ==
  /\ connected = FALSE
  /\ quotes = [s \in Symbols |-> DefaultQuote]
  /\ orders = << >>
  /\ pending = << >>
  /\ positions = << >>
  /\ nextOrderId = FirstOrderId
  /\ nextFillId = FirstFillId
  /\ nextPositionId = FirstPositionId
  /\ balance \in StartBalance
  /\ inflight = [c \in Calls |-> "none"]
  /\ firing = << >>
  /\ resets = 0
  /\ accrued = 0
  /\ charged = 0

\* No coroutine is in the middle of a run.
LoopFree == DOMAIN firing = {}

Connect ==
  /\ LoopFree
  /\ ~connected
  /\ connected' = TRUE
  /\ UNCHANGED <<quotes, book, inflight, firing, resets>>

Disconnect ==
  /\ LoopFree
  /\ connected
  /\ connected' = FALSE
  /\ UNCHANGED <<quotes, book, inflight, firing, resets>>

\* _validate_connected, then the latency of the call begins.
BeginCall(c, op) ==
  /\ LoopFree
  /\ connected
  /\ inflight[c] = "none"
  /\ inflight' = [inflight EXCEPT ![c] = op]
  /\ UNCHANGED <<connected, quotes, book, firing, resets>>

\* The latency of call c is over: the rest of it is one step.
Resume(c, op) ==
  /\ LoopFree
  /\ inflight[c] = op
  /\ inflight' = [inflight EXCEPT ![c] = "none"]
  /\ UNCHANGED <<connected, quotes, firing, resets>>

-----------------------------------------------------------------------------
(* _update_position_locked: netting of one fill of the order `o' (its      *)
(* symbol, side, stop loss, take profit and trailing distance) into the    *)
(* position of its symbol.                                                 *)

HeldIn(s) == {id \in DOMAIN positions : positions[id].symbol = s}

NewPosition(o, qty, price, fee, mark) ==
  [symbol |-> o.symbol, side |-> o.side, qty |-> qty, basis |-> qty * price,
   sl |-> o.sl, tp |-> o.tp, trail |-> o.trail,
   high |-> IF o.side = "buy" THEN mark ELSE NoPrice,
   low |-> IF o.side = "sell" THEN mark ELSE NoPrice,
   commission |-> fee]

\* Same side: the entry price becomes the weighted average, and the stops of
\* the position become those of the new order.
Enlarged(p, o, qty, price, fee) ==
  [symbol |-> p.symbol, side |-> p.side,
   qty |-> p.qty + qty, basis |-> p.basis + qty * price,
   sl |-> o.sl, tp |-> o.tp, trail |-> o.trail,
   high |-> IF p.side = "buy" THEN Larger(p.high, price) ELSE NoPrice,
   low |-> IF p.side = "buy" THEN NoPrice
           ELSE IF p.low = NoPrice THEN price ELSE Smaller(p.low, price),
   commission |-> p.commission + fee]

OpenPosition(o, qty, price, fee) ==
  /\ HeldIn(o.symbol) = {}
  /\ positions' = Put(positions, nextPositionId,
                      NewPosition(o, qty, price, fee, price))
  /\ nextPositionId' = nextPositionId + 1
  /\ UNCHANGED <<balance, charged>>

Accumulate(o, qty, price, fee) ==
  /\ \E id \in FirstOf(HeldIn(o.symbol)) :
       /\ positions[id].side = o.side
       /\ positions' = [positions EXCEPT ![id] = Enlarged(@, o, qty, price, fee)]
  /\ UNCHANGED <<nextPositionId, balance, charged>>

Reduce(o, qty, price, fee) ==
  /\ \E id \in FirstOf(HeldIn(o.symbol)) :
       LET p == positions[id]
           cost == (p.basis * qty) \div p.qty
       IN /\ p.side # o.side
          /\ qty < p.qty
          /\ balance' = balance + Profit(p.side, qty, cost, price) - fee
          /\ positions' = [positions EXCEPT ![id] =
               [p EXCEPT !.qty = p.qty - qty, !.basis = p.basis - cost]]
  /\ charged' = charged + fee
  /\ UNCHANGED nextPositionId

Flatten(o, qty, price, fee) ==
  /\ \E id \in FirstOf(HeldIn(o.symbol)) :
       LET p == positions[id]
       IN /\ p.side # o.side
          /\ qty = p.qty
          /\ balance' = balance + Profit(p.side, qty, p.basis, price) - fee
          /\ positions' = Drop(positions, {id})
  /\ charged' = charged + fee
  /\ UNCHANGED nextPositionId

\* Mutant: the new position carries the fee that was just charged.
ReverseKeepingFee(o, qty, price, fee) ==
  /\ \E id \in FirstOf(HeldIn(o.symbol)) :
       LET p == positions[id]
       IN /\ p.side # o.side
          /\ qty > p.qty
          /\ balance' = balance + Profit(p.side, p.qty, p.basis, price) - fee
          /\ positions' = Put(Drop(positions, {id}), nextPositionId,
                              NewPosition(o, qty - p.qty, price, fee, NoPrice))
  /\ nextPositionId' = nextPositionId + 1
  /\ charged' = charged + fee

\* Mutant: the reversed position is not removed.
ReverseKeepingOld(o, qty, price, fee) ==
  /\ \E id \in FirstOf(HeldIn(o.symbol)) :
       LET p == positions[id]
       IN /\ p.side # o.side
          /\ qty > p.qty
          /\ balance' = balance + Profit(p.side, p.qty, p.basis, price) - fee
          /\ positions' = Put(positions, nextPositionId,
                              NewPosition(o, qty - p.qty, price, 0, NoPrice))
  /\ nextPositionId' = nextPositionId + 1
  /\ charged' = charged + fee

Reverse(o, qty, price, fee) ==
  /\ \E id \in FirstOf(HeldIn(o.symbol)) :
       LET p == positions[id]
       IN /\ p.side # o.side
          /\ qty > p.qty
          /\ balance' = balance + Profit(p.side, p.qty, p.basis, price) - fee
          /\ positions' = Put(Drop(positions, {id}), nextPositionId,
                              NewPosition(o, qty - p.qty, price, 0, NoPrice))
  /\ nextPositionId' = nextPositionId + 1
  /\ charged' = charged + fee

UpdatePosition(o, qty, price, fee) ==
  \/ OpenPosition(o, qty, price, fee)
  \/ Accumulate(o, qty, price, fee)
  \/ Reduce(o, qty, price, fee)
  \/ Flatten(o, qty, price, fee)
  \/ Reverse(o, qty, price, fee)

Filled(o, qty, price) ==
  [o EXCEPT !.status = IF qty >= o.qty THEN "filled" ELSE "partially_filled",
            !.filled = qty,
            !.fillPrice = price]

\* _execute_market_order: fill the order `o', registered as `id', at the
\* current quote, and net the fill.
ExecuteMarket(id, o) ==
  \E slippage \in Slippages, qty \in FillQuantities(o.qty) :
    LET price == FillPrice(o.side, quotes[o.symbol], slippage)
        fee == Commission(qty, price)
    IN /\ orders' = Put(orders, id, Filled(o, qty, price))
       /\ UpdatePosition(o, qty, price, fee)
       /\ accrued' = accrued + fee
       /\ nextFillId' = nextFillId + 1

-----------------------------------------------------------------------------
(* submit_order: register the order, then fill, rest or reject it.         *)

Registered(r) ==
  [symbol |-> r.symbol, side |-> r.side, type |-> r.type, qty |-> r.qty,
   price |-> r.price, stop |-> r.stop, sl |-> r.stop, tp |-> r.tp,
   trail |-> r.trail, status |-> "pending", filled |-> 0, fillPrice |-> NoPrice]

\* The copy of a request that rests, with the prices its type rests with.
Resting(r, price, stop, sl, tp) ==
  [symbol |-> r.symbol, side |-> r.side, type |-> r.type, qty |-> r.qty,
   price |-> price, stop |-> stop, sl |-> sl, tp |-> tp, trail |-> r.trail,
   status |-> "submitted", filled |-> 0, fillPrice |-> NoPrice]

Rest(o) ==
  /\ orders' = Put(orders, nextOrderId, o)
  /\ pending' = Put(pending, nextOrderId, o)
  /\ UNCHANGED <<positions, nextFillId, nextPositionId, balance, accrued, charged>>

FillNow(o) ==
  /\ ExecuteMarket(nextOrderId, o)
  /\ UNCHANGED pending

SubmitMarket(r) ==
  /\ r.type = "market"
  /\ FillNow(Registered(r))

\* Mutant: a marketable limit order rests until the next quote.
SubmitLimitAlwaysRests(r) ==
  /\ r.type = "limit"
  /\ r.price # NoPrice
  /\ Rest(Resting(r, r.price, NoPrice, r.stop, r.tp))

SubmitLimit(r) ==
  /\ r.type = "limit"
  /\ r.price # NoPrice
  /\ \/ /\ LimitTouched(r.side, r.price, quotes[r.symbol])
        /\ FillNow(Registered(r))
     \/ /\ ~LimitTouched(r.side, r.price, quotes[r.symbol])
        /\ Rest(Resting(r, r.price, NoPrice, r.stop, r.tp))

SubmitStop(r) ==
  /\ r.type = "stop"
  /\ r.stop # NoPrice
  /\ \/ /\ StopTouched(r.side, r.stop, quotes[r.symbol])
        /\ FillNow(Registered(r))
     \/ /\ ~StopTouched(r.side, r.stop, quotes[r.symbol])
        /\ Rest(Resting(r, r.price, r.stop, r.stop, r.tp))

InitialStop(r, quote) ==
  IF r.side = "buy" THEN quote.ask - r.trail ELSE quote.bid + r.trail

SubmitTrailingStop(r) ==
  /\ r.type = "trailing_stop"
  /\ r.trail # NoPrice
  /\ Rest(Resting(r, NoPrice, InitialStop(r, quotes[r.symbol]), NoPrice, NoPrice))

\* An order that lacks what its type needs, or whose type is not supported,
\* is refused after it was registered: it stays in _orders as "pending".
Unacceptable(r) ==
  CASE r.type = "market" -> FALSE
    [] r.type = "limit" -> r.price = NoPrice
    [] r.type = "stop" -> r.stop = NoPrice
    [] r.type = "trailing_stop" -> r.trail = NoPrice
    [] r.type = "stop_limit" -> TRUE

SubmitRejected(r) ==
  /\ Unacceptable(r)
  /\ orders' = Put(orders, nextOrderId, Registered(r))
  /\ UNCHANGED <<pending, positions, nextFillId, nextPositionId, balance,
                 accrued, charged>>

Submit(c) ==
  /\ Resume(c, "submit")
  /\ nextOrderId < FirstOrderId + MaxOrders
  /\ nextOrderId' = nextOrderId + 1
  /\ \E r \in Requests :
       \/ SubmitMarket(r)
       \/ SubmitLimit(r)
       \/ SubmitStop(r)
       \/ SubmitTrailingStop(r)
       \/ SubmitRejected(r)

-----------------------------------------------------------------------------
(* The other operations of the adapter.                                    *)

\* Mutant: an amendment that names no value erases the old one.
GivenAlways(new, old) == new

Given(new, old) == IF new # NoPrice THEN new ELSE old

Amended(o, a) ==
  [symbol |-> o.symbol, side |-> o.side, type |-> o.type,
   qty |-> Given(a.qty, o.qty), price |-> Given(a.price, o.price),
   stop |-> Given(a.stop, o.stop), sl |-> Given(a.sl, o.sl), tp |-> Given(a.tp, o.tp),
   trail |-> o.trail, status |-> o.status, filled |-> o.filled,
   fillPrice |-> o.fillPrice]

\* Mutant: the copy in _pending_orders is not refreshed.
ModifyOneCopy(c) ==
  /\ Resume(c, "modify")
  /\ \E id \in DOMAIN orders, a \in Amendments :
       /\ orders[id].status \in {"submitted", "pending", "partially_filled"}
       /\ orders' = [orders EXCEPT ![id] = Amended(@, a)]
  /\ UNCHANGED <<pending, positions, nextOrderId, nextFillId, nextPositionId,
                 balance, accrued, charged>>

\* modify_order
Modify(c) ==
  /\ Resume(c, "modify")
  /\ \E id \in DOMAIN orders, a \in Amendments :
       /\ orders[id].status \in {"submitted", "pending", "partially_filled"}
       /\ orders' = [orders EXCEPT ![id] = Amended(@, a)]
       /\ pending' = IF id \in DOMAIN pending
                     THEN [pending EXCEPT ![id] = orders'[id]]
                     ELSE pending
  /\ UNCHANGED <<positions, nextOrderId, nextFillId, nextPositionId, balance,
                 accrued, charged>>

\* Mutant: only an order cancelled before is refused.
CancelEvenFilled(c) ==
  /\ Resume(c, "cancel")
  /\ \E id \in DOMAIN orders :
       /\ orders[id].status # "cancelled"
       /\ orders' = [orders EXCEPT ![id].status = "cancelled"]
       /\ pending' = Drop(pending, {id})
  /\ UNCHANGED <<positions, nextOrderId, nextFillId, nextPositionId, balance,
                 accrued, charged>>

Cancelled(o) ==
  [symbol |-> o.symbol, side |-> o.side, type |-> o.type, qty |-> o.qty,
   price |-> o.price, stop |-> NoPrice, sl |-> NoPrice, tp |-> NoPrice,
   trail |-> NoPrice, status |-> "cancelled", filled |-> o.filled,
   fillPrice |-> o.fillPrice]

\* cancel_order
Cancel(c) ==
  /\ Resume(c, "cancel")
  /\ \E id \in DOMAIN orders :
       /\ orders[id].status \notin Terminal
       /\ orders' = [orders EXCEPT ![id] = Cancelled(@)]
       /\ pending' = Drop(pending, {id})
  /\ UNCHANGED <<positions, nextOrderId, nextFillId, nextPositionId, balance,
                 accrued, charged>>

\* The exit of a whole position: close_position and a stop loss or take
\* profit charge the commission the position carries.
Exit(id, price) ==
  LET p == positions[id]
  IN /\ balance' = balance + Profit(p.side, p.qty, p.basis, price) - p.commission
     /\ charged' = charged + p.commission
     /\ positions' = Drop(positions, {id})

\* close_position
ClosePosition(c) ==
  /\ Resume(c, "close")
  /\ \E id \in DOMAIN positions :
       Exit(id, ClosePrice(positions[id].side, quotes[positions[id].symbol]))
  /\ nextFillId' = nextFillId + 1
  /\ UNCHANGED <<orders, pending, nextOrderId, nextPositionId, accrued>>

\* An id that is unknown, or names something the operation does not apply to:
\* the call raises or answers False and changes nothing.
Refused(c) ==
  /\ \E op \in {"modify", "cancel", "close"} : Resume(c, op)
  /\ UNCHANGED book

\* Mutant: the triggers are evaluated before the new quote is stored.
TouchedByOldQuote(s, q) ==
  {id \in DOMAIN pending :
     pending[id].symbol = s /\ ShouldTrigger(pending[id], quotes[s])}

Touched(s, q) ==
  {id \in DOMAIN pending : pending[id].symbol = s /\ ShouldTrigger(pending[id], q)}

\* update_quote, set_current_price and the locked part of
\* _evaluate_resting_triggers: the touched orders leave _pending_orders and
\* form the batch, the position of the symbol trails its stop and is closed
\* when its stop loss or take profit is breached.
IngestQuote(s, q) ==
  LET touched == Touched(s, q)
  IN /\ LoopFree
     /\ quotes' = [quotes EXCEPT ![s] = q]
     /\ firing' = [id \in touched |-> pending[id]]
     /\ pending' = Drop(pending, touched)
     /\ \/ /\ HeldIn(s) = {}
           /\ UNCHANGED <<positions, balance, charged>>
        \/ \E id \in HeldIn(s) :
             /\ ~Breached(Trailed(positions[id], q), q)
             /\ positions' = [positions EXCEPT ![id] = Trailed(@, q)]
             /\ UNCHANGED <<balance, charged>>
        \/ \E id \in HeldIn(s) :
             /\ Breached(Trailed(positions[id], q), q)
             /\ Exit(id, ClosePrice(positions[id].side, q))
     /\ UNCHANGED <<connected, orders, nextOrderId, nextFillId, nextPositionId,
                    accrued, inflight, resets>>

\* The loop at the end of _evaluate_resting_triggers: the batch is filled in
\* the order the dictionary kept, which is the order of the ids.
FireNext ==
  /\ \E id \in FirstOf(DOMAIN firing) :
       /\ ExecuteMarket(id, firing[id])
       /\ firing' = Drop(firing, {id})
  /\ UNCHANGED <<connected, quotes, pending, nextOrderId, inflight, resets>>

\* reset_account: the ids start over; calls asleep are not told.
ResetAccount ==
  /\ LoopFree
  /\ resets < MaxResets
  /\ resets' = resets + 1
  /\ balance' \in StartBalance
  /\ orders' = << >>
  /\ pending' = << >>
  /\ positions' = << >>
  /\ nextOrderId' = FirstOrderId
  /\ nextFillId' = FirstFillId
  /\ nextPositionId' = FirstPositionId
  /\ accrued' = 0
  /\ charged' = 0
  /\ UNCHANGED <<connected, quotes, inflight, firing>>

Next ==
  \/ Connect
  \/ Disconnect
  \/ \E c \in Calls, op \in Operations : BeginCall(c, op)
  \/ \E c \in Calls : Submit(c)
  \/ \E c \in Calls : Modify(c)
  \/ \E c \in Calls : Cancel(c)
  \/ \E c \in Calls : ClosePosition(c)
  \/ \E c \in Calls : Refused(c)
  \/ \E s \in Symbols, q \in Quotes : IngestQuote(s, q)
  \/ FireNext
  \/ ResetAccount

Spec == Init /\ [][Next]_vars

-----------------------------------------------------------------------------
(* Properties.                                                             *)

\* Types of the adapter's dictionaries, counters and in-flight calls.
TypeOK ==
  /\ connected \in BOOLEAN
  /\ quotes \in [Symbols -> Quotes]
  /\ DOMAIN orders \subseteq FirstOrderId..(nextOrderId - 1)
  /\ \A id \in DOMAIN orders : orders[id] \in PaperOrder
  /\ DOMAIN pending \subseteq DOMAIN orders
  /\ DOMAIN firing \subseteq DOMAIN orders
  /\ DOMAIN positions \subseteq FirstPositionId..(nextPositionId - 1)
  /\ \A id \in DOMAIN positions : positions[id] \in PaperPosition
  /\ nextOrderId \in FirstOrderId..(FirstOrderId + MaxOrders)
  /\ nextFillId \in Nat
  /\ nextPositionId \in Nat /\ nextPositionId >= FirstPositionId
  /\ balance \in Int
  /\ inflight \in [Calls -> Operations \cup {"none"}]
  /\ resets \in 0..MaxResets
  /\ accrued \in Nat
  /\ charged \in Nat

\* The two copies the adapter keeps of a resting order agree, and no accepted
\* order is lost between them: an order is "submitted" exactly while it rests
\* in _pending_orders or waits in the batch of the running quote, never both.
RestingOrdersAgree ==
  /\ DOMAIN pending \cap DOMAIN firing = {}
  /\ DOMAIN pending \cup DOMAIN firing =
       {id \in DOMAIN orders : orders[id].status = "submitted"}
  /\ \A id \in DOMAIN pending : pending[id] = orders[id]
  /\ \A id \in DOMAIN firing : firing[id] = orders[id]

\* Netting: _update_position_locked looks at the first position it finds, which
\* is right only because a symbol never has two.
OnePositionPerSymbol ==
  \A i, j \in DOMAIN positions :
    positions[i].symbol = positions[j].symbol => i = j

\* A limit or stop order rests only while the market has not touched it: what
\* submit_order lets rest and what a quote sweeps up are complementary.  (Of an
\* order as it was submitted: modify_order does not look at the market.)
RestsOnlyUntouched ==
  LoopFree => \A id \in DOMAIN pending :
    pending[id].type \in {"limit", "stop"} =>
      ~ShouldTrigger(pending[id], quotes[pending[id].symbol])

\* A resting order is filled only by a quote that touches it, whatever happened
\* to it between its submission and that quote.
FillsOnlyTouched ==
  [][\A id \in DOMAIN orders \cap DOMAIN orders' :
       /\ orders[id].status = "submitted"
       /\ orders'[id].status \in {"filled", "partially_filled"}
       => ShouldTrigger(orders[id], quotes[orders[id].symbol])]_vars

\* Short of a reset, an order that was filled or cancelled never changes again,
\* and one that was partly filled is never filled a second time.
SettledOrdersAreFinal ==
  [][resets' = resets =>
       \A id \in DOMAIN orders :
         /\ id \in DOMAIN orders'
         /\ orders[id].status \in Terminal => orders'[id] = orders[id]
         /\ orders[id].filled > 0 => orders'[id].filled = orders[id].filled]_vars

\* While a position receives no fill, a quote only ever tightens the stop loss
\* of its trailing stop.
TrailNeverLoosens ==
  [][\A id \in DOMAIN positions \cap DOMAIN positions' :
       LET p == positions[id]  n == positions'[id]
       IN p.qty = n.qty /\ p.side = n.side /\ p.basis = n.basis /\ p.sl # NoPrice =>
            IF p.side = "buy" THEN n.sl >= p.sl ELSE n.sl <= p.sl]_vars

\* No fee is taken twice: whatever is netted, reversed or closed in between, the
\* balance has paid no more than the fills have cost.  (It may have paid less: the
\* fee of an opening fill is lost when an opposite order closes the position.)
FeesAreTakenOnce == charged <= accrued

=============================================================================
