------------------------------ MODULE Portfolio -----------------------------
(***************************************************************************)
(* The portfolio engine, libraries/domain/portfolio: a facade that keeps   *)
(* four managers in step, of the positions, of the exposure per symbol and *)
(* per currency, of the margin and of the balance.  Merging, splitting and *)
(* liquidating are operations of the manager of positions alone; the others*)
(* never hear of them.                                                     *)
(*                                                                         *)
(* Positions are numbered as they are created.  All are in the currency of *)
(* the account.  Prices and quantities are whole numbers of the smallest   *)
(* unit: an average is rounded to one, as the code rounds it to the last of*)
(* its 28 digits.  Everything floating is left out: marks, unrealized      *)
(* profit, equity.                                                         *)
(***************************************************************************)
EXTENDS Integers, Sequences, FiniteSets, Functions

CONSTANTS
  Symbols,
  Prices,
  Quantities,     \* of an opening, an increase or a partial close; zero may be one
  Charge,         \* commission, swap and fees of closing a position
  OpeningBalance,
  Amounts,        \* of a deposit or a withdrawal
  Slack,          \* what the parts of a split may lack or exceed together
  MaxPositions,   \* bound: positions ever created
  MaxSize,        \* bound: what a position was ever increased to
  MaxFlows        \* bound: deposits and withdrawals

ASSUME PortfolioAssumption ==
  /\ IsFiniteSet(Symbols)
  /\ Prices \subseteq Nat \ {0} /\ Quantities \subseteq Nat /\ Slack \in Nat
  /\ Charge \in Nat /\ OpeningBalance \in Nat /\ Amounts \subseteq Nat \ {0}
  /\ MaxPositions \in Nat /\ MaxSize \in Nat /\ MaxFlows \in Nat

Sides == {"long", "short"}
Active == {"open", "partially_closed"}
Dropped == {"liquidated", "forced_close"}
Statuses == Active \cup {"closed"} \cup Dropped

VARIABLES
  positions,    \* _positions, with how each began and ended
  exposure,     \* _symbol_exposures: [Symbols -> [Sides -> Nat]]
  currency,     \* _currency_exposures of the one currency: [Sides -> Nat]
  margined,     \* the positions in _position_margins
  balance,      \* _balance of the balance manager
  flows,        \* the deposits (> 0) and withdrawals (< 0) so far
  adrift        \* history, per symbol and side: what the book has lost by rounding, by
                \* uneven splits and by merging a position with itself

exposureVars == <<exposure, currency>>
moneyVars == <<margined, balance, flows>>
vars == <<positions, exposureVars, moneyVars, adrift>>

Ids == DOMAIN positions
ActiveIds == {p \in Ids : positions[p].status \in Active}
AtLeastZero(n) == IF n < 0 THEN 0 ELSE n

Init ==
  /\ positions = <<>> /\ margined = {}
  /\ exposure = [s \in Symbols |-> [side \in Sides |-> 0]]
  /\ currency = [side \in Sides |-> 0]
  /\ adrift = [s \in Symbols |-> [side \in Sides |-> 0]]
  /\ balance = OpeningBalance /\ flows = <<>>

-----------------------------------------------------------------------------
(* The exposure manager.                                                   *)

AddExposure(p, notional) ==
  /\ exposure' = [exposure EXCEPT ![p.symbol][p.side] = @ + notional]
  /\ currency' = [currency EXCEPT ![p.side] = @ + notional]

\* Both figures stop at zero, each by itself.
RemoveExposure(p, notional) ==
  /\ exposure' = [exposure EXCEPT ![p.symbol][p.side] = AtLeastZero(@ - notional)]
  /\ currency' = [currency EXCEPT ![p.side] = AtLeastZero(@ - notional)]

-----------------------------------------------------------------------------
(* Operations of the facade.                                               *)

Position(symbol, side, quantity, price, origin) ==
  [symbol |-> symbol, side |-> side, status |-> "open", quantity |-> quantity,
   initial |-> quantity, entry |-> price, realized |-> 0, origin |-> origin, end |-> "none"]

OpenPosition(symbol, side, quantity, price) ==
  /\ Len(positions) < MaxPositions
  /\ LET p == Position(symbol, side, quantity, price, "opened") IN
       /\ positions' = Append(positions, p)
       /\ AddExposure(p, price * quantity)
  /\ margined' = margined \cup {Len(positions) + 1}
  /\ UNCHANGED <<balance, flows, adrift>>

\* What closing `quantity` of p at `price` realizes.
Realized(p, quantity, price) ==
  (IF p.side = "long" THEN price - p.entry ELSE p.entry - price) * quantity

Ended(p, price, status, how) ==
  [p EXCEPT !.status = status, !.quantity = 0, !.realized = Realized(p, p.quantity, price),
            !.end = how]

\* Mutant: the profit the position has made earlier is booked with the last.
BookedAll(p, price) ==
  LET pnl == p.realized + Realized(p, p.quantity, price)
  IN IF pnl = 0 THEN balance ELSE balance + pnl - Charge

\* The balance after closing p: without a profit or loss nothing is charged.
Booked(p, price) ==
  LET pnl == Realized(p, p.quantity, price)
  IN IF pnl = 0 THEN balance ELSE balance + pnl - Charge

\* All that was ever opened goes out of the exposure, parts closed before included.
ClosePosition(i, price) ==
  LET p == positions[i] IN
  /\ p.status \in Active
  /\ positions' = [positions EXCEPT ![i] = Ended(p, price, "closed", "closed")]
  /\ balance' = Booked(p, price)
  /\ RemoveExposure(p, p.initial * p.entry)
  /\ margined' = margined \ {i}
  /\ UNCHANGED <<flows, adrift>>

\* p after `quantity` of it was closed at `price`: it realizes in the record.
Reduced(p, quantity, price) ==
  LET whole == quantity = p.quantity IN
  [p EXCEPT !.quantity = @ - quantity,
            !.status = IF whole THEN "closed" ELSE "partially_closed",
            !.end = IF whole THEN "in parts" ELSE "none",
            !.realized = @ + Realized(p, quantity, price)]

\* Mutant: a partial close releases the margin.
PartiallyCloseReleasing(i, quantity, price) ==
  LET p == positions[i] IN
  /\ p.status \in Active /\ 0 < quantity /\ quantity <= p.quantity
  /\ positions' = [positions EXCEPT ![i] = Reduced(p, quantity, price)]
  /\ RemoveExposure(p, quantity * p.entry)
  /\ margined' = margined \ {i}
  /\ UNCHANGED <<balance, flows, adrift>>

\* Mutant: the exposure is kept until the position is closed.
PartiallyCloseKeeping(i, quantity, price) ==
  LET p == positions[i] IN
  /\ p.status \in Active /\ 0 < quantity /\ quantity <= p.quantity
  /\ positions' = [positions EXCEPT ![i] = Reduced(p, quantity, price)]
  /\ UNCHANGED <<exposureVars, moneyVars, adrift>>

\* The balance is not touched, and the margin stays even when nothing is left.
PartiallyClose(i, quantity, price) ==
  LET p == positions[i] IN
  /\ p.status \in Active /\ 0 < quantity /\ quantity <= p.quantity
  /\ positions' = [positions EXCEPT ![i] = Reduced(p, quantity, price)]
  /\ RemoveExposure(p, quantity * p.entry)
  /\ UNCHANGED <<moneyVars, adrift>>

\* The division of Decimal: to the nearest, of two equally near to the even one.
Quotient(cost, quantity) ==
  LET down == cost \div quantity  rest == 2 * (cost % quantity)
  IN IF rest < quantity \/ (rest = quantity /\ down % 2 = 0) THEN down ELSE down + 1

\* The book of p's side loses `worth` that stays in the exposure.
SetAdrift(p, worth) ==
  adrift' = [adrift EXCEPT ![p.symbol][p.side] = @ + AtLeastZero(worth)]

\* p with `quantity` more, and the average entry `entry`.
Increased(p, quantity, entry) ==
  [p EXCEPT !.quantity = @ + quantity, !.initial = @ + quantity, !.entry = entry]

\* Nothing and nothing more has no average: the division raises.
IncreasePosition(i, quantity, price) ==
  LET p == positions[i]
      size == p.quantity + quantity
      cost == p.quantity * p.entry + quantity * price
      entry == Quotient(cost, size)
  IN
  /\ p.status \in Active /\ size > 0 /\ p.initial + quantity <= MaxSize
  /\ positions' = [positions EXCEPT ![i] = Increased(p, quantity, entry)]
  /\ AddExposure(p, quantity * price)
  /\ SetAdrift(p, cost - size * entry)
  /\ UNCHANGED moneyVars

Deposit(amount) ==
  /\ Len(flows) < MaxFlows
  /\ balance' = balance + amount /\ flows' = Append(flows, amount)
  /\ UNCHANGED <<positions, exposureVars, margined, adrift>>

\* More than the balance is refused.
Withdraw(amount) ==
  /\ Len(flows) < MaxFlows /\ amount <= balance
  /\ balance' = balance - amount /\ flows' = Append(flows, -amount)
  /\ UNCHANGED <<positions, exposureVars, margined, adrift>>

-----------------------------------------------------------------------------
(* Operations of the manager of positions alone.                           *)

Merged(p, q, entry) ==
  [p EXCEPT !.quantity = @ + q.quantity, !.initial = @ + q.initial, !.entry = entry,
            !.realized = @ + q.realized]

\* What goes into another keeps its record, with the profit that one has taken over.
GoneInto(q) == [q EXCEPT !.status = "closed", !.quantity = 0, !.end = "merged"]

\* The second position goes into the first.  Nothing forbids that they are the same:
\* the merged record is then overwritten by the one of what has gone into it.
Merge(i, j) ==
  LET p == positions[i]  q == positions[j]
      size == p.quantity + q.quantity
      cost == p.quantity * p.entry + q.quantity * q.entry
      entry == IF size > 0 THEN Quotient(cost, size) ELSE p.entry
  IN
  /\ p.status \in Active /\ q.status \in Active
  /\ p.symbol = q.symbol /\ p.side = q.side
  /\ p.initial + q.initial <= MaxSize
  /\ positions' = [positions EXCEPT ![i] = Merged(p, q, entry), ![j] = GoneInto(q)]
  /\ SetAdrift(p, IF i = j THEN p.quantity * p.entry ELSE cost - size * entry)
  /\ UNCHANGED <<exposureVars, moneyVars>>

\* A position is split in two; the first keeps its record, its initial quantity
\* included.  Each part is rounded by itself, and the ratios need not add up exactly.
Split(i, first, second) ==
  LET p == positions[i]  lost == p.quantity - first - second IN
  /\ Len(positions) < MaxPositions /\ p.status \in Active
  /\ first <= p.quantity /\ second <= p.quantity /\ lost \in -Slack .. Slack
  /\ positions' = Append([positions EXCEPT ![i].quantity = first],
                         Position(p.symbol, p.side, second, p.entry, "split"))
  /\ SetAdrift(p, lost * p.entry)
  /\ UNCHANGED <<exposureVars, moneyVars>>

\* liquidate_position(), forced_close_position()
Drop(i, price, status) ==
  LET p == positions[i] IN
  /\ p.status \in Active
  /\ positions' = [positions EXCEPT ![i] = Ended(p, price, status, "dropped")]
  /\ UNCHANGED <<exposureVars, moneyVars, adrift>>

-----------------------------------------------------------------------------
Next ==
  \/ \E symbol \in Symbols, side \in Sides, quantity \in Quantities, price \in Prices :
       OpenPosition(symbol, side, quantity, price)
  \/ \E i \in Ids, price \in Prices :
       \/ ClosePosition(i, price)
       \/ \E quantity \in Quantities :
            PartiallyClose(i, quantity, price) \/ IncreasePosition(i, quantity, price)
       \/ \E status \in Dropped : Drop(i, price, status)
  \/ \E i, j \in Ids : Merge(i, j)
  \/ \E i \in Ids : \E first, second \in 0 .. positions[i].quantity : Split(i, first, second)
  \/ \E amount \in Amounts : Deposit(amount) \/ Withdraw(amount)

Spec == Init /\ [][Next]_vars

-----------------------------------------------------------------------------
(* Properties.                                                             *)

Records ==
  [symbol : Symbols, side : Sides, status : Statuses, quantity : Nat, initial : Nat,
   entry : Nat, realized : Int, origin : {"opened", "split"},
   end : {"none", "closed", "in parts", "merged", "dropped"}]

\* Types; never more is left of a position than was ever opened, and nothing of one
\* that is gone (of an active one it may be nothing, too).
TypeOK ==
  /\ positions \in Seq(Records)
  /\ \A i \in Ids : /\ positions[i].quantity <= positions[i].initial
                    /\ positions[i].status \notin Active => positions[i].quantity = 0
                    /\ positions[i].end = "none" <=> positions[i].status \in Active
  /\ exposure \in [Symbols -> [Sides -> Nat]] /\ currency \in [Sides -> Nat]
  /\ margined \subseteq Ids
  /\ balance \in Int /\ flows \in Seq(Int)
  /\ adrift \in [Symbols -> [Sides -> Nat]]

\* What a position counts in the book of one side of a symbol: what is left of it
\* while it is active, and all of it once it was dropped behind the back of the
\* exposure manager.
Worth(p, symbol, side) ==
  IF p.symbol # symbol \/ p.side # side THEN 0
  ELSE IF p.status \in Active THEN p.quantity * p.entry
  ELSE IF p.status \in Dropped THEN p.initial * p.entry
  ELSE 0

BookValue(symbol, side) ==
  SumFunctionOnSet([i \in Ids |-> Worth(positions[i], symbol, side)], Ids)

\* No exposure is left of positions that are gone, but for what is adrift: per symbol
\* and side it never exceeds what the book is worth by more than the book has lost to
\* rounding, uneven splits and merging a position with itself; per currency it never
\* exceeds the sum of the symbols.  (It may fall short: closing a position that was
\* closed in part before takes more out than it had put in, and so takes from others.)
NoPhantomExposure ==
  \A side \in Sides :
    /\ \A symbol \in Symbols : exposure[symbol][side] <= BookValue(symbol, side) + adrift[symbol][side]
    /\ currency[side] <= SumFunctionOnSet([symbol \in Symbols |-> exposure[symbol][side]], Symbols)

\* What a position that was closed at once has brought to the balance.
Gain(p) ==
  IF p.end # "closed" \/ p.realized = 0 THEN 0 ELSE p.realized - Charge

\* The balance is the opening balance, what was paid in and out, and the profit
\* recorded in the positions that were closed at once; what was realized in parts,
\* merged away or dropped is in the records of the positions and not in it.  (Nothing
\* keeps it from falling below zero: a loss is booked whatever is left.)
BalanceIsBooked ==
  balance = OpeningBalance
            + SumFunctionOnSet(flows, DOMAIN flows)
            + SumFunctionOnSet([i \in Ids |-> Gain(positions[i])], Ids)

\* Margin is held for a position the facade opened until it has come to its end.
MarginIsHeld ==
  \A i \in ActiveIds : positions[i].origin = "opened" => i \in margined

\* Nothing happens to a position after its end.
EndIsFinal ==
  [][\A i \in Ids : positions[i].end # "none" => positions'[i] = positions[i]]_vars
=============================================================================
