----------------------------- MODULE OrderDesk -----------------------------
(***************************************************************************)
(* The request handlers that trade for one account and one symbol:         *)
(* create_order and cancel_order (order_service.py) and close_position     *)
(* (position_service.py) of apps/trading-engine/src/services, each in the  *)
(* database session of its own request.                                    *)
(*                                                                         *)
(* A request reads the account when it begins, awaits the broker adapter,  *)
(* reads the open position, computes in memory, and is committed when the  *)
(* handler returns.  No row is locked and no version is checked: a commit  *)
(* writes the columns the request changed, with the values it computed     *)
(* from what it had read.  Requests interleave at their awaits.            *)
(*                                                                         *)
(* The adapter is reduced to what a desk sees of it: an order fills at     *)
(* once, in full or in part, or rests; a resting one may fill later, and   *)
(* what has not filled in full may be cancelled (PaperBroker models it).   *)
(* The desk never hears of a later fill, and a part is never filled up.    *)
(* `equity' always equals `balance' here and is left out; money is in      *)
(* units in which the leverage is 1.                                       *)
(***************************************************************************)
EXTENDS Integers, Sequences, FiniteSets

CONSTANTS
  Clients,       \* requests that may be in progress at the same time
  Requests,      \* sides and quantities of the orders clients send
  Prices,        \* prices the broker may fill at
  RefPrice,      \* the price margin is reserved at: 1.20000 for a market order
  FeeRate,       \* commission per unit
  StartBalance,
  MaxOrders,     \* bound: orders the broker takes
  MaxOverlapped  \* the bound once requests have overlapped or a fee was taken again

Sides == {"buy", "sell"}

ASSUME DeskAssumption ==
  /\ Requests \subseteq [side : Sides, qty : Nat \ {0}]
  /\ Prices \subseteq Nat \ {0}
  /\ RefPrice \in Nat \ {0} /\ FeeRate \in Nat
  /\ StartBalance \in Nat /\ MaxOrders \in Nat /\ MaxOverlapped \in Nat

VARIABLES
  account,    \* AccountModel: balance, margin and margin_free, as committed
  positions,  \* PositionModel rows of the account, as committed
  orders,     \* OrderModel rows, with the fills they have recorded
  broker,     \* external: the orders the adapter holds, by broker order id
  req,        \* per client, the request in progress and what it has read
  net,        \* history: the position the committed requests add up to
  cash,       \* history: the money they moved
  rounded,    \* history: what averaging the open position's price rounded off its cost
  again,      \* history: the fees that closing a position took a second time
  serial      \* history: no two requests that trade have overlapped

books == <<account, positions, net, cash, rounded, again>>
db == <<books, orders>>
vars == <<db, broker, req, serial>>

Larger(a, b) == IF a >= b THEN a ELSE b
Signed(side, x) == IF side = "buy" THEN x ELSE -x
Fee(qty) == qty * FeeRate

Account(balance, margin) ==
  [balance |-> balance, margin |-> margin, free |-> Larger(0, balance - margin)]

Idle == [at |-> "idle"]
Trading(c) == req[c].at \in {"submitting", "taken", "booking", "finding", "closing"}
OpenRows == {i \in DOMAIN positions : positions[i].open}

\* What a commit leaves in a row: the columns the request changed.
Written(current, read, new) ==
  [k \in DOMAIN current |-> IF new[k] # read[k] THEN new[k] ELSE current[k]]

Init ==
  /\ account = Account(StartBalance, 0)
  /\ positions = << >>
  /\ orders = << >>
  /\ broker = << >>
  /\ req = [c \in Clients |-> Idle]
  /\ net = 0 /\ cash = 0 /\ rounded = 0 /\ again = 0 /\ serial = TRUE

\* A request moves on; a request that trades begins.
Proceed(c, r) == req' = [req EXCEPT ![c] = r]
OrdersAllowed == IF serial /\ again = 0 THEN MaxOrders ELSE MaxOverlapped
Enters(c) ==
  /\ serial' = (serial /\ \A d \in Clients \ {c} : ~Trading(d))
  /\ serial' \/ Len(broker) < MaxOverlapped

-----------------------------------------------------------------------------
(* create_order.                                                           *)

Required(qty) == qty * RefPrice

\* The pre-trade check, which an account with no free margin at all passes.
MarginAllows(qty) ==
  account.balance > 0 /\ account.free > 0 => Required(qty) <= account.free

BeginOrder(c) ==
  /\ req[c] = Idle
  /\ \E order \in Requests :
       /\ MarginAllows(order.qty)
       /\ Proceed(c, [at |-> "submitting", side |-> order.side, qty |-> order.qty,
                      acct |-> account])
  /\ Enters(c)
  /\ UNCHANGED <<db, broker>>

\* How far an order of the adapter, or of the desk, has come with a fill.
Filled(qty, fill, none, part, all) ==
  CASE fill = 0 -> none [] fill = qty -> all [] OTHER -> part

\* The adapter fills the order at some price, or a part of it, or lets it rest.
BrokerTakes(c) ==
  LET r == req[c]
  IN /\ r.at = "submitting"
     /\ Len(broker) < OrdersAllowed
     /\ \E price \in Prices \cup {0}, fill \in 0..r.qty :
          /\ price = 0 <=> fill = 0
          /\ broker' = Append(broker, [side |-> r.side, qty |-> r.qty, fill |-> fill,
                        state |-> Filled(r.qty, fill, "resting", "part", "filled")])
          /\ Proceed(c, [at |-> "taken", side |-> r.side, qty |-> r.qty, acct |-> r.acct,
                         id |-> Len(broker) + 1, fill |-> fill, price |-> price])
     /\ UNCHANGED <<db, serial>>

NoRow == [side |-> "none", qty |-> 0, price |-> 0, mark |-> 0, fees |-> 0, open |-> FALSE]

\* The handler reads the open position of the symbol.  More than one raises
\* MultipleResultsFound: then the request can only Fail.
SelectPosition(c) ==
  LET r == req[c]
      booking(i, row) == [at |-> "booking", side |-> r.side, qty |-> r.qty,
                          acct |-> r.acct, id |-> r.id, fill |-> r.fill,
                          price |-> r.price, pos |-> i, row |-> row]
  IN /\ r.at = "taken" /\ r.fill > 0
     /\ \/ OpenRows = {} /\ Proceed(c, booking(0, NoRow))
        \/ \E i \in OpenRows : OpenRows = {i} /\ Proceed(c, booking(i, positions[i]))
     /\ UNCHANGED <<db, broker, serial>>

Row(r, qty, fees) ==
  [side |-> r.side, qty |-> qty, price |-> r.price, mark |-> r.price,
   fees |-> fees, open |-> TRUE]

\* Profit of closing `qty' of a position read as `p' at `price'.
Profit(p, qty, price) == Signed(p.side, qty * (price - p.price))

SaveAccount(read, balance, margin) ==
  account' = Written(account, read, Account(balance, margin))
SaveRow(i, read, new) ==
  positions' = [positions EXCEPT ![i] = Written(@, read, new)]

BookOpen(r) ==
  /\ r.pos = 0
  /\ positions' = Append(positions, Row(r, r.fill, Fee(r.fill)))
  /\ SaveAccount(r.acct, r.acct.balance - Fee(r.fill), r.acct.margin + Required(r.qty))

BookAccumulate(r) ==
  LET p == r.row
      qty == p.qty + r.fill
  IN /\ r.pos # 0 /\ p.side = r.side
     /\ SaveRow(r.pos, p,
          [p EXCEPT !.qty = qty, !.mark = r.price, !.fees = @ + Fee(r.fill),
                    !.price = (p.price * p.qty + r.price * r.fill) \div qty])
     /\ SaveAccount(r.acct, r.acct.balance - Fee(r.fill), r.acct.margin + Required(r.qty))

\* The average is kept to the decimals of its column.
RoundedOff(r) ==
  LET p == r.row
  IN IF r.pos # 0 /\ p.side = r.side
       THEN Signed(p.side, (p.price * p.qty + r.price * r.fill) % (p.qty + r.fill))
       ELSE 0

\* Mutant: the profit of the part that is closed is taken with the wrong sign.
BookReduceAtLoss(r) ==
  LET p == r.row
  IN /\ r.pos # 0 /\ p.side # r.side /\ r.fill < p.qty
     /\ SaveRow(r.pos, p, [p EXCEPT !.qty = @ - r.fill, !.mark = r.price])
     /\ SaveAccount(r.acct, r.acct.balance - Fee(r.fill) - Profit(p, r.fill, r.price),
                    Larger(0, r.acct.margin - r.fill * p.price))

BookReduce(r) ==
  LET p == r.row
  IN /\ r.pos # 0 /\ p.side # r.side /\ r.fill < p.qty
     /\ SaveRow(r.pos, p, [p EXCEPT !.qty = @ - r.fill, !.mark = r.price])
     /\ SaveAccount(r.acct, r.acct.balance - Fee(r.fill) + Profit(p, r.fill, r.price),
                    Larger(0, r.acct.margin - r.fill * p.price))

BookFlatten(r) ==
  LET p == r.row
  IN /\ r.pos # 0 /\ p.side # r.side /\ r.fill = p.qty
     /\ SaveRow(r.pos, p, [p EXCEPT !.open = FALSE, !.mark = r.price])
     /\ SaveAccount(r.acct, r.acct.balance - Fee(r.fill) + Profit(p, p.qty, r.price),
                    Larger(0, r.acct.margin - p.qty * p.price))

BookReverse(r) ==
  LET p == r.row
      residual == r.fill - p.qty
      closed == [positions EXCEPT ![r.pos] =
                   Written(@, p, [p EXCEPT !.open = FALSE, !.mark = r.price])]
  IN /\ r.pos # 0 /\ p.side # r.side /\ r.fill > p.qty
     /\ positions' = Append(closed, Row(r, residual, 0))
     /\ SaveAccount(r.acct, r.acct.balance - Fee(r.fill) + Profit(p, p.qty, r.price),
          Larger(0, r.acct.margin - p.qty * p.price) + residual * r.price)

RecordOrder(r, status) ==
  orders' = Append(orders, [id |-> r.id, side |-> r.side, qty |-> r.qty,
                            fill |-> r.fill, status |-> status])
Status(r) == Filled(r.qty, r.fill, "SUBMITTED", "PARTIALLY_FILLED", "FILLED")

\* The request that filled, if only in part, is committed: order, fill, position
\* and account.
CommitFill(c) ==
  LET r == req[c]
  IN /\ r.at = "booking"
     /\ BookOpen(r) \/ BookAccumulate(r) \/ BookReduce(r) \/ BookFlatten(r) \/ BookReverse(r)
     /\ RecordOrder(r, Status(r))
     /\ net' = net + Signed(r.side, r.fill)
     /\ cash' = cash - Signed(r.side, r.fill * r.price) - Fee(r.fill)
     /\ rounded' = rounded + RoundedOff(r)
     /\ Proceed(c, Idle)
     /\ UNCHANGED <<again, broker, serial>>

\* Mutant: every order the broker accepts is recorded as filled.
CommitRestingAsFilled(c) ==
  /\ req[c].at = "taken" /\ req[c].fill = 0
  /\ RecordOrder(req[c], "FILLED")
  /\ Proceed(c, Idle)
  /\ UNCHANGED <<books, broker, serial>>

\* The request whose order rests is committed: the order alone.
CommitResting(c) ==
  /\ req[c].at = "taken" /\ req[c].fill = 0
  /\ RecordOrder(req[c], Status(req[c]))
  /\ Proceed(c, Idle)
  /\ UNCHANGED <<books, broker, serial>>

-----------------------------------------------------------------------------
(* cancel_order and close_position.                                        *)

\* Mutant: every order the account has may be cancelled.
BeginCancelAny(c) ==
  /\ req[c] = Idle
  /\ \E o \in DOMAIN orders : Proceed(c, [at |-> "cancelling", order |-> o])
  /\ UNCHANGED <<db, broker, serial>>

BeginCancel(c) ==
  /\ req[c] = Idle
  /\ \E o \in DOMAIN orders :
       /\ orders[o].status \notin {"FILLED", "CANCELLED"}
       /\ Proceed(c, [at |-> "cancelling", order |-> o])
  /\ UNCHANGED <<db, broker, serial>>

\* Mutant: the desk does not wait for the adapter's answer.
BrokerCancelsLater(c) ==
  /\ req[c].at = "cancelling"
  /\ Proceed(c, [at |-> "cancelled", order |-> req[c].order])
  /\ UNCHANGED <<db, broker, serial>>

\* The adapter cancels an order that has not filled in full, and keeps what has
\* filled; if there is none, it raises or answers False, and the handler goes on
\* all the same.
BrokerCancels(c) ==
  /\ req[c].at = "cancelling"
  /\ LET id == orders[req[c].order].id
     IN broker' = [broker EXCEPT ![id].state =
                     IF @ \in {"resting", "part"} THEN "cancelled" ELSE @]
  /\ Proceed(c, [at |-> "cancelled", order |-> req[c].order])
  /\ UNCHANGED <<db, serial>>

CommitCancel(c) ==
  /\ req[c].at = "cancelled"
  /\ orders' = [orders EXCEPT ![req[c].order].status = "CANCELLED"]
  /\ Proceed(c, Idle)
  /\ UNCHANGED <<books, broker, serial>>

BeginClose(c) ==
  /\ req[c] = Idle
  /\ Proceed(c, [at |-> "finding", acct |-> account])
  /\ Enters(c)
  /\ UNCHANGED <<db, broker>>

\* The handler reads the position it was named, which must be open.
FindPosition(c) ==
  /\ req[c].at = "finding"
  /\ \E i \in OpenRows :
       Proceed(c, [at |-> "closing", acct |-> req[c].acct, pos |-> i, row |-> positions[i]])
  /\ UNCHANGED <<db, broker, serial>>

\* The adapter knows no position by the desk's id and raises; the handler closes
\* at the price of the last fill, and takes the fees the position carries, which
\* create_order has taken from the balance before.
CommitClose(c) ==
  LET r == req[c]
      p == r.row
  IN /\ r.at = "closing"
     /\ SaveRow(r.pos, p, [p EXCEPT !.open = FALSE])
     /\ SaveAccount(r.acct, r.acct.balance + Profit(p, p.qty, p.mark) - p.fees,
                    Larger(0, r.acct.margin - p.qty * p.price))
     /\ net' = net - Signed(p.side, p.qty)
     /\ cash' = cash + Signed(p.side, p.qty * p.mark)
     /\ again' = again + p.fees
     /\ Proceed(c, Idle)
     /\ UNCHANGED <<orders, rounded, broker, serial>>

-----------------------------------------------------------------------------
\* The adapter or the database fails: the request answers with an error and its
\* session is rolled back.  What the broker did stays done.
Fail(c) ==
  /\ req[c] # Idle
  /\ Proceed(c, Idle)
  /\ UNCHANGED <<db, broker, serial>>

\* A request that is turned away (no margin, no such order, not open).
Refused(c) ==
  /\ req[c] = Idle
  /\ UNCHANGED vars

\* get_risk_status marks the open positions it read to the market; its session is
\* committed like any other.  (The mark of a row closed meanwhile is never read.)
MarkToMarket ==
  /\ \E i \in OpenRows, price \in Prices : positions' = [positions EXCEPT ![i].mark = price]
  /\ UNCHANGED <<account, net, cash, rounded, again, orders, broker, req, serial>>

\* A quote touches a resting order, which fills in full or in part.  Nobody tells
\* the desk.
RestingFills ==
  /\ \E id \in DOMAIN broker : \E fill \in 1..broker[id].qty :
       /\ broker[id].state = "resting"
       /\ broker' = [broker EXCEPT ![id].fill = fill,
                       ![id].state = Filled(broker[id].qty, fill, "resting", "part", "filled")]
  /\ UNCHANGED <<db, req, serial>>

Next ==
  \/ \E c \in Clients : BeginOrder(c)
  \/ \E c \in Clients : BrokerTakes(c)
  \/ \E c \in Clients : SelectPosition(c)
  \/ \E c \in Clients : CommitFill(c) \/ CommitResting(c)
  \/ \E c \in Clients : BeginCancel(c) \/ BrokerCancels(c) \/ CommitCancel(c)
  \/ \E c \in Clients : BeginClose(c) \/ FindPosition(c) \/ CommitClose(c)
  \/ \E c \in Clients : Fail(c) \/ Refused(c)
  \/ MarkToMarket
  \/ RestingFills

Spec == Init /\ [][Next]_vars

-----------------------------------------------------------------------------
(* Properties.                                                             *)

PositionRow ==
  [side : Sides, qty : Nat \ {0}, price : Nat \ {0}, mark : Nat \ {0}, fees : Nat,
   open : BOOLEAN]

\* Types of the committed rows and of the broker's orders.
TypeOK ==
  /\ account \in [balance : Int, margin : Nat, free : Nat]
  /\ \A i \in DOMAIN positions : positions[i] \in PositionRow
  /\ \A o \in DOMAIN orders :
       orders[o] \in [id : DOMAIN broker, side : Sides, qty : Nat \ {0}, fill : Nat,
                      status : {"SUBMITTED", "PARTIALLY_FILLED", "FILLED", "CANCELLED"}]
  /\ \A id \in DOMAIN broker :
       /\ broker[id] \in [side : Sides, qty : Nat \ {0}, fill : Nat,
                          state : {"resting", "part", "filled", "cancelled"}]
       /\ broker[id].fill <= broker[id].qty

\* The desk records no fill that did not happen and none twice, whatever fails
\* between the broker and the commit: every recorded fill stands for a fill of the
\* broker's, on the same side and of the same size, in an order of its own, and an
\* order is called filled when all of it is.
NoPhantomFill ==
  \A o \in DOMAIN orders :
    LET b == broker[orders[o].id]
    IN /\ orders[o].fill > 0 =>
            /\ b.fill = orders[o].fill
            /\ b.side = orders[o].side /\ b.qty = orders[o].qty
            /\ \A u \in DOMAIN orders : orders[u].id = orders[o].id => u = o
       /\ orders[o].status = "FILLED" => b.state = "filled" /\ orders[o].fill = orders[o].qty

\* An order the desk calls cancelled neither rests any longer nor waits for its
\* other part, so it cannot fill later.  (It may have filled before the
\* cancellation reached the broker.)
CancelledRestsNoMore ==
  \A o \in DOMAIN orders :
    orders[o].status = "CANCELLED" => broker[orders[o].id].state \in {"filled", "cancelled"}

\* A recorded order that was filled or cancelled is never recorded otherwise,
\* however cancellations of the same order overlap; and a fill that was recorded
\* stays, also when the order it is a part of is cancelled.
SettledOrdersAreFinal ==
  [][\A o \in DOMAIN orders :
       /\ orders[o].status \in {"FILLED", "CANCELLED"} => orders'[o] = orders[o]
       /\ orders'[o].fill = orders[o].fill]_vars

\* Positions and balance are what the committed requests add up to: one open
\* position at most, the net of the fills and closes, and a balance that moved
\* by their cash flows with one fee for each fill, the open position taken at its
\* cost, which is its size at its average price and what the averages were
\* rounded off by.
BooksBalance ==
  \/ OpenRows = {} /\ net = 0 /\ account.balance = StartBalance + cash + rounded
  \/ \E i \in OpenRows :
       LET p == positions[i]
       IN /\ OpenRows = {i}
          /\ net = Signed(p.side, p.qty)
          /\ account.balance = StartBalance + cash + rounded + Signed(p.side, p.qty * p.price)

\* One request at a time, failures included, the books always balance, as long as
\* no position that carries fees was closed: close_position takes those fees a
\* second time.
SerialBooksBalance == serial /\ again = 0 => BooksBalance

=============================================================================
