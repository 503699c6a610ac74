-------------------------- MODULE OrderDeskProofs --------------------------
(***************************************************************************)
(* Proofs about OrderDesk, for any number of clients, orders and prices:   *)
(* what the desk records of an order stays true of it at the broker, over  *)
(* every interleaving and every failure.  Positions and balances play no   *)
(* part in it, since overlapping requests do damage to them: of these their *)
(* types are proved and, as long as no requests overlap, that they balance.*)
(***************************************************************************)
EXTENDS OrderDesk, SequenceTheorems, TLAPS

OrderStatuses == {"SUBMITTED", "PARTIALLY_FILLED", "FILLED", "CANCELLED"}
OrderRow == [id : Nat, side : Sides, qty : Nat \ {0}, fill : Nat, status : OrderStatuses]
BrokerOrder ==
  {b \in [side : Sides, qty : Nat \ {0}, fill : Nat,
          state : {"resting", "part", "filled", "cancelled"}] : b.fill <= b.qty}

\* The rows and the broker's orders, and that each row names one of its own.
TablesOK ==
  /\ broker \in Seq(BrokerOrder)
  /\ orders \in Seq(OrderRow)
  /\ \A o \in DOMAIN orders : orders[o].id \in DOMAIN broker
  /\ \A o, u \in DOMAIN orders : orders[o].id = orders[u].id => o = u

\* What a row says of its order is so at the broker.
RowsAreTrue ==
  \A o \in DOMAIN orders :
    LET b == broker[orders[o].id]
    IN /\ orders[o].fill > 0 =>
            /\ b.fill = orders[o].fill /\ b.state # "resting"
            /\ b.side = orders[o].side /\ b.qty = orders[o].qty
       /\ orders[o].status = "FILLED" => b.state = "filled" /\ orders[o].fill = orders[o].qty
       /\ orders[o].status = "CANCELLED" => b.state \in {"filled", "cancelled"}

\* A request between the broker and its commit holds an order nobody recorded.
Holds(r) == r.at \in {"taken", "booking"}
HeldOK(r) ==
  /\ r.id \in DOMAIN broker
  /\ broker[r.id].side = r.side /\ broker[r.id].qty = r.qty
  /\ r.fill \in Nat /\ r.fill <= r.qty
  /\ r.fill > 0 => broker[r.id].fill = r.fill /\ broker[r.id].state # "resting"
  /\ r.fill = r.qty => broker[r.id].state = "filled"
  /\ \A o \in DOMAIN orders : orders[o].id # r.id

\* A request to cancel has seen its order, which was not filled then.
CancelOK(r) ==
  /\ r.order \in DOMAIN orders
  /\ orders[r.order].status # "FILLED"
  /\ r.at = "cancelled" => broker[orders[r.order].id].state \in {"filled", "cancelled"}

RequestOK(r) ==
  /\ r.at = "submitting" => r.side \in Sides /\ r.qty \in Nat \ {0}
  /\ Holds(r) => HeldOK(r)
  /\ r.at = "booking" => r.fill > 0
  /\ r.at \in {"cancelling", "cancelled"} => CancelOK(r)

RequestsOK ==
  /\ req = [c \in Clients |-> req[c]]
  /\ \A c \in Clients : RequestOK(req[c])
  /\ \A c, d \in Clients : c # d /\ Holds(req[c]) /\ Holds(req[d]) => req[c].id # req[d].id

Inv == TablesOK /\ RowsAreTrue /\ RequestsOK

-----------------------------------------------------------------------------
LEMMA InitInv == Init => Inv
<1> SUFFICES ASSUME Init PROVE Inv
    OBVIOUS
<1>1. TablesOK /\ RowsAreTrue
      BY DEF Init, TablesOK, RowsAreTrue
<1>2. RequestsOK
      BY DEF Init, RequestsOK, RequestOK, Holds, Idle
<1> QED BY <1>1, <1>2 DEF Inv

\* A request moves on.
LEMMA Moved ==
  ASSUME RequestsOK, NEW c \in Clients, NEW r, Proceed(c, r)
  PROVE  /\ req' = [d \in Clients |-> req'[d]]
         /\ req'[c] = r
         /\ \A d \in Clients : d # c => req'[d] = req[d]
BY DEF RequestsOK, Proceed

\* A request moves on and neither table changes.
LEMMA MovedAlone ==
  ASSUME Inv, NEW c \in Clients, NEW r, Proceed(c, r), UNCHANGED <<orders, broker>>,
         RequestOK(r), Holds(r) => Holds(req[c]) /\ r.id = req[c].id
  PROVE  Inv'
<1>1. TablesOK' /\ RowsAreTrue'
      BY DEF Inv, TablesOK, RowsAreTrue
<1>2. /\ req' = [d \in Clients |-> req'[d]]
      /\ req'[c] = r
      /\ \A d \in Clients : d # c => req'[d] = req[d]
      BY Moved DEF Inv
<1>3. RequestOK(req[c])'
      BY <1>2 DEF RequestOK, HeldOK, CancelOK, Holds
<1>4. ASSUME NEW d \in Clients, d # c PROVE RequestOK(req[d])'
      <2>1. req'[d] = req[d] /\ RequestOK(req[d])
            BY <1>2, <1>4 DEF Inv, RequestsOK
      <2> QED BY <2>1 DEF RequestOK, HeldOK, CancelOK, Holds
<1>5. ASSUME NEW d \in Clients, NEW e \in Clients, d # e, Holds(req'[d]), Holds(req'[e])
      PROVE  req'[d].id # req'[e].id
      <2>1. ASSUME NEW f \in Clients, Holds(req'[f])
            PROVE  Holds(req[f]) /\ req'[f].id = req[f].id
            BY <1>2, <2>1
      <2> QED BY <1>5, <2>1 DEF Inv, RequestsOK
<1>6. RequestsOK'
      BY <1>2, <1>3, <1>4, <1>5 DEF RequestsOK, Holds
<1> QED BY <1>1, <1>6 DEF Inv

\* Neither a table nor a request changes.
LEMMA Still ==
  ASSUME Inv, UNCHANGED <<orders, broker, req>>
  PROVE  Inv'
BY DEF Inv, TablesOK, RowsAreTrue, RequestsOK, RequestOK, HeldOK, CancelOK, Holds

LEMMA StepBeginOrder == ASSUME Inv, NEW c \in Clients, BeginOrder(c) PROVE Inv'
<1>1. PICK order \in Requests :
        Proceed(c, [at |-> "submitting", side |-> order.side, qty |-> order.qty,
                    acct |-> account])
      BY DEF BeginOrder
<1>2. order.side \in Sides /\ order.qty \in Nat \ {0}
      BY DeskAssumption
<1> QED BY <1>1, <1>2, MovedAlone DEF BeginOrder, RequestOK, Holds, db

LEMMA StepBrokerTakes == ASSUME Inv, NEW c \in Clients, BrokerTakes(c) PROVE Inv'
<1>0. req[c].side \in Sides /\ req[c].qty \in Nat \ {0}
      BY DEF Inv, RequestsOK, RequestOK, BrokerTakes
<1> DEFINE state(fill) == Filled(req[c].qty, fill, "resting", "part", "filled")
<1>1. PICK price \in Prices \cup {0}, fill \in 0..req[c].qty :
        /\ broker' = Append(broker, [side |-> req[c].side, qty |-> req[c].qty,
                                     fill |-> fill, state |-> state(fill)])
        /\ Proceed(c, [at |-> "taken", side |-> req[c].side, qty |-> req[c].qty,
                       acct |-> req[c].acct, id |-> Len(broker) + 1, fill |-> fill,
                       price |-> price])
      BY DEF BrokerTakes
<1> DEFINE new == [side |-> req[c].side, qty |-> req[c].qty, fill |-> fill,
                   state |-> state(fill)]
           id == Len(broker) + 1
<1>a. /\ fill \in Nat /\ fill <= req[c].qty
      /\ state(fill) \in {"resting", "part", "filled"}
      /\ fill > 0 => state(fill) # "resting"
      /\ fill = req[c].qty => state(fill) = "filled"
      BY <1>0 DEF Filled
<1> HIDE DEF state
<1>2. new \in BrokerOrder
      BY <1>0, <1>a DEF BrokerOrder
<1>3. /\ broker' \in Seq(BrokerOrder)
      /\ DOMAIN broker' = DOMAIN broker \cup {id}
      /\ id \notin DOMAIN broker
      /\ broker'[id] = new
      /\ \A i \in DOMAIN broker : broker'[i] = broker[i]
      BY <1>1, <1>2 DEF Inv, TablesOK
<1>4. UNCHANGED orders
      BY DEF BrokerTakes, db
<1>5. TablesOK'
      BY <1>3, <1>4 DEF Inv, TablesOK
<1>6. RowsAreTrue'
      BY <1>3, <1>4 DEF Inv, TablesOK, RowsAreTrue
<1>7. ASSUME NEW d \in Clients, d # c PROVE RequestOK(req[d])'
      <2>1. req'[d] = req[d]
            BY <1>1, <1>7, Moved DEF Inv
      <2> QED BY <2>1, <1>3, <1>4, <1>7 DEF Inv, TablesOK, RequestsOK, RequestOK, HeldOK, CancelOK, Holds
<1>8. RequestOK(req[c])'
      <2>1. /\ req'[c].at = "taken" /\ req'[c].id = id /\ req'[c].fill = fill
            /\ req'[c].side = req[c].side /\ req'[c].qty = req[c].qty
            BY <1>1, Moved DEF Inv
      <2>2. \A o \in DOMAIN orders : orders[o].id # id
            BY <1>3 DEF Inv, TablesOK
      <2>3. HeldOK(req[c])'
            BY <2>1, <2>2, <1>a, <1>3, <1>4 DEF HeldOK
      <2> QED BY <2>1, <2>3 DEF RequestOK, Holds
<1>9. RequestsOK'
      <2>1. /\ req' = [d \in Clients |-> req'[d]]
            /\ req'[c].id = id
            /\ \A d \in Clients : d # c => req'[d] = req[d]
            BY <1>1, Moved DEF Inv
      <2>2. \A d \in Clients : Holds(req[d]) => req[d].id # id
            BY <1>3 DEF Inv, RequestsOK, RequestOK, HeldOK
      <2> QED BY <2>1, <2>2, <1>7, <1>8 DEF Inv, RequestsOK, Holds
<1> QED BY <1>5, <1>6, <1>9 DEF Inv

LEMMA StepSelectPosition == ASSUME Inv, NEW c \in Clients, SelectPosition(c) PROVE Inv'
<1>1. PICK i, row :
        Proceed(c, [at |-> "booking", side |-> req[c].side, qty |-> req[c].qty,
                    acct |-> req[c].acct, id |-> req[c].id, fill |-> req[c].fill,
                    price |-> req[c].price, pos |-> i, row |-> row])
      BY DEF SelectPosition
<1>2. req[c].at = "taken" /\ req[c].fill > 0 /\ UNCHANGED <<orders, broker>>
      BY DEF SelectPosition, db
<1>3. HeldOK(req[c])
      BY <1>2 DEF Inv, RequestsOK, RequestOK, Holds
<1> QED BY <1>1, <1>2, <1>3, MovedAlone DEF RequestOK, HeldOK, Holds

\* The order a request holds is recorded.
LEMMA Recorded ==
  ASSUME Inv, NEW c \in Clients, Holds(req[c]),
         RecordOrder(req[c], Status(req[c])), Proceed(c, Idle), UNCHANGED broker
  PROVE  Inv'
<1> DEFINE status == Status(req[c])
           row == [id |-> req[c].id, side |-> req[c].side, qty |-> req[c].qty,
                   fill |-> req[c].fill, status |-> status]
           new == Len(orders) + 1
<1>1. HeldOK(req[c])
      BY DEF Inv, RequestsOK, RequestOK
<1>a. /\ status \in OrderStatuses /\ status # "CANCELLED"
      /\ status = "FILLED" => req[c].fill = req[c].qty
      <2>1. \/ status = "SUBMITTED" \/ status = "PARTIALLY_FILLED"
            \/ status = "FILLED" /\ req[c].fill = req[c].qty
            BY DEF Status, Filled
      <2> HIDE DEF status
      <2> QED BY <2>1 DEF OrderStatuses
<1> HIDE DEF status
<1>2. broker[req[c].id] \in BrokerOrder /\ req[c].id \in Nat
      BY <1>1 DEF Inv, TablesOK, HeldOK
<1>3. row \in OrderRow
      BY <1>1, <1>2, <1>a DEF HeldOK, BrokerOrder, OrderRow
<1>4. /\ orders' \in Seq(OrderRow)
      /\ DOMAIN orders' = DOMAIN orders \cup {new}
      /\ new \notin DOMAIN orders
      /\ orders'[new] = row
      /\ \A o \in DOMAIN orders : orders'[o] = orders[o]
      BY <1>3 DEF Inv, TablesOK, RecordOrder, status
<1>5. TablesOK'
      BY <1>1, <1>4 DEF Inv, TablesOK, HeldOK
<1>6. RowsAreTrue'
      BY <1>1, <1>a, <1>4 DEF Inv, RowsAreTrue, HeldOK
<1>7. /\ req' = [d \in Clients |-> req'[d]]
      /\ req'[c] = Idle
      /\ \A d \in Clients : d # c => req'[d] = req[d]
      BY Moved DEF Inv
<1>8. RequestOK(req[c])'
      BY <1>7 DEF RequestOK, Holds, Idle
<1>9. ASSUME NEW d \in Clients, d # c PROVE RequestOK(req[d])'
      <2>1. req'[d] = req[d] /\ RequestOK(req[d])
            BY <1>7, <1>9 DEF Inv, RequestsOK
      <2>2. Holds(req[d]) => req[d].id # req[c].id
            BY <1>9 DEF Inv, RequestsOK
      <2>3. Holds(req[d]) => HeldOK(req[d])'
            BY <2>1, <2>2, <1>4 DEF RequestOK, HeldOK
      <2>4. req[d].at \in {"cancelling", "cancelled"} => CancelOK(req[d])'
            BY <2>1, <1>4 DEF RequestOK, CancelOK
      <2> QED BY <2>1, <2>3, <2>4 DEF RequestOK, Holds
<1>10. RequestsOK'
       <2>1. ~Holds(req'[c])
             BY <1>7 DEF Holds, Idle
       <2> QED BY <2>1, <1>7, <1>8, <1>9 DEF Inv, RequestsOK, Holds
<1> QED BY <1>5, <1>6, <1>10 DEF Inv

LEMMA StepCommitFill == ASSUME Inv, NEW c \in Clients, CommitFill(c) PROVE Inv'
<1>1. /\ req[c].at = "booking"
      /\ RecordOrder(req[c], Status(req[c])) /\ Proceed(c, Idle) /\ UNCHANGED broker
      BY DEF CommitFill
<1>2. Holds(req[c])
      BY <1>1 DEF Holds
<1> QED BY <1>1, <1>2, Recorded

LEMMA StepCommitResting == ASSUME Inv, NEW c \in Clients, CommitResting(c) PROVE Inv'
BY Recorded DEF CommitResting, Holds

-----------------------------------------------------------------------------
LEMMA StepBeginCancel == ASSUME Inv, NEW c \in Clients, BeginCancel(c) PROVE Inv'
<1>1. PICK o \in DOMAIN orders :
        orders[o].status # "FILLED" /\ Proceed(c, [at |-> "cancelling", order |-> o])
      BY DEF BeginCancel
<1>2. RequestOK([at |-> "cancelling", order |-> o])
      BY <1>1 DEF RequestOK, CancelOK, Holds
<1> QED BY <1>1, <1>2, MovedAlone DEF BeginCancel, Holds, db

\* An order that has not filled in full moves on at the broker: one that rests
\* fills, or the order is cancelled.
LEMMA OrderMoves ==
  ASSUME Inv, NEW id \in DOMAIN broker, NEW new \in BrokerOrder,
         broker[id].state \in {"resting", "part"}, new.state # "resting",
         new.side = broker[id].side, new.qty = broker[id].qty,
         broker[id].state = "part" => new.fill = broker[id].fill,
         broker' = [broker EXCEPT ![id] = new], UNCHANGED orders
  PROVE  TablesOK' /\ RowsAreTrue' /\ \A r : RequestOK(r) => RequestOK(r)'
<1>1. broker \in Seq(BrokerOrder)
      BY DEF Inv, TablesOK
<1>2. /\ broker' \in Seq(BrokerOrder)
      /\ DOMAIN broker' = DOMAIN broker
      /\ broker'[id] = new
      /\ \A i \in DOMAIN broker : i # id => broker'[i] = broker[i]
      BY <1>1
<1>3. \A i \in DOMAIN broker :
        /\ broker'[i].side = broker[i].side /\ broker'[i].qty = broker[i].qty
        /\ broker[i].state # "resting" =>
             broker'[i].state # "resting" /\ broker'[i].fill = broker[i].fill
        /\ broker[i].state \in {"filled", "cancelled"} => broker'[i].state = broker[i].state
      BY <1>2
<1>4. TablesOK'
      BY <1>2 DEF Inv, TablesOK
<1>5. RowsAreTrue'
      BY <1>2, <1>3 DEF Inv, TablesOK, RowsAreTrue
<1>6. ASSUME NEW r, RequestOK(r) PROVE RequestOK(r)'
      <2>1. Holds(r) => HeldOK(r)'
            BY <1>2, <1>3, <1>6 DEF RequestOK, HeldOK
      <2>2. r.at \in {"cancelling", "cancelled"} => CancelOK(r)'
            BY <1>2, <1>3, <1>6 DEF Inv, TablesOK, RequestOK, CancelOK
      <2> QED BY <1>6, <2>1, <2>2 DEF RequestOK, Holds
<1> QED BY <1>4, <1>5, <1>6

LEMMA StepRestingFills == ASSUME Inv, RestingFills PROVE Inv'
<1>0. PICK id \in DOMAIN broker : \E fill \in 1..broker[id].qty :
        /\ broker[id].state = "resting"
        /\ broker' = [broker EXCEPT ![id].fill = fill,
                        ![id].state = Filled(broker[id].qty, fill, "resting", "part", "filled")]
      BY DEF RestingFills
<1>1. PICK fill \in 1..broker[id].qty :
        /\ broker[id].state = "resting"
        /\ broker' = [broker EXCEPT ![id].fill = fill,
                        ![id].state = Filled(broker[id].qty, fill, "resting", "part", "filled")]
      BY <1>0
<1> DEFINE new == [broker[id] EXCEPT !.fill = fill,
                     !.state = Filled(broker[id].qty, fill, "resting", "part", "filled")]
<1>2. UNCHANGED <<orders, req>>
      BY DEF RestingFills, db
<1>3. broker[id] \in BrokerOrder /\ broker \in Seq(BrokerOrder)
      BY DEF Inv, TablesOK
<1>4. /\ new \in BrokerOrder /\ new.state # "resting"
      /\ new.side = broker[id].side /\ new.qty = broker[id].qty
      <2>1. Filled(broker[id].qty, fill, "resting", "part", "filled") \in {"part", "filled"}
            BY <1>3 DEF Filled, BrokerOrder
      <2>2. fill \in Nat /\ fill <= broker[id].qty
            BY <1>3 DEF BrokerOrder
      <2> QED BY <1>3, <2>1, <2>2 DEF BrokerOrder
<1>5. broker' = [broker EXCEPT ![id] = new]
      BY <1>1, <1>3
<1> HIDE DEF new
<1>6. TablesOK' /\ RowsAreTrue' /\ \A r : RequestOK(r) => RequestOK(r)'
      BY <1>1, <1>2, <1>4, <1>5, OrderMoves
<1>7. \A c \in Clients : RequestOK(req[c])'
      BY <1>2, <1>6 DEF Inv, RequestsOK
<1> QED BY <1>2, <1>6, <1>7 DEF Inv, RequestsOK

LEMMA StepBrokerCancels == ASSUME Inv, NEW c \in Clients, BrokerCancels(c) PROVE Inv'
<1> DEFINE id == orders[req[c].order].id
           r == [at |-> "cancelled", order |-> req[c].order]
<1>1. /\ req[c].at = "cancelling" /\ UNCHANGED orders /\ Proceed(c, r)
      /\ broker' = [broker EXCEPT ![id].state =
                      IF @ \in {"resting", "part"} THEN "cancelled" ELSE @]
      BY DEF BrokerCancels, db
<1>2. CancelOK(req[c])
      BY <1>1 DEF Inv, RequestsOK, RequestOK
<1>3. id \in DOMAIN broker /\ broker \in Seq(BrokerOrder) /\ broker[id] \in BrokerOrder
      BY <1>2 DEF Inv, TablesOK, CancelOK
<1>4. /\ TablesOK' /\ RowsAreTrue' /\ \A s : RequestOK(s) => RequestOK(s)'
      /\ broker'[id].state \in {"filled", "cancelled"}
      <2>1. CASE broker[id].state \in {"resting", "part"}
            <3> DEFINE new == [broker[id] EXCEPT !.state = "cancelled"]
            <3>1. broker' = [broker EXCEPT ![id] = new]
                  BY <1>1, <1>3, <2>1
            <3>2. /\ new \in BrokerOrder /\ new.state = "cancelled"
                  /\ new.side = broker[id].side /\ new.qty = broker[id].qty
                  /\ new.fill = broker[id].fill
                  BY <1>3 DEF BrokerOrder
            <3> HIDE DEF new
            <3>3. broker'[id].state = "cancelled"
                  BY <3>1, <3>2, <1>3
            <3> QED BY <3>1, <3>2, <3>3, <2>1, <1>1, <1>3, OrderMoves
      <2>2. CASE broker[id].state \notin {"resting", "part"}
            <3>1. broker' = broker /\ orders' = orders
                  BY <1>1, <1>3, <2>2 DEF BrokerOrder
            <3>0. broker[id].state \in {"filled", "cancelled"}
                  BY <1>3, <2>2 DEF BrokerOrder
            <3>2. TablesOK'
                  BY <3>1 DEF Inv, TablesOK
            <3>3. RowsAreTrue'
                  BY <3>1 DEF Inv, RowsAreTrue
            <3>4. ASSUME NEW s, RequestOK(s) PROVE RequestOK(s)'
                  BY <3>1, <3>4 DEF RequestOK, HeldOK, CancelOK
            <3> QED BY <3>0, <3>1, <3>2, <3>3, <3>4
      <2> QED BY <2>1, <2>2
<1>5. /\ req' = [d \in Clients |-> req'[d]]
      /\ req'[c] = r
      /\ \A d \in Clients : d # c => req'[d] = req[d]
      BY <1>1, Moved DEF Inv
<1>6. RequestOK(req[c])'
      <2>1. orders' = orders /\ req'[c].order = req[c].order /\ req'[c].at = "cancelled"
            BY <1>1, <1>5
      <2>2. CancelOK(req[c])'
            BY <1>2, <1>4, <2>1 DEF CancelOK
      <2>3. ~Holds(req'[c]) /\ req'[c].at # "submitting" /\ req'[c].at # "booking"
            BY <2>1 DEF Holds
      <2> QED BY <2>2, <2>3 DEF RequestOK
<1>7. \A d \in Clients : d # c => RequestOK(req[d])'
      BY <1>4, <1>5 DEF Inv, RequestsOK
<1>8. ~Holds(req'[c])
      BY <1>5 DEF Holds
<1>9. RequestsOK'
      BY <1>5, <1>6, <1>7, <1>8 DEF Inv, RequestsOK, Holds
<1> QED BY <1>4, <1>9 DEF Inv

\* Recording a cancellation changes the status of one row.
LEMMA CancelledRow ==
  ASSUME Inv, NEW c \in Clients, CommitCancel(c)
  PROVE  /\ CancelOK(req[c]) /\ broker[orders[req[c].order].id].state \in {"filled", "cancelled"}
         /\ orders' \in Seq(OrderRow)
         /\ DOMAIN orders' = DOMAIN orders
         /\ orders'[req[c].order].status = "CANCELLED"
         /\ \A o \in DOMAIN orders :
              /\ orders'[o].id = orders[o].id /\ orders'[o].side = orders[o].side
              /\ orders'[o].qty = orders[o].qty /\ orders'[o].fill = orders[o].fill
              /\ o # req[c].order => orders'[o] = orders[o]
<1> DEFINE u == req[c].order
           new == [orders[u] EXCEPT !.status = "CANCELLED"]
<1>1. /\ req[c].at = "cancelled"
      /\ orders' = [orders EXCEPT ![u] = new]
      BY DEF CommitCancel
<1>2. CancelOK(req[c])
      BY <1>1 DEF Inv, RequestsOK, RequestOK
<1>3. u \in DOMAIN orders /\ orders \in Seq(OrderRow) /\ orders[u] \in OrderRow
      BY <1>2 DEF Inv, TablesOK, CancelOK
<1>4. /\ new \in OrderRow /\ new.status = "CANCELLED"
      /\ new.id = orders[u].id /\ new.side = orders[u].side
      /\ new.qty = orders[u].qty /\ new.fill = orders[u].fill
      BY <1>3 DEF OrderRow, OrderStatuses
<1>5. broker[orders[u].id].state \in {"filled", "cancelled"}
      BY <1>1, <1>2 DEF CancelOK
<1> HIDE DEF new
<1>6. /\ orders' \in Seq(OrderRow)
      /\ DOMAIN orders' = DOMAIN orders
      /\ orders'[u] = new
      /\ \A o \in DOMAIN orders : o # u => orders'[o] = orders[o]
      BY <1>1, <1>3, <1>4
<1> QED BY <1>2, <1>4, <1>5, <1>6

LEMMA StepCommitCancel == ASSUME Inv, NEW c \in Clients, CommitCancel(c) PROVE Inv'
<1>1. /\ CancelOK(req[c]) /\ broker[orders[req[c].order].id].state \in {"filled", "cancelled"}
      /\ orders' \in Seq(OrderRow)
      /\ DOMAIN orders' = DOMAIN orders
      /\ orders'[req[c].order].status = "CANCELLED"
      /\ \A o \in DOMAIN orders :
           /\ orders'[o].id = orders[o].id /\ orders'[o].side = orders[o].side
           /\ orders'[o].qty = orders[o].qty /\ orders'[o].fill = orders[o].fill
           /\ o # req[c].order => orders'[o] = orders[o]
      BY CancelledRow
<1>2. UNCHANGED broker /\ Proceed(c, Idle)
      BY DEF CommitCancel
<1>3. TablesOK'
      BY <1>1, <1>2 DEF Inv, TablesOK
<1>4. RowsAreTrue'
      BY <1>1, <1>2 DEF Inv, RowsAreTrue
<1>5. /\ req' = [d \in Clients |-> req'[d]]
      /\ req'[c] = Idle
      /\ \A d \in Clients : d # c => req'[d] = req[d]
      BY <1>2, Moved DEF Inv
<1>6. RequestOK(req[c])' /\ ~Holds(req'[c])
      BY <1>5 DEF RequestOK, Holds, Idle
<1>7. ASSUME NEW d \in Clients, d # c PROVE RequestOK(req[d])'
      <2>1. req'[d] = req[d] /\ RequestOK(req[d])
            BY <1>5, <1>7 DEF Inv, RequestsOK
      <2>2. Holds(req[d]) => HeldOK(req[d])'
            BY <2>1, <1>1, <1>2 DEF RequestOK, HeldOK
      <2>3. req[d].at \in {"cancelling", "cancelled"} => CancelOK(req[d])'
            BY <2>1, <1>1, <1>2 DEF RequestOK, CancelOK
      <2> QED BY <2>1, <2>2, <2>3 DEF RequestOK, Holds
<1>8. RequestsOK'
      BY <1>5, <1>6, <1>7 DEF Inv, RequestsOK, Holds
<1> QED BY <1>3, <1>4, <1>8 DEF Inv

-----------------------------------------------------------------------------
LEMMA StepBeginClose == ASSUME Inv, NEW c \in Clients, BeginClose(c) PROVE Inv'
<1>1. RequestOK([at |-> "finding", acct |-> account])
      BY DEF RequestOK, Holds
<1> QED BY <1>1, MovedAlone DEF BeginClose, Holds, db

LEMMA StepFindPosition == ASSUME Inv, NEW c \in Clients, FindPosition(c) PROVE Inv'
<1>1. PICK i \in OpenRows :
        Proceed(c, [at |-> "closing", acct |-> req[c].acct, pos |-> i, row |-> positions[i]])
      BY DEF FindPosition
<1>2. RequestOK([at |-> "closing", acct |-> req[c].acct, pos |-> i, row |-> positions[i]])
      BY DEF RequestOK, Holds
<1> QED BY <1>1, <1>2, MovedAlone DEF FindPosition, Holds, db

\* The request is over and neither table changes.
LEMMA Over ==
  ASSUME Inv, NEW c \in Clients, Proceed(c, Idle), UNCHANGED <<orders, broker>>
  PROVE  Inv'
<1>1. RequestOK(Idle) /\ ~Holds(Idle)
      BY DEF RequestOK, Holds, Idle
<1> QED BY <1>1, MovedAlone

LEMMA StepInv == Inv /\ [Next]_vars => Inv'
<1> SUFFICES ASSUME Inv, [Next]_vars PROVE Inv'
    OBVIOUS
<1>1. ASSUME NEW c \in Clients, BeginOrder(c) PROVE Inv'
      BY <1>1, StepBeginOrder
<1>2. ASSUME NEW c \in Clients, BrokerTakes(c) PROVE Inv'
      BY <1>2, StepBrokerTakes
<1>3. ASSUME NEW c \in Clients, SelectPosition(c) PROVE Inv'
      BY <1>3, StepSelectPosition
<1>4. ASSUME NEW c \in Clients, CommitFill(c) PROVE Inv'
      BY <1>4, StepCommitFill
<1>5. ASSUME NEW c \in Clients, CommitResting(c) PROVE Inv'
      BY <1>5, StepCommitResting
<1>6. ASSUME NEW c \in Clients, BeginCancel(c) PROVE Inv'
      BY <1>6, StepBeginCancel
<1>7. ASSUME NEW c \in Clients, BrokerCancels(c) PROVE Inv'
      BY <1>7, StepBrokerCancels
<1>8. ASSUME NEW c \in Clients, CommitCancel(c) PROVE Inv'
      BY <1>8, StepCommitCancel
<1>9. ASSUME NEW c \in Clients, BeginClose(c) PROVE Inv'
      BY <1>9, StepBeginClose
<1>10. ASSUME NEW c \in Clients, FindPosition(c) PROVE Inv'
       BY <1>10, StepFindPosition
<1>11. ASSUME NEW c \in Clients, CommitClose(c) PROVE Inv'
       BY <1>11, Over DEF CommitClose
<1>12. ASSUME NEW c \in Clients, Fail(c) PROVE Inv'
       BY <1>12, Over DEF Fail, db
<1>13. ASSUME NEW c \in Clients, Refused(c) PROVE Inv'
       BY <1>13, Still DEF Refused, vars, db
<1>14. CASE MarkToMarket
       BY <1>14, Still DEF MarkToMarket
<1>15. CASE RestingFills
       BY <1>15, StepRestingFills
<1>16. CASE UNCHANGED vars
       BY <1>16, Still DEF vars, db
<1> QED BY <1>1, <1>2, <1>3, <1>4, <1>5, <1>6, <1>7, <1>8, <1>9, <1>10, <1>11, <1>12,
           <1>13, <1>14, <1>15, <1>16 DEF Next

\* The records of the desk are true of the broker in every reachable state.
THEOREM InvCorrect == Spec => []Inv
<1>1. Init => Inv
      BY InitInv
<1>2. Inv /\ [Next]_vars => Inv'
      BY StepInv
<1> QED BY <1>1, <1>2, PTL DEF Spec

\* Every fill the desk records, in full or in part, stands for a fill of the
\* broker's of its own, of its side and size, however requests overlap and wherever
\* they fail.
THEOREM FillsAreReal == Spec => []NoPhantomFill
<1>1. Inv => NoPhantomFill
      <2> SUFFICES ASSUME Inv, NEW o \in DOMAIN orders
          PROVE  LET b == broker[orders[o].id]
                 IN /\ orders[o].fill > 0 =>
                         /\ b.fill = orders[o].fill
                         /\ b.side = orders[o].side /\ b.qty = orders[o].qty
                         /\ \A u \in DOMAIN orders : orders[u].id = orders[o].id => u = o
                    /\ orders[o].status = "FILLED" =>
                         b.state = "filled" /\ orders[o].fill = orders[o].qty
          BY DEF NoPhantomFill
      <2> QED BY DEF Inv, TablesOK, RowsAreTrue
<1> QED BY <1>1, InvCorrect, PTL

\* An order the desk calls cancelled neither rests at the broker nor waits there for
\* its other part.
THEOREM CancellationsAreReal == Spec => []CancelledRestsNoMore
<1>1. Inv => CancelledRestsNoMore
      BY DEF Inv, TablesOK, RowsAreTrue, CancelledRestsNoMore
<1> QED BY <1>1, InvCorrect, PTL

-----------------------------------------------------------------------------
LEMMA RowsAreFinal ==
  ASSUME Inv, [Next]_vars, NEW o \in DOMAIN orders
  PROVE  /\ orders[o].status \in {"FILLED", "CANCELLED"} => orders'[o] = orders[o]
         /\ orders'[o].fill = orders[o].fill
<1> DEFINE Final == /\ orders[o].status \in {"FILLED", "CANCELLED"} => orders'[o] = orders[o]
                    /\ orders'[o].fill = orders[o].fill
<1>1. ASSUME NEW r, NEW status, RecordOrder(r, status) PROVE Final
      <2>1. orders' = Append(orders, [id |-> r.id, side |-> r.side, qty |-> r.qty,
                                      fill |-> r.fill, status |-> status])
            BY <1>1 DEF RecordOrder
      <2>2. orders \in Seq(OrderRow) /\ o \in 1..Len(orders)
            BY DEF Inv, TablesOK
      <2>3. orders'[o] = orders[o]
            BY <2>1, <2>2
      <2> QED BY <2>3
<1>2. ASSUME NEW c \in Clients, CommitFill(c) PROVE Final
      <2>1. RecordOrder(req[c], Status(req[c]))
            BY <1>2 DEF CommitFill
      <2> QED BY <1>1, <2>1
<1>3. ASSUME NEW c \in Clients, CommitResting(c) PROVE Final
      <2>1. RecordOrder(req[c], Status(req[c]))
            BY <1>3 DEF CommitResting
      <2> QED BY <1>1, <2>1
<1>4. ASSUME NEW c \in Clients, CommitCancel(c) PROVE Final
      <2>1. CASE o # req[c].order
            <3>1. orders'[o] = orders[o]
                  BY <2>1, <1>4, CancelledRow
            <3> QED BY <3>1
      <2>2. CASE o = req[c].order
            <3>1. orders[o].status # "FILLED"
                  BY <1>4, <2>2, CancelledRow DEF CancelOK
            <3>2. orders'[o].status = "CANCELLED" /\ orders'[o] \in OrderRow
                  BY <2>2, <1>4, CancelledRow
            <3>3. /\ orders'[o].id = orders[o].id /\ orders'[o].side = orders[o].side
                  /\ orders'[o].qty = orders[o].qty /\ orders'[o].fill = orders[o].fill
                  BY <1>4, CancelledRow
            <3>4. orders[o] \in OrderRow
                  BY DEF Inv, TablesOK
            <3>5. /\ orders[o] = [id |-> orders[o].id, side |-> orders[o].side,
                                  qty |-> orders[o].qty, fill |-> orders[o].fill,
                                  status |-> orders[o].status]
                  /\ orders'[o] = [id |-> orders'[o].id, side |-> orders'[o].side,
                                   qty |-> orders'[o].qty, fill |-> orders'[o].fill,
                                   status |-> orders'[o].status]
                  BY <3>2, <3>4 DEF OrderRow
            <3>6. orders[o].status = "CANCELLED" => orders'[o] = orders[o]
                  BY <3>2, <3>3, <3>5
            <3> QED BY <3>1, <3>3, <3>6
      <2> QED BY <2>1, <2>2
<1>5. CASE UNCHANGED orders
      BY <1>5
<1>6. \/ \E c \in Clients : CommitFill(c) \/ CommitResting(c) \/ CommitCancel(c)
      \/ UNCHANGED orders
      BY DEF Next, vars, db, BeginOrder, BrokerTakes, SelectPosition, BeginCancel,
             BrokerCancels, BeginClose, FindPosition, CommitClose, Fail, Refused,
             MarkToMarket, RestingFills
<1> QED BY <1>2, <1>3, <1>4, <1>5, <1>6

\* No order that was recorded as filled or cancelled is ever recorded otherwise, and
\* no fill that was recorded is ever lost.
THEOREM SettledIsFinal == Spec => SettledOrdersAreFinal
<1>1. Inv /\ [Next]_vars =>
        [\A o \in DOMAIN orders :
           /\ orders[o].status \in {"FILLED", "CANCELLED"} => orders'[o] = orders[o]
           /\ orders'[o].fill = orders[o].fill]_vars
      BY RowsAreFinal
<1> QED BY <1>1, InvCorrect, PTL DEF Spec, SettledOrdersAreFinal

-----------------------------------------------------------------------------
(* Types of the account, the positions and what requests have read of them. *)

AccountRow == [balance : Int, margin : Nat, free : Nat]

ReadOK(r) ==
  /\ r.at \in {"submitting", "taken", "booking", "finding", "closing"} => r.acct \in AccountRow
  /\ Holds(r) => r.price \in Prices \cup {0} /\ (r.fill > 0 => r.price # 0)
  /\ r.at = "booking" /\ r.pos # 0 => r.row \in PositionRow
  /\ r.at = "closing" => r.row \in PositionRow

BooksOK ==
  /\ account \in AccountRow
  /\ positions \in Seq(PositionRow)
  /\ \A c \in Clients : ReadOK(req[c])

LEMMA ProductOfInts == ASSUME NEW a \in Int, NEW b \in Int PROVE a * b \in Int
OBVIOUS

LEMMA ProductOfNats == ASSUME NEW a \in Nat, NEW b \in Nat PROVE a * b \in Nat
OBVIOUS

LEMMA AtLeastFactor == ASSUME NEW a \in Nat \ {0}, NEW b \in Nat PROVE a * b >= b
OBVIOUS

\* Assigning outside its domain leaves a list as it is.
LEMMA ExceptOutside ==
  ASSUME NEW S, NEW list \in Seq(S), NEW i, i \notin DOMAIN list, NEW e
  PROVE  [list EXCEPT ![i] = e] = list
<1>1. list = [k \in DOMAIN list |-> list[k]]
      OBVIOUS
<1> QED BY <1>1, Zenon

\* The average of two prices is at least 1, rounded down as it is.
LEMMA AverageType ==
  ASSUME NEW p \in Nat \ {0}, NEW m \in Nat \ {0}, NEW q \in Nat \ {0}, NEW n \in Nat \ {0}
  PROVE  (p * m + q * n) \div (m + n) \in Nat \ {0}
<1> DEFINE x == p * m
           y == q * n
<1>1. x \in Nat /\ y \in Nat /\ x >= m /\ y >= n
      BY ProductOfNats, AtLeastFactor
<1> HIDE DEF x, y
<1>2. (x + y) \div (m + n) \in Nat \ {0}
      BY <1>1
<1> QED BY <1>2 DEF x, y

LEMMA AccountType ==
  ASSUME NEW balance \in Int, NEW margin \in Nat
  PROVE  Account(balance, margin) \in AccountRow
BY DEF Account, AccountRow, Larger

LEMMA ProfitType ==
  ASSUME NEW p \in PositionRow, NEW qty \in Nat, NEW price \in Nat
  PROVE  Profit(p, qty, price) \in Int
<1>1. p.price \in Nat /\ price - p.price \in Int
      BY DEF PositionRow
<1>2. qty * (price - p.price) \in Int
      BY <1>1, ProductOfInts
<1> QED BY <1>2 DEF Profit, Signed

\* A commit leaves rows of the types of those it mixes.
LEMMA WrittenAccount ==
  ASSUME NEW current \in AccountRow, NEW read, NEW new \in AccountRow
  PROVE  Written(current, read, new) \in AccountRow
BY DEF Written, AccountRow

LEMMA WrittenRow ==
  ASSUME NEW current \in PositionRow, NEW read, NEW new \in PositionRow
  PROVE  Written(current, read, new) \in PositionRow
BY DEF Written, PositionRow

LEMMA SavedAccount ==
  ASSUME BooksOK, NEW read, NEW balance \in Int, NEW margin \in Nat, SaveAccount(read, balance, margin)
  PROVE  account' \in AccountRow
BY AccountType, WrittenAccount DEF SaveAccount, BooksOK

LEMMA SavedRow ==
  ASSUME BooksOK, NEW i, NEW read, NEW new \in PositionRow, SaveRow(i, read, new)
  PROVE  positions' \in Seq(PositionRow)
<1>1. CASE i \in DOMAIN positions
      <2>1. positions[i] \in PositionRow
            BY <1>1 DEF BooksOK
      <2>2. Written(positions[i], read, new) \in PositionRow
            BY <2>1, WrittenRow
      <2>3. positions \in Seq(PositionRow) /\ i \in 1..Len(positions)
            BY <1>1 DEF BooksOK
      <2> QED BY <2>2, <2>3, ExceptSeq DEF SaveRow
<1>2. CASE i \notin DOMAIN positions
      BY <1>2, ExceptOutside DEF SaveRow, BooksOK
<1> QED BY <1>1, <1>2

\* What a request that books knows.
LEMMA BookingIs ==
  ASSUME Inv, BooksOK, NEW c \in Clients, req[c].at = "booking"
  PROVE  /\ req[c].side \in Sides /\ req[c].fill \in Nat \ {0} /\ req[c].price \in Nat \ {0}
         /\ req[c].qty \in Nat \ {0}
         /\ req[c].acct.balance \in Int /\ req[c].acct.margin \in Nat
         /\ req[c].pos # 0 => req[c].row \in PositionRow
         /\ Fee(req[c].fill) \in Nat /\ Required(req[c].qty) \in Nat
<1>1. HeldOK(req[c]) /\ req[c].fill > 0
      BY DEF Inv, RequestsOK, RequestOK, Holds
<1>2. broker[req[c].id] \in BrokerOrder
      BY <1>1 DEF Inv, TablesOK, HeldOK
<1>3. /\ req[c].side \in Sides /\ req[c].qty \in Nat \ {0}
      /\ req[c].fill \in Nat \ {0}
      BY <1>1, <1>2 DEF HeldOK, BrokerOrder
<1>4. ReadOK(req[c]) /\ Holds(req[c])
      BY DEF BooksOK, Holds
<1>5. req[c].price \in Nat \ {0}
      BY <1>1, <1>4, DeskAssumption DEF ReadOK
<1>6. req[c].acct.balance \in Int /\ req[c].acct.margin \in Nat
      BY <1>4 DEF ReadOK, AccountRow
<1>7. Fee(req[c].fill) \in Nat /\ Required(req[c].qty) \in Nat
      BY <1>3, DeskAssumption, ProductOfNats DEF Fee, Required
<1> QED BY <1>3, <1>4, <1>5, <1>6, <1>7 DEF ReadOK

\* A row booked at the price of the request.
LEMMA RowType ==
  ASSUME NEW r, r.side \in Sides, r.price \in Nat \ {0}, NEW qty \in Nat \ {0}, NEW fees \in Nat
  PROVE  Row(r, qty, fees) \in PositionRow
BY DEF Row, PositionRow

LEMMA MarginType ==
  ASSUME NEW margin \in Nat, NEW qty \in Nat, NEW p \in PositionRow
  PROVE  Larger(0, margin - qty * p.price) \in Nat
<1>1. p.price \in Nat
      BY DEF PositionRow
<1>2. qty * p.price \in Nat
      BY <1>1, ProductOfNats
<1> QED BY <1>2 DEF Larger

LEMMA Booked ==
  ASSUME Inv, BooksOK, NEW c \in Clients, req[c].at = "booking",
         LET r == req[c]
         IN BookOpen(r) \/ BookAccumulate(r) \/ BookReduce(r) \/ BookFlatten(r) \/ BookReverse(r)
  PROVE  account' \in AccountRow /\ positions' \in Seq(PositionRow)
<1> DEFINE r == req[c]
           p == r.row
<1>1. /\ r.side \in Sides /\ r.fill \in Nat \ {0} /\ r.price \in Nat \ {0}
      /\ r.acct.balance \in Int /\ r.acct.margin \in Nat
      /\ r.pos # 0 => p \in PositionRow
      /\ Fee(r.fill) \in Nat /\ Required(r.qty) \in Nat
      BY BookingIs
<1>2. r.acct.balance - Fee(r.fill) \in Int /\ r.acct.margin + Required(r.qty) \in Nat
      BY <1>1
<1>3. ASSUME p \in PositionRow
      PROVE  /\ p.qty \in Nat \ {0} /\ p.price \in Nat \ {0} /\ p.fees \in Nat
             /\ Profit(p, r.fill, r.price) \in Int /\ Profit(p, p.qty, r.price) \in Int
             /\ Larger(0, r.acct.margin - r.fill * p.price) \in Nat
             /\ Larger(0, r.acct.margin - p.qty * p.price) \in Nat
      <2>1. p.qty \in Nat \ {0} /\ p.price \in Nat \ {0} /\ p.fees \in Nat
            BY <1>3 DEF PositionRow
      <2> QED BY <1>1, <1>3, <2>1, ProfitType, MarginType
<1> HIDE DEF r, p
<1>4. CASE BookOpen(r)
      <2>1. Row(r, r.fill, Fee(r.fill)) \in PositionRow
            BY <1>1, RowType
      <2>2. positions' \in Seq(PositionRow)
            BY <1>4, <2>1, AppendProperties DEF BookOpen, BooksOK
      <2>3. account' \in AccountRow
            BY <1>2, <1>4, SavedAccount DEF BookOpen
      <2> QED BY <2>2, <2>3
<1>5. CASE BookAccumulate(r)
      <2>1. p \in PositionRow
            BY <1>1, <1>5 DEF BookAccumulate
      <2>0. p.qty \in Nat \ {0} /\ p.price \in Nat \ {0} /\ p.fees \in Nat
            BY <1>3, <2>1
      <2>2. p.qty + r.fill \in Nat \ {0} /\ p.fees + Fee(r.fill) \in Nat
            BY <1>1, <2>0
      <2> DEFINE average == (p.price * p.qty + r.price * r.fill) \div (p.qty + r.fill)
                 new == [p EXCEPT !.qty = p.qty + r.fill, !.mark = r.price, !.fees = @ + Fee(r.fill),
                                  !.price = average]
      <2>3. SaveRow(r.pos, p, new)
            BY <1>5 DEF BookAccumulate, p
      <2>4. average \in Nat \ {0}
            BY <1>1, <2>0, AverageType
      <2> HIDE DEF average
      <2>5. new \in PositionRow
            BY <1>1, <2>1, <2>2, <2>4 DEF PositionRow
      <2>6. positions' \in Seq(PositionRow)
            BY <2>3, <2>5, SavedRow
      <2>7. account' \in AccountRow
            BY <1>2, <1>5, SavedAccount DEF BookAccumulate
      <2> QED BY <2>6, <2>7
<1>6. CASE BookReduce(r)
      <2>1. p \in PositionRow /\ r.fill < p.qty
            BY <1>1, <1>6 DEF BookReduce, p
      <2>0. p.qty - r.fill \in Nat \ {0}
            BY <1>1, <1>3, <2>1
      <2>2. [p EXCEPT !.qty = @ - r.fill, !.mark = r.price] \in PositionRow
            BY <1>1, <2>0, <2>1 DEF PositionRow
      <2>3. positions' \in Seq(PositionRow)
            BY <1>6, <2>2, SavedRow DEF BookReduce, p
      <2>4. r.acct.balance - Fee(r.fill) + Profit(p, r.fill, r.price) \in Int
            BY <1>2, <1>3, <2>1
      <2>5. account' \in AccountRow
            BY <1>3, <1>6, <2>1, <2>4, SavedAccount DEF BookReduce, p
      <2> QED BY <2>3, <2>5
<1>7. CASE BookFlatten(r)
      <2>1. p \in PositionRow
            BY <1>1, <1>7 DEF BookFlatten
      <2>2. [p EXCEPT !.open = FALSE, !.mark = r.price] \in PositionRow
            BY <1>1, <2>1 DEF PositionRow
      <2>3. positions' \in Seq(PositionRow)
            BY <1>7, <2>2, SavedRow DEF BookFlatten, p
      <2>4. r.acct.balance - Fee(r.fill) + Profit(p, p.qty, r.price) \in Int
            BY <1>2, <1>3, <2>1
      <2>5. account' \in AccountRow
            BY <1>3, <1>7, <2>1, <2>4, SavedAccount DEF BookFlatten, p
      <2> QED BY <2>3, <2>5
<1>8. CASE BookReverse(r)
      <2>1. p \in PositionRow /\ r.fill > p.qty
            BY <1>1, <1>8 DEF BookReverse, p
      <2>2. [p EXCEPT !.open = FALSE, !.mark = r.price] \in PositionRow
            BY <1>1, <2>1 DEF PositionRow
      <2> DEFINE residual == r.fill - p.qty
                 closed == [positions EXCEPT ![r.pos] =
                              Written(@, p, [p EXCEPT !.open = FALSE, !.mark = r.price])]
      <2>3. residual \in Nat \ {0}
            BY <1>1, <1>3, <2>1
      <2>4. closed \in Seq(PositionRow)
            <3>1. CASE r.pos \in DOMAIN positions
                  <4>1. positions \in Seq(PositionRow) /\ r.pos \in 1..Len(positions)
                        BY <3>1 DEF BooksOK
                  <4>2. Written(positions[r.pos], p, [p EXCEPT !.open = FALSE, !.mark = r.price])
                          \in PositionRow
                        BY <2>2, <4>1, WrittenRow
                  <4> QED BY <4>1, <4>2, ExceptSeq
            <3>2. CASE r.pos \notin DOMAIN positions
                  BY <3>2, ExceptOutside DEF BooksOK
            <3> QED BY <3>1, <3>2
      <2>5. positions' = Append(closed, Row(r, residual, 0))
            BY <1>8 DEF BookReverse, p
      <2>6. Row(r, residual, 0) \in PositionRow
            BY <1>1, <2>3, RowType
      <2> HIDE DEF closed
      <2>7. positions' \in Seq(PositionRow)
            BY <2>4, <2>5, <2>6, AppendProperties
      <2>8. r.acct.balance - Fee(r.fill) + Profit(p, p.qty, r.price) \in Int
            BY <1>2, <1>3, <2>1
      <2>9. residual * r.price \in Nat
            BY <1>1, <2>3, ProductOfNats
      <2>10. Larger(0, r.acct.margin - p.qty * p.price) + residual * r.price \in Nat
             BY <1>3, <2>1, <2>9
      <2>11. account' \in AccountRow
             BY <1>8, <2>8, <2>10, SavedAccount DEF BookReverse, p
      <2> QED BY <2>7, <2>11
<1> QED BY <1>4, <1>5, <1>6, <1>7, <1>8 DEF r

\* A request moves on, with what it has read.
LEMMA Reading ==
  ASSUME Inv, BooksOK, NEW c \in Clients, NEW r, Proceed(c, r), ReadOK(r)
  PROVE  \A d \in Clients : ReadOK(req'[d])
<1>1. \A d \in Clients : req'[d] = r \/ req'[d] = req[d]
      BY Moved DEF Inv
<1> QED BY <1>1 DEF BooksOK

LEMMA StepBooks == Inv /\ BooksOK /\ [Next]_vars => BooksOK'
<1> SUFFICES ASSUME Inv, BooksOK, [Next]_vars PROVE BooksOK'
    OBVIOUS
<1> USE DEF BooksOK
<1>1. ASSUME UNCHANGED <<account, positions>>, \A d \in Clients : ReadOK(req'[d])
      PROVE  BooksOK'
      BY <1>1 DEF ReadOK, Holds
<1>2. ReadOK(Idle)
      BY DEF ReadOK, Idle, Holds
<1>3. ASSUME NEW c \in Clients, BeginOrder(c) PROVE BooksOK'
      <2>1. PICK order \in Requests :
              Proceed(c, [at |-> "submitting", side |-> order.side, qty |-> order.qty,
                          acct |-> account])
            BY <1>3 DEF BeginOrder
      <2>2. ReadOK([at |-> "submitting", side |-> order.side, qty |-> order.qty, acct |-> account])
            BY DEF ReadOK, Holds
      <2> QED BY <1>1, <1>3, <2>1, <2>2, Reading DEF BeginOrder, db, books
<1>4. ASSUME NEW c \in Clients, BrokerTakes(c) PROVE BooksOK'
      <2>1. PICK price \in Prices \cup {0}, fill \in 0..req[c].qty :
              /\ price = 0 <=> fill = 0
              /\ Proceed(c, [at |-> "taken", side |-> req[c].side, qty |-> req[c].qty,
                             acct |-> req[c].acct, id |-> Len(broker) + 1, fill |-> fill,
                             price |-> price])
            BY <1>4 DEF BrokerTakes
      <2>2. ReadOK([at |-> "taken", side |-> req[c].side, qty |-> req[c].qty,
                    acct |-> req[c].acct, id |-> Len(broker) + 1, fill |-> fill,
                    price |-> price])
            BY <1>4, <2>1 DEF ReadOK, Holds, BrokerTakes
      <2> QED BY <1>1, <1>4, <2>1, <2>2, Reading DEF BrokerTakes, db, books
<1>5. ASSUME NEW c \in Clients, SelectPosition(c) PROVE BooksOK'
      <2>1. PICK i, row :
              /\ Proceed(c, [at |-> "booking", side |-> req[c].side, qty |-> req[c].qty,
                             acct |-> req[c].acct, id |-> req[c].id, fill |-> req[c].fill,
                             price |-> req[c].price, pos |-> i, row |-> row])
              /\ i = 0 \/ (i \in OpenRows /\ row = positions[i])
            BY <1>5 DEF SelectPosition
      <2>2. i # 0 => row \in PositionRow
            BY <2>1 DEF OpenRows
      <2>3. ReadOK([at |-> "booking", side |-> req[c].side, qty |-> req[c].qty,
                    acct |-> req[c].acct, id |-> req[c].id, fill |-> req[c].fill,
                    price |-> req[c].price, pos |-> i, row |-> row])
            BY <1>5, <2>2 DEF ReadOK, Holds, SelectPosition
      <2> QED BY <1>1, <1>5, <2>1, <2>3, Reading DEF SelectPosition, db, books
<1>6. ASSUME NEW c \in Clients, CommitFill(c) PROVE BooksOK'
      <2>1. account' \in AccountRow /\ positions' \in Seq(PositionRow)
            BY <1>6, Booked DEF CommitFill
      <2>2. \A d \in Clients : ReadOK(req'[d])
            BY <1>2, <1>6, Reading DEF CommitFill
      <2> QED BY <2>1, <2>2 DEF ReadOK, Holds
<1>7. ASSUME NEW c \in Clients, CommitClose(c) PROVE BooksOK'
      <2> DEFINE r == req[c]
                 p == r.row
      <2>1. p \in PositionRow /\ r.acct.balance \in Int /\ r.acct.margin \in Nat
            BY <1>7 DEF CommitClose, ReadOK, AccountRow
      <2>2. p.qty \in Nat /\ p.mark \in Nat /\ p.fees \in Nat
            BY <2>1 DEF PositionRow
      <2>3. Profit(p, p.qty, p.mark) \in Int /\ Larger(0, r.acct.margin - p.qty * p.price) \in Nat
            BY <2>1, <2>2, ProfitType, MarginType
      <2>4. r.acct.balance + Profit(p, p.qty, p.mark) - p.fees \in Int
            BY <2>1, <2>2, <2>3
      <2>5. [p EXCEPT !.open = FALSE] \in PositionRow
            BY <2>1 DEF PositionRow
      <2>6. /\ SaveRow(r.pos, p, [p EXCEPT !.open = FALSE])
            /\ SaveAccount(r.acct, r.acct.balance + Profit(p, p.qty, p.mark) - p.fees,
                           Larger(0, r.acct.margin - p.qty * p.price))
            BY <1>7 DEF CommitClose
      <2> HIDE DEF r, p
      <2>7. account' \in AccountRow /\ positions' \in Seq(PositionRow)
            BY <2>3, <2>4, <2>5, <2>6, SavedAccount, SavedRow
      <2>8. \A d \in Clients : ReadOK(req'[d])
            BY <1>2, <1>7, Reading DEF CommitClose
      <2> QED BY <2>7, <2>8 DEF ReadOK, Holds
<1>8. ASSUME NEW c \in Clients, BeginCancel(c) \/ BrokerCancels(c) PROVE BooksOK'
      <2>1. \A o : ReadOK([at |-> "cancelling", order |-> o]) /\ ReadOK([at |-> "cancelled", order |-> o])
            BY DEF ReadOK, Holds
      <2>2. CASE BeginCancel(c)
            <3>1. PICK o \in DOMAIN orders : Proceed(c, [at |-> "cancelling", order |-> o])
                  BY <2>2 DEF BeginCancel
            <3>2. UNCHANGED <<account, positions>>
                  BY <2>2 DEF BeginCancel, db, books
            <3>3. \A d \in Clients : ReadOK(req'[d])
                  BY <2>1, <3>1, Reading
            <3> QED BY <1>1, <3>2, <3>3
      <2>3. CASE BrokerCancels(c)
            <3>1. Proceed(c, [at |-> "cancelled", order |-> req[c].order])
                  BY <2>3 DEF BrokerCancels
            <3>2. UNCHANGED <<account, positions>>
                  BY <2>3 DEF BrokerCancels, db, books
            <3>3. \A d \in Clients : ReadOK(req'[d])
                  BY <2>1, <3>1, Reading
            <3> QED BY <1>1, <3>2, <3>3
      <2> QED BY <1>8, <2>2, <2>3
<1>9. ASSUME NEW c \in Clients, BeginClose(c) PROVE BooksOK'
      <2>1. ReadOK([at |-> "finding", acct |-> account])
            BY DEF ReadOK, Holds
      <2> QED BY <1>1, <1>9, <2>1, Reading DEF BeginClose, db, books
<1>10. ASSUME NEW c \in Clients, FindPosition(c) PROVE BooksOK'
       <2>1. PICK i \in OpenRows :
               Proceed(c, [at |-> "closing", acct |-> req[c].acct, pos |-> i, row |-> positions[i]])
             BY <1>10 DEF FindPosition
       <2>2. positions[i] \in PositionRow
             BY DEF OpenRows
       <2>3. ReadOK([at |-> "closing", acct |-> req[c].acct, pos |-> i, row |-> positions[i]])
             BY <1>10, <2>2 DEF ReadOK, Holds, FindPosition
       <2> QED BY <1>1, <1>10, <2>1, <2>3, Reading DEF FindPosition, db, books
<1>11. ASSUME NEW c \in Clients, CommitResting(c) \/ CommitCancel(c) \/ Fail(c) PROVE BooksOK'
       <2>1. Proceed(c, Idle) /\ UNCHANGED <<account, positions>>
             BY <1>11 DEF CommitResting, CommitCancel, Fail, db, books
       <2> QED BY <1>1, <1>2, <2>1, Reading
<1>12. CASE MarkToMarket
       <2>1. PICK i \in OpenRows, price \in Prices : positions' = [positions EXCEPT ![i].mark = price]
             BY <1>12 DEF MarkToMarket
       <2>2. i \in 1..Len(positions) /\ positions[i] \in PositionRow /\ price \in Nat \ {0}
             BY DeskAssumption DEF OpenRows
       <2>3. [positions[i] EXCEPT !.mark = price] \in PositionRow
             BY <2>2 DEF PositionRow
       <2>4. positions' \in Seq(PositionRow)
             BY <2>1, <2>2, <2>3, ExceptSeq
       <2> QED BY <1>12, <2>4 DEF MarkToMarket, ReadOK, Holds
<1>13. CASE RestingFills \/ UNCHANGED vars \/ \E c \in Clients : Refused(c)
       BY <1>1, <1>13 DEF RestingFills, Refused, vars, db, books
<1> QED BY <1>3, <1>4, <1>5, <1>6, <1>7, <1>8, <1>9, <1>10, <1>11, <1>12, <1>13 DEF Next

\* The types of the committed rows and of the broker's orders, whatever the
\* commits of overlapping requests mix.
THEOREM TypeCorrect == Spec => []TypeOK
<1>1. Init => BooksOK
      BY AccountType, DeskAssumption DEF Init, BooksOK, ReadOK, Holds, Idle
<1>2. Inv /\ BooksOK => TypeOK
      <2> SUFFICES ASSUME Inv, BooksOK PROVE TypeOK
          OBVIOUS
      <2>1. /\ account \in [balance : Int, margin : Nat, free : Nat]
            /\ \A i \in DOMAIN positions : positions[i] \in PositionRow
            BY DEF BooksOK, AccountRow
      <2>2. ASSUME NEW o \in DOMAIN orders
            PROVE  orders[o] \in [id : DOMAIN broker, side : Sides, qty : Nat \ {0}, fill : Nat,
                                 status : {"SUBMITTED", "PARTIALLY_FILLED", "FILLED", "CANCELLED"}]
            <3>1. orders[o] \in OrderRow /\ orders[o].id \in DOMAIN broker
                  BY DEF Inv, TablesOK
            <3> QED BY <3>1 DEF OrderRow, OrderStatuses
      <2>3. ASSUME NEW id \in DOMAIN broker
            PROVE  /\ broker[id] \in [side : Sides, qty : Nat \ {0}, fill : Nat,
                                      state : {"resting", "part", "filled", "cancelled"}]
                   /\ broker[id].fill <= broker[id].qty
            <3>1. broker[id] \in BrokerOrder
                  BY DEF Inv, TablesOK
            <3> QED BY <3>1 DEF BrokerOrder
      <2> QED BY <2>1, <2>2, <2>3 DEF TypeOK
<1> QED BY <1>1, <1>2, InitInv, StepInv, StepBooks, PTL DEF Spec

-----------------------------------------------------------------------------
(* The books of requests that do not overlap.  What a request that trades   *)
(* alone has read is still so when it commits: a fill moves the balance and *)
(* the open position by the same amount, and the next request finds them    *)
(* balanced again.  A failure in between changes neither.                   *)

\* Two readings of a position that differ in its marks or fees alone.
AlikeRows(a, b) ==
  a.side = b.side /\ a.qty = b.qty /\ a.price = b.price /\ a.open = b.open

\* What a request has read is what is committed.
HasRead(r) ==
  /\ r.acct = account
  /\ r.at = "booking" =>
       IF r.pos = 0 THEN OpenRows = {}
                    ELSE OpenRows = {r.pos} /\ AlikeRows(r.row, positions[r.pos])
  /\ r.at = "closing" => OpenRows = {r.pos} /\ AlikeRows(r.row, positions[r.pos])

\* The money that moved, less the fees that closing a position took a second time.
Flow == cash - again

\* The books match what was traded, those fees included.  Without them they balance.
BooksMatch ==
  \/ OpenRows = {} /\ net = 0 /\ account.balance = StartBalance + Flow + rounded
  \/ \E i \in OpenRows :
       LET p == positions[i]
       IN /\ OpenRows = {i}
          /\ net = Signed(p.side, p.qty)
          /\ account.balance = StartBalance + Flow + rounded + Signed(p.side, p.qty * p.price)

HistoryOK == net \in Int /\ cash \in Int /\ rounded \in Int /\ again \in Int

Alone ==
  /\ BooksMatch
  /\ \A c \in Clients : Trading(c) =>
       HasRead(req[c]) /\ \A d \in Clients : Trading(d) => d = c

BooksInv == HistoryOK /\ (serial => Alone)

\* The two ways the books balance.
LEMMA FlatBooks ==
  ASSUME OpenRows = {}, BooksMatch
  PROVE  net = 0 /\ account.balance = StartBalance + Flow + rounded
BY DEF BooksMatch

LEMMA HeldBooks ==
  ASSUME NEW i, OpenRows = {i}, BooksMatch
  PROVE  /\ net = Signed(positions[i].side, positions[i].qty)
         /\ account.balance = StartBalance + Flow + rounded
                              + Signed(positions[i].side, positions[i].qty * positions[i].price)
BY DEF BooksMatch

\* A commit of what was read by a request that is still right about it.
LEMMA SavedBalance ==
  ASSUME account \in AccountRow, NEW balance \in Int, NEW margin \in Nat,
         SaveAccount(account, balance, margin)
  PROVE  account'.balance = balance
BY AccountType DEF SaveAccount, Written, AccountRow, Account

LEMMA WrittenAlike ==
  ASSUME NEW row \in PositionRow, NEW read \in PositionRow, AlikeRows(read, row),
         NEW new \in PositionRow
  PROVE  AlikeRows(Written(row, read, new), new)
BY DEF AlikeRows, Written, PositionRow

LEMMA SavedAlike ==
  ASSUME BooksOK, NEW i \in OpenRows, NEW read \in PositionRow, AlikeRows(read, positions[i]),
         NEW new \in PositionRow, NEW list,
         list = [positions EXCEPT ![i] = Written(@, read, new)]
  PROVE  /\ DOMAIN list = DOMAIN positions
         /\ list[i] \in PositionRow /\ AlikeRows(list[i], new)
         /\ \A k \in DOMAIN positions \ {i} : list[k] = positions[k]
<1>1. i \in DOMAIN positions /\ positions[i] \in PositionRow
      BY DEF OpenRows, BooksOK
<1>2. list[i] = Written(positions[i], read, new) /\ DOMAIN list = DOMAIN positions
      BY <1>1 DEF BooksOK
<1>3. \A k \in DOMAIN positions \ {i} : list[k] = positions[k]
      BY <1>1 DEF BooksOK
<1> QED BY <1>1, <1>2, <1>3, WrittenAlike, WrittenRow

\* The one open position is replaced by one that is open as well, or is closed.
LEMMA Replaced ==
  ASSUME BooksOK, NEW i, OpenRows = {i}, NEW read \in PositionRow, AlikeRows(read, positions[i]),
         NEW new \in PositionRow, SaveRow(i, read, new)
  PROVE  /\ AlikeRows(positions'[i], new)
         /\ OpenRows' = IF new.open THEN {i} ELSE {}
<1>1. i \in OpenRows
      OBVIOUS
<1>2. /\ DOMAIN positions' = DOMAIN positions
      /\ AlikeRows(positions'[i], new)
      /\ \A k \in DOMAIN positions \ {i} : positions'[k] = positions[k]
      BY <1>1, SavedAlike DEF SaveRow
<1>3. positions'[i].open = new.open /\ i \in DOMAIN positions
      BY <1>1, <1>2 DEF AlikeRows, OpenRows
<1>4. \A k \in DOMAIN positions \ {i} : ~positions'[k].open
      BY <1>2 DEF OpenRows
<1> QED BY <1>2, <1>3, <1>4 DEF OpenRows

\* A row is added to a list none of whose rows is open.
LEMMA Added ==
  ASSUME NEW list \in Seq(PositionRow), \A k \in DOMAIN list : ~list[k].open,
         NEW row \in PositionRow, row.open, positions' = Append(list, row)
  PROVE  \E i : OpenRows' = {i} /\ positions'[i] = row
<1> DEFINE i == Len(list) + 1
<1>1. /\ DOMAIN positions' = DOMAIN list \cup {i} /\ i \notin DOMAIN list
      /\ positions'[i] = row
      /\ \A k \in DOMAIN list : positions'[k] = list[k]
      OBVIOUS
<1>2. OpenRows' = {i}
      BY <1>1 DEF OpenRows
<1> QED BY <1>1, <1>2

\* The books after a commit.
LEMMA FlatAfter ==
  ASSUME OpenRows' = {}, net' = 0, account'.balance = StartBalance + Flow' + rounded'
  PROVE  BooksMatch'
BY DEF BooksMatch

LEMMA HeldAfter ==
  ASSUME NEW i, OpenRows' = {i}, NEW side, NEW qty, NEW price,
         positions'[i].side = side, positions'[i].qty = qty, positions'[i].price = price,
         net' = Signed(side, qty),
         account'.balance = StartBalance + Flow' + rounded' + Signed(side, qty * price)
  PROVE  BooksMatch'
BY DEF BooksMatch

LEMMA SignedType == ASSUME NEW side, NEW x \in Int PROVE Signed(side, x) \in Int
BY DEF Signed

LEMMA FlowType == ASSUME HistoryOK PROVE Flow \in Int
BY DEF HistoryOK, Flow

\* What a request that books alone knows of the account and of the history.
LEMMA BookingAlone ==
  ASSUME Inv, BooksOK, HistoryOK, Alone, NEW c \in Clients, CommitFill(c)
  PROVE  /\ req[c].acct = account /\ account.balance \in Int /\ account.margin \in Nat
         /\ HasRead(req[c]) /\ req[c].at = "booking"
         /\ net' = net + Signed(req[c].side, req[c].fill)
         /\ Flow' = Flow - (Signed(req[c].side, req[c].fill * req[c].price) + Fee(req[c].fill))
         /\ rounded' = rounded + RoundedOff(req[c])
<1>1. req[c].at = "booking" /\ Trading(c)
      BY DEF CommitFill, Trading
<1>2. HasRead(req[c])
      BY <1>1 DEF Alone
<1>3. account.balance \in Int /\ account.margin \in Nat
      BY DEF BooksOK, AccountRow
<1>4. req[c].side \in Sides /\ req[c].fill \in Nat /\ req[c].price \in Nat /\ Fee(req[c].fill) \in Nat
      BY <1>1, BookingIs
<1>5. Signed(req[c].side, req[c].fill * req[c].price) \in Int
      BY <1>4, ProductOfInts, SignedType
<1>6. \A a, b, d, e \in Int : (a - b - d) - e = (a - e) - (b + d)
      OBVIOUS
<1>7. Flow' = Flow - (Signed(req[c].side, req[c].fill * req[c].price) + Fee(req[c].fill))
      <2>1. /\ again' = again
            /\ cash' = cash - Signed(req[c].side, req[c].fill * req[c].price) - Fee(req[c].fill)
            BY DEF CommitFill
      <2> QED BY <1>4, <1>5, <1>6, <2>1 DEF HistoryOK, Flow
<1> QED BY <1>1, <1>2, <1>3, <1>7 DEF CommitFill, HasRead

LEMMA OpenedAlone ==
  ASSUME Inv, BooksOK, HistoryOK, Alone, NEW c \in Clients, CommitFill(c), BookOpen(req[c])
  PROVE  BooksMatch'
<1> DEFINE r == req[c]
<1>1. /\ r.side \in Sides /\ r.fill \in Nat \ {0} /\ r.price \in Nat \ {0}
      /\ Fee(r.fill) \in Nat /\ Required(r.qty) \in Nat
      BY BookingAlone, BookingIs
<1>2. r.pos = 0 /\ OpenRows = {}
      BY BookingAlone DEF BookOpen, HasRead
<1>3. net = 0 /\ account.balance = StartBalance + Flow + rounded
      BY <1>2, FlatBooks DEF Alone
<1> DEFINE row == Row(r, r.fill, Fee(r.fill))
<1>4. /\ row \in PositionRow /\ row.open
      /\ row.side = r.side /\ row.qty = r.fill /\ row.price = r.price
      BY <1>1, RowType DEF Row
<1>5. PICK i : OpenRows' = {i} /\ positions'[i] = row
      <2>1. positions' = Append(positions, row) /\ positions \in Seq(PositionRow)
            BY DEF BookOpen, BooksOK
      <2>2. \A k \in DOMAIN positions : ~positions[k].open
            BY <1>2 DEF OpenRows
      <2> HIDE DEF row
      <2> QED BY <1>4, <2>1, <2>2, Added
<1>6. account'.balance = account.balance - Fee(r.fill)
      <2>1. SaveAccount(account, account.balance - Fee(r.fill), account.margin + Required(r.qty))
            BY BookingAlone DEF BookOpen
      <2>2. account.balance - Fee(r.fill) \in Int /\ account.margin + Required(r.qty) \in Nat
            BY <1>1, BookingAlone
      <2> QED BY <2>1, <2>2, SavedBalance DEF BooksOK
<1>7. PICK v, f \in Int : v = Signed(r.side, r.fill * r.price) /\ f = Fee(r.fill)
      BY <1>1, ProductOfInts, SignedType
<1>8. net' = Signed(r.side, r.fill) /\ Flow' = Flow - (v + f) /\ rounded' = rounded
      <2>1. RoundedOff(r) = 0
            BY <1>2 DEF RoundedOff
      <2>2. Signed(r.side, r.fill) \in Int
            BY <1>1, SignedType
      <2> QED BY <1>3, <1>7, <2>1, <2>2, BookingAlone DEF HistoryOK
<1>9. account'.balance = StartBalance + Flow' + rounded' + v
      BY <1>3, <1>6, <1>7, <1>8, DeskAssumption, FlowType DEF HistoryOK
<1> QED BY <1>4, <1>5, <1>7, <1>8, <1>9, HeldAfter

\* What the quotient rounds off is the remainder.
LEMMA Division ==
  ASSUME NEW a \in Nat, NEW b \in Nat \ {0}
  PROVE  b * (a \div b) + (a % b) = a /\ a \div b \in Nat /\ a % b \in Nat
OBVIOUS

LEMMA AccumulatedAlone ==
  ASSUME Inv, BooksOK, HistoryOK, Alone, NEW c \in Clients, CommitFill(c), BookAccumulate(req[c])
  PROVE  BooksMatch'
<1> DEFINE r == req[c]
           p == r.row
           i == r.pos
           average == (p.price * p.qty + r.price * r.fill) \div (p.qty + r.fill)
           remainder == (p.price * p.qty + r.price * r.fill) % (p.qty + r.fill)
           new == [p EXCEPT !.qty = p.qty + r.fill, !.mark = r.price, !.fees = @ + Fee(r.fill),
                            !.price = average]
<1>1. /\ r.side \in Sides /\ r.fill \in Nat \ {0} /\ r.price \in Nat \ {0}
      /\ Fee(r.fill) \in Nat /\ Required(r.qty) \in Nat /\ r.pos # 0 /\ p \in PositionRow
      BY BookingAlone, BookingIs DEF BookAccumulate
<1>2. /\ p.qty \in Nat \ {0} /\ p.price \in Nat \ {0} /\ p.fees \in Nat /\ p.open \in BOOLEAN
      /\ p.side = r.side
      BY <1>1 DEF PositionRow, BookAccumulate
<1>3. OpenRows = {i} /\ AlikeRows(p, positions[i])
      BY <1>1, BookingAlone DEF HasRead
<1>4. p.open
      BY <1>3 DEF AlikeRows, OpenRows
<1>5. average \in Nat \ {0}
      BY <1>1, <1>2, AverageType
<1>6. SaveRow(i, p, new)
      BY DEF BookAccumulate
<1>7. PICK old, add, cost, rest \in Nat :
        /\ old = p.qty * p.price /\ add = r.fill * r.price
        /\ cost = (p.qty + r.fill) * average /\ rest = remainder
        /\ cost + rest = old + add
      <2> DEFINE total == p.price * p.qty + r.price * r.fill
                 size == p.qty + r.fill
      <2>1. PICK old, add \in Nat : old = p.qty * p.price /\ add = r.fill * r.price
            BY <1>1, <1>2, ProductOfNats
      <2>2. total = old + add /\ total \in Nat /\ size \in Nat \ {0}
            <3>1. p.price * p.qty = p.qty * p.price /\ r.price * r.fill = r.fill * r.price
                  BY <1>1, <1>2
            <3> QED BY <1>1, <1>2, <2>1, <3>1
      <2>3. average = total \div size /\ remainder = total % size
            OBVIOUS
      <2> HIDE DEF total, average, remainder
      <2>4. size * average + remainder = total /\ average \in Nat /\ remainder \in Nat
            <3>1. PICK t \in Nat, z \in Nat \ {0} : t = total /\ z = size
                  BY <2>2
            <3>2. z * (t \div z) + (t % z) = t /\ t \div z \in Nat /\ t % z \in Nat
                  BY Division
            <3> QED BY <2>3, <3>1, <3>2
      <2>5. size * average \in Nat
            BY <2>2, <2>4, ProductOfNats
      <2> QED BY <2>1, <2>2, <2>4, <2>5
<1>8. RoundedOff(r) = Signed(p.side, rest)
      BY <1>1, <1>2, <1>7 DEF RoundedOff
<1> HIDE DEF average, remainder
<1>9. /\ new \in PositionRow /\ new.open
      /\ new.side = r.side /\ new.qty = p.qty + r.fill /\ new.price = average
      <2>1. p.fees + Fee(r.fill) \in Nat /\ p.qty + r.fill \in Nat \ {0}
            BY <1>1, <1>2
      <2> QED BY <1>1, <1>2, <1>4, <1>5, <2>1 DEF PositionRow
<1> HIDE DEF new
<1>10. OpenRows' = {i} /\ AlikeRows(positions'[i], new)
       BY <1>1, <1>3, <1>6, <1>9, Replaced
<1>11. account'.balance = account.balance - Fee(r.fill)
       <2>1. SaveAccount(account, account.balance - Fee(r.fill), account.margin + Required(r.qty))
             BY BookingAlone DEF BookAccumulate
       <2>2. account.balance - Fee(r.fill) \in Int /\ account.margin + Required(r.qty) \in Nat
             BY <1>1, BookingAlone
       <2> QED BY <2>1, <2>2, SavedBalance DEF BooksOK
<1>12. /\ net = Signed(r.side, p.qty)
       /\ account.balance = StartBalance + Flow + rounded + Signed(r.side, old)
       BY <1>2, <1>3, <1>7, HeldBooks DEF Alone, AlikeRows
<1>13. PICK f \in Int : f = Fee(r.fill)
       BY <1>1
<1>14. /\ net' = net + Signed(r.side, r.fill) /\ rounded' = rounded + Signed(r.side, rest)
       /\ Flow' = Flow - (Signed(r.side, add) + f)
       BY <1>2, <1>7, <1>8, <1>13, BookingAlone
<1>15. net' = Signed(r.side, p.qty + r.fill)
       BY <1>1, <1>2, <1>12, <1>14 DEF Signed
<1>16. account'.balance = StartBalance + Flow' + rounded' + Signed(r.side, cost)
       <2>1. CASE r.side = "buy"
             BY <2>1, <1>7, <1>11, <1>12, <1>13, <1>14, DeskAssumption, FlowType DEF Signed, HistoryOK
       <2>2. CASE r.side = "sell"
             BY <2>2, <1>7, <1>11, <1>12, <1>13, <1>14, DeskAssumption, FlowType DEF Signed, HistoryOK
       <2> QED BY <1>1, <2>1, <2>2 DEF Sides
<1>17. /\ positions'[i].side = r.side /\ positions'[i].qty = p.qty + r.fill
       /\ positions'[i].price = average
       BY <1>9, <1>10 DEF AlikeRows
<1> QED BY <1>7, <1>10, <1>15, <1>16, <1>17, HeldAfter

\* A profit is the difference of what is paid at the two prices.
LEMMA ProfitIs ==
  ASSUME NEW p \in PositionRow, NEW qty \in Nat, NEW price \in Nat
  PROVE  Profit(p, qty, price) = Signed(p.side, qty * price) - Signed(p.side, qty * p.price)
<1>1. PICK e \in Nat : e = p.price
      BY DEF PositionRow
<1>2. PICK u, v \in Int : u = qty * price /\ v = qty * e
      BY ProductOfInts
<1>3. qty * (price - e) = u - v
      BY <1>2
<1>4. Signed(p.side, u - v) = Signed(p.side, u) - Signed(p.side, v)
      BY DEF Signed
<1> QED BY <1>1, <1>2, <1>3, <1>4 DEF Profit

\* What is left of a cost when a part of the units goes.
LEMMA Lessening ==
  ASSUME NEW m \in Nat, NEW n \in Nat, NEW e \in Nat
  PROVE  (m - n) * e = m * e - n * e
OBVIOUS

\* What a request that nets alone knows of the position, and that it saves the
\* account it has read with the profit of the part that is closed.
LEMMA Netting ==
  ASSUME Inv, BooksOK, HistoryOK, Alone, NEW c \in Clients, CommitFill(c), req[c].pos # 0,
         req[c].row.side # req[c].side,
         NEW qty \in Nat, NEW margin \in Nat,
         SaveAccount(req[c].acct,
                     req[c].acct.balance - Fee(req[c].fill)
                       + Profit(req[c].row, qty, req[c].price), margin)
  PROVE  /\ OpenRows = {req[c].pos} /\ req[c].row \in PositionRow /\ req[c].row.open
         /\ AlikeRows(req[c].row, positions[req[c].pos])
         /\ net' = Signed(req[c].row.side, req[c].row.qty) - Signed(req[c].row.side, req[c].fill)
         /\ account'.balance =
              StartBalance + Flow' + rounded'
                + (Signed(req[c].row.side, req[c].row.qty * req[c].row.price)
                   - Signed(req[c].row.side, qty * req[c].row.price)
                   + Signed(req[c].row.side, qty * req[c].price)
                   - Signed(req[c].row.side, req[c].fill * req[c].price))
<1> DEFINE r == req[c]
           p == r.row
           i == r.pos
<1>1. /\ r.side \in Sides /\ r.fill \in Nat /\ r.price \in Nat
      /\ Fee(r.fill) \in Nat /\ r.pos # 0 /\ p \in PositionRow
      BY BookingAlone, BookingIs
<1>2. p.side \in Sides /\ p.qty \in Nat /\ p.price \in Nat
      BY <1>1 DEF PositionRow
<1>3. OpenRows = {i} /\ AlikeRows(p, positions[i])
      BY <1>1, BookingAlone DEF HasRead
<1>4. p.open
      BY <1>3 DEF AlikeRows, OpenRows
<1>5. \A x \in Int : Signed(r.side, x) = -Signed(p.side, x) /\ Signed(p.side, x) \in Int
      BY <1>1, <1>2 DEF Sides, Signed
<1>6. PICK cost, gone, back, paid \in Int :
        /\ cost = Signed(p.side, p.qty * p.price) /\ gone = Signed(p.side, qty * p.price)
        /\ back = Signed(p.side, qty * r.price) /\ paid = Signed(p.side, r.fill * r.price)
      <2>1. /\ p.qty * p.price \in Int /\ qty * p.price \in Int
            /\ qty * r.price \in Int /\ r.fill * r.price \in Int
            BY <1>1, <1>2, ProductOfNats
      <2> QED BY <1>5, <2>1
<1>7. PICK f \in Int : f = Fee(r.fill)
      BY <1>1
<1>8. Profit(p, qty, r.price) = back - gone
      BY <1>1, <1>6, ProfitIs
<1>9. account'.balance = account.balance - f + (back - gone)
      <2>1. account.balance - f + (back - gone) \in Int
            BY <1>7, BookingAlone
      <2>2. SaveAccount(account, account.balance - f + (back - gone), margin)
            BY <1>7, <1>8, BookingAlone
      <2> QED BY <2>1, <2>2, SavedBalance DEF BooksOK
<1>10. /\ net = Signed(p.side, p.qty)
       /\ account.balance = StartBalance + Flow + rounded + cost
       BY <1>3, <1>6, HeldBooks DEF Alone, AlikeRows
<1>11. rounded' = rounded
       <2>1. RoundedOff(r) = 0
             BY DEF RoundedOff
       <2> QED BY <2>1, BookingAlone DEF HistoryOK
<1>12. Flow' = Flow - (f - paid)
       <2>1. r.fill * r.price \in Int
             BY <1>1, ProductOfInts
       <2>2. Signed(r.side, r.fill * r.price) = -paid
             BY <1>5, <1>6, <2>1
       <2>3. -paid + f = f - paid
             OBVIOUS
       <2> QED BY <1>7, <2>2, <2>3, BookingAlone
<1>13. net' = Signed(p.side, p.qty) - Signed(p.side, r.fill)
       BY <1>1, <1>2, <1>5, <1>10, BookingAlone
<1>14. account'.balance = StartBalance + Flow' + rounded' + (cost - gone + back - paid)
       BY <1>9, <1>10, <1>11, <1>12, BookingAlone, DeskAssumption, FlowType DEF HistoryOK
<1> QED BY <1>1, <1>3, <1>4, <1>6, <1>13, <1>14

\* The history stays a history of whole numbers.
LEMMA HistoryStays ==
  ASSUME Inv, BooksOK, HistoryOK, NEW c \in Clients, CommitFill(c)
  PROVE  HistoryOK'
<1> DEFINE r == req[c]
           p == r.row
<1>1. /\ r.side \in Sides /\ r.fill \in Nat \ {0} /\ r.price \in Nat \ {0} /\ Fee(r.fill) \in Nat
      /\ r.pos # 0 => p \in PositionRow
      BY BookingIs DEF CommitFill
<1>2. Signed(r.side, r.fill) \in Int /\ Signed(r.side, r.fill * r.price) \in Int
      <2>1. r.fill * r.price \in Int
            BY <1>1, ProductOfInts
      <2> QED BY <1>1, <2>1, SignedType
<1>3. RoundedOff(r) \in Int
      <2>1. CASE r.pos # 0 /\ p.side = r.side
            <3>1. p.qty \in Nat \ {0} /\ p.price \in Nat
                  BY <1>1, <2>1 DEF PositionRow
            <3>2. PICK a \in Nat, b \in Nat \ {0} :
                    a = p.price * p.qty + r.price * r.fill /\ b = p.qty + r.fill
                  <4>1. p.price * p.qty \in Nat /\ r.price * r.fill \in Nat
                        BY <1>1, <3>1, ProductOfNats
                  <4> QED BY <1>1, <3>1, <4>1
            <3>3. a % b \in Int
                  BY Division
            <3> QED BY <2>1, <3>2, <3>3, SignedType DEF RoundedOff
      <2> QED BY <2>1 DEF RoundedOff
<1> QED BY <1>1, <1>2, <1>3 DEF HistoryOK, CommitFill

LEMMA ReducedAlone ==
  ASSUME Inv, BooksOK, HistoryOK, Alone, NEW c \in Clients, CommitFill(c), BookReduce(req[c])
  PROVE  BooksMatch'
<1> DEFINE r == req[c]
           p == r.row
           i == r.pos
           margin == Larger(0, r.acct.margin - r.fill * p.price)
           new == [p EXCEPT !.qty = p.qty - r.fill, !.mark = r.price]
<1>1. /\ r.fill \in Nat /\ r.price \in Nat \ {0} /\ i # 0 /\ p.side # r.side /\ p \in PositionRow
      /\ r.acct.margin \in Nat
      BY BookingAlone, BookingIs DEF BookReduce
<1>2. p.side \in Sides /\ p.qty \in Nat /\ p.price \in Nat /\ r.fill < p.qty
      BY <1>1 DEF PositionRow, BookReduce
<1>3. margin \in Nat
      BY <1>1, MarginType
<1>4. /\ SaveAccount(r.acct, r.acct.balance - Fee(r.fill) + Profit(p, r.fill, r.price), margin)
      /\ SaveRow(i, p, new)
      BY DEF BookReduce
<1> HIDE DEF margin
<1>5. /\ OpenRows = {i} /\ p.open /\ AlikeRows(p, positions[i])
      /\ net' = Signed(p.side, p.qty) - Signed(p.side, r.fill)
      /\ account'.balance =
           StartBalance + Flow' + rounded'
             + (Signed(p.side, p.qty * p.price) - Signed(p.side, r.fill * p.price)
                + Signed(p.side, r.fill * r.price) - Signed(p.side, r.fill * r.price))
      BY <1>1, <1>3, <1>4, Netting
<1>6. /\ new \in PositionRow /\ new.open
      /\ new.side = p.side /\ new.qty = p.qty - r.fill /\ new.price = p.price
      <2>1. p.qty - r.fill \in Nat \ {0}
            BY <1>1, <1>2
      <2> QED BY <1>1, <1>5, <2>1 DEF PositionRow
<1> HIDE DEF new
<1>7. OpenRows' = {i} /\ AlikeRows(positions'[i], new)
      BY <1>1, <1>4, <1>5, <1>6, Replaced
<1>8. net' = Signed(p.side, p.qty - r.fill)
      BY <1>1, <1>2, <1>5 DEF Signed
<1>9. Signed(p.side, p.qty * p.price) - Signed(p.side, r.fill * p.price)
        + Signed(p.side, r.fill * r.price) - Signed(p.side, r.fill * r.price)
      = Signed(p.side, (p.qty - r.fill) * p.price)
      <2>1. PICK cost, gone, back \in Int :
              cost = p.qty * p.price /\ gone = r.fill * p.price /\ back = r.fill * r.price
            BY <1>1, <1>2, ProductOfInts
      <2>2. (p.qty - r.fill) * p.price = cost - gone
            BY <1>1, <1>2, <2>1, Lessening
      <2>3. Signed(p.side, cost) - Signed(p.side, gone)
              + Signed(p.side, back) - Signed(p.side, back)
            = Signed(p.side, cost - gone)
            BY DEF Signed
      <2> QED BY <2>1, <2>2, <2>3
<1>10. account'.balance = StartBalance + Flow' + rounded'
                          + Signed(p.side, (p.qty - r.fill) * p.price)
       BY <1>5, <1>9
<1>11. /\ positions'[i].side = p.side /\ positions'[i].qty = p.qty - r.fill
       /\ positions'[i].price = p.price
       BY <1>6, <1>7 DEF AlikeRows
<1> QED BY <1>7, <1>8, <1>10, <1>11, HeldAfter

LEMMA FlattenedAlone ==
  ASSUME Inv, BooksOK, HistoryOK, Alone, NEW c \in Clients, CommitFill(c), BookFlatten(req[c])
  PROVE  BooksMatch'
<1> DEFINE r == req[c]
           p == r.row
           i == r.pos
           margin == Larger(0, r.acct.margin - p.qty * p.price)
           new == [p EXCEPT !.open = FALSE, !.mark = r.price]
<1>1. /\ r.fill \in Nat /\ r.price \in Nat \ {0} /\ i # 0 /\ p.side # r.side /\ p \in PositionRow
      /\ r.acct.margin \in Nat /\ r.fill = p.qty
      BY BookingAlone, BookingIs DEF BookFlatten
<1>2. p.side \in Sides /\ p.qty \in Nat /\ p.price \in Nat
      BY <1>1 DEF PositionRow
<1>3. margin \in Nat
      BY <1>1, <1>2, MarginType
<1>4. /\ SaveAccount(r.acct, r.acct.balance - Fee(r.fill) + Profit(p, p.qty, r.price), margin)
      /\ SaveRow(i, p, new)
      BY DEF BookFlatten
<1> HIDE DEF margin
<1>5. /\ OpenRows = {i} /\ AlikeRows(p, positions[i])
      /\ net' = Signed(p.side, p.qty) - Signed(p.side, r.fill)
      /\ account'.balance =
           StartBalance + Flow' + rounded'
             + (Signed(p.side, p.qty * p.price) - Signed(p.side, p.qty * p.price)
                + Signed(p.side, p.qty * r.price) - Signed(p.side, r.fill * r.price))
      BY <1>1, <1>2, <1>3, <1>4, Netting
<1>6. new \in PositionRow /\ ~new.open
      BY <1>1 DEF PositionRow
<1> HIDE DEF new
<1>7. OpenRows' = {}
      BY <1>1, <1>4, <1>5, <1>6, Replaced
<1>8. PICK cost, paid \in Int : /\ cost = Signed(p.side, p.qty * p.price)
                                /\ paid = Signed(p.side, p.qty * r.price)
      BY <1>1, <1>2, ProductOfInts, SignedType
<1>9. account'.balance = StartBalance + Flow' + rounded'
      <2>1. account'.balance = StartBalance + Flow' + rounded' + (cost - cost + paid - paid)
            BY <1>1, <1>5, <1>8
      <2>2. StartBalance + Flow' + rounded' \in Int
            <3>1. Flow' \in Int /\ rounded' \in Int
                  BY HistoryStays DEF HistoryOK, Flow
            <3> QED BY <3>1, DeskAssumption
      <2> QED BY <2>1, <2>2
<1>10. net' = 0
       BY <1>1, <1>2, <1>5 DEF Signed
<1> QED BY <1>7, <1>9, <1>10, FlatAfter

LEMMA ReversedAlone ==
  ASSUME Inv, BooksOK, HistoryOK, Alone, NEW c \in Clients, CommitFill(c), BookReverse(req[c])
  PROVE  BooksMatch'
<1> DEFINE r == req[c]
           p == r.row
           i == r.pos
           residual == r.fill - p.qty
           margin == Larger(0, r.acct.margin - p.qty * p.price) + residual * r.price
           new == [p EXCEPT !.open = FALSE, !.mark = r.price]
           closed == [positions EXCEPT ![i] = Written(@, p, new)]
           row == Row(r, residual, 0)
<1>1. /\ r.side \in Sides /\ r.fill \in Nat /\ r.price \in Nat \ {0} /\ i # 0 /\ p.side # r.side
      /\ p \in PositionRow /\ r.acct.margin \in Nat /\ p.qty < r.fill
      BY BookingAlone, BookingIs DEF BookReverse
<1>2. p.side \in Sides /\ p.qty \in Nat /\ p.price \in Nat /\ residual \in Nat \ {0}
      BY <1>1 DEF PositionRow
<1>3. margin \in Nat
      <2>1. Larger(0, r.acct.margin - p.qty * p.price) \in Nat /\ residual * r.price \in Nat
            BY <1>1, <1>2, MarginType, ProductOfNats
      <2> QED BY <2>1
<1>4. /\ SaveAccount(r.acct, r.acct.balance - Fee(r.fill) + Profit(p, p.qty, r.price), margin)
      /\ positions' = Append(closed, row)
      BY DEF BookReverse
<1> HIDE DEF margin
<1>5. /\ OpenRows = {i} /\ AlikeRows(p, positions[i])
      /\ net' = Signed(p.side, p.qty) - Signed(p.side, r.fill)
      /\ account'.balance =
           StartBalance + Flow' + rounded'
             + (Signed(p.side, p.qty * p.price) - Signed(p.side, p.qty * p.price)
                + Signed(p.side, p.qty * r.price) - Signed(p.side, r.fill * r.price))
      BY <1>1, <1>2, <1>3, <1>4, Netting
<1>6. new \in PositionRow /\ ~new.open
      BY <1>1 DEF PositionRow
<1> HIDE DEF new
<1>7. /\ DOMAIN closed = DOMAIN positions
      /\ closed[i] \in PositionRow /\ AlikeRows(closed[i], new)
      /\ \A k \in DOMAIN positions \ {i} : closed[k] = positions[k]
      <2>1. i \in OpenRows
            BY <1>5
      <2> QED BY <1>1, <1>5, <1>6, <2>1, SavedAlike
<1>8. closed \in Seq(PositionRow)
      <2>1. i \in 1..Len(positions) /\ positions \in Seq(PositionRow)
            BY <1>5 DEF OpenRows, BooksOK
      <2>2. Written(positions[i], p, new) \in PositionRow
            BY <1>6, <2>1, WrittenRow
      <2> QED BY <2>1, <2>2, ExceptSeq
<1>9. \A k \in DOMAIN closed : ~closed[k].open
      BY <1>5, <1>6, <1>7 DEF OpenRows, AlikeRows
<1>10. /\ row \in PositionRow /\ row.open
       /\ row.side = r.side /\ row.qty = residual /\ row.price = r.price
       BY <1>1, <1>2, RowType DEF Row
<1>11. PICK j : OpenRows' = {j} /\ positions'[j] = row
       <2> HIDE DEF closed, row
       <2> QED BY <1>4, <1>8, <1>9, <1>10, Added
<1>12. net' = Signed(r.side, residual)
       BY <1>1, <1>2, <1>5 DEF Signed, Sides
<1>13. account'.balance = StartBalance + Flow' + rounded' + Signed(r.side, residual * r.price)
       <2>1. PICK cost, back, paid \in Int :
               cost = p.qty * p.price /\ back = p.qty * r.price /\ paid = r.fill * r.price
             BY <1>1, <1>2, ProductOfInts
       <2>2. residual * r.price = paid - back
             BY <1>1, <1>2, <2>1, Lessening
       <2>3. Signed(p.side, cost) - Signed(p.side, cost)
               + Signed(p.side, back) - Signed(p.side, paid)
             = Signed(r.side, paid - back)
             BY <1>1, <1>2 DEF Signed, Sides
       <2> QED BY <1>5, <2>1, <2>2, <2>3
<1> QED BY <1>10, <1>11, <1>12, <1>13, HeldAfter

LEMMA ClosedAlone ==
  ASSUME Inv, BooksOK, HistoryOK, Alone, NEW c \in Clients, CommitClose(c)
  PROVE  BooksMatch'
<1> DEFINE r == req[c]
           p == r.row
           i == r.pos
           margin == Larger(0, r.acct.margin - p.qty * p.price)
           new == [p EXCEPT !.open = FALSE]
<1>1. r.at = "closing" /\ Trading(c)
      BY DEF CommitClose, Trading
<1>2. /\ r.acct = account /\ OpenRows = {i} /\ AlikeRows(p, positions[i])
      /\ p \in PositionRow /\ account.balance \in Int /\ account.margin \in Nat
      <2>1. HasRead(r) /\ ReadOK(r) /\ account \in AccountRow
            BY <1>1 DEF Alone, BooksOK
      <2> QED BY <1>1, <2>1 DEF HasRead, ReadOK, AccountRow
<1>3. p.side \in Sides /\ p.qty \in Nat /\ p.price \in Nat /\ p.mark \in Nat /\ p.fees \in Nat
      BY <1>2 DEF PositionRow
<1>4. margin \in Nat
      BY <1>2, <1>3, MarginType
<1>5. /\ SaveRow(i, p, new)
      /\ SaveAccount(account, account.balance + Profit(p, p.qty, p.mark) - p.fees, margin)
      /\ net' = net - Signed(p.side, p.qty)
      /\ cash' = cash + Signed(p.side, p.qty * p.mark) /\ again' = again + p.fees
      /\ rounded' = rounded
      BY <1>2 DEF CommitClose
<1> HIDE DEF margin
<1>6. new \in PositionRow /\ ~new.open
      BY <1>2 DEF PositionRow
<1> HIDE DEF new
<1>7. OpenRows' = {}
      BY <1>2, <1>5, <1>6, Replaced
<1>8. PICK cost, back, f \in Int :
        /\ cost = Signed(p.side, p.qty * p.price) /\ back = Signed(p.side, p.qty * p.mark)
        /\ f = p.fees
      <2>1. p.qty * p.price \in Int /\ p.qty * p.mark \in Int
            BY <1>3, ProductOfInts
      <2> QED BY <1>3, <2>1, SignedType
<1>9. Profit(p, p.qty, p.mark) = back - cost
      BY <1>2, <1>3, <1>8, ProfitIs
<1>10. account'.balance = account.balance + (back - cost) - f
       <2>1. account.balance + (back - cost) - f \in Int
             BY <1>2
       <2>2. SaveAccount(account, account.balance + (back - cost) - f, margin)
             BY <1>5, <1>8, <1>9
       <2> QED BY <1>4, <2>1, <2>2, SavedBalance DEF BooksOK
<1>11. net = Signed(p.side, p.qty) /\ account.balance = StartBalance + Flow + rounded + cost
       BY <1>2, <1>8, HeldBooks DEF Alone, AlikeRows
<1>12. net' = 0
       BY <1>3, <1>5, <1>11 DEF Signed
<1>13. Flow' = Flow + back - f
       BY <1>5, <1>8 DEF Flow, HistoryOK
<1>14. account'.balance = StartBalance + Flow' + rounded'
       BY <1>5, <1>10, <1>11, <1>13, DeskAssumption, FlowType DEF HistoryOK
<1> QED BY <1>7, <1>12, <1>14, FlatAfter

\* A request moves on and nothing is committed.
LEMMA AloneStill ==
  ASSUME Inv, Alone, NEW c \in Clients, NEW r, Proceed(c, r),
         UNCHANGED <<account, positions, net, cash, rounded, again>>,
         r.at \in {"submitting", "taken", "booking", "finding", "closing"} =>
           HasRead(r) /\ \A d \in Clients \ {c} : ~Trading(d)
  PROVE  Alone'
<1>1. req'[c] = r /\ \A d \in Clients : d # c => req'[d] = req[d]
      BY Moved DEF Inv
<1>2. BooksMatch'
      BY DEF Alone, BooksMatch, OpenRows, Flow
<1>3. \A t : HasRead(t) => HasRead(t)'
      BY DEF HasRead, OpenRows
<1>4. ASSUME NEW d \in Clients, Trading(d)'
      PROVE  HasRead(req[d])' /\ \A e \in Clients : Trading(e)' => e = d
      <2>1. \A e \in Clients \ {c} : Trading(e)' <=> Trading(e)
            BY <1>1 DEF Trading
      <2>2. CASE d = c
            <3>1. HasRead(r) /\ \A e \in Clients \ {c} : ~Trading(e)
                  BY <1>1, <1>4, <2>2 DEF Trading
            <3>2. HasRead(req[d])'
                  BY <1>1, <1>3, <2>2, <3>1 DEF HasRead
            <3> QED BY <2>1, <2>2, <3>1, <3>2
      <2>3. CASE d # c
            <3>1. Trading(d) /\ req'[d] = req[d]
                  BY <1>1, <1>4, <2>1, <2>3
            <3>2. HasRead(req[d]) /\ \A e \in Clients : Trading(e) => e = d
                  BY <3>1 DEF Alone
            <3>3. ~Trading(c)'
                  BY <1>1, <2>3, <3>1 DEF Trading
            <3>4. HasRead(req[d])'
                  BY <1>3, <3>1, <3>2 DEF HasRead
            <3> QED BY <2>1, <3>2, <3>3, <3>4
      <2> QED BY <2>2, <2>3
<1> QED BY <1>2, <1>4 DEF Alone

\* The request that trades alone is committed.
LEMMA AloneAfter ==
  ASSUME Inv, Alone, NEW c \in Clients, Trading(c), Proceed(c, Idle), BooksMatch'
  PROVE  Alone'
<1>1. req'[c] = Idle /\ \A d \in Clients : d # c => req'[d] = req[d]
      BY Moved DEF Inv
<1>2. \A d \in Clients : ~Trading(d)'
      BY <1>1 DEF Alone, Trading, Idle
<1> QED BY <1>2 DEF Alone

LEMMA StepHistory == Inv /\ BooksOK /\ HistoryOK /\ [Next]_vars => HistoryOK'
<1> SUFFICES ASSUME Inv, BooksOK, HistoryOK, [Next]_vars PROVE HistoryOK'
    OBVIOUS
<1>1. ASSUME NEW c \in Clients, CommitFill(c) PROVE HistoryOK'
      BY <1>1, HistoryStays
<1>2. ASSUME NEW c \in Clients, CommitClose(c) PROVE HistoryOK'
      <2> DEFINE p == req[c].row
      <2>1. p \in PositionRow
            BY <1>2 DEF CommitClose, BooksOK, ReadOK
      <2>2. p.qty \in Nat /\ p.mark \in Nat /\ p.fees \in Nat
            BY <2>1 DEF PositionRow
      <2>3. p.qty * p.mark \in Int
            BY <2>2, ProductOfInts
      <2>4. Signed(p.side, p.qty) \in Int /\ Signed(p.side, p.qty * p.mark) \in Int
            BY <2>2, <2>3, SignedType
      <2> QED BY <1>2, <2>2, <2>4 DEF CommitClose, HistoryOK
<1>3. CASE UNCHANGED <<net, cash, rounded, again>>
      BY <1>3 DEF HistoryOK
<1> QED BY <1>1, <1>2, <1>3
        DEF Next, vars, db, books, BeginOrder, BrokerTakes, SelectPosition, CommitResting, BeginCancel,
            BrokerCancels, CommitCancel, BeginClose, FindPosition, Fail, Refused, MarkToMarket,
            RestingFills

\* While requests do not overlap, none makes a mess of what another has read.
LEMMA StepAlone ==
  ASSUME Inv, BooksOK, HistoryOK, Alone, serial', [Next]_vars
  PROVE  Alone'
<1> DEFINE still == UNCHANGED <<account, positions, net, cash, rounded, again>>
<1>1. ASSUME NEW c \in Clients, Trading(c)
      PROVE  HasRead(req[c]) /\ \A d \in Clients \ {c} : ~Trading(d)
      BY <1>1 DEF Alone
<1>2. ASSUME NEW c \in Clients, Enters(c) PROVE \A d \in Clients \ {c} : ~Trading(d)
      BY <1>2 DEF Enters
<1>3. ASSUME NEW c \in Clients, BeginOrder(c) PROVE Alone'
      <2>1. PICK order \in Requests :
              Proceed(c, [at |-> "submitting", side |-> order.side, qty |-> order.qty,
                          acct |-> account])
            BY <1>3 DEF BeginOrder
      <2>2. HasRead([at |-> "submitting", side |-> order.side, qty |-> order.qty, acct |-> account])
            BY DEF HasRead
      <2>3. still /\ Enters(c)
            BY <1>3 DEF BeginOrder, db, books
      <2> QED BY <1>2, <2>1, <2>2, <2>3, AloneStill
<1>4. ASSUME NEW c \in Clients, BrokerTakes(c) PROVE Alone'
      <2>1. PICK price \in Prices \cup {0}, fill \in 0..req[c].qty :
              /\ price = 0 <=> fill = 0
              /\ Proceed(c, [at |-> "taken", side |-> req[c].side, qty |-> req[c].qty,
                             acct |-> req[c].acct, id |-> Len(broker) + 1, fill |-> fill,
                             price |-> price])
            BY <1>4 DEF BrokerTakes
      <2>2. still /\ Trading(c)
            BY <1>4 DEF BrokerTakes, db, books, Trading
      <2>3. HasRead([at |-> "taken", side |-> req[c].side, qty |-> req[c].qty,
                     acct |-> req[c].acct, id |-> Len(broker) + 1, fill |-> fill,
                    price |-> price])
            BY <1>1, <2>2 DEF HasRead
      <2> QED BY <1>1, <2>1, <2>2, <2>3, AloneStill
<1>5. ASSUME NEW c \in Clients, SelectPosition(c) PROVE Alone'
      <2>1. PICK i, row :
              /\ Proceed(c, [at |-> "booking", side |-> req[c].side, qty |-> req[c].qty,
                             acct |-> req[c].acct, id |-> req[c].id, fill |-> req[c].fill,
                             price |-> req[c].price, pos |-> i, row |-> row])
              /\ \/ i = 0 /\ OpenRows = {}
                 \/ i \in OpenRows /\ OpenRows = {i} /\ row = positions[i]
            BY <1>5 DEF SelectPosition
      <2>2. still /\ Trading(c)
            BY <1>5 DEF SelectPosition, db, books, Trading
      <2>3. i # 0 => OpenRows = {i} /\ row = positions[i]
            BY <2>1
      <2>4. i = 0 => OpenRows = {}
            BY <2>1 DEF OpenRows, BooksOK
      <2>5. HasRead([at |-> "booking", side |-> req[c].side, qty |-> req[c].qty,
                     acct |-> req[c].acct, id |-> req[c].id, fill |-> req[c].fill,
                     price |-> req[c].price, pos |-> i, row |-> row])
            BY <1>1, <2>2, <2>3, <2>4 DEF HasRead, AlikeRows
      <2> QED BY <1>1, <2>1, <2>2, <2>5, AloneStill
<1>6. ASSUME NEW c \in Clients, CommitFill(c) PROVE Alone'
      <2>1. BooksMatch'
            BY <1>6, OpenedAlone, AccumulatedAlone, ReducedAlone, FlattenedAlone, ReversedAlone
               DEF CommitFill
      <2>2. Trading(c) /\ Proceed(c, Idle)
            BY <1>6 DEF CommitFill, Trading
      <2> QED BY <2>1, <2>2, AloneAfter
<1>7. ASSUME NEW c \in Clients, CommitClose(c) PROVE Alone'
      <2>1. BooksMatch'
            BY <1>7, ClosedAlone
      <2>2. Trading(c) /\ Proceed(c, Idle)
            BY <1>7 DEF CommitClose, Trading
      <2> QED BY <2>1, <2>2, AloneAfter
<1>8. ASSUME NEW c \in Clients, CommitResting(c) \/ CommitCancel(c) \/ Fail(c) PROVE Alone'
      <2>1. Proceed(c, [at |-> "idle"]) /\ still
            BY <1>8 DEF CommitResting, CommitCancel, Fail, Idle, db, books
      <2> QED BY <2>1, AloneStill
<1>9. ASSUME NEW c \in Clients, BeginCancel(c) \/ BrokerCancels(c) PROVE Alone'
      <2>1. still
            BY <1>9 DEF BeginCancel, BrokerCancels, db, books
      <2>2. CASE BeginCancel(c)
            <3>1. PICK o \in DOMAIN orders : Proceed(c, [at |-> "cancelling", order |-> o])
                  BY <2>2 DEF BeginCancel
            <3> QED BY <2>1, <3>1, AloneStill
      <2>3. CASE BrokerCancels(c)
            <3>1. Proceed(c, [at |-> "cancelled", order |-> req[c].order])
                  BY <2>3 DEF BrokerCancels
            <3> QED BY <2>1, <3>1, AloneStill
      <2> QED BY <1>9, <2>2, <2>3
<1>10. ASSUME NEW c \in Clients, BeginClose(c) PROVE Alone'
       <2>1. HasRead([at |-> "finding", acct |-> account])
             BY DEF HasRead
       <2>2. still /\ Enters(c) /\ Proceed(c, [at |-> "finding", acct |-> account])
             BY <1>10 DEF BeginClose, db, books
       <2> QED BY <1>2, <2>1, <2>2, AloneStill
<1>11. ASSUME NEW c \in Clients, FindPosition(c) PROVE Alone'
       <2>1. PICK i \in OpenRows :
               Proceed(c, [at |-> "closing", acct |-> req[c].acct, pos |-> i, row |-> positions[i]])
             BY <1>11 DEF FindPosition
       <2>2. still /\ Trading(c)
             BY <1>11 DEF FindPosition, db, books, Trading
       <2>3. OpenRows = {i}
             BY DEF Alone, BooksMatch
       <2>4. HasRead([at |-> "closing", acct |-> req[c].acct, pos |-> i, row |-> positions[i]])
             BY <1>1, <2>2, <2>3 DEF HasRead, AlikeRows
       <2> QED BY <1>1, <2>1, <2>2, <2>4, AloneStill
<1>12. CASE MarkToMarket
       <2>1. PICK i \in OpenRows, price \in Prices :
               positions' = [positions EXCEPT ![i].mark = price]
             BY <1>12 DEF MarkToMarket
       <2>2. UNCHANGED <<account, net, cash, rounded, again, req>>
             BY <1>12 DEF MarkToMarket
       <2>3. i \in DOMAIN positions /\ positions \in Seq(PositionRow)
             BY DEF OpenRows, BooksOK
       <2>4. positions[i] \in PositionRow /\ price \in Nat \ {0}
             BY <2>3, DeskAssumption
       <2>5. /\ DOMAIN positions' = DOMAIN positions
             /\ positions'[i] = [positions[i] EXCEPT !.mark = price]
             /\ \A k \in DOMAIN positions \ {i} : positions'[k] = positions[k]
             BY <2>1, <2>3
       <2>6. AlikeRows(positions'[i], positions[i])
             BY <2>4, <2>5 DEF AlikeRows, PositionRow
       <2>7. \A k \in DOMAIN positions : AlikeRows(positions'[k], positions[k])
             BY <2>5, <2>6 DEF AlikeRows
       <2>8. OpenRows' = OpenRows
             BY <2>5, <2>7 DEF OpenRows, AlikeRows
       <2>9. BooksMatch'
             <3>1. CASE OpenRows = {}
                   BY <2>2, <2>8, <3>1, FlatBooks, FlatAfter DEF Alone, Flow
             <3>2. ASSUME NEW k \in OpenRows, OpenRows = {k} PROVE BooksMatch'
                   <4>1. AlikeRows(positions'[k], positions[k])
                         BY <2>7 DEF OpenRows
                   <4> QED BY <2>2, <2>8, <3>2, <4>1, HeldBooks, HeldAfter DEF Alone, AlikeRows, Flow
             <3> QED BY <3>1, <3>2 DEF Alone, BooksMatch
       <2>10. \A r : HasRead(r) => HasRead(r)'
              <3> SUFFICES ASSUME NEW r, HasRead(r) PROVE HasRead(r)'
                  OBVIOUS
              <3>1. ASSUME NEW k, OpenRows = {k}, AlikeRows(r.row, positions[k])
                    PROVE  AlikeRows(r.row, positions'[k])
                    <4>1. k \in DOMAIN positions
                          BY <3>1 DEF OpenRows
                    <4> QED BY <2>7, <3>1, <4>1 DEF AlikeRows
              <3> QED BY <2>2, <2>8, <3>1 DEF HasRead
       <2> QED BY <2>2, <2>9, <2>10 DEF Alone, Trading, HasRead
<1>13. CASE RestingFills \/ UNCHANGED vars \/ \E c \in Clients : Refused(c)
       <2>1. still /\ UNCHANGED req
             BY <1>13 DEF RestingFills, Refused, vars, db, books
       <2> QED BY <2>1 DEF Alone, Trading, HasRead, BooksMatch, OpenRows, Flow
<1> QED BY <1>3, <1>4, <1>5, <1>6, <1>7, <1>8, <1>9, <1>10, <1>11, <1>12, <1>13 DEF Next

\* As long as no two requests that trade have overlapped and no position that
\* carries fees was closed, the one open position is the net of what was traded and
\* the balance is the money that moved, one fee to each fill, for any sequence of
\* orders, fills in full or in part, cancellations, closes and failures.
THEOREM SerialBooksCorrect == Spec => []SerialBooksBalance
<1>1. Init => BooksOK
      BY AccountType, DeskAssumption DEF Init, BooksOK, ReadOK, Holds, Idle
<1>2. Init => BooksInv
      <2> SUFFICES ASSUME Init PROVE BooksInv
          OBVIOUS
      <2>1. OpenRows = {} /\ account.balance = StartBalance
            BY DEF Init, OpenRows, Account
      <2>2. BooksMatch
            BY <2>1, DeskAssumption DEF Init, BooksMatch, Flow
      <2>3. \A c \in Clients : ~Trading(c)
            BY DEF Init, Trading, Idle
      <2> QED BY <2>2, <2>3 DEF Init, BooksInv, HistoryOK, Alone
<1>3. Inv /\ BooksOK /\ BooksInv /\ [Next]_vars => BooksInv'
      <2> SUFFICES ASSUME Inv, BooksOK, BooksInv, [Next]_vars PROVE BooksInv'
          OBVIOUS
      <2>1. HistoryOK'
            BY StepHistory DEF BooksInv
      <2>2. ASSUME serial' PROVE Alone'
            <3>1. serial
                  BY <2>2 DEF Next, vars, Enters, BeginOrder, BrokerTakes, SelectPosition,
                     CommitFill, CommitResting, BeginCancel, BrokerCancels, CommitCancel,
                     BeginClose, FindPosition, CommitClose, Fail, Refused, MarkToMarket,
                     RestingFills
            <3> QED BY <2>2, <3>1, StepAlone DEF BooksInv
      <2> QED BY <2>1, <2>2 DEF BooksInv
<1>4. BooksInv => SerialBooksBalance
      <2> SUFFICES ASSUME HistoryOK, BooksMatch, again = 0 PROVE BooksBalance
          BY DEF BooksInv, Alone, SerialBooksBalance
      <2>1. Flow = cash
            BY DEF HistoryOK, Flow
      <2> QED BY <2>1 DEF BooksMatch, BooksBalance
<1> QED BY <1>1, <1>2, <1>3, <1>4, InitInv, StepInv, StepBooks, PTL DEF Spec

=============================================================================
