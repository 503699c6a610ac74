--------------------------- MODULE PortfolioProofs --------------------------
(***************************************************************************)
(* Proofs about Portfolio, for any symbols, prices, quantities, charges and*)
(* flows, and for any number of positions.                                 *)
(***************************************************************************)
EXTENDS Portfolio, SumTheorems, SequenceTheorems, TLAPS

Ends == {"none", "closed", "in parts", "merged", "dropped"}

\* A record as it may be found.
Sound(p) ==
  /\ p \in Records
  /\ p.quantity <= p.initial
  /\ p.status \notin Active => p.quantity = 0
  /\ p.end = "none" <=> p.status \in Active

LEMMA Dividing == ASSUME NEW a \in Nat, NEW b \in Nat \ {0} PROVE a \div b \in Nat
OBVIOUS

LEMMA Multiplying == ASSUME NEW a \in Nat, NEW b \in Nat PROVE a * b \in Nat
OBVIOUS

\* An average is a price.
LEMMA QuotientIs ==
  ASSUME NEW cost \in Nat, NEW quantity \in Nat \ {0}
  PROVE  Quotient(cost, quantity) \in Nat
<1> DEFINE down == cost \div quantity
<1>1. down \in Nat
      BY Dividing
<1>2. Quotient(cost, quantity) \in {down, down + 1}
      BY DEF Quotient
<1> HIDE DEF down
<1> QED BY <1>1, <1>2

LEMMA Costs ==
  ASSUME NEW q1 \in Nat, NEW e1 \in Nat, NEW q2 \in Nat, NEW e2 \in Nat
  PROVE  /\ q1 * e1 \in Nat /\ q2 * e2 \in Nat /\ q1 * e1 + q2 * e2 \in Nat
         /\ q1 + q2 > 0 => Quotient(q1 * e1 + q2 * e2, q1 + q2) \in Nat
<1>1. q1 * e1 \in Nat /\ q2 * e2 \in Nat
      BY Multiplying
<1>2. PICK cost, size \in Nat : cost = q1 * e1 + q2 * e2 /\ size = q1 + q2
      BY <1>1
<1>3. size > 0 => Quotient(cost, size) \in Nat
      BY <1>2, QuotientIs
<1> QED BY <1>1, <1>2, <1>3

LEMMA Fields ==
  ASSUME NEW p \in Records
  PROVE  /\ p.symbol \in Symbols /\ p.side \in Sides /\ p.status \in Statuses
         /\ p.quantity \in Nat /\ p.initial \in Nat /\ p.entry \in Nat /\ p.realized \in Int
         /\ p.origin \in {"opened", "split"} /\ p.end \in Ends
BY DEF Records, Ends

LEMMA RealizedIs ==
  ASSUME NEW p \in Records, NEW quantity \in Nat, NEW price \in Nat
  PROVE  Realized(p, quantity, price) \in Int
<1>1. ASSUME NEW a \in Int PROVE a * quantity \in Int
      OBVIOUS
<1>2. (IF p.side = "long" THEN price - p.entry ELSE p.entry - price) \in Int
      BY Fields
<1> QED BY <1>1, <1>2 DEF Realized

LEMMA EndedIs ==
  ASSUME NEW p, Sound(p), NEW price \in Nat, NEW status \in Statuses \ Active,
         NEW how \in Ends \ {"none"}
  PROVE  /\ Sound(Ended(p, price, status, how))
         /\ Ended(p, price, status, how).status = status
         /\ Ended(p, price, status, how).origin = p.origin
<1>1. p \in Records /\ p.quantity \in Nat
      BY Fields DEF Sound
<1> DEFINE pnl == Realized(p, p.quantity, price)
           r == [p EXCEPT !.status = status, !.quantity = 0, !.realized = pnl, !.end = how]
<1>2. pnl \in Int
      BY <1>1, RealizedIs
<1> HIDE DEF pnl
<1>3. /\ r \in Records /\ r.status = status /\ r.quantity = 0 /\ r.initial = p.initial
      /\ r.end = how /\ r.origin = p.origin
      BY <1>1, <1>2 DEF Records, Ends
<1>4. r.initial \in Nat
      BY <1>3, Fields
<1> HIDE DEF r
<1>5. Sound(r)
      BY <1>3, <1>4 DEF Sound
<1> QED BY <1>3, <1>5 DEF Ended, r, pnl

LEMMA ReducedIs ==
  ASSUME NEW p, Sound(p), NEW quantity \in Nat \ {0}, quantity <= p.quantity, NEW price \in Nat
  PROVE  /\ Sound(Reduced(p, quantity, price))
         /\ Reduced(p, quantity, price).origin = p.origin
<1>1. p \in Records /\ p.quantity \in Nat /\ p.initial \in Nat /\ p.realized \in Int
      BY Fields DEF Sound
<1> DEFINE pnl == p.realized + Realized(p, quantity, price)
           whole == quantity = p.quantity
           status == IF whole THEN "closed" ELSE "partially_closed"
           end == IF whole THEN "in parts" ELSE "none"
           rest == p.quantity - quantity
           r == [p EXCEPT !.quantity = rest, !.status = status, !.end = end, !.realized = pnl]
<1>2. pnl \in Int
      <2>1. Realized(p, quantity, price) \in Int
            BY <1>1, RealizedIs
      <2> QED BY <1>1, <2>1
<1>3. status \in Statuses /\ end \in Ends /\ rest \in Nat /\ rest <= p.initial
      BY <1>1 DEF Statuses, Active, Ends, Sound
<1>4. (status \notin Active => rest = 0) /\ (end = "none" <=> status \in Active)
      BY <1>1 DEF Active
<1>5. Reduced(p, quantity, price) = r
      BY DEF Reduced
<1> HIDE DEF pnl, status, end, rest, whole
<1>6. /\ r \in Records /\ r.status = status /\ r.quantity = rest /\ r.initial = p.initial
      /\ r.end = end /\ r.origin = p.origin
      BY <1>1, <1>2, <1>3 DEF Records, Ends
<1> HIDE DEF r
<1>7. Sound(r)
      BY <1>3, <1>4, <1>6 DEF Sound
<1> QED BY <1>5, <1>6, <1>7

\* An active position that stays one.
Grown(p, quantity, initial, entry, realized) ==
  [p EXCEPT !.quantity = quantity, !.initial = initial, !.entry = entry, !.realized = realized]

LEMMA GrownIs ==
  ASSUME NEW p, Sound(p), p.status \in Active, NEW quantity \in Nat, NEW initial \in Nat,
         quantity <= initial, NEW entry \in Nat, NEW realized \in Int
  PROVE  LET r == Grown(p, quantity, initial, entry, realized)
         IN  Sound(r) /\ r.origin = p.origin
<1>1. p \in Records
      BY DEF Sound
<1> DEFINE r == Grown(p, quantity, initial, entry, realized)
<1>2. /\ r \in Records /\ r.status = p.status /\ r.quantity = quantity
      /\ r.initial = initial /\ r.end = p.end /\ r.origin = p.origin
      BY <1>1 DEF Records, Grown
<1> HIDE DEF r
<1>3. Sound(r)
      BY <1>2 DEF Sound
<1> QED BY <1>2, <1>3 DEF r

LEMMA IncreasedIs ==
  ASSUME NEW p, Sound(p), p.status \in Active, NEW quantity \in Nat, NEW entry \in Nat
  PROVE  /\ Sound(Increased(p, quantity, entry))
         /\ Increased(p, quantity, entry).origin = p.origin
<1>1. /\ p \in Records /\ p.quantity \in Nat /\ p.entry \in Nat /\ p.realized \in Int
      /\ p.initial \in Nat /\ p.quantity <= p.initial
      BY Fields DEF Sound
<1> DEFINE size == p.quantity + quantity
           initial == p.initial + quantity
           r == [p EXCEPT !.quantity = size, !.initial = initial, !.entry = entry]
<1>2. size \in Nat /\ initial \in Nat /\ size <= initial
      BY <1>1
<1>3. Increased(p, quantity, entry) = r
      BY DEF Increased
<1> HIDE DEF size, initial
<1>4. r = Grown(p, size, initial, entry, p.realized)
      BY <1>1 DEF Records, Grown
<1>5. PICK realized \in Int : realized = p.realized
      BY <1>1
<1> HIDE DEF r
<1>6. Sound(r) /\ r.origin = p.origin
      BY <1>2, <1>4, <1>5, GrownIs
<1> QED BY <1>3, <1>6

LEMMA MergedIs ==
  ASSUME NEW p, Sound(p), p.status \in Active, NEW q, Sound(q), NEW entry \in Nat
  PROVE  Sound(Merged(p, q, entry)) /\ Merged(p, q, entry).origin = p.origin
<1>1. /\ p \in Records /\ p.quantity \in Nat /\ p.realized \in Int
      /\ p.initial \in Nat /\ p.quantity <= p.initial
      BY Fields DEF Sound
<1>2. /\ q \in Records /\ q.quantity \in Nat /\ q.initial \in Nat
      /\ q.realized \in Int /\ q.quantity <= q.initial
      BY Fields DEF Sound
<1> DEFINE size == p.quantity + q.quantity
           initial == p.initial + q.initial
           realized == p.realized + q.realized
           r == [p EXCEPT !.quantity = size, !.initial = initial, !.entry = entry,
                          !.realized = realized]
<1>3. size \in Nat /\ initial \in Nat /\ size <= initial /\ realized \in Int
      BY <1>1, <1>2
<1>4. Merged(p, q, entry) = r /\ r = Grown(p, size, initial, entry, realized)
      BY DEF Merged, Grown
<1> HIDE DEF size, initial, realized, r
<1>5. Sound(r) /\ r.origin = p.origin
      BY <1>3, <1>4, GrownIs
<1> QED BY <1>4, <1>5

LEMMA GoneIntoIs ==
  ASSUME NEW q, Sound(q)
  PROVE  Sound(GoneInto(q)) /\ GoneInto(q).status = "closed" /\ GoneInto(q).origin = q.origin
<1>1. q \in Records /\ q.initial \in Nat
      BY Fields DEF Sound
<1>2. /\ GoneInto(q) \in Records /\ GoneInto(q).status = "closed" /\ GoneInto(q).quantity = 0
      /\ GoneInto(q).initial = q.initial /\ GoneInto(q).end = "merged"
      /\ GoneInto(q).origin = q.origin
      BY <1>1 DEF GoneInto, Records, Statuses
<1> QED BY <1>1, <1>2 DEF Sound, Active

\* The first part of a split position.
Less(p, first) == [p EXCEPT !.quantity = first]

LEMMA LessIs ==
  ASSUME NEW p, Sound(p), p.status \in Active, NEW first \in Nat, first <= p.quantity
  PROVE  Sound(Less(p, first)) /\ Less(p, first).origin = p.origin
<1>1. p \in Records /\ p.quantity \in Nat /\ p.initial \in Nat /\ p.quantity <= p.initial
      BY Fields DEF Sound
<1> DEFINE r == [p EXCEPT !.quantity = first]
<1>2. Less(p, first) = r
      BY DEF Less
<1>3. /\ r \in Records /\ r.status = p.status /\ r.quantity = first /\ r.initial = p.initial
      /\ r.end = p.end /\ r.origin = p.origin
      BY <1>1 DEF Records
<1> HIDE DEF r
<1>4. Sound(r)
      BY <1>1, <1>3 DEF Sound
<1> QED BY <1>2, <1>3, <1>4

LEMMA PositionIs ==
  ASSUME NEW symbol \in Symbols, NEW side \in Sides, NEW quantity \in Nat, NEW price \in Nat,
         NEW origin \in {"opened", "split"}
  PROVE  /\ Sound(Position(symbol, side, quantity, price, origin))
         /\ Position(symbol, side, quantity, price, origin).origin = origin
BY DEF Sound, Position, Records, Statuses, Active

-----------------------------------------------------------------------------
(* The positions.                                                          *)

AllSound == positions \in Seq(Records) /\ \A i \in Ids : Sound(positions[i])

\* What every step does to the positions and to their margin.
Orderly ==
  /\ AllSound'
  /\ MarginIsHeld'
  /\ Ids \subseteq Ids' /\ margined' \subseteq margined \cup Ids'
  /\ \A i \in Ids : positions[i].end # "none" => positions'[i] = positions[i]

\* A position is left as it is, or it was active and stays sound; margin goes only
\* with the activity.  Those that are new are sound and have it if they should.
LEMMA Moving ==
  ASSUME AllSound, MarginIsHeld, positions' \in Seq(Records), Ids \subseteq Ids',
         margined' \subseteq margined \cup Ids',
         \A k \in Ids :
           \/ positions'[k] = positions[k] /\ (k \in margined => k \in margined')
           \/ /\ positions[k].status \in Active
              /\ Sound(positions'[k]) /\ positions'[k].origin = positions[k].origin
              /\ k \in margined => k \in margined' \/ positions'[k].status \notin Active,
         \A k \in Ids' \ Ids :
           Sound(positions'[k]) /\ (positions'[k].origin = "opened" => k \in margined')
  PROVE  Orderly
<1>1. AllSound'
      BY DEF AllSound
<1>2. MarginIsHeld'
      <2> SUFFICES ASSUME NEW k \in Ids', positions'[k].status \in Active,
                          positions'[k].origin = "opened"
                   PROVE  k \in margined'
          BY DEF MarginIsHeld, ActiveIds
      <2>1. CASE k \notin Ids
            BY <2>1
      <2>2. CASE k \in Ids
            <3>1. positions[k].status \in Active /\ positions[k].origin = "opened"
                  BY <2>2
            <3>2. k \in margined
                  BY <2>2, <3>1 DEF MarginIsHeld, ActiveIds
            <3> QED BY <2>2, <3>2
      <2> QED BY <2>1, <2>2
<1>3. ASSUME NEW k \in Ids, positions[k].end # "none" PROVE positions'[k] = positions[k]
      <2>1. positions[k].status \notin Active
            BY <1>3 DEF AllSound, Sound
      <2> QED BY <2>1
<1> QED BY <1>1, <1>2, <1>3 DEF Orderly

LEMMA IdsAre == ASSUME AllSound PROVE Ids = 1..Len(positions) /\ Len(positions) \in Nat
BY LenProperties DEF AllSound, Ids

LEMMA Placing ==
  ASSUME NEW s \in Seq(Records), NEW i \in DOMAIN s, NEW r \in Records
  PROVE  LET t == [s EXCEPT ![i] = r]
         IN  /\ t \in Seq(Records) /\ Len(t) = Len(s) /\ DOMAIN t = DOMAIN s
             /\ t[i] = r /\ \A k \in DOMAIN s \ {i} : t[k] = s[k]
<1>1. Len(s) \in Nat /\ DOMAIN s = 1..Len(s)
      BY LenProperties
<1> QED BY <1>1, ExceptSeq

LEMMA Adding ==
  ASSUME NEW s \in Seq(Records), NEW r \in Records
  PROVE  LET t == Append(s, r)
         IN  /\ t \in Seq(Records) /\ DOMAIN t = DOMAIN s \cup {Len(s) + 1}
             /\ Len(s) + 1 \notin DOMAIN s
             /\ t[Len(s) + 1] = r /\ \A k \in DOMAIN s : t[k] = s[k]
<1> DEFINE t == Append(s, r)
<1>1. Len(s) \in Nat /\ DOMAIN s = 1..Len(s)
      BY LenProperties
<1>2. /\ t \in Seq(Records) /\ Len(t) = Len(s) + 1
      /\ \A k \in 1..Len(s) : t[k] = s[k]
      /\ t[Len(s) + 1] = r
      BY AppendProperties
<1>3. DOMAIN t = 1..Len(t)
      BY <1>2, LenProperties
<1> HIDE DEF t
<1>4. DOMAIN t = DOMAIN s \cup {Len(s) + 1} /\ Len(s) + 1 \notin DOMAIN s
      BY <1>1, <1>2, <1>3
<1> QED BY <1>1, <1>2, <1>4 DEF t

\* One active position is replaced.
LEMMA Changing ==
  ASSUME AllSound, MarginIsHeld, NEW i \in Ids, positions[i].status \in Active,
         NEW r, Sound(r), r.origin = positions[i].origin,
         positions' = [positions EXCEPT ![i] = r],
         margined' = margined \/ (margined' = margined \ {i} /\ r.status \notin Active)
  PROVE  Orderly
<1>1. positions \in Seq(Records) /\ i \in DOMAIN positions /\ r \in Records
      BY DEF AllSound, Ids, Sound
<1>2. /\ positions' \in Seq(Records) /\ Ids' = Ids
      /\ positions'[i] = r /\ \A k \in Ids \ {i} : positions'[k] = positions[k]
      BY <1>1, Placing DEF Ids
<1>3. ASSUME NEW k \in Ids
      PROVE  \/ positions'[k] = positions[k] /\ (k \in margined => k \in margined')
             \/ /\ positions[k].status \in Active
                /\ Sound(positions'[k]) /\ positions'[k].origin = positions[k].origin
                /\ k \in margined => k \in margined' \/ positions'[k].status \notin Active
      <2>1. CASE k = i
            BY <1>2, <2>1
      <2>2. CASE k # i
            BY <1>2, <2>2
      <2> QED BY <2>1, <2>2
<1> QED BY <1>2, <1>3, Moving

-----------------------------------------------------------------------------
(* The averages.                                                           *)

\* The entry of position i after `quantity` was added at `price`, and the sum of what
\* it has cost then; the same of i after j has gone into it.
NewCost(i, quantity, price) == positions[i].quantity * positions[i].entry + quantity * price
NewEntry(i, quantity, price) == Quotient(NewCost(i, quantity, price), positions[i].quantity + quantity)
JointCost(i, j) ==
  positions[i].quantity * positions[i].entry + positions[j].quantity * positions[j].entry
JointSize(i, j) == positions[i].quantity + positions[j].quantity
MeanEntry(i, j) ==
  IF JointSize(i, j) > 0 THEN Quotient(JointCost(i, j), JointSize(i, j)) ELSE positions[i].entry

LEMMA NewEntryIs ==
  ASSUME AllSound, NEW i \in Ids, NEW price \in Prices, NEW quantity \in Quantities,
         IncreasePosition(i, quantity, price)
  PROVE  NewEntry(i, quantity, price) \in Nat /\ NewCost(i, quantity, price) \in Nat
<1>1. /\ positions[i].quantity \in Nat /\ positions[i].entry \in Nat
      /\ quantity \in Nat /\ price \in Nat
      BY Fields, PortfolioAssumption DEF AllSound, Sound
<1>2. positions[i].quantity + quantity > 0
      BY DEF IncreasePosition
<1> QED BY <1>1, <1>2, Costs DEF NewEntry, NewCost

LEMMA MeanEntryIs ==
  ASSUME AllSound, NEW i \in Ids, NEW j \in Ids
  PROVE  MeanEntry(i, j) \in Nat /\ JointCost(i, j) \in Nat /\ JointSize(i, j) \in Nat
<1>1. /\ positions[i].quantity \in Nat /\ positions[i].entry \in Nat
      /\ positions[j].quantity \in Nat /\ positions[j].entry \in Nat
      BY Fields DEF AllSound, Sound
<1>2. /\ JointCost(i, j) \in Nat /\ JointSize(i, j) \in Nat
      /\ JointSize(i, j) > 0 => Quotient(JointCost(i, j), JointSize(i, j)) \in Nat
      <2>1. JointCost(i, j) \in Nat /\ JointSize(i, j) \in Nat
            <3>1. /\ positions[i].quantity * positions[i].entry \in Nat
                  /\ positions[j].quantity * positions[j].entry \in Nat
                  BY <1>1, Multiplying
            <3>2. \A a, b \in Nat : a + b \in Nat
                  OBVIOUS
            <3> QED BY <1>1, <3>1, <3>2 DEF JointCost, JointSize
      <2> QED BY <2>1, QuotientIs
<1> QED BY <1>1, <1>2 DEF MeanEntry

-----------------------------------------------------------------------------
(* The steps.                                                              *)

LEMMA StepOrderly == AllSound /\ MarginIsHeld /\ Next => Orderly
<1> SUFFICES ASSUME AllSound, MarginIsHeld, Next PROVE Orderly
    OBVIOUS
<1> USE PortfolioAssumption
<1>0. /\ positions \in Seq(Records) /\ \A i \in Ids : Sound(positions[i])
      /\ \A i \in Ids : positions[i] \in Records /\ positions[i].quantity \in Nat
      BY Fields DEF AllSound, Sound
<1>1. ASSUME NEW symbol \in Symbols, NEW side \in Sides, NEW quantity \in Quantities,
             NEW price \in Prices, OpenPosition(symbol, side, quantity, price)
      PROVE  Orderly
      <2> DEFINE r == Position(symbol, side, quantity, price, "opened")
      <2>1. Sound(r) /\ r.origin = "opened" /\ r \in Records
            BY PositionIs DEF Sound
      <2>2. positions' = Append(positions, r) /\ margined' = margined \cup {Len(positions) + 1}
            BY <1>1 DEF OpenPosition
      <2> HIDE DEF r
      <2>3. /\ positions' \in Seq(Records) /\ Ids' = Ids \cup {Len(positions) + 1}
            /\ Len(positions) + 1 \notin Ids
            /\ positions'[Len(positions) + 1] = r /\ \A k \in Ids : positions'[k] = positions[k]
            BY <1>0, <2>1, <2>2, Adding DEF Ids
      <2> QED BY <2>1, <2>2, <2>3, Moving
<1>2. ASSUME NEW i \in Ids, NEW price \in Prices, ClosePosition(i, price) PROVE Orderly
      <2> DEFINE r == Ended(positions[i], price, "closed", "closed")
      <2>1. /\ positions[i].status \in Active /\ positions' = [positions EXCEPT ![i] = r]
            /\ margined' = margined \ {i}
            BY <1>2 DEF ClosePosition
      <2>2. "closed" \in Statuses \ Active /\ "closed" \in Ends \ {"none"} /\ price \in Nat
            BY DEF Statuses, Active, Ends
      <2>3. Sound(positions[i])
            BY <1>0
      <2>4. Sound(r) /\ r.status = "closed" /\ r.origin = positions[i].origin
            BY <2>2, <2>3, EndedIs
      <2> HIDE DEF r
      <2> QED BY <2>1, <2>2, <2>4, Changing
<1>3. ASSUME NEW i \in Ids, NEW price \in Prices, NEW quantity \in Quantities,
             PartiallyClose(i, quantity, price)
      PROVE  Orderly
      <2> DEFINE r == Reduced(positions[i], quantity, price)
      <2>1. /\ positions[i].status \in Active
            /\ 0 < quantity /\ quantity <= positions[i].quantity
            /\ positions' = [positions EXCEPT ![i] = r] /\ margined' = margined
            BY <1>3 DEF PartiallyClose, moneyVars
      <2>2. Sound(r) /\ r.origin = positions[i].origin
            <3>1. quantity \in Nat \ {0} /\ price \in Nat
                  BY <2>1
            <3> QED BY <1>0, <2>1, <3>1, ReducedIs
      <2> HIDE DEF r
      <2> QED BY <2>1, <2>2, Changing
<1>4. ASSUME NEW i \in Ids, NEW price \in Prices, NEW quantity \in Quantities,
             IncreasePosition(i, quantity, price)
      PROVE  Orderly
      <2> DEFINE r == Increased(positions[i], quantity, NewEntry(i, quantity, price))
      <2>1. /\ positions[i].status \in Active
            /\ positions' = [positions EXCEPT ![i] = r] /\ margined' = margined
            BY <1>4 DEF IncreasePosition, moneyVars, NewEntry, NewCost
      <2>2. Sound(r) /\ r.origin = positions[i].origin
            BY <1>0, <1>4, <2>1, IncreasedIs, NewEntryIs
      <2> HIDE DEF r
      <2> QED BY <2>1, <2>2, Changing
<1>5. ASSUME NEW i \in Ids, NEW price \in Prices, NEW status \in Dropped, Drop(i, price, status)
      PROVE  Orderly
      <2> DEFINE r == Ended(positions[i], price, status, "dropped")
      <2>1. /\ positions[i].status \in Active
            /\ positions' = [positions EXCEPT ![i] = r] /\ margined' = margined
            BY <1>5 DEF Drop, moneyVars
      <2>2. status \in Statuses \ Active /\ "dropped" \in Ends \ {"none"}
            BY DEF Statuses, Active, Dropped, Ends
      <2>3. Sound(r) /\ r.origin = positions[i].origin
            BY <1>0, <2>2, EndedIs
      <2> HIDE DEF r
      <2> QED BY <2>1, <2>3, Changing
<1>6. ASSUME NEW i \in Ids, NEW j \in Ids, Merge(i, j) PROVE Orderly
      <2> DEFINE p == positions[i]
                 q == positions[j]
                 m == Merged(p, q, MeanEntry(i, j))
                 s == [positions EXCEPT ![i] = m]
      <2>1. /\ p.status \in Active /\ q.status \in Active /\ margined' = margined
            /\ positions' = [s EXCEPT ![j] = GoneInto(q)]
            BY <1>6 DEF Merge, moneyVars, MeanEntry, JointCost, JointSize
      <2>2. Sound(m) /\ m.origin = p.origin /\ m \in Records
            <3>1. MeanEntry(i, j) \in Nat /\ Sound(p) /\ Sound(q)
                  BY <1>0, MeanEntryIs
            <3>2. PICK entry \in Nat : entry = MeanEntry(i, j)
                  BY <3>1
            <3> HIDE DEF p, q
            <3>3. Sound(Merged(p, q, entry)) /\ Merged(p, q, entry).origin = p.origin
                  BY <2>1, <3>1, MergedIs
            <3> QED BY <3>2, <3>3 DEF Sound
      <2>3. /\ Sound(GoneInto(q)) /\ GoneInto(q).origin = q.origin /\ GoneInto(q) \in Records
            BY <1>0, GoneIntoIs DEF Sound
      <2>4. /\ s \in Seq(Records) /\ DOMAIN s = Ids /\ s[i] = m
            /\ \A k \in Ids \ {i} : s[k] = positions[k]
            BY <1>0, <2>2, Placing DEF Ids
      <2> HIDE DEF s, m
      <2>5. /\ positions' \in Seq(Records) /\ Ids' = Ids /\ positions'[j] = GoneInto(q)
            /\ \A k \in Ids \ {j} : positions'[k] = s[k]
            BY <2>1, <2>3, <2>4, Placing DEF Ids
      <2>6. ASSUME NEW k \in Ids
            PROVE  \/ positions'[k] = positions[k]
                   \/ /\ positions[k].status \in Active
                      /\ Sound(positions'[k]) /\ positions'[k].origin = positions[k].origin
            <3>1. CASE k = j
                  BY <2>1, <2>3, <2>5, <3>1
            <3>2. CASE k = i /\ k # j
                  BY <2>1, <2>2, <2>4, <2>5, <3>2
            <3>3. CASE k # i /\ k # j
                  BY <2>4, <2>5, <3>3
            <3> QED BY <3>1, <3>2, <3>3
      <2> QED BY <2>1, <2>5, <2>6, Moving
<1>7. ASSUME NEW i \in Ids, NEW first \in 0 .. positions[i].quantity,
             NEW second \in 0 .. positions[i].quantity, Split(i, first, second)
      PROVE  Orderly
      <2> DEFINE p == positions[i]
                 s == [positions EXCEPT ![i] = Less(p, first)]
                 r == Position(p.symbol, p.side, second, p.entry, "split")
      <2>1. /\ p.status \in Active /\ first <= p.quantity
            /\ positions' = Append(s, r) /\ margined' = margined
            BY <1>7 DEF Split, moneyVars, Less
      <2>2. Sound(Less(p, first)) /\ Less(p, first).origin = p.origin /\ Less(p, first) \in Records
            BY <1>0, <2>1, LessIs DEF Sound
      <2>3. Sound(r) /\ r.origin = "split" /\ r \in Records
            <3>1. p.symbol \in Symbols /\ p.side \in Sides /\ p.entry \in Nat /\ second \in Nat
                  BY <1>0, Fields
            <3> QED BY <3>1, PositionIs DEF Sound
      <2>4. /\ s \in Seq(Records) /\ Len(s) = Len(positions) /\ DOMAIN s = Ids
            /\ s[i] = Less(p, first) /\ \A k \in Ids \ {i} : s[k] = positions[k]
            BY <1>0, <2>2, Placing DEF Ids
      <2> HIDE DEF s, r
      <2>5. /\ positions' \in Seq(Records) /\ Ids' = Ids \cup {Len(positions) + 1}
            /\ positions'[Len(positions) + 1] = r /\ \A k \in Ids : positions'[k] = s[k]
            <3> DEFINE t == Append(s, r)
            <3>1. /\ t \in Seq(Records) /\ DOMAIN t = DOMAIN s \cup {Len(s) + 1}
                  /\ t[Len(s) + 1] = r /\ \A k \in DOMAIN s : t[k] = s[k]
                  BY <2>3, <2>4, Adding
            <3>2. positions' = t
                  BY <2>1
            <3> HIDE DEF t
            <3> QED BY <2>4, <3>1, <3>2 DEF Ids
      <2>6. ASSUME NEW k \in Ids
            PROVE  \/ positions'[k] = positions[k]
                   \/ /\ positions[k].status \in Active
                      /\ Sound(positions'[k]) /\ positions'[k].origin = positions[k].origin
            <3>1. CASE k = i
                  BY <2>1, <2>2, <2>4, <2>5, <3>1
            <3>2. CASE k # i
                  BY <2>4, <2>5, <3>2
            <3> QED BY <3>1, <3>2
      <2> QED BY <2>1, <2>3, <2>5, <2>6, Moving
<1>8. ASSUME NEW amount \in Amounts, Deposit(amount) \/ Withdraw(amount) PROVE Orderly
      <2>1. UNCHANGED <<positions, margined>>
            BY <1>8 DEF Deposit, Withdraw
      <2> QED BY <1>0, <2>1, Moving DEF Ids
<1> QED BY <1>1, <1>2, <1>3, <1>4, <1>5, <1>6, <1>7, <1>8 DEF Next

LEMMA StepBook == AllSound /\ MarginIsHeld /\ [Next]_vars => (AllSound /\ MarginIsHeld)'
<1>1. CASE UNCHANGED vars
      BY <1>1 DEF vars, moneyVars, AllSound, MarginIsHeld, ActiveIds, Ids
<1> QED BY <1>1, StepOrderly DEF Orderly

LEMMA InitBook == Init => AllSound /\ MarginIsHeld
<1> SUFFICES ASSUME Init PROVE AllSound /\ MarginIsHeld
    OBVIOUS
<1>1. positions \in Seq(Records) /\ Ids = {}
      BY EmptySeq DEF Init, Ids
<1> QED BY <1>1 DEF AllSound, MarginIsHeld, ActiveIds

\* Margin is held for every position opened through the facade for as long as it is
\* active, whatever is closed, merged, split or dropped.
THEOREM MarginCorrect == Spec => []MarginIsHeld
BY InitBook, StepBook, PTL DEF Spec

\* A position that has come to its end, in whatever way, never changes again.
THEOREM EndsAreFinal == Spec => EndIsFinal
<1> DEFINE Final == \A i \in Ids : positions[i].end # "none" => positions'[i] = positions[i]
<1>1. AllSound /\ MarginIsHeld /\ Next => Final
      BY StepOrderly DEF Orderly
<1>2. AllSound /\ MarginIsHeld /\ [Next]_vars => [Final]_vars
      BY <1>1
<1> QED BY <1>2, InitBook, StepBook, PTL DEF Spec, EndIsFinal

-----------------------------------------------------------------------------
(* The rest of the state.                                                  *)

ExposureTypes == exposure \in [Symbols -> [Sides -> Nat]] /\ currency \in [Sides -> Nat]
FundTypes == balance \in Int /\ flows \in Seq(Int)
DriftTypes == adrift \in [Symbols -> [Sides -> Nat]]

LEMMA AtLeastZeroIs == ASSUME NEW n \in Int PROVE AtLeastZero(n) \in Nat
BY DEF AtLeastZero

LEMMA Adjusting ==
  ASSUME ExposureTypes, NEW symbol \in Symbols, NEW side \in Sides, NEW a \in Nat, NEW b \in Nat,
         exposure' = [exposure EXCEPT ![symbol][side] = a], currency' = [currency EXCEPT ![side] = b]
  PROVE  ExposureTypes'
BY DEF ExposureTypes

LEMMA ExposingTypes ==
  ASSUME ExposureTypes, NEW p \in Records, NEW notional \in Nat,
         AddExposure(p, notional) \/ RemoveExposure(p, notional)
  PROVE  ExposureTypes'
<1>1. p.symbol \in Symbols /\ p.side \in Sides
      BY Fields
<1>2. exposure[p.symbol][p.side] \in Nat /\ currency[p.side] \in Nat
      BY <1>1 DEF ExposureTypes
<1> DEFINE a == exposure[p.symbol][p.side]
           b == currency[p.side]
<1>3. CASE AddExposure(p, notional)
      <2>1. a + notional \in Nat /\ b + notional \in Nat
            BY <1>2
      <2>2. /\ exposure' = [exposure EXCEPT ![p.symbol][p.side] = a + notional]
            /\ currency' = [currency EXCEPT ![p.side] = b + notional]
            BY <1>3 DEF AddExposure
      <2> HIDE DEF a, b
      <2> QED BY <1>1, <2>1, <2>2, Adjusting
<1>4. CASE RemoveExposure(p, notional)
      <2>1. AtLeastZero(a - notional) \in Nat /\ AtLeastZero(b - notional) \in Nat
            BY <1>2, AtLeastZeroIs
      <2>2. /\ exposure' = [exposure EXCEPT ![p.symbol][p.side] = AtLeastZero(a - notional)]
            /\ currency' = [currency EXCEPT ![p.side] = AtLeastZero(b - notional)]
            BY <1>4 DEF RemoveExposure
      <2> HIDE DEF a, b
      <2> QED BY <1>1, <2>1, <2>2, Adjusting
<1> QED BY <1>3, <1>4

LEMMA StepExposure == AllSound /\ ExposureTypes /\ Next => ExposureTypes'
<1> SUFFICES ASSUME AllSound, ExposureTypes, Next PROVE ExposureTypes'
    OBVIOUS
<1> USE PortfolioAssumption
<1>0. \A i \in Ids : /\ positions[i] \in Records /\ positions[i].entry \in Nat
                     /\ positions[i].initial \in Nat
      BY Fields DEF AllSound, Sound
<1>1. CASE UNCHANGED exposureVars
      BY <1>1 DEF exposureVars, ExposureTypes
<1>2. ASSUME NEW symbol \in Symbols, NEW side \in Sides, NEW quantity \in Quantities,
             NEW price \in Prices, OpenPosition(symbol, side, quantity, price)
      PROVE  ExposureTypes'
      <2> DEFINE r == Position(symbol, side, quantity, price, "opened")
      <2>1. r \in Records
            BY PositionIs DEF Sound
      <2>2. price * quantity \in Nat
            BY Multiplying
      <2>3. AddExposure(r, price * quantity)
            BY <1>2 DEF OpenPosition
      <2> HIDE DEF r
      <2> QED BY <2>1, <2>2, <2>3, ExposingTypes
<1>3. ASSUME NEW i \in Ids, NEW price \in Prices, ClosePosition(i, price) PROVE ExposureTypes'
      <2>1. positions[i].initial * positions[i].entry \in Nat
            BY <1>0, Multiplying
      <2>2. RemoveExposure(positions[i], positions[i].initial * positions[i].entry)
            BY <1>3 DEF ClosePosition
      <2> QED BY <1>0, <2>1, <2>2, ExposingTypes
<1>4. ASSUME NEW i \in Ids, NEW price \in Prices, NEW quantity \in Quantities,
             PartiallyClose(i, quantity, price)
      PROVE  ExposureTypes'
      <2>1. quantity * positions[i].entry \in Nat
            BY <1>0, Multiplying
      <2>2. RemoveExposure(positions[i], quantity * positions[i].entry)
            BY <1>4 DEF PartiallyClose
      <2> QED BY <1>0, <2>1, <2>2, ExposingTypes
<1>5. ASSUME NEW i \in Ids, NEW price \in Prices, NEW quantity \in Quantities,
             IncreasePosition(i, quantity, price)
      PROVE  ExposureTypes'
      <2>1. quantity * price \in Nat
            BY Multiplying
      <2>2. AddExposure(positions[i], quantity * price)
            BY <1>5 DEF IncreasePosition
      <2> QED BY <1>0, <2>1, <2>2, ExposingTypes
<1>6. ASSUME NEW i \in Ids, NEW price \in Prices, NEW status \in Dropped, Drop(i, price, status)
      PROVE  ExposureTypes'
      BY <1>1, <1>6 DEF Drop
<1>7. ASSUME NEW i \in Ids, NEW j \in Ids, Merge(i, j) PROVE ExposureTypes'
      BY <1>1, <1>7 DEF Merge
<1>8. ASSUME NEW i \in Ids, NEW first \in 0 .. positions[i].quantity,
             NEW second \in 0 .. positions[i].quantity, Split(i, first, second)
      PROVE  ExposureTypes'
      BY <1>1, <1>8 DEF Split
<1>9. ASSUME NEW amount \in Amounts, Deposit(amount) \/ Withdraw(amount) PROVE ExposureTypes'
      BY <1>1, <1>9 DEF Deposit, Withdraw
<1> QED BY <1>2, <1>3, <1>4, <1>5, <1>6, <1>7, <1>8, <1>9 DEF Next

LEMMA StepFunds == AllSound /\ FundTypes /\ Next => FundTypes'
<1> SUFFICES ASSUME AllSound, FundTypes, Next PROVE FundTypes'
    OBVIOUS
<1> USE PortfolioAssumption
<1>1. CASE UNCHANGED <<balance, flows>>
      BY <1>1 DEF FundTypes
<1>2. ASSUME NEW i \in Ids, NEW price \in Prices, ClosePosition(i, price) PROVE FundTypes'
      <2> DEFINE pnl == Realized(positions[i], positions[i].quantity, price)
      <2>1. positions[i] \in Records /\ positions[i].quantity \in Nat
            BY Fields DEF AllSound, Sound
      <2>2. pnl \in Int
            BY <2>1, RealizedIs
      <2>3. balance' = (IF pnl = 0 THEN balance ELSE balance + pnl - Charge) /\ flows' = flows
            BY <1>2 DEF ClosePosition, Booked
      <2> HIDE DEF pnl
      <2> QED BY <2>2, <2>3 DEF FundTypes
<1>3. ASSUME NEW amount \in Amounts, Deposit(amount) \/ Withdraw(amount) PROVE FundTypes'
      <2>1. balance' \in Int
            BY <1>3 DEF Deposit, Withdraw, FundTypes
      <2>2. amount \in Int /\ -amount \in Int /\ flows \in Seq(Int)
            BY DEF FundTypes
      <2>3. PICK flow \in Int : flows' = Append(flows, flow)
            BY <1>3, <2>2 DEF Deposit, Withdraw
      <2>4. flows' \in Seq(Int)
            BY <2>2, <2>3, AppendProperties
      <2> QED BY <2>1, <2>4 DEF FundTypes
<1>4. ASSUME NEW i \in Ids, NEW price \in Prices, NEW quantity \in Quantities,
             PartiallyClose(i, quantity, price) \/ IncreasePosition(i, quantity, price)
      PROVE  FundTypes'
      BY <1>1, <1>4 DEF PartiallyClose, IncreasePosition, moneyVars
<1>5. ASSUME NEW i \in Ids, NEW price \in Prices, NEW status \in Dropped, Drop(i, price, status)
      PROVE  FundTypes'
      BY <1>1, <1>5 DEF Drop, moneyVars
<1>6. ASSUME NEW i \in Ids, NEW first \in 0 .. positions[i].quantity,
             NEW second \in 0 .. positions[i].quantity, Split(i, first, second)
      PROVE  FundTypes'
      BY <1>1, <1>6 DEF Split, moneyVars
<1>7. ASSUME NEW symbol \in Symbols, NEW side \in Sides, NEW quantity \in Quantities,
             NEW price \in Prices, OpenPosition(symbol, side, quantity, price)
      PROVE  FundTypes'
      BY <1>1, <1>7 DEF OpenPosition
<1>8. ASSUME NEW i \in Ids, NEW j \in Ids, Merge(i, j) PROVE FundTypes'
      BY <1>1, <1>8 DEF Merge, moneyVars
<1> QED BY <1>2, <1>3, <1>4, <1>5, <1>6, <1>7, <1>8 DEF Next

\* What n, of the position p, is for one side of a symbol.
Part(p, symbol, side, n) == IF p.symbol = symbol /\ p.side = side THEN n ELSE 0

LEMMA Drifting ==
  ASSUME DriftTypes, NEW p \in Records, NEW worth \in Int, SetAdrift(p, worth)
  PROVE  /\ DriftTypes'
         /\ \A symbol \in Symbols, side \in Sides :
              adrift'[symbol][side] = adrift[symbol][side] + Part(p, symbol, side, AtLeastZero(worth))
<1>1. p.symbol \in Symbols /\ p.side \in Sides
      BY Fields
<1> DEFINE n == AtLeastZero(worth)
           a == adrift[p.symbol][p.side] + n
<1>2. n \in Nat
      BY AtLeastZeroIs
<1>3. adrift' = [adrift EXCEPT ![p.symbol][p.side] = a]
      BY DEF SetAdrift
<1> HIDE DEF n
<1>4. a \in Nat /\ adrift \in [Symbols -> [Sides -> Nat]]
      BY <1>1, <1>2 DEF DriftTypes
<1> HIDE DEF a
<1>5. DriftTypes'
      BY <1>1, <1>3, <1>4 DEF DriftTypes
<1>6. ASSUME NEW symbol \in Symbols, NEW side \in Sides
      PROVE  /\ adrift[symbol][side] \in Nat
             /\ adrift'[symbol][side]
                = IF p.symbol = symbol /\ p.side = side THEN a ELSE adrift[symbol][side]
      BY <1>1, <1>3, <1>4
<1>7. ASSUME NEW symbol \in Symbols, NEW side \in Sides
      PROVE  adrift'[symbol][side] = adrift[symbol][side] + Part(p, symbol, side, n)
      BY <1>6 DEF Part, a
<1> QED BY <1>5, <1>7 DEF n

\* What the book loses in each of the three operations that leave something adrift.
IncreaseLoss(i, quantity, price) ==
  NewCost(i, quantity, price)
  - (positions[i].quantity + quantity) * NewEntry(i, quantity, price)
MergeLoss(i, j) ==
  IF i = j THEN positions[i].quantity * positions[i].entry
  ELSE JointCost(i, j) - JointSize(i, j) * MeanEntry(i, j)
SplitLoss(i, first, second) == (positions[i].quantity - first - second) * positions[i].entry

LEMMA Losses ==
  ASSUME AllSound
  PROVE  /\ \A i \in Ids, price \in Prices, quantity \in Quantities :
              IncreasePosition(i, quantity, price)
              => /\ IncreaseLoss(i, quantity, price) \in Int
                 /\ SetAdrift(positions[i], IncreaseLoss(i, quantity, price))
         /\ \A i, j \in Ids :
              Merge(i, j) => MergeLoss(i, j) \in Int /\ SetAdrift(positions[i], MergeLoss(i, j))
         /\ \A i \in Ids, first, second \in Nat :
              Split(i, first, second)
              => /\ SplitLoss(i, first, second) \in Int
                 /\ SetAdrift(positions[i], SplitLoss(i, first, second))
<1>1. \A i \in Ids : positions[i].quantity \in Nat /\ positions[i].entry \in Nat
      BY Fields DEF AllSound, Sound
<1>2. \A a, b \in Int : a * b \in Int
      OBVIOUS
<1>3. ASSUME NEW i \in Ids, NEW price \in Prices, NEW quantity \in Quantities,
             IncreasePosition(i, quantity, price)
      PROVE  /\ IncreaseLoss(i, quantity, price) \in Int
             /\ SetAdrift(positions[i], IncreaseLoss(i, quantity, price))
      <2>1. /\ NewEntry(i, quantity, price) \in Int /\ NewCost(i, quantity, price) \in Int
            /\ positions[i].quantity + quantity \in Int
            BY <1>1, <1>3, NewEntryIs, PortfolioAssumption
      <2>2. IncreaseLoss(i, quantity, price) \in Int
            <3>1. (positions[i].quantity + quantity) * NewEntry(i, quantity, price) \in Int
                  BY <1>2, <2>1
            <3> QED BY <2>1, <3>1 DEF IncreaseLoss
      <2>3. SetAdrift(positions[i], IncreaseLoss(i, quantity, price))
            BY <1>3 DEF IncreasePosition, IncreaseLoss, NewEntry, NewCost
      <2> QED BY <2>2, <2>3
<1>4. ASSUME NEW i \in Ids, NEW j \in Ids, Merge(i, j)
      PROVE  MergeLoss(i, j) \in Int /\ SetAdrift(positions[i], MergeLoss(i, j))
      <2>1. MeanEntry(i, j) \in Int /\ JointCost(i, j) \in Int /\ JointSize(i, j) \in Int
            BY MeanEntryIs
      <2>2. MergeLoss(i, j) \in Int
            <3>1. JointSize(i, j) * MeanEntry(i, j) \in Int
                  BY <1>2, <2>1
            <3>2. positions[i].quantity * positions[i].entry \in Int
                  BY <1>1, <1>2
            <3> QED BY <2>1, <3>1, <3>2 DEF MergeLoss
      <2>3. SetAdrift(positions[i], MergeLoss(i, j))
            BY <1>4 DEF Merge, MergeLoss, MeanEntry, JointCost, JointSize
      <2> QED BY <2>2, <2>3
<1>5. ASSUME NEW i \in Ids, NEW first \in Nat, NEW second \in Nat, Split(i, first, second)
      PROVE  /\ SplitLoss(i, first, second) \in Int
             /\ SetAdrift(positions[i], SplitLoss(i, first, second))
      <2>1. SplitLoss(i, first, second) \in Int
            <3>1. positions[i].quantity - first - second \in Int /\ positions[i].entry \in Int
                  BY <1>1
            <3> QED BY <1>2, <3>1 DEF SplitLoss
      <2> QED BY <1>5, <2>1 DEF Split, SplitLoss
<1> QED BY <1>3, <1>4, <1>5

LEMMA StepDrift == AllSound /\ DriftTypes /\ Next => DriftTypes'
<1> SUFFICES ASSUME AllSound, DriftTypes, Next PROVE DriftTypes'
    OBVIOUS
<1>0. \A i \in Ids : positions[i] \in Records /\ positions[i].quantity \in Nat
      BY Fields DEF AllSound, Sound
<1>1. CASE UNCHANGED adrift
      BY <1>1 DEF DriftTypes
<1>2. ASSUME NEW i \in Ids, NEW price \in Prices, NEW quantity \in Quantities,
             IncreasePosition(i, quantity, price)
      PROVE  DriftTypes'
      BY <1>0, <1>2, Losses, Drifting
<1>3. ASSUME NEW i \in Ids, NEW j \in Ids, Merge(i, j) PROVE DriftTypes'
      BY <1>0, <1>3, Losses, Drifting
<1>4. ASSUME NEW i \in Ids, NEW first \in 0 .. positions[i].quantity,
             NEW second \in 0 .. positions[i].quantity, Split(i, first, second)
      PROVE  DriftTypes'
      <2>1. first \in Nat /\ second \in Nat
            BY <1>0
      <2> QED BY <1>0, <1>4, <2>1, Losses, Drifting
<1>5. ASSUME NEW symbol \in Symbols, NEW side \in Sides, NEW quantity \in Quantities,
             NEW price \in Prices, OpenPosition(symbol, side, quantity, price)
      PROVE  DriftTypes'
      BY <1>1, <1>5 DEF OpenPosition
<1>6. ASSUME NEW i \in Ids, NEW price \in Prices, NEW quantity \in Quantities,
             ClosePosition(i, price) \/ PartiallyClose(i, quantity, price)
      PROVE  DriftTypes'
      BY <1>1, <1>6 DEF ClosePosition, PartiallyClose
<1>7. ASSUME NEW i \in Ids, NEW price \in Prices, ClosePosition(i, price) PROVE DriftTypes'
      BY <1>1, <1>7 DEF ClosePosition
<1>8. ASSUME NEW i \in Ids, NEW price \in Prices, NEW status \in Dropped, Drop(i, price, status)
      PROVE  DriftTypes'
      BY <1>1, <1>8 DEF Drop
<1>9. ASSUME NEW amount \in Amounts, Deposit(amount) \/ Withdraw(amount) PROVE DriftTypes'
      BY <1>1, <1>9 DEF Deposit, Withdraw
<1> QED BY <1>2, <1>3, <1>4, <1>5, <1>6, <1>7, <1>8, <1>9 DEF Next


\* Types of the portfolio; never more is left of a position than was ever opened, and
\* nothing of one that is gone, for any quantities, zero included.
THEOREM TypeCorrect == Spec => []TypeOK
<1> DEFINE I == /\ AllSound /\ MarginIsHeld /\ ExposureTypes /\ FundTypes /\ DriftTypes
                /\ margined \subseteq Ids
<1>1. Init => I
      <2> SUFFICES ASSUME Init PROVE I
          OBVIOUS
      <2>1. ExposureTypes
            BY DEF Init, ExposureTypes
      <2>2. FundTypes
            BY PortfolioAssumption, EmptySeq DEF Init, FundTypes
      <2>4. DriftTypes
            BY DEF Init, DriftTypes
      <2>3. margined \subseteq Ids
            BY DEF Init
      <2> QED BY <2>1, <2>2, <2>3, <2>4, InitBook
<1>2. I /\ [Next]_vars => I'
      <2> SUFFICES ASSUME I, [Next]_vars PROVE I'
          OBVIOUS
      <2>1. CASE Next
            BY <2>1, StepOrderly, StepExposure, StepFunds, StepDrift DEF Orderly
      <2>2. CASE UNCHANGED vars
            <3>1. (AllSound /\ MarginIsHeld)'
                  BY <2>2, StepBook
            <3>2. ExposureTypes' /\ FundTypes' /\ DriftTypes'
                  BY <2>2 DEF vars, exposureVars, moneyVars, ExposureTypes, FundTypes, DriftTypes
            <3>3. (margined \subseteq Ids)'
                  BY <2>2 DEF vars, moneyVars, Ids
            <3> QED BY <3>1, <3>2, <3>3
      <2> QED BY <2>1, <2>2
<1>3. I => TypeOK
      BY DEF AllSound, Sound, ExposureTypes, FundTypes, DriftTypes, TypeOK
<1> QED BY <1>1, <1>2, <1>3, PTL DEF Spec

-----------------------------------------------------------------------------
(* What the records add up to.                                             *)

\* The sum of what w counts for each record of s.
Counts(w, s) == [i \in DOMAIN s |-> w[s[i]]]
Tally(w, s) == SumFunctionOnSet(Counts(w, s), DOMAIN s)

LEMMA Finite ==
  ASSUME NEW s \in Seq(Records)
  PROVE  /\ IsFiniteSet(DOMAIN s) /\ Len(s) \in Nat /\ DOMAIN s = 1..Len(s)
         /\ \A i \in DOMAIN s : s[i] \in Records
<1>1. Len(s) \in Nat /\ DOMAIN s = 1..Len(s) /\ \A i \in DOMAIN s : s[i] \in Records
      BY LenProperties, ElementOfSeq
<1> QED BY <1>1, FS_Interval

LEMMA TallyIs ==
  ASSUME NEW s \in Seq(Records), NEW w \in [Records -> Int]
  PROVE  /\ Tally(w, s) \in Int
         /\ w \in [Records -> Nat] => Tally(w, s) \in Nat
<1> DEFINE f == [i \in DOMAIN s |-> w[s[i]]]
<1>1. IsFiniteSet(DOMAIN s) /\ \A i \in DOMAIN s : f[i] \in Int
      BY Finite
<1>2. w \in [Records -> Nat] => \A i \in DOMAIN s : f[i] \in Nat
      BY Finite
<1> HIDE DEF f
<1>3. SumFunctionOnSet(f, DOMAIN s) \in Int
      BY <1>1, SumTakesOut
<1>4. w \in [Records -> Nat] => SumFunctionOnSet(f, DOMAIN s) \in Nat
      BY <1>1, <1>2, SumNat
<1> QED BY <1>3, <1>4 DEF Tally, Counts, f

\* t differs from s at i only, and w values what both hold.
Swapped(w, s, t, i) ==
  /\ IsFiniteSet(DOMAIN s) /\ DOMAIN t = DOMAIN s /\ i \in DOMAIN s
  /\ \A k \in DOMAIN s : w[s[k]] \in Int
  /\ w[t[i]] \in Int
  /\ \A k \in DOMAIN s \ {i} : t[k] = s[k]

LEMMA TallyChanges ==
  ASSUME NEW w, NEW s, NEW t, NEW i, Swapped(w, s, t, i)
  PROVE  Tally(w, t) = (Tally(w, s) + w[t[i]]) - w[s[i]]
<1> DEFINE f == Counts(w, s)
           k == Counts(w, t)
           S == DOMAIN s
<1>1. /\ IsFiniteSet(S) /\ i \in S /\ k[i] = w[t[i]] /\ f[i] = w[s[i]]
      /\ f[i] \in Int /\ k[i] \in Int
      /\ \A y \in S : f[y] \in Int
      /\ \A y \in S \ {i} : k[y] = f[y]
      BY DEF Counts, Swapped
<1>2. Tally(w, s) = SumFunctionOnSet(f, S) /\ Tally(w, t) = SumFunctionOnSet(k, S)
      BY DEF Tally, Swapped
<1> HIDE DEF f, k, S
<1>3. AgreeBut(f, k, S, i)
      BY <1>1 DEF AgreeBut
<1>4. PICK rest \in Int : /\ SumFunctionOnSet(f, S) = f[i] + rest
                         /\ SumFunctionOnSet(k, S) = k[i] + rest
      BY <1>3, SumRest
<1> QED BY <1>1, <1>2, <1>4

LEMMA TallyReplaced ==
  ASSUME NEW s \in Seq(Records), NEW i \in DOMAIN s, NEW r \in Records, NEW w \in [Records -> Int]
  PROVE  Tally(w, [s EXCEPT ![i] = r]) = (Tally(w, s) + w[r]) - w[s[i]]
<1> DEFINE t == [s EXCEPT ![i] = r]
<1>1. IsFiniteSet(DOMAIN s) /\ \A y \in DOMAIN s : s[y] \in Records
      BY Finite
<1>2. DOMAIN t = DOMAIN s /\ t[i] = r /\ \A y \in DOMAIN s \ {i} : t[y] = s[y]
      BY Placing
<1> HIDE DEF t
<1>3. \A y \in DOMAIN s : w[s[y]] \in Int
      BY <1>1
<1>4. w[t[i]] \in Int
      BY <1>2
<1>5. Swapped(w, s, t, i)
      BY <1>1, <1>2, <1>3, <1>4 DEF Swapped
<1>6. Tally(w, t) = (Tally(w, s) + w[t[i]]) - w[s[i]]
      BY <1>5, TallyChanges
<1> QED BY <1>2, <1>6 DEF t

LEMMA TallyAppended ==
  ASSUME NEW s \in Seq(Records), NEW r \in Records, NEW w \in [Records -> Int]
  PROVE  Tally(w, Append(s, r)) = Tally(w, s) + w[r]
<1> DEFINE t == Append(s, r)
           n == Len(s) + 1
           f == [k \in DOMAIN s |-> w[s[k]]]
           g == [k \in DOMAIN t |-> w[t[k]]]
<1>1. IsFiniteSet(DOMAIN s) /\ \A k \in DOMAIN s : s[k] \in Records
      BY Finite
<1>2. /\ DOMAIN t = DOMAIN s \cup {n} /\ n \notin DOMAIN s
      /\ t[n] = r /\ \A k \in DOMAIN s : t[k] = s[k]
      BY Adding
<1> HIDE DEF t, n
<1>3. /\ \A k \in DOMAIN s : f[k] \in Int /\ f[k] = g[k]
      /\ g[n] = w[r] /\ \A k \in DOMAIN s \cup {n} : g[k] \in Int
      BY <1>1, <1>2
<1>4. Tally(w, s) = SumFunctionOnSet(f, DOMAIN s)
      /\ Tally(w, t) = SumFunctionOnSet(g, DOMAIN s \cup {n})
      BY <1>2 DEF Tally, Counts
<1> HIDE DEF f, g
<1>5. /\ SumFunctionOnSet(g, DOMAIN s) \in Int
      /\ SumFunctionOnSet(g, DOMAIN s \cup {n}) = g[n] + SumFunctionOnSet(g, DOMAIN s)
      BY <1>1, <1>2, <1>3, SumAdds
<1>6. SumFunctionOnSet(f, DOMAIN s) = SumFunctionOnSet(g, DOMAIN s)
      BY <1>1, <1>3, SumSame
<1>7. Tally(w, t) = Tally(w, s) + w[r]
      <2>1. w[r] \in Int /\ Tally(w, s) \in Int
            BY <1>4, <1>5, <1>6
      <2>2. Tally(w, t) = w[r] + Tally(w, s)
            BY <1>3, <1>4, <1>5, <1>6, Zenon
      <2> QED BY <2>1, <2>2
<1> QED BY <1>7 DEF t

\* A merge replaces two records, one after the other.
LEMMA MergeTally ==
  ASSUME AllSound, NEW i \in Ids, NEW j \in Ids, Merge(i, j), NEW w \in [Records -> Int]
  PROVE  LET p == positions[i]
             q == positions[j]
             m == Merged(p, q, MeanEntry(i, j))
             g == GoneInto(q)
         IN  /\ i # j => Tally(w, positions')
                         = (Tally(w, positions) + (w[m] + w[g])) - (w[p] + w[q])
             /\ i = j => Tally(w, positions') = (Tally(w, positions) + w[g]) - w[p]
<1> DEFINE p == positions[i]
           q == positions[j]
           m == Merged(p, q, MeanEntry(i, j))
           g == GoneInto(q)
           s == [positions EXCEPT ![i] = m]
<1>1. p.status \in Active /\ positions' = [s EXCEPT ![j] = g]
      BY DEF Merge, MeanEntry, JointCost, JointSize
<1>2. positions \in Seq(Records) /\ Sound(p) /\ Sound(q)
      BY DEF AllSound
<1>3. p \in Records /\ q \in Records /\ m \in Records /\ g \in Records
      <2>1. PICK entry \in Nat : entry = MeanEntry(i, j)
            BY MeanEntryIs
      <2> HIDE DEF p, q
      <2> QED BY <1>1, <1>2, <2>1, MergedIs, GoneIntoIs DEF Sound
<1> HIDE DEF p, q, m, g
<1>4. s \in Seq(Records) /\ DOMAIN s = Ids /\ s[i] = m /\ (i # j => s[j] = q)
      BY <1>1, <1>2, <1>3, Placing DEF Ids, q
<1>5. Tally(w, s) = (Tally(w, positions) + w[m]) - w[p]
      BY <1>2, <1>3, TallyReplaced DEF Ids, p
<1> HIDE DEF s
<1>6. Tally(w, positions') = (Tally(w, s) + w[g]) - w[s[j]]
      BY <1>1, <1>3, <1>4, TallyReplaced
<1>7. Tally(w, positions) \in Int /\ w[m] \in Int /\ w[g] \in Int /\ w[p] \in Int /\ w[q] \in Int
      BY <1>2, <1>3, TallyIs
<1>8. ASSUME i # j
      PROVE  Tally(w, positions') = (Tally(w, positions) + (w[m] + w[g])) - (w[p] + w[q])
      <2>1. \A a, b, c, d, e \in Int : \A t, u :
              t = (a + b) - c /\ u = (t + d) - e => u = (a + (b + d)) - (c + e)
            OBVIOUS
      <2>2. Tally(w, positions') = (Tally(w, s) + w[g]) - w[q]
            BY <1>4, <1>6, <1>8
      <2> QED BY <1>5, <1>7, <2>1, <2>2
<1>9. ASSUME i = j PROVE Tally(w, positions') = (Tally(w, positions) + w[g]) - w[p]
      <2>1. \A a, b, c, d \in Int : \A t, u :
              t = (a + b) - c /\ u = (t + d) - b => u = (a + d) - c
            OBVIOUS
      <2>2. Tally(w, positions') = (Tally(w, s) + w[g]) - w[m]
            BY <1>4, <1>6, <1>9
      <2> QED BY <1>5, <1>7, <2>1, <2>2
<1> QED BY <1>8, <1>9 DEF p, q, m, g

\* A split replaces one record and adds one.
LEMMA SplitTally ==
  ASSUME AllSound, NEW i \in Ids, NEW first \in Nat, NEW second \in Nat, Split(i, first, second),
         NEW w \in [Records -> Int]
  PROVE  LET p == positions[i]
         IN  Tally(w, positions')
             = (Tally(w, positions)
                + (w[Less(p, first)] + w[Position(p.symbol, p.side, second, p.entry, "split")]))
               - w[p]
<1> DEFINE p == positions[i]
           l == Less(p, first)
           n == Position(p.symbol, p.side, second, p.entry, "split")
           s == [positions EXCEPT ![i] = l]
<1>1. p.status \in Active /\ first <= p.quantity /\ positions' = Append(s, n)
      BY DEF Split, Less
<1>2. positions \in Seq(Records) /\ Sound(p)
      BY DEF AllSound
<1>3. p \in Records /\ p.symbol \in Symbols /\ p.side \in Sides /\ p.entry \in Nat
      BY <1>2, Fields DEF Sound
<1>4. l \in Records /\ n \in Records
      BY <1>1, <1>2, <1>3, LessIs, PositionIs DEF Sound
<1> HIDE DEF p, l, n
<1>5. s \in Seq(Records)
      BY <1>2, <1>4, Placing DEF Ids
<1>6. Tally(w, s) = (Tally(w, positions) + w[l]) - w[p]
      BY <1>2, <1>4, TallyReplaced DEF Ids, p
<1> HIDE DEF s
<1>7. Tally(w, positions') = Tally(w, s) + w[n]
      BY <1>1, <1>4, <1>5, TallyAppended
<1>8. Tally(w, positions) \in Int /\ w[l] \in Int /\ w[n] \in Int /\ w[p] \in Int
      BY <1>2, <1>3, <1>4, TallyIs
<1>9. \A a, b, c, d \in Int : \A t, u :
        t = (a + b) - c /\ u = t + d => u = (a + (b + d)) - c
      OBVIOUS
<1>10. Tally(w, positions') = (Tally(w, positions) + (w[l] + w[n])) - w[p]
      BY <1>6, <1>7, <1>8, <1>9
<1> QED BY <1>10 DEF p, l, n

-----------------------------------------------------------------------------
(* The fields of the records the steps make.                               *)

\* Nothing changes what a position is in.
Alike(r, p) == r.symbol = p.symbol /\ r.side = p.side

LEMMA EndedFields ==
  ASSUME NEW p \in Records, NEW price, NEW status, NEW how
  PROVE  LET r == Ended(p, price, status, how)
         IN  /\ Alike(r, p) /\ r.status = status /\ r.quantity = 0 /\ r.initial = p.initial
             /\ r.entry = p.entry /\ r.end = how
             /\ r.realized = Realized(p, p.quantity, price)
<1> DEFINE pnl == Realized(p, p.quantity, price)
           r == [p EXCEPT !.status = status, !.quantity = 0, !.realized = pnl, !.end = how]
<1> HIDE DEF pnl
<1>1. /\ Alike(r, p) /\ r.status = status /\ r.quantity = 0 /\ r.initial = p.initial
      /\ r.entry = p.entry /\ r.end = how /\ r.realized = pnl
      BY DEF Records, Alike
<1> QED BY <1>1 DEF Ended, pnl

LEMMA EndedRecord ==
  ASSUME NEW p, Sound(p), NEW price \in Nat, NEW status \in Statuses \ Active,
         NEW how \in Ends \ {"none"}
  PROVE  /\ Ended(p, price, status, how) \in Records
         /\ Ended(p, price, status, how).status = status
         /\ Ended(p, price, status, how).end = how
         /\ Ended(p, price, status, how).realized = Realized(p, p.quantity, price)
<1>1. p \in Records
      BY DEF Sound
<1>2. Sound(Ended(p, price, status, how))
      BY EndedIs
<1>3. Ended(p, price, status, how) \in Records
      BY <1>2 DEF Sound
<1> QED BY <1>1, <1>3, EndedFields

LEMMA ReducedFields ==
  ASSUME NEW p \in Records, NEW quantity \in Nat, NEW price \in Nat
  PROVE  /\ Alike(Reduced(p, quantity, price), p)
         /\ Reduced(p, quantity, price).quantity = p.quantity - quantity
         /\ Reduced(p, quantity, price).entry = p.entry
         /\ \/ Reduced(p, quantity, price).status = "partially_closed"
            \/ Reduced(p, quantity, price).status = "closed" /\ quantity = p.quantity
         /\ \/ Reduced(p, quantity, price).end = "none"
            \/ Reduced(p, quantity, price).end = "in parts"
<1> DEFINE pnl == p.realized + Realized(p, quantity, price)
           whole == quantity = p.quantity
           status == IF whole THEN "closed" ELSE "partially_closed"
           end == IF whole THEN "in parts" ELSE "none"
           rest == p.quantity - quantity
           r == [p EXCEPT !.quantity = rest, !.status = status, !.end = end, !.realized = pnl]
<1>1. /\ status = "partially_closed" \/ (status = "closed" /\ quantity = p.quantity)
      /\ end = "none" \/ end = "in parts"
      OBVIOUS
<1>2. Reduced(p, quantity, price) = r
      BY DEF Reduced
<1> HIDE DEF pnl, status, end, rest, whole
<1>3. Alike(r, p) /\ r.quantity = rest /\ r.entry = p.entry /\ r.status = status /\ r.end = end
      BY DEF Records, Alike
<1> QED BY <1>1, <1>2, <1>3 DEF rest

LEMMA IncreasedFields ==
  ASSUME NEW p \in Records, NEW quantity, NEW entry
  PROVE  LET r == Increased(p, quantity, entry)
         IN  /\ Alike(r, p) /\ r.status = p.status /\ r.end = p.end
             /\ r.quantity = p.quantity + quantity /\ r.entry = entry
<1> DEFINE size == p.quantity + quantity
           initial == p.initial + quantity
           r == [p EXCEPT !.quantity = size, !.initial = initial, !.entry = entry]
<1>1. Increased(p, quantity, entry) = r
      BY DEF Increased
<1> HIDE DEF size, initial
<1>2. /\ Alike(r, p) /\ r.status = p.status /\ r.end = p.end /\ r.quantity = size
      /\ r.entry = entry
      BY DEF Records, Alike
<1> QED BY <1>1, <1>2 DEF size

LEMMA MergedFields ==
  ASSUME NEW p \in Records, NEW q \in Records, NEW entry
  PROVE  LET r == Merged(p, q, entry)
         IN  /\ Alike(r, p) /\ r.status = p.status /\ r.end = p.end
             /\ r.quantity = p.quantity + q.quantity /\ r.entry = entry
<1> DEFINE size == p.quantity + q.quantity
           initial == p.initial + q.initial
           realized == p.realized + q.realized
           r == [p EXCEPT !.quantity = size, !.initial = initial, !.entry = entry,
                          !.realized = realized]
<1>1. Merged(p, q, entry) = r
      BY DEF Merged
<1> HIDE DEF size, initial, realized
<1>2. /\ Alike(r, p) /\ r.status = p.status /\ r.end = p.end /\ r.quantity = size
      /\ r.entry = entry
      BY DEF Records, Alike
<1> QED BY <1>1, <1>2 DEF size

LEMMA GoneIntoFields ==
  ASSUME NEW q \in Records
  PROVE  LET r == GoneInto(q) IN Alike(r, q) /\ r.status = "closed" /\ r.end = "merged"
BY DEF GoneInto, Records, Alike

LEMMA LessFields ==
  ASSUME NEW p \in Records, NEW first
  PROVE  LET r == Less(p, first)
         IN  /\ Alike(r, p) /\ r.status = p.status /\ r.end = p.end /\ r.entry = p.entry
             /\ r.quantity = first
BY DEF Less, Records, Alike

LEMMA PositionFields ==
  ASSUME NEW symbol, NEW side, NEW quantity, NEW price, NEW origin
  PROVE  LET r == Position(symbol, side, quantity, price, origin)
         IN  /\ r.symbol = symbol /\ r.side = side /\ r.status = "open" /\ r.end = "none"
             /\ r.quantity = quantity /\ r.entry = price
BY DEF Position

-----------------------------------------------------------------------------
(* The balance.                                                            *)

Gains == [p \in Records |-> Gain(p)]

LEMMA GainIs ==
  /\ Gains \in [Records -> Int]
  /\ \A p \in Records : /\ Gains[p] = Gain(p)
                        /\ p.end # "closed" => Gains[p] = 0
<1>1. \A p \in Records : Gain(p) \in Int /\ (p.end # "closed" => Gain(p) = 0)
      BY Fields, PortfolioAssumption DEF Gain
<1> QED BY <1>1 DEF Gains

\* What was paid in and out.
Paid(s) == SumFunctionOnSet(s, DOMAIN s)

LEMMA PaidIs ==
  ASSUME NEW s \in Seq(Int), NEW n \in Int
  PROVE  Paid(s) \in Int /\ Paid(Append(s, n)) = Paid(s) + n
<1> DEFINE t == Append(s, n)
<1>1. /\ Len(s) \in Nat /\ DOMAIN s = 1..Len(s)
      /\ \A k \in DOMAIN s : s[k] \in Int
      BY LenProperties, ElementOfSeq
<1>2. PICK D, m : D = DOMAIN s /\ m = Len(s) + 1
      OBVIOUS
<1>3. IsFiniteSet(D)
      BY <1>1, <1>2, FS_Interval
<1>4. /\ t \in Seq(Int) /\ Len(t) = Len(s) + 1 /\ t[Len(s) + 1] = n
      /\ \A k \in 1..Len(s) : t[k] = s[k]
      BY AppendProperties
<1>5. DOMAIN t = 1..Len(t)
      BY <1>4, LenProperties
<1> HIDE DEF t
<1>6. /\ DOMAIN t = D \cup {m} /\ m \notin D /\ t[m] = n
      /\ \A k \in D : t[k] = s[k] /\ s[k] \in Int
      BY <1>1, <1>2, <1>4, <1>5
<1>7. \A k \in D \cup {m} : t[k] \in Int
      BY <1>6
<1>8. /\ SumFunctionOnSet(t, D) \in Int
      /\ SumFunctionOnSet(t, D \cup {m}) = t[m] + SumFunctionOnSet(t, D)
      BY <1>3, <1>6, <1>7, SumAdds
<1>9. SumFunctionOnSet(s, D) = SumFunctionOnSet(t, D)
      BY <1>3, <1>6, SumSame
<1>10. Paid(s) \in Int /\ Paid(t) = n + Paid(s)
      BY <1>2, <1>6, <1>8, <1>9 DEF Paid
<1>11. Paid(t) = Paid(s) + n
      BY <1>10
<1> QED BY <1>10, <1>11 DEF t

\* The property, in terms of these.
LEMMA BookedIs ==
  ASSUME NEW s \in Seq(Records)
  PROVE  SumFunctionOnSet([i \in DOMAIN s |-> Gain(s[i])], DOMAIN s) = Tally(Gains, s)
<1>1. \A i \in DOMAIN s : Gain(s[i]) = Gains[s[i]]
      BY Finite, GainIs
<1>2. [i \in DOMAIN s |-> Gain(s[i])] = Counts(Gains, s)
      BY <1>1 DEF Counts
<1> QED BY <1>2 DEF Tally

\* The balance follows what is paid and what the records gain.
LEMMA Booking ==
  ASSUME AllSound, AllSound', FundTypes, BalanceIsBooked, NEW gain \in Int, NEW paid \in Int,
         Tally(Gains, positions') = Tally(Gains, positions) + gain,
         Paid(flows') = Paid(flows) + paid, balance' = balance + (gain + paid)
  PROVE  BalanceIsBooked'
<1>1. /\ positions \in Seq(Records) /\ positions' \in Seq(Records) /\ flows \in Seq(Int)
      /\ balance \in Int
      BY DEF AllSound, FundTypes
<1>2. balance = OpeningBalance + Paid(flows) + Tally(Gains, positions)
      BY <1>1, BookedIs DEF BalanceIsBooked, Ids, Paid
<1>3. Tally(Gains, positions) \in Int /\ Paid(flows) \in Int /\ OpeningBalance \in Int
      BY <1>1, TallyIs, GainIs, PaidIs, PortfolioAssumption
<1>4. balance' = OpeningBalance + Paid(flows') + Tally(Gains, positions')
      BY <1>2, <1>3
<1> QED BY <1>1, <1>4, BookedIs DEF BalanceIsBooked, Ids, Paid

\* A position that was active is replaced: the balance gains what the new record says.
LEMMA Regaining ==
  ASSUME AllSound, AllSound', FundTypes, BalanceIsBooked, NEW i \in Ids,
         positions[i].status \in Active, NEW r \in Records,
         positions' = [positions EXCEPT ![i] = r],
         flows' = flows, balance' = balance + Gain(r)
  PROVE  BalanceIsBooked'
<1>1. positions \in Seq(Records) /\ positions[i] \in Records /\ positions[i].end = "none"
      BY DEF AllSound, Sound
<1>2. Gains[positions[i]] = 0 /\ Gains[r] = Gain(r) /\ Gain(r) \in Int
      BY <1>1, GainIs
<1>3. Tally(Gains, positions) \in Int
      BY <1>1, TallyIs, GainIs
<1>4. Tally(Gains, positions') = (Tally(Gains, positions) + Gains[r]) - Gains[positions[i]]
      BY <1>1, TallyReplaced, GainIs DEF Ids
<1>5. PICK gain, none \in Int : gain = Gain(r) /\ none = 0
      BY <1>2
<1>6. Tally(Gains, positions') = Tally(Gains, positions) + gain
      BY <1>2, <1>3, <1>4, <1>5
<1>7. Paid(flows) \in Int /\ balance \in Int
      <2>1. 0 \in Int
            OBVIOUS
      <2> QED BY <2>1, PaidIs DEF FundTypes
<1>8. Paid(flows') = Paid(flows) + none
      BY <1>5, <1>7
<1>9. balance' = balance + (gain + none)
      BY <1>5, <1>7
<1> QED BY <1>6, <1>8, <1>9, Booking

LEMMA StepBooked == AllSound /\ FundTypes /\ BalanceIsBooked /\ Next /\ AllSound' => BalanceIsBooked'
<1> SUFFICES ASSUME AllSound, FundTypes, BalanceIsBooked, Next, AllSound' PROVE BalanceIsBooked'
    OBVIOUS
<1> USE PortfolioAssumption
<1>0. /\ positions \in Seq(Records) /\ balance \in Int /\ flows \in Seq(Int) /\ Gains \in [Records -> Int]
      /\ \A i \in Ids : Sound(positions[i]) /\ positions[i] \in Records
      /\ Tally(Gains, positions) \in Int
      BY TallyIs, GainIs DEF AllSound, Sound, FundTypes
<1>1. ASSUME NEW i \in Ids, NEW r \in Records, positions[i].status \in Active, r.end # "closed",
             positions' = [positions EXCEPT ![i] = r], UNCHANGED <<balance, flows>>
      PROVE  BalanceIsBooked'
      <2>1. Gain(r) = 0
            BY <1>1, GainIs
      <2>2. balance' = balance + Gain(r)
            BY <1>0, <1>1, <2>1
      <2> QED BY <1>1, <2>2, Regaining
<1>2. ASSUME UNCHANGED <<balance, flows>>, Tally(Gains, positions') = Tally(Gains, positions)
      PROVE  BalanceIsBooked'
      <2>1. PICK none \in Int : none = 0
            OBVIOUS
      <2>2. Paid(flows) \in Int
            BY <1>0, <2>1, PaidIs
      <2>3. /\ Tally(Gains, positions') = Tally(Gains, positions) + none
            /\ Paid(flows') = Paid(flows) + none /\ balance' = balance + (none + none)
            BY <1>0, <1>2, <2>1, <2>2
      <2> QED BY <2>3, Booking
<1>3. ASSUME NEW symbol \in Symbols, NEW side \in Sides, NEW quantity \in Quantities,
             NEW price \in Prices, OpenPosition(symbol, side, quantity, price)
      PROVE  BalanceIsBooked'
      <2> DEFINE r == Position(symbol, side, quantity, price, "opened")
      <2>1. positions' = Append(positions, r) /\ UNCHANGED <<balance, flows>>
            BY <1>3 DEF OpenPosition
      <2>2. r \in Records /\ r.end = "none"
            BY PositionIs, PositionFields DEF Sound
      <2> HIDE DEF r
      <2>3. Gains[r] = 0
            BY <2>2, GainIs
      <2>4. Tally(Gains, positions') = Tally(Gains, positions) + Gains[r]
            BY <1>0, <2>1, <2>2, TallyAppended
      <2> QED BY <1>0, <1>2, <2>1, <2>3, <2>4
<1>4. ASSUME NEW i \in Ids, NEW price \in Prices, ClosePosition(i, price) PROVE BalanceIsBooked'
      <2> DEFINE p == positions[i]
                 r == Ended(p, price, "closed", "closed")
                 pnl == Realized(p, p.quantity, price)
      <2>1. /\ p.status \in Active /\ positions' = [positions EXCEPT ![i] = r] /\ flows' = flows
            /\ balance' = IF pnl = 0 THEN balance ELSE balance + pnl - Charge
            BY <1>4 DEF ClosePosition, Booked
      <2>2. p \in Records /\ p.quantity \in Nat /\ Sound(p)
            BY <1>0, Fields
      <2>3. pnl \in Int
            BY <2>2, RealizedIs
      <2>4. "closed" \in Statuses \ Active /\ "closed" \in Ends \ {"none"} /\ price \in Nat
            BY DEF Statuses, Active, Ends
      <2>5. r \in Records /\ r.end = "closed" /\ r.realized = pnl
            BY <2>2, <2>4, EndedRecord
      <2> HIDE DEF p, r, pnl
      <2>6. balance' = balance + Gain(r)
            BY <1>0, <2>1, <2>3, <2>5 DEF Gain
      <2> QED BY <2>1, <2>5, <2>6, Regaining DEF p
<1>5. ASSUME NEW i \in Ids, NEW price \in Prices, NEW quantity \in Quantities,
             PartiallyClose(i, quantity, price)
      PROVE  BalanceIsBooked'
      <2> DEFINE r == Reduced(positions[i], quantity, price)
      <2>1. /\ positions[i].status \in Active
            /\ 0 < quantity /\ quantity <= positions[i].quantity
            /\ positions' = [positions EXCEPT ![i] = r] /\ UNCHANGED <<balance, flows>>
            BY <1>5 DEF PartiallyClose, moneyVars
      <2>2. r \in Records /\ r.end # "closed"
            <3>1. quantity \in Nat \ {0} /\ price \in Nat
                  BY <2>1
            <3> QED BY <1>0, <2>1, <3>1, ReducedIs, ReducedFields DEF Sound
      <2> HIDE DEF r
      <2> QED BY <1>1, <2>1, <2>2
<1>6. ASSUME NEW i \in Ids, NEW price \in Prices, NEW quantity \in Quantities,
             IncreasePosition(i, quantity, price)
      PROVE  BalanceIsBooked'
      <2> DEFINE r == Increased(positions[i], quantity, NewEntry(i, quantity, price))
      <2>1. /\ positions[i].status \in Active
            /\ positions' = [positions EXCEPT ![i] = r] /\ UNCHANGED <<balance, flows>>
            BY <1>6 DEF IncreasePosition, moneyVars, NewEntry, NewCost
      <2>2. r \in Records /\ r.end = positions[i].end
            <3>1. Sound(r)
                  BY <1>0, <1>6, <2>1, IncreasedIs, NewEntryIs
            <3>2. r.end = positions[i].end
                  BY <1>0, IncreasedFields
            <3> QED BY <3>1, <3>2 DEF Sound
      <2>3. positions[i].end = "none"
            BY <1>0, <2>1 DEF Sound
      <2> HIDE DEF r
      <2> QED BY <1>1, <2>1, <2>2, <2>3
<1>7. ASSUME NEW i \in Ids, NEW price \in Prices, NEW status \in Dropped, Drop(i, price, status)
      PROVE  BalanceIsBooked'
      <2> DEFINE r == Ended(positions[i], price, status, "dropped")
      <2>1. /\ positions[i].status \in Active
            /\ positions' = [positions EXCEPT ![i] = r] /\ UNCHANGED <<balance, flows>>
            BY <1>7 DEF Drop, moneyVars
      <2>2. status \in Statuses \ Active /\ "dropped" \in Ends \ {"none"}
            BY DEF Statuses, Active, Dropped, Ends
      <2>3. r \in Records /\ r.end = "dropped"
            BY <1>0, <2>2, EndedRecord
      <2> HIDE DEF r
      <2> QED BY <1>1, <2>1, <2>3
<1>8. ASSUME NEW i \in Ids, NEW j \in Ids, Merge(i, j) PROVE BalanceIsBooked'
      <2> DEFINE p == positions[i]
                 q == positions[j]
                 m == Merged(p, q, MeanEntry(i, j))
                 g == GoneInto(q)
      <2>1. p.status \in Active /\ q.status \in Active /\ UNCHANGED <<balance, flows>>
            BY <1>8 DEF Merge, moneyVars
      <2>2. Sound(p) /\ Sound(q) /\ p \in Records /\ q \in Records /\ p.end = "none" /\ q.end = "none"
            BY <1>0, <2>1 DEF Sound
      <2>3. m \in Records /\ m.end = p.end /\ g \in Records /\ g.end = "merged"
            <3>1. PICK entry \in Nat : entry = MeanEntry(i, j)
                  BY <1>0, MeanEntryIs
            <3>2. m = Merged(p, q, entry)
                  BY <3>1
            <3> HIDE DEF p, q, m
            <3>3. Sound(m) /\ Sound(g)
                  BY <2>1, <2>2, <3>2, MergedIs, GoneIntoIs
            <3>4. m.end = p.end
                  BY <2>2, <3>2, MergedFields
            <3>5. g.end = "merged"
                  BY <2>2, GoneIntoFields
            <3> QED BY <3>3, <3>4, <3>5 DEF Sound
      <2>4. \/ Tally(Gains, positions')
               = (Tally(Gains, positions) + (Gains[m] + Gains[g])) - (Gains[p] + Gains[q])
            \/ Tally(Gains, positions') = (Tally(Gains, positions) + Gains[g]) - Gains[p]
            BY <1>0, <1>8, MergeTally
      <2> HIDE DEF p, q, m, g
      <2>5. Gains[p] = 0 /\ Gains[q] = 0 /\ Gains[m] = 0 /\ Gains[g] = 0
            BY <2>2, <2>3, GainIs
      <2> QED BY <1>0, <1>2, <2>1, <2>4, <2>5
<1>9. ASSUME NEW i \in Ids, NEW first \in Nat, NEW second \in Nat, Split(i, first, second)
      PROVE  BalanceIsBooked'
      <2> DEFINE p == positions[i]
                 l == Less(p, first)
                 n == Position(p.symbol, p.side, second, p.entry, "split")
      <2>1. p.status \in Active /\ first <= p.quantity /\ UNCHANGED <<balance, flows>>
            BY <1>9 DEF Split, moneyVars
      <2>2. /\ Sound(p) /\ p \in Records /\ p.end = "none" /\ first \in Nat /\ second \in Nat
            /\ p.symbol \in Symbols /\ p.side \in Sides /\ p.entry \in Nat
            BY <1>0, <2>1, Fields DEF Sound
      <2>3. l \in Records /\ l.end = p.end /\ n \in Records /\ n.end = "none"
            BY <2>1, <2>2, LessIs, LessFields, PositionIs, PositionFields DEF Sound
      <2>4. Tally(Gains, positions') = (Tally(Gains, positions) + (Gains[l] + Gains[n])) - Gains[p]
            <3>1. PICK w : w = Gains /\ w \in [Records -> Int]
                  BY <1>0
            <3>2. Tally(w, positions') = (Tally(w, positions) + (w[l] + w[n])) - w[p]
                  BY <1>9, <3>1, SplitTally
            <3> QED BY <3>1, <3>2
      <2> HIDE DEF p, l, n
      <2>5. Gains[p] = 0 /\ Gains[l] = 0 /\ Gains[n] = 0
            BY <2>2, <2>3, GainIs
      <2> QED BY <1>0, <1>2, <2>1, <2>4, <2>5
<1>10. ASSUME NEW amount \in Amounts, Deposit(amount) \/ Withdraw(amount) PROVE BalanceIsBooked'
      <2>1. PICK none \in Int : none = 0
            OBVIOUS
      <2>2. PICK paid \in Int : flows' = Append(flows, paid) /\ balance' = balance + paid
            <3>1. -amount \in Int /\ balance - amount = balance + (-amount)
                  BY <1>0
            <3> QED BY <1>10, <3>1 DEF Deposit, Withdraw
      <2>3. positions' = positions
            BY <1>10 DEF Deposit, Withdraw
      <2>4. Paid(flows') = Paid(flows) + paid
            BY <1>0, <2>2, PaidIs
      <2>5. /\ Tally(Gains, positions') = Tally(Gains, positions) + none
            /\ balance' = balance + (none + paid)
            BY <1>0, <2>1, <2>2, <2>3
      <2> QED BY <2>4, <2>5, Booking
<1> QED BY <1>3, <1>4, <1>5, <1>6, <1>7, <1>8, <1>9, <1>10 DEF Next

\* The balance is the opening balance with what was paid in and out and with the
\* profits of the positions closed at once, after any number of operations: none is
\* booked twice or forgotten, and what was realized in parts is never in it.
THEOREM BalanceCorrect == Spec => []BalanceIsBooked
<1> DEFINE I == AllSound /\ MarginIsHeld /\ FundTypes /\ BalanceIsBooked
<1>1. Init => I
      <2> SUFFICES ASSUME Init PROVE I
          OBVIOUS
      <2>1. positions = <<>> /\ flows = <<>> /\ balance = OpeningBalance
            BY DEF Init
      <2>2. DOMAIN positions = {} /\ DOMAIN flows = {}
            BY <2>1
      <2>3. balance = OpeningBalance + 0 + 0
            BY <2>1, PortfolioAssumption
      <2>4. BalanceIsBooked
            BY <2>2, <2>3, SumEmpty DEF BalanceIsBooked, Ids
      <2>5. FundTypes
            BY <2>1, PortfolioAssumption, EmptySeq DEF FundTypes
      <2> QED BY <2>4, <2>5, InitBook
<1>2. I /\ [Next]_vars => I'
      <2> SUFFICES ASSUME I, [Next]_vars PROVE I'
          OBVIOUS
      <2>1. (AllSound /\ MarginIsHeld)'
            BY StepBook
      <2>2. CASE Next
            BY <2>1, <2>2, StepFunds, StepBooked
      <2>3. CASE UNCHANGED vars
            BY <2>1, <2>3 DEF vars, moneyVars, FundTypes, BalanceIsBooked, Ids
      <2> QED BY <2>2, <2>3
<1> QED BY <1>1, <1>2, PTL DEF Spec

-----------------------------------------------------------------------------
(* The exposure.                                                           *)

Worths(symbol, side) == [p \in Records |-> Worth(p, symbol, side)]

LEMMA WorthIs ==
  ASSUME NEW symbol, NEW side
  PROVE  /\ Worths(symbol, side) \in [Records -> Nat] /\ Worths(symbol, side) \in [Records -> Int]
         /\ \A p \in Records :
              /\ p.status \in Active
                 => Worths(symbol, side)[p] = Part(p, symbol, side, p.quantity * p.entry)
              /\ p.status \in Dropped
                 => Worths(symbol, side)[p] = Part(p, symbol, side, p.initial * p.entry)
              /\ p.status = "closed" => Worths(symbol, side)[p] = 0
<1>1. ASSUME NEW p \in Records
      PROVE  /\ Worth(p, symbol, side) \in Nat
             /\ p.status \in Active => Worth(p, symbol, side) = Part(p, symbol, side, p.quantity * p.entry)
             /\ p.status \in Dropped => Worth(p, symbol, side) = Part(p, symbol, side, p.initial * p.entry)
             /\ p.status = "closed" => Worth(p, symbol, side) = 0
      <2> DEFINE now == p.quantity * p.entry
                 all == p.initial * p.entry
      <2>1. now \in Nat /\ all \in Nat
            BY Fields, Multiplying
      <2> HIDE DEF now, all
      <2>2. Worth(p, symbol, side) = IF p.symbol # symbol \/ p.side # side THEN 0
                                     ELSE IF p.status \in Active THEN now
                                     ELSE IF p.status \in Dropped THEN all ELSE 0
            BY DEF Worth, now, all
      <2> QED BY <2>1, <2>2 DEF Part, Active, Dropped, now, all
<1> QED BY <1>1 DEF Worths

\* The value of a book, in terms of these.
LEMMA ValueIs ==
  ASSUME NEW s \in Seq(Records), NEW symbol, NEW side
  PROVE  SumFunctionOnSet([i \in DOMAIN s |-> Worth(s[i], symbol, side)], DOMAIN s)
         = Tally(Worths(symbol, side), s)
<1>1. \A i \in DOMAIN s : Worth(s[i], symbol, side) = Worths(symbol, side)[s[i]]
      BY Finite DEF Worths
<1>2. [i \in DOMAIN s |-> Worth(s[i], symbol, side)] = Counts(Worths(symbol, side), s)
      BY <1>1 DEF Counts
<1> QED BY <1>2 DEF Tally

\* The exposure of one side, of all symbols.
Exposures(e, side) == [symbol \in Symbols |-> e[symbol][side]]
Total(e, side) == SumFunctionOnSet(Exposures(e, side), Symbols)

LEMMA TotalIs ==
  ASSUME NEW e \in [Symbols -> [Sides -> Nat]], NEW side \in Sides
  PROVE  Total(e, side) \in Nat
<1>1. \A symbol \in Symbols : Exposures(e, side)[symbol] \in Nat
      BY DEF Exposures
<1> QED BY <1>1, SumNat, PortfolioAssumption DEF Total

\* What the property says of the figures per symbol, and of those per currency.
Within == \A symbol \in Symbols, side \in Sides :
            exposure[symbol][side] <= Tally(Worths(symbol, side), positions) + adrift[symbol][side]
Summed == \A side \in Sides : currency[side] <= Total(exposure, side)

LEMMA PhantomIs == ASSUME AllSound PROVE NoPhantomExposure <=> Within /\ Summed
<1>1. \A symbol \in Symbols, side \in Sides :
        BookValue(symbol, side) = Tally(Worths(symbol, side), positions)
      BY ValueIs DEF AllSound, BookValue, Ids
<1> QED BY <1>1 DEF NoPhantomExposure, Within, Summed, Total, Exposures

\* What is added or taken away is added to or taken from the figures of one side of a
\* symbol; the others stay.
LEMMA Adjusted ==
  ASSUME ExposureTypes, NEW p \in Records, NEW n \in Nat
  PROVE  /\ p.symbol \in Symbols /\ p.side \in Sides
         /\ AddExposure(p, n) =>
              /\ \A symbol \in Symbols, side \in Sides :
                   exposure'[symbol][side] = exposure[symbol][side] + Part(p, symbol, side, n)
              /\ \A side \in Sides : currency'[side] = currency[side] + (IF side = p.side THEN n ELSE 0)
         /\ RemoveExposure(p, n) =>
              /\ \A symbol \in Symbols, side \in Sides :
                   exposure'[symbol][side] = AtLeastZero(exposure[symbol][side] - Part(p, symbol, side, n))
              /\ \A side \in Sides :
                   currency'[side] = AtLeastZero(currency[side] - (IF side = p.side THEN n ELSE 0))
<1>1. p.symbol \in Symbols /\ p.side \in Sides
      BY Fields
<1>2. /\ exposure \in [Symbols -> [Sides -> Nat]] /\ currency \in [Sides -> Nat]
      BY DEF ExposureTypes
<1>3. \A m \in Nat : m + 0 = m /\ AtLeastZero(m - 0) = m
      BY DEF AtLeastZero
<1>4. ASSUME AddExposure(p, n)
      PROVE  /\ \A symbol \in Symbols, side \in Sides :
                  exposure'[symbol][side] = exposure[symbol][side] + Part(p, symbol, side, n)
             /\ \A side \in Sides : currency'[side] = currency[side] + (IF side = p.side THEN n ELSE 0)
      <2> DEFINE a == exposure[p.symbol][p.side] + n
                 b == currency[p.side] + n
      <2>1. /\ exposure' = [exposure EXCEPT ![p.symbol][p.side] = a]
            /\ currency' = [currency EXCEPT ![p.side] = b]
            BY <1>4 DEF AddExposure
      <2> HIDE DEF a, b
      <2>2. ASSUME NEW symbol \in Symbols, NEW side \in Sides
            PROVE  /\ exposure'[symbol][side]
                      = IF p.symbol = symbol /\ p.side = side THEN a ELSE exposure[symbol][side]
                   /\ currency'[side] = IF side = p.side THEN b ELSE currency[side]
                   /\ exposure[symbol][side] \in Nat /\ currency[side] \in Nat
            BY <1>1, <1>2, <2>1
      <2> QED BY <1>1, <1>3, <2>2 DEF Part, a, b
<1>5. ASSUME RemoveExposure(p, n)
      PROVE  /\ \A symbol \in Symbols, side \in Sides :
                  exposure'[symbol][side] = AtLeastZero(exposure[symbol][side] - Part(p, symbol, side, n))
             /\ \A side \in Sides :
                  currency'[side] = AtLeastZero(currency[side] - (IF side = p.side THEN n ELSE 0))
      <2> DEFINE a == AtLeastZero(exposure[p.symbol][p.side] - n)
                 b == AtLeastZero(currency[p.side] - n)
      <2>1. /\ exposure' = [exposure EXCEPT ![p.symbol][p.side] = a]
            /\ currency' = [currency EXCEPT ![p.side] = b]
            BY <1>5 DEF RemoveExposure
      <2> HIDE DEF a, b
      <2>2. ASSUME NEW symbol \in Symbols, NEW side \in Sides
            PROVE  /\ exposure'[symbol][side]
                      = IF p.symbol = symbol /\ p.side = side THEN a ELSE exposure[symbol][side]
                   /\ currency'[side] = IF side = p.side THEN b ELSE currency[side]
                   /\ exposure[symbol][side] \in Nat /\ currency[side] \in Nat
            BY <1>1, <1>2, <2>1
      <2> QED BY <1>1, <1>3, <2>2 DEF Part, a, b
<1> QED BY <1>1, <1>4, <1>5

\* The sum of the symbols follows the figure per currency, wherever they stop at zero.
LEMMA StepSummed ==
  ASSUME ExposureTypes, ExposureTypes', Summed, NEW p \in Records, NEW n \in Nat,
         AddExposure(p, n) \/ RemoveExposure(p, n)
  PROVE  Summed'
<1>1. p.symbol \in Symbols /\ p.side \in Sides
      BY Fields
<1>2. /\ exposure \in [Symbols -> [Sides -> Nat]] /\ currency \in [Sides -> Nat]
      /\ exposure' \in [Symbols -> [Sides -> Nat]] /\ currency' \in [Sides -> Nat]
      BY DEF ExposureTypes
<1> SUFFICES ASSUME NEW side \in Sides PROVE currency'[side] <= Total(exposure', side)
    BY DEF Summed
<1> DEFINE m == IF side = p.side THEN n ELSE 0
           x == exposure[p.symbol][side]
           y == exposure'[p.symbol][side]
           c == currency[side]
           d == currency'[side]
           before == Total(exposure, side)
           after == Total(exposure', side)
<1>3. /\ x \in Nat /\ y \in Nat /\ c \in Nat /\ d \in Nat /\ m \in Nat
      /\ before \in Nat /\ after \in Nat /\ c <= before
      BY <1>1, <1>2, TotalIs DEF Summed
<1>4. \A symbol \in Symbols : symbol # p.symbol => exposure'[symbol][side] = exposure[symbol][side]
      <2> SUFFICES ASSUME NEW symbol \in Symbols, symbol # p.symbol
                   PROVE  exposure'[symbol][side] = exposure[symbol][side]
          OBVIOUS
      <2>1. Part(p, symbol, side, n) = 0 /\ exposure[symbol][side] \in Nat
            BY <1>2 DEF Part
      <2> QED BY <2>1, Adjusted DEF AtLeastZero
<1>5. PICK rest \in Int : before = x + rest /\ after = y + rest
      <2>1. PICK f, g, symbol : /\ f = Exposures(exposure, side) /\ g = Exposures(exposure', side)
                                /\ symbol = p.symbol
            OBVIOUS
      <2>2. /\ symbol \in Symbols /\ f[symbol] = x /\ g[symbol] = y /\ g[symbol] \in Int
            /\ \A s \in Symbols : f[s] \in Int
            /\ \A s \in Symbols \ {symbol} : g[s] = f[s]
            BY <1>1, <1>2, <1>4, <2>1 DEF Exposures
      <2>3. PICK rest \in Int : /\ SumFunctionOnSet(f, Symbols) = f[symbol] + rest
                               /\ SumFunctionOnSet(g, Symbols) = g[symbol] + rest
            <3>1. AgreeBut(f, g, Symbols, symbol)
                  BY <2>2, PortfolioAssumption DEF AgreeBut
            <3> QED BY <3>1, SumRest
      <2>4. before = SumFunctionOnSet(f, Symbols) /\ after = SumFunctionOnSet(g, Symbols)
            BY <2>1 DEF Total
      <2> HIDE DEF before, after, x, y
      <2> QED BY <2>2, <2>3, <2>4
<1>6. Part(p, p.symbol, side, n) = m
      BY DEF Part
<1>7. (y = x + m /\ d = c + m) \/ (y = AtLeastZero(x - m) /\ d = AtLeastZero(c - m))
      BY <1>1, <1>6, Adjusted
<1> HIDE DEF m, x, y, c, d, before, after
<1>8. d <= after
      BY <1>3, <1>5, <1>7 DEF AtLeastZero
<1> QED BY <1>8 DEF d, after

LEMMA Parts ==
  ASSUME NEW p, NEW symbol, NEW side
  PROVE  /\ \/ \A n : Part(p, symbol, side, n) = 0
            \/ \A n : Part(p, symbol, side, n) = n
         /\ \A r, n : Alike(r, p) => Part(r, symbol, side, n) = Part(p, symbol, side, n)
BY DEF Part, Alike

\* `n` is added to the exposure of one side of a symbol for p, or taken from it, or
\* nothing happens to it; in the book `gone` gives way to `come`, and `lost` is left
\* adrift.
Balanced(symbol, side, p, n, come, gone, lost) ==
  /\ adrift'[symbol][side] = adrift[symbol][side] + Part(p, symbol, side, lost)
  /\ \/ exposure' = exposure /\ gone <= come + lost
     \/ AddExposure(p, n) /\ gone + n <= come + lost
     \/ RemoveExposure(p, n) /\ gone <= come + lost + n

\* One side of a symbol fits into its book when what comes into the book, goes out of it
\* and is left adrift makes up for what is added to its exposure or taken from it.
LEMMA Fitting ==
  ASSUME AllSound, AllSound', ExposureTypes, DriftTypes, Within,
         NEW symbol \in Symbols, NEW side \in Sides,
         NEW p \in Records, NEW n \in Nat, NEW come \in Nat, NEW gone \in Nat, NEW lost \in Nat,
         Tally(Worths(symbol, side), positions')
           = (Tally(Worths(symbol, side), positions) + Part(p, symbol, side, come))
             - Part(p, symbol, side, gone),
         Balanced(symbol, side, p, n, come, gone, lost)
  PROVE  exposure'[symbol][side]
         <= Tally(Worths(symbol, side), positions') + adrift'[symbol][side]
<1> DEFINE w == Worths(symbol, side)
           x == exposure[symbol][side]
           y == exposure'[symbol][side]
           t == Tally(w, positions)
           u == Tally(w, positions')
           d == adrift[symbol][side]
           e == adrift'[symbol][side]
           P(m) == Part(p, symbol, side, m)
<1>1. x \in Nat /\ t \in Nat /\ u \in Nat /\ d \in Nat /\ x <= t + d
      BY TallyIs, WorthIs DEF AllSound, ExposureTypes, DriftTypes, Within
<1>2. \/ \A m : P(m) = 0
      \/ \A m : P(m) = m
      BY Parts
<1>3. u = (t + P(come)) - P(gone) /\ e = d + P(lost)
      BY DEF Balanced
<1>4. \/ y = x /\ gone <= come + lost
      \/ y = x + P(n) /\ gone + n <= come + lost
      \/ y = AtLeastZero(x - P(n)) /\ gone <= come + lost + n
      BY Adjusted DEF Balanced
<1> HIDE DEF w, x, y, t, u, d, e, P
<1>5. y <= u + e
      <2>1. CASE \A m : P(m) = 0
            <3>1. P(n) = 0 /\ P(come) = 0 /\ P(gone) = 0 /\ P(lost) = 0
                  BY <2>1
            <3> QED BY <1>1, <1>3, <1>4, <3>1 DEF AtLeastZero
      <2>2. CASE \A m : P(m) = m
            <3>1. P(n) = n /\ P(come) = come /\ P(gone) = gone /\ P(lost) = lost
                  BY <2>2
            <3> QED BY <1>1, <1>3, <1>4, <3>1 DEF AtLeastZero
      <2> QED BY <1>2, <2>1, <2>2
<1> QED BY <1>5 DEF y, u, w, e

LEMMA Products ==
  /\ \A a, b, c \in Nat : a <= b => a * c <= b * c
  /\ \A a, b, c \in Nat : a <= b => (b - a) * c + a * c = b * c
<1>1. \A a, b, c \in Nat : a <= b => a * c <= b * c
      <2> SUFFICES ASSUME NEW a \in Nat, NEW b \in Nat, NEW c \in Nat, a <= b PROVE a * c <= b * c
          OBVIOUS
      <2>1. PICK d \in Nat : b = a + d
            <3>1. b - a \in Nat /\ b = a + (b - a)
                  OBVIOUS
            <3> QED BY <3>1
      <2>2. b * c = a * c + d * c /\ d * c \in Nat /\ a * c \in Nat
            BY <2>1
      <2> QED BY <2>2
<1>2. \A a, b, c \in Nat : a <= b => (b - a) * c + a * c = b * c
      OBVIOUS
<1> QED BY <1>1, <1>2

LEMMA Portions ==
  ASSUME NEW a \in Nat, NEW b \in Nat, NEW c \in Nat, a <= b
  PROVE  \E x, y, z \in Nat : x = a * c /\ y = b * c /\ z = (b - a) * c /\ y = z + x
<1>1. b - a \in Nat /\ (b - a) * c + a * c = b * c
      BY Products
<1>2. a * c \in Nat /\ b * c \in Nat /\ (b - a) * c \in Nat
      BY <1>1, Multiplying
<1> QED BY <1>1, <1>2

\* What a position is worth after a part of it was closed.
Rest(p, quantity) == (p.quantity - quantity) * p.entry

LEMMA PartialWorth ==
  ASSUME NEW p, Sound(p), NEW quantity \in Nat \ {0}, quantity <= p.quantity, NEW price \in Nat,
         NEW symbol, NEW side
  PROVE  /\ Reduced(p, quantity, price) \in Records
         /\ Worths(symbol, side)[Reduced(p, quantity, price)]
            = Part(p, symbol, side, Rest(p, quantity))
<1> DEFINE r == Reduced(p, quantity, price)
           w == Worths(symbol, side)
           come == Rest(p, quantity)
<1>1. p \in Records /\ p.quantity \in Nat /\ p.entry \in Nat
      BY Fields DEF Sound
<1>2. r \in Records
      BY ReducedIs DEF Sound
<1>3. /\ Alike(r, p) /\ r.quantity = p.quantity - quantity /\ r.entry = p.entry
      /\ r.status = "partially_closed" \/ (r.status = "closed" /\ quantity = p.quantity)
      <2> DEFINE pnl == p.realized + Realized(p, quantity, price)
                 whole == quantity = p.quantity
                 status == IF whole THEN "closed" ELSE "partially_closed"
                 end == IF whole THEN "in parts" ELSE "none"
                 rest == p.quantity - quantity
                 t == [p EXCEPT !.quantity = rest, !.status = status, !.end = end, !.realized = pnl]
      <2>1. status = "partially_closed" \/ (status = "closed" /\ quantity = p.quantity)
            OBVIOUS
      <2>2. r = t
            BY DEF Reduced
      <2> HIDE DEF pnl, status, end, rest, whole, r
      <2>3. Alike(t, p) /\ t.quantity = rest /\ t.entry = p.entry /\ t.status = status
            BY <1>1 DEF Records, Alike
      <2> QED BY <2>1, <2>2, <2>3 DEF rest
<1> HIDE DEF r
<1>4. Part(r, symbol, side, come) = Part(p, symbol, side, come)
      BY <1>3, Parts
<1>5. CASE r.status = "partially_closed"
      <2>1. w[r] = Part(r, symbol, side, r.quantity * r.entry)
            BY <1>2, <1>5, WorthIs DEF Active
      <2> QED BY <1>2, <1>3, <1>4, <2>1 DEF r, Rest
<1>6. CASE r.status = "closed"
      <2>1. p.quantity - quantity = 0 /\ w[r] = 0
            BY <1>1, <1>2, <1>3, <1>6, WorthIs
      <2>2. \A e \in Nat : 0 * e = 0
            OBVIOUS
      <2>3. come = 0
            BY <1>1, <2>1, <2>2 DEF Rest
      <2> QED BY <1>2, <2>1, <2>3 DEF Part, r
<1> QED BY <1>3, <1>5, <1>6

\* An active position is replaced by one in the same symbol and on the same side.
LEMMA Refitting ==
  ASSUME AllSound, AllSound', ExposureTypes, DriftTypes, Within,
         NEW symbol \in Symbols, NEW side \in Sides,
         NEW i \in Ids, positions[i].status \in Active, NEW r \in Records,
         positions' = [positions EXCEPT ![i] = r],
         NEW n \in Nat, NEW come \in Nat, NEW gone \in Nat, NEW lost \in Nat,
         gone = positions[i].quantity * positions[i].entry,
         Worths(symbol, side)[r] = Part(positions[i], symbol, side, come),
         Balanced(symbol, side, positions[i], n, come, gone, lost)
  PROVE  exposure'[symbol][side]
         <= Tally(Worths(symbol, side), positions') + adrift'[symbol][side]
<1> DEFINE w == Worths(symbol, side)
           p == positions[i]
<1>1. positions \in Seq(Records) /\ p \in Records
      BY DEF AllSound, Sound
<1>2. w \in [Records -> Int] /\ w[p] = Part(p, symbol, side, gone)
      BY <1>1, WorthIs
<1>3. Tally(w, positions') = (Tally(w, positions) + w[r]) - w[p]
      BY <1>1, <1>2, TallyReplaced DEF Ids
<1>4. Tally(w, positions')
        = (Tally(w, positions) + Part(p, symbol, side, come)) - Part(p, symbol, side, gone)
      BY <1>2, <1>3
<1>5. Balanced(symbol, side, p, n, come, gone, lost)
      OBVIOUS
<1> HIDE DEF p
<1> QED BY <1>1, <1>4, <1>5, Fitting

LEMMA StepWithin ==
  AllSound /\ ExposureTypes /\ DriftTypes /\ Within /\ Next /\ AllSound' => Within'
<1> SUFFICES ASSUME AllSound, ExposureTypes, DriftTypes, Within, Next, AllSound',
                    NEW symbol \in Symbols, NEW side \in Sides
             PROVE  exposure'[symbol][side]
                    <= Tally(Worths(symbol, side), positions') + adrift'[symbol][side]
    BY DEF Within
<1> USE PortfolioAssumption
<1> DEFINE w == Worths(symbol, side)
           Fits == exposure'[symbol][side] <= Tally(w, positions') + adrift'[symbol][side]
<1>0. /\ positions \in Seq(Records) /\ w \in [Records -> Int]
      /\ \A i \in Ids : /\ Sound(positions[i]) /\ positions[i] \in Records
                        /\ positions[i].quantity \in Nat /\ positions[i].initial \in Nat
                        /\ positions[i].entry \in Nat
                        /\ positions[i].quantity <= positions[i].initial
      /\ Tally(w, positions) \in Int
      BY TallyIs, WorthIs, Fields DEF AllSound, Sound
<1>1. ASSUME positions' = positions, exposure' = exposure, adrift' = adrift PROVE Fits
      BY <1>1 DEF Within
<1>10. ASSUME adrift' = adrift
      PROVE  \E lost \in Nat : /\ lost = 0
                               /\ \A p : adrift'[symbol][side]
                                        = adrift[symbol][side] + Part(p, symbol, side, lost)
      <2>1. adrift[symbol][side] \in Nat
            BY DEF DriftTypes
      <2>2. PICK lost \in Nat : lost = 0
            OBVIOUS
      <2> QED BY <1>10, <2>1, <2>2 DEF Part
<1>2. ASSUME NEW s \in Symbols, NEW d \in Sides, NEW quantity \in Quantities,
             NEW price \in Prices, OpenPosition(s, d, quantity, price)
      PROVE  Fits
      <2> DEFINE r == Position(s, d, quantity, price, "opened")
      <2>1. positions' = Append(positions, r) /\ AddExposure(r, price * quantity)
            BY <1>2 DEF OpenPosition
      <2>0. PICK lost \in Nat : /\ lost = 0
                               /\ \A p : adrift'[symbol][side]
                                        = adrift[symbol][side] + Part(p, symbol, side, lost)
            BY <1>2, <1>10 DEF OpenPosition
      <2>2. r \in Records /\ r.status \in Active /\ r.quantity = quantity /\ r.entry = price
            BY PositionIs, PositionFields DEF Sound, Active
      <2>3. PICK n, gone \in Nat : n = price * quantity /\ n = quantity * price /\ gone = 0
            BY Multiplying
      <2> HIDE DEF r
      <2>4. w[r] = Part(r, symbol, side, n) /\ w[r] \in Int
            BY <1>0, <2>2, <2>3, WorthIs
      <2>5. Tally(w, positions') = Tally(w, positions) + w[r]
            BY <1>0, <2>1, <2>2, TallyAppended
      <2>6. Part(r, symbol, side, gone) = 0
            BY <2>3 DEF Part
      <2>7. Tally(w, positions') = (Tally(w, positions) + Part(r, symbol, side, n))
                                   - Part(r, symbol, side, gone)
            BY <1>0, <2>4, <2>5, <2>6
      <2>8. Balanced(symbol, side, r, n, n, gone, lost)
            BY <2>1, <2>3, <2>0 DEF Balanced
      <2> QED BY <2>2, <2>7, <2>8, Fitting
<1>3. ASSUME NEW i \in Ids, NEW price \in Prices, ClosePosition(i, price) PROVE Fits
      <2> DEFINE p == positions[i]
                 r == Ended(p, price, "closed", "closed")
      <2>1. /\ p.status \in Active /\ positions' = [positions EXCEPT ![i] = r]
            /\ RemoveExposure(p, p.initial * p.entry)
            BY <1>3 DEF ClosePosition
      <2>0. PICK lost \in Nat : /\ lost = 0
                               /\ adrift'[symbol][side]
                                  = adrift[symbol][side] + Part(p, symbol, side, lost)
            BY <1>3, <1>10 DEF ClosePosition
      <2>2. "closed" \in Statuses \ Active /\ "closed" \in Ends \ {"none"} /\ price \in Nat
            BY DEF Statuses, Active, Ends
      <2>3. r \in Records /\ r.status = "closed"
            BY <1>0, <2>2, EndedRecord
      <2> HIDE DEF r
      <2>4. PICK n, gone, come \in Nat : n = p.initial * p.entry /\ gone = p.quantity * p.entry /\ come = 0
            BY <1>0, Multiplying
      <2>5. gone <= come + lost + n
            <3>1. PICK q, m, e \in Nat : q = p.quantity /\ m = p.initial /\ e = p.entry /\ q <= m
                  BY <1>0
            <3>2. q * e <= m * e
                  BY <3>1, Products
            <3> QED BY <2>4, <2>0, <3>1, <3>2
      <2>6. w[r] = Part(p, symbol, side, come) /\ r \in Records
            BY <2>3, <2>4, WorthIs DEF Part
      <2>7. Balanced(symbol, side, p, n, come, gone, lost)
            BY <2>1, <2>4, <2>5, <2>0 DEF Balanced
      <2> QED BY <2>1, <2>4, <2>6, <2>7, Refitting
<1>4. ASSUME NEW i \in Ids, NEW price \in Prices, NEW quantity \in Quantities,
             PartiallyClose(i, quantity, price)
      PROVE  Fits
      <2> DEFINE p == positions[i]
                 r == Reduced(p, quantity, price)
      <2>1. /\ p.status \in Active /\ 0 < quantity /\ quantity <= p.quantity
            /\ positions' = [positions EXCEPT ![i] = r] /\ RemoveExposure(p, quantity * p.entry)
            BY <1>4 DEF PartiallyClose
      <2>0. PICK lost \in Nat : /\ lost = 0
                               /\ adrift'[symbol][side]
                                  = adrift[symbol][side] + Part(p, symbol, side, lost)
            BY <1>4, <1>10 DEF PartiallyClose
      <2>2. r \in Records /\ w[r] = Part(p, symbol, side, Rest(p, quantity))
            <3>1. Sound(p) /\ quantity \in Nat \ {0} /\ price \in Nat
                  BY <1>0, <2>1
            <3> HIDE DEF p
            <3> QED BY <2>1, <3>1, PartialWorth
      <2> HIDE DEF r
      <2>3. PICK n, gone, come \in Nat : /\ n = quantity * p.entry /\ gone = p.quantity * p.entry
                                         /\ come = Rest(p, quantity)
                                         /\ gone = come + n
            <3>1. PICK q, e, m \in Nat : q = p.quantity /\ e = p.entry /\ m = quantity
                  BY <1>0
            <3>2. m <= q
                  BY <2>1, <3>1
            <3>3. \E x, y, z \in Nat : x = m * e /\ y = q * e /\ z = (q - m) * e /\ y = z + x
                  BY <3>2, Portions
            <3> QED BY <3>1, <3>3 DEF Rest
      <2>4. Balanced(symbol, side, p, n, come, gone, lost)
            BY <2>1, <2>3, <2>0 DEF Balanced
      <2> QED BY <2>1, <2>2, <2>3, <2>4, Refitting
<1>5. ASSUME NEW i \in Ids, NEW price \in Prices, NEW quantity \in Quantities,
             IncreasePosition(i, quantity, price)
      PROVE  Fits
      <2> DEFINE p == positions[i]
                 entry == NewEntry(i, quantity, price)
                 cost == NewCost(i, quantity, price)
                 loss == IncreaseLoss(i, quantity, price)
                 r == Increased(p, quantity, entry)
      <2>1. /\ p.status \in Active
            /\ positions' = [positions EXCEPT ![i] = r] /\ AddExposure(p, quantity * price)
            BY <1>5 DEF IncreasePosition, NewEntry, NewCost
      <2>2. /\ entry \in Nat /\ cost \in Nat /\ cost = p.quantity * p.entry + quantity * price
            /\ loss \in Int /\ SetAdrift(p, loss) /\ loss = cost - (p.quantity + quantity) * entry
            BY <1>0, <1>5, NewEntryIs, Losses DEF NewCost, IncreaseLoss
      <2>3. Sound(p) /\ p \in Records /\ p.quantity \in Nat /\ p.entry \in Nat
            BY <1>0
      <2> HIDE DEF p, entry, cost, loss
      <2>4. Sound(r)
            BY <2>1, <2>2, <2>3, IncreasedIs
      <2>5. Alike(r, p) /\ r.status = p.status /\ r.quantity = p.quantity + quantity /\ r.entry = entry
            BY <2>3, IncreasedFields
      <2> HIDE DEF r
      <2>6. PICK n, gone \in Nat : n = quantity * price /\ gone = p.quantity * p.entry
            BY <2>3, Multiplying
      <2>7. PICK come \in Nat : come = (p.quantity + quantity) * entry
            <3>1. p.quantity + quantity \in Nat
                  BY <2>3
            <3> QED BY <2>2, <3>1, Multiplying
      <2>8. PICK lost \in Nat : /\ lost = AtLeastZero(loss)
                               /\ adrift'[symbol][side]
                                  = adrift[symbol][side] + Part(p, symbol, side, lost)
            BY <2>2, <2>3, AtLeastZeroIs, Drifting
      <2>9. gone + n <= come + lost
            <3>1. loss = (gone + n) - come
                  BY <2>2, <2>6, <2>7
            <3> QED BY <2>8, <3>1 DEF AtLeastZero
      <2>10. w[r] = Part(p, symbol, side, come) /\ r \in Records
            BY <2>1, <2>4, <2>5, <2>7, WorthIs, Parts DEF Sound
      <2>11. Balanced(symbol, side, p, n, come, gone, lost)
            BY <2>1, <2>6, <2>8, <2>9 DEF Balanced
      <2> QED BY <2>1, <2>6, <2>10, <2>11, Refitting DEF p
<1>6. ASSUME NEW i \in Ids, NEW price \in Prices, NEW status \in Dropped, Drop(i, price, status)
      PROVE  Fits
      <2> DEFINE p == positions[i]
                 r == Ended(p, price, status, "dropped")
      <2>1. /\ p.status \in Active /\ positions' = [positions EXCEPT ![i] = r]
            /\ exposure' = exposure
            BY <1>6 DEF Drop, exposureVars
      <2>0. PICK lost \in Nat : /\ lost = 0
                               /\ adrift'[symbol][side]
                                  = adrift[symbol][side] + Part(p, symbol, side, lost)
            BY <1>6, <1>10 DEF Drop
      <2>2. status \in Statuses \ Active /\ "dropped" \in Ends \ {"none"} /\ price \in Nat
            BY DEF Statuses, Active, Dropped, Ends
      <2>3. Sound(r)
            BY <1>0, <2>2, EndedIs
      <2>4. Alike(r, p) /\ r.status \in Dropped /\ r.initial = p.initial /\ r.entry = p.entry
            BY <1>0, EndedFields
      <2> HIDE DEF r
      <2>5. PICK n, gone, come \in Nat : /\ n = 0 /\ gone = p.quantity * p.entry
                                         /\ come = p.initial * p.entry
            BY <1>0, Multiplying
      <2>6. gone <= come + lost
            <3>1. PICK q, m, e \in Nat : q = p.quantity /\ m = p.initial /\ e = p.entry /\ q <= m
                  BY <1>0 DEF p
            <3>2. q * e <= m * e
                  BY <3>1, Products
            <3> QED BY <2>5, <2>0, <3>1, <3>2
      <2>7. w[r] = Part(p, symbol, side, come) /\ r \in Records
            BY <2>3, <2>4, <2>5, WorthIs, Parts DEF Sound
      <2>8. Balanced(symbol, side, p, n, come, gone, lost)
            BY <2>1, <2>6, <2>0 DEF Balanced
      <2> QED BY <2>1, <2>5, <2>7, <2>8, Refitting
<1>7. ASSUME NEW i \in Ids, NEW j \in Ids, Merge(i, j) PROVE Fits
      <2> DEFINE p == positions[i]
                 q == positions[j]
                 entry == MeanEntry(i, j)
                 loss == MergeLoss(i, j)
                 m == Merged(p, q, entry)
                 g == GoneInto(q)
      <2>1. p.status \in Active /\ q.status \in Active /\ Alike(q, p) /\ exposure' = exposure
            BY <1>7 DEF Merge, exposureVars, Alike
      <2>2. /\ Sound(p) /\ Sound(q) /\ p \in Records /\ q \in Records
            /\ p.quantity \in Nat /\ p.entry \in Nat /\ q.quantity \in Nat /\ q.entry \in Nat
            BY <1>0
      <2>3. entry \in Nat /\ loss \in Int /\ SetAdrift(p, loss)
            BY <1>7, MeanEntryIs, Losses
      <2>4. PICK a, b, c, n \in Nat : /\ a = p.quantity * p.entry /\ b = q.quantity * q.entry
                                     /\ c = (p.quantity + q.quantity) * entry /\ n = 0
            <3>1. p.quantity + q.quantity \in Nat
                  BY <2>2
            <3> HIDE DEF p, q, entry
            <3> QED BY <2>2, <2>3, <3>1, Multiplying
      <2>5. /\ i = j => loss = a /\ p = q
            /\ i # j => loss = (a + b) - c
            BY <2>4 DEF MergeLoss, JointCost, JointSize
      <2>6. /\ i # j => Tally(w, positions') = (Tally(w, positions) + (w[m] + w[g])) - (w[p] + w[q])
            /\ i = j => Tally(w, positions') = (Tally(w, positions) + w[g]) - w[p]
            BY <1>0, <1>7, MergeTally
      <2> HIDE DEF p, q, entry, loss
      <2>7. Sound(m) /\ Sound(g)
            BY <2>1, <2>2, <2>3, MergedIs, GoneIntoIs
      <2>8. /\ Alike(m, p) /\ m.status = p.status /\ m.quantity = p.quantity + q.quantity
            /\ m.entry = entry /\ g.status = "closed"
            BY <2>2, MergedFields, GoneIntoFields
      <2> HIDE DEF m, g
      <2>9. /\ w[m] = Part(p, symbol, side, c) /\ w[g] = 0
            /\ w[p] = Part(p, symbol, side, a) /\ w[q] = Part(p, symbol, side, b)
            <3>1. m \in Records /\ g \in Records
                  BY <2>7 DEF Sound
            <3> QED BY <2>1, <2>2, <2>4, <2>8, <3>1, WorthIs, Parts
      <2>10. PICK lost \in Nat : /\ lost = AtLeastZero(loss)
                                /\ adrift'[symbol][side]
                                   = adrift[symbol][side] + Part(p, symbol, side, lost)
            BY <2>2, <2>3, AtLeastZeroIs, Drifting
      <2>11. CASE i # j
            <3>1. PICK gone \in Nat : gone = a + b
                  BY <2>4
            <3>2. Part(p, symbol, side, a) + Part(p, symbol, side, b) = Part(p, symbol, side, gone)
                  BY <3>1 DEF Part
            <3>3. Part(p, symbol, side, c) \in Int /\ Part(p, symbol, side, gone) \in Int
                  BY DEF Part
            <3>4. Tally(w, positions') = (Tally(w, positions) + Part(p, symbol, side, c))
                                         - Part(p, symbol, side, gone)
                  BY <1>0, <2>6, <2>9, <2>11, <3>2, <3>3
            <3>5. gone <= c + lost
                  BY <2>5, <2>10, <2>11, <3>1 DEF AtLeastZero
            <3>6. Balanced(symbol, side, p, n, c, gone, lost)
                  BY <2>1, <2>10, <3>5 DEF Balanced
            <3> QED BY <2>2, <3>4, <3>6, Fitting
      <2>12. CASE i = j
            <3>1. Part(p, symbol, side, n) = 0 /\ Part(p, symbol, side, a) \in Int
                  BY <2>4 DEF Part
            <3>2. Tally(w, positions') = (Tally(w, positions) + Part(p, symbol, side, n))
                                         - Part(p, symbol, side, a)
                  BY <1>0, <2>6, <2>9, <2>12, <3>1
            <3>3. a <= n + lost
                  BY <2>4, <2>5, <2>10, <2>12 DEF AtLeastZero
            <3>4. Balanced(symbol, side, p, n, n, a, lost)
                  BY <2>1, <2>10, <3>3 DEF Balanced
            <3> QED BY <2>2, <3>2, <3>4, Fitting
      <2> QED BY <2>11, <2>12
<1>8. ASSUME NEW i \in Ids, NEW first \in Nat, NEW second \in Nat, Split(i, first, second)
      PROVE  Fits
      <2> DEFINE p == positions[i]
                 l == Less(p, first)
                 r == Position(p.symbol, p.side, second, p.entry, "split")
                 loss == SplitLoss(i, first, second)
      <2>1. p.status \in Active /\ first <= p.quantity /\ exposure' = exposure
            BY <1>8 DEF Split, exposureVars
      <2>2. /\ Sound(p) /\ p \in Records /\ p.quantity \in Nat /\ p.entry \in Nat
            /\ p.symbol \in Symbols /\ p.side \in Sides
            BY <1>0, Fields
      <2>3. /\ loss \in Int /\ SetAdrift(p, loss)
            /\ loss = (p.quantity - first - second) * p.entry
            BY <1>8, Losses DEF SplitLoss
      <2>4. Tally(w, positions') = (Tally(w, positions) + (w[l] + w[r])) - w[p]
            <3>1. AllSound /\ w \in [Records -> Int]
                  BY <1>0
            <3> QED BY <3>1, <1>8, SplitTally
      <2> HIDE DEF p, loss
      <2>5. Sound(l) /\ Sound(r)
            BY <2>1, <2>2, LessIs, PositionIs
      <2>6. /\ Alike(l, p) /\ l.status = p.status /\ l.entry = p.entry /\ l.quantity = first
            BY <2>2, LessFields
      <2>7. Alike(r, p) /\ r.status \in Active /\ r.quantity = second /\ r.entry = p.entry
            BY PositionFields DEF Alike, Active
      <2> HIDE DEF l, r
      <2>8. PICK a, b, gone, n \in Nat : /\ a = first * p.entry /\ b = second * p.entry
                                        /\ gone = p.quantity * p.entry /\ n = 0
            BY <2>2, Multiplying
      <2>9. loss = gone - a - b
            <3>1. \A q, x, y, e \in Nat : (q - x - y) * e = q * e - x * e - y * e
                  OBVIOUS
            <3> QED BY <2>2, <2>3, <2>8, <3>1
      <2>10. /\ w[l] = Part(p, symbol, side, a) /\ w[r] = Part(p, symbol, side, b)
             /\ w[p] = Part(p, symbol, side, gone)
            <3>1. l \in Records /\ r \in Records
                  BY <2>5 DEF Sound
            <3> QED BY <2>1, <2>2, <2>6, <2>7, <2>8, <3>1, WorthIs, Parts
      <2>11. PICK lost \in Nat : /\ lost = AtLeastZero(loss)
                                /\ adrift'[symbol][side]
                                   = adrift[symbol][side] + Part(p, symbol, side, lost)
            BY <2>2, <2>3, AtLeastZeroIs, Drifting
      <2>12. PICK come \in Nat : come = a + b
            BY <2>8
      <2>13. Part(p, symbol, side, a) + Part(p, symbol, side, b) = Part(p, symbol, side, come)
            BY <2>12 DEF Part
      <2>14. Tally(w, positions') = (Tally(w, positions) + Part(p, symbol, side, come))
                                    - Part(p, symbol, side, gone)
            BY <2>4, <2>10, <2>13
      <2>15. gone <= come + lost
            BY <2>9, <2>11, <2>12 DEF AtLeastZero
      <2>16. Balanced(symbol, side, p, n, come, gone, lost)
            BY <2>1, <2>11, <2>15 DEF Balanced
      <2> QED BY <2>2, <2>14, <2>16, Fitting
<1>9. ASSUME NEW amount \in Amounts, Deposit(amount) \/ Withdraw(amount) PROVE Fits
      BY <1>1, <1>9 DEF Deposit, Withdraw, exposureVars
<1>11. ASSUME NEW i \in Ids, NEW first \in 0 .. positions[i].quantity,
              NEW second \in 0 .. positions[i].quantity, Split(i, first, second)
       PROVE  Fits
      <2>1. first \in Nat /\ second \in Nat
            BY <1>0
      <2> QED BY <1>8, <1>11, <2>1
<1> QED BY <1>2, <1>3, <1>4, <1>5, <1>6, <1>7, <1>9, <1>11 DEF Next

LEMMA StepSums ==
  AllSound /\ ExposureTypes /\ ExposureTypes' /\ Summed /\ Next => Summed'
<1> SUFFICES ASSUME AllSound, ExposureTypes, ExposureTypes', Summed, Next PROVE Summed'
    OBVIOUS
<1> USE PortfolioAssumption
<1>0. \A i \in Ids : /\ positions[i] \in Records /\ positions[i].entry \in Nat
                     /\ positions[i].initial \in Nat
      BY Fields DEF AllSound, Sound
<1>1. CASE UNCHANGED exposureVars
      BY <1>1 DEF exposureVars, Summed
<1>2. ASSUME NEW symbol \in Symbols, NEW side \in Sides, NEW quantity \in Quantities,
             NEW price \in Prices, OpenPosition(symbol, side, quantity, price)
      PROVE  Summed'
      <2> DEFINE r == Position(symbol, side, quantity, price, "opened")
      <2>1. r \in Records
            BY PositionIs DEF Sound
      <2>2. price * quantity \in Nat
            BY Multiplying
      <2>3. AddExposure(r, price * quantity)
            BY <1>2 DEF OpenPosition
      <2> HIDE DEF r
      <2> QED BY <2>1, <2>2, <2>3, StepSummed
<1>3. ASSUME NEW i \in Ids, NEW price \in Prices, ClosePosition(i, price) PROVE Summed'
      <2>1. positions[i].initial * positions[i].entry \in Nat
            BY <1>0, Multiplying
      <2>2. RemoveExposure(positions[i], positions[i].initial * positions[i].entry)
            BY <1>3 DEF ClosePosition
      <2> QED BY <1>0, <2>1, <2>2, StepSummed
<1>4. ASSUME NEW i \in Ids, NEW price \in Prices, NEW quantity \in Quantities,
             PartiallyClose(i, quantity, price)
      PROVE  Summed'
      <2>1. quantity * positions[i].entry \in Nat
            BY <1>0, Multiplying
      <2>2. RemoveExposure(positions[i], quantity * positions[i].entry)
            BY <1>4 DEF PartiallyClose
      <2> QED BY <1>0, <2>1, <2>2, StepSummed
<1>5. ASSUME NEW i \in Ids, NEW price \in Prices, NEW quantity \in Quantities,
             IncreasePosition(i, quantity, price)
      PROVE  Summed'
      <2>1. quantity * price \in Nat
            BY Multiplying
      <2>2. AddExposure(positions[i], quantity * price)
            BY <1>5 DEF IncreasePosition
      <2> QED BY <1>0, <2>1, <2>2, StepSummed
<1>6. ASSUME NEW i \in Ids, NEW price \in Prices, NEW status \in Dropped, Drop(i, price, status)
      PROVE  Summed'
      BY <1>1, <1>6 DEF Drop
<1>7. ASSUME NEW i \in Ids, NEW j \in Ids, Merge(i, j) PROVE Summed'
      BY <1>1, <1>7 DEF Merge
<1>8. ASSUME NEW i \in Ids, NEW first \in 0 .. positions[i].quantity,
             NEW second \in 0 .. positions[i].quantity, Split(i, first, second)
      PROVE  Summed'
      BY <1>1, <1>8 DEF Split
<1>9. ASSUME NEW amount \in Amounts, Deposit(amount) \/ Withdraw(amount) PROVE Summed'
      BY <1>1, <1>9 DEF Deposit, Withdraw
<1> QED BY <1>2, <1>3, <1>4, <1>5, <1>6, <1>7, <1>8, <1>9 DEF Next

\* No exposure outlives what it was taken for, but for what was left adrift: whatever is
\* closed whole or in part, increased, merged (with itself, too), split or dropped,
\* however averages and parts are rounded, and although each figure stops at zero by
\* itself, the exposure of a side of a symbol exceeds its book by no more than the book
\* has lost to rounding, uneven splits and merges of a position with itself, and that of
\* the currency never exceeds the sum of its symbols.
THEOREM PhantomCorrect == Spec => []NoPhantomExposure
<1> DEFINE I == AllSound /\ MarginIsHeld /\ ExposureTypes /\ DriftTypes /\ Within /\ Summed
<1>1. Init => I
      <2> SUFFICES ASSUME Init PROVE I
          OBVIOUS
      <2>1. AllSound /\ MarginIsHeld
            BY InitBook
      <2>2. /\ exposure = [s \in Symbols |-> [side \in Sides |-> 0]]
            /\ currency = [side \in Sides |-> 0]
            BY DEF Init
      <2>3. ExposureTypes /\ DriftTypes
            BY <2>2 DEF Init, ExposureTypes, DriftTypes
      <2>4. Within
            <3> SUFFICES ASSUME NEW symbol \in Symbols, NEW side \in Sides
                         PROVE  exposure[symbol][side]
                                <= Tally(Worths(symbol, side), positions) + adrift[symbol][side]
                BY DEF Within
            <3>1. /\ exposure[symbol][side] = 0 /\ Tally(Worths(symbol, side), positions) \in Nat
                  /\ adrift[symbol][side] \in Nat
                  BY <2>1, <2>2, <2>3, TallyIs, WorthIs DEF AllSound, DriftTypes
            <3> QED BY <3>1
      <2>5. Summed
            <3> SUFFICES ASSUME NEW side \in Sides PROVE currency[side] <= Total(exposure, side)
                BY DEF Summed
            <3>1. currency[side] = 0 /\ Total(exposure, side) \in Nat
                  BY <2>2, <2>3, TotalIs DEF ExposureTypes
            <3> QED BY <3>1
      <2> QED BY <2>1, <2>3, <2>4, <2>5
<1>2. I /\ [Next]_vars => I'
      <2> SUFFICES ASSUME I, [Next]_vars PROVE I'
          OBVIOUS
      <2>1. (AllSound /\ MarginIsHeld)'
            BY StepBook
      <2>2. CASE Next
            <3>1. ExposureTypes'
                  BY <2>2, StepExposure
            <3>2. DriftTypes'
                  BY <2>2, StepDrift
            <3> QED BY <2>1, <2>2, <3>1, <3>2, StepWithin, StepSums
      <2>3. CASE UNCHANGED vars
            BY <2>1, <2>3 DEF vars, exposureVars, ExposureTypes, DriftTypes, Within, Summed
      <2> QED BY <2>2, <2>3
<1>3. I => NoPhantomExposure
      BY PhantomIs
<1> QED BY <1>1, <1>2, <1>3, PTL DEF Spec
=============================================================================
