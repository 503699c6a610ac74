---------------------------- MODULE StreamProofs ----------------------------
(***************************************************************************)
(* Proofs about StreamBus and StreamManager, for any subscribers, producers*)
(* and capacities and for any number of events and restarts.               *)
(***************************************************************************)
EXTENDS StreamManager, FiniteSetTheorems, SequenceTheorems, TLAPS

-----------------------------------------------------------------------------
(* The bus.                                                                *)

BusTypes ==
  /\ running \in BOOLEAN
  /\ sequence \in 0..MaxEvents
  /\ queue \subseteq Events
  /\ subs \in Seq(Subscribers) /\ NoRepeats(subs)
  /\ loop \in 0..MaxStarts
  /\ phase \in [Loops -> Phases]
  /\ item \in [Loops -> Events \cup {<<>>}]
  /\ todo \in [Loops -> Seq(Subscribers)]
  /\ seen \in [Subscribers -> Seq(Events)]
  /\ \A w \in Loops : /\ phase[w] \in {"taken", "calling"} => item[w] \in Events
                      /\ phase[w] = "calling" => todo[w] # <<>>

DeadOK == dead \in Seq(Subscribers \cup {"bus"}) /\ Len(dead) <= MaxDead

QueueOK == IsFiniteSet(queue) /\ (MaxQueue > 0 => Cardinality(queue) <= MaxQueue)

\* At most the last loop delivers: those before it are done, those after it are
\* not born.
OneLoop ==
  \A w \in Loops :
    /\ w < loop => phase[w] \in {"cancelled", "over"}
    /\ w > loop => phase[w] = "unborn"
    /\ w = loop => phase[w] # "unborn"

\* Of one priority, the events in E were published before those in F.
Before(E, F) ==
  \A e \in E, f \in F : e.priority = f.priority => e.sequence < f.sequence

Delivering(w) == phase[w] \in {"taken", "calling"}

\* The events a subscriber was called with.
Seen(s) == Range(seen[s])

\* The subscribers the loop has still to call for its event.
Ahead(w) == {todo[w][i] : i \in 2..Len(todo[w])}

DeliveryOK(w) ==
  /\ item[w].sequence <= sequence
  /\ Before({item[w]}, queue)
  /\ \A s \in Subscribers :
       phase[w] = "taken" \/ s \in Ahead(w) => Before(Seen(s), {item[w]})
  /\ phase[w] = "calling" => NoRepeats(todo[w])

\* The events seen, the one being delivered, those in the queue, and those to
\* come: of one priority, each is older than the next.
Ordered ==
  /\ \A e \in queue : e.sequence <= sequence
  /\ \A s \in Subscribers : \A e \in Seen(s) : e.sequence <= sequence
  /\ \A s \in Subscribers : Before(Seen(s), queue)
  /\ \A w \in Loops : Delivering(w) => DeliveryOK(w)

BusInv == BusTypes /\ OneLoop /\ Ordered /\ InOrder

LEMMA BusInitInv == BusInit => BusInv /\ DeadOK /\ QueueOK
<1> SUFFICES ASSUME BusInit PROVE BusInv /\ DeadOK /\ QueueOK
    OBVIOUS
<1> USE BusAssumption
<1>1. BusTypes
      <2>1. <<>> \in Seq(Subscribers) /\ NoRepeats(<<>>)
            BY EmptySeq DEF NoRepeats
      <2>2. /\ phase \in [Loops -> Phases] /\ item \in [Loops -> Events \cup {<<>>}]
            /\ todo \in [Loops -> Seq(Subscribers)] /\ seen \in [Subscribers -> Seq(Events)]
            /\ \A w \in Loops : phase[w] \notin {"taken", "calling"}
            BY <2>1, EmptySeq DEF BusInit, Phases
      <2>3. running \in BOOLEAN
            BY Zenon DEF BusInit
      <2>4. sequence \in 0..MaxEvents /\ queue \subseteq Events /\ loop \in 0..MaxStarts
            BY DEF BusInit
      <2>5. subs \in Seq(Subscribers) /\ NoRepeats(subs)
            BY <2>1, Zenon DEF BusInit
      <2> QED BY <2>2, <2>3, <2>4, <2>5, Zenon DEF BusTypes
<1>2. OneLoop
      BY DEF BusInit, OneLoop, Loops
<1>3. Ordered /\ InOrder
      <2>1. Range(<<>>) = {}
            <3>1. <<>> \in Seq({})
                  BY EmptySeq
            <3>2. Range(<<>>) \in SUBSET {}
                  BY <3>1, RangeOfSeq
            <3> QED BY <3>2
      <2>2. \A s \in Subscribers : seen[s] = <<>> /\ Seen(s) = {}
            BY <2>1 DEF BusInit, Seen
      <2> QED BY <2>2 DEF BusInit, Ordered, InOrder, Before, Delivering
<1>4. DeadOK
      BY DEF BusInit, DeadOK
<1>5. QueueOK
      BY FS_EmptySet DEF BusInit, QueueOK
<1> QED BY <1>1, <1>2, <1>3, <1>4, <1>5 DEF BusInv

\* Removing one element of a list without repetitions.
LEMMA RemovalFacts ==
  ASSUME NEW S, NEW list \in Seq(S), NoRepeats(list), NEW i \in 1..Len(list)
  PROVE  LET remaining == SubSeq(list, 1, i - 1) \o SubSeq(list, i + 1, Len(list))
         IN remaining \in Seq(S) /\ NoRepeats(remaining)
<1> DEFINE front == SubSeq(list, 1, i - 1)
           back == SubSeq(list, i + 1, Len(list))
           remaining == front \o back
<1>1. /\ front \in Seq(S) /\ Len(front) = i - 1
      /\ \A k \in 1..(i - 1) : front[k] = list[k]
      BY SubSeqProperties
<1>2. /\ back \in Seq(S) /\ Len(back) = Len(list) - i
      /\ \A k \in 1..(Len(list) - i) : back[k] = list[i + k]
      BY SubSeqProperties
<1> HIDE DEF front, back
<1>3. /\ remaining \in Seq(S) /\ Len(remaining) = Len(list) - 1
      /\ \A k \in 1..(Len(list) - 1) : remaining[k] = IF k < i THEN list[k] ELSE list[k + 1]
      <2>1. /\ remaining \in Seq(S) /\ Len(remaining) = Len(front) + Len(back)
            /\ \A k \in 1..(Len(front) + Len(back)) :
                 remaining[k] = IF k <= Len(front) THEN front[k] ELSE back[k - Len(front)]
            BY <1>1, <1>2, ConcatProperties
      <2> HIDE DEF remaining
      <2>2. \A k \in 1..(Len(list) - 1) : k >= i => back[k - Len(front)] = list[k + 1]
            <3> SUFFICES ASSUME NEW k \in 1..(Len(list) - 1), k >= i
                         PROVE  back[k - Len(front)] = list[k + 1]
                OBVIOUS
            <3>1. k - (i - 1) \in 1..(Len(list) - i)
                  OBVIOUS
            <3>2. back[k - (i - 1)] = list[i + (k - (i - 1))]
                  BY <3>1, <1>2
            <3> QED BY <3>2, <1>1
      <2>3. /\ Len(front) = i - 1 /\ Len(back) = Len(list) - i /\ Len(list) \in Nat
            /\ Len(front) + Len(back) = Len(list) - 1
            BY <1>1, <1>2, LenProperties
      <2>4. ASSUME NEW k \in 1..(Len(list) - 1)
            PROVE  remaining[k] = IF k < i THEN list[k] ELSE list[k + 1]
            <3>1. remaining[k] = IF k <= Len(front) THEN front[k] ELSE back[k - Len(front)]
                  BY <2>1, <2>3
            <3>2. CASE k < i
                  BY <3>1, <3>2, <1>1
            <3>3. CASE k >= i
                  BY <3>1, <3>3, <2>2, <2>3
            <3> QED BY <3>2, <3>3
      <2> QED BY <2>1, <2>3, <2>4
<1> HIDE DEF remaining
<1>4. NoRepeats(remaining)
      <2> SUFFICES ASSUME NEW j \in 1..(Len(list) - 1), NEW k \in 1..(Len(list) - 1), j # k
                   PROVE  remaining[j] # remaining[k]
          BY <1>3 DEF NoRepeats
      <2>1. PICK x, y \in 1..Len(list) : /\ x = (IF j < i THEN j ELSE j + 1)
                                        /\ y = (IF k < i THEN k ELSE k + 1)
            BY LenProperties
      <2>2. x # y
            BY <2>1
      <2>3. list[x] # list[y]
            BY <2>2 DEF NoRepeats
      <2> QED BY <1>3, <2>1, <2>3
<1> QED BY <1>3, <1>4 DEF remaining, front, back

\* The subscribers still ahead once the first one of a list is left behind.
LEMMA TailFacts ==
  ASSUME NEW S, NEW list \in Seq(S), list # <<>>, NoRepeats(list)
  PROVE  /\ Tail(list) \in Seq(S) /\ NoRepeats(Tail(list))
         /\ \A i \in 1..Len(Tail(list)) : i + 1 \in 2..Len(list) /\ Tail(list)[i] = list[i + 1]
<1>1. /\ Tail(list) \in Seq(S) /\ Len(Tail(list)) = Len(list) - 1
      /\ \A i \in 1..Len(Tail(list)) : Tail(list)[i] = list[i + 1]
      BY HeadTailProperties
<1> QED BY <1>1 DEF NoRepeats

\* One more call.
LEMMA AppendRange ==
  ASSUME NEW S, NEW list \in Seq(S), NEW e \in S
  PROVE  /\ Append(list, e) \in Seq(S)
         /\ Range(Append(list, e)) = Range(list) \cup {e}
<1> DEFINE longer == Append(list, e)
<1>1. /\ longer \in Seq(S) /\ Len(longer) = Len(list) + 1 /\ Len(list) \in Nat
      /\ longer[Len(list) + 1] = e /\ \A i \in 1..Len(list) : longer[i] = list[i]
      BY AppendProperties, LenProperties
<1> HIDE DEF longer
<1>2. Range(longer) = {longer[i] : i \in 1..Len(longer)} /\ Range(list) = {list[i] : i \in 1..Len(list)}
      BY <1>1, RangeEquality
<1>3. 1..Len(longer) = (1..Len(list)) \cup {Len(list) + 1}
      BY <1>1
<1> QED BY <1>1, <1>2, <1>3 DEF longer

LEMMA EventsDiffer ==
  ASSUME NEW e \in Events, NEW f \in Events, e.priority = f.priority, e.sequence = f.sequence
  PROVE  e = f
BY DEF Events

\* What taking an event establishes.
LEMMA TakeOrders ==
  ASSUME BusInv, NEW w \in Loops, Take(w)
  PROVE  Ordered'
<1> USE DEF BusInv, BusTypes
<1>1. PICK e \in queue : /\ \A f \in queue \ {e} : ~Precedes(f, e)
                         /\ queue' = queue \ {e}
                         /\ item' = [item EXCEPT ![w] = e]
      BY DEF Take
<1>2. /\ phase[w] = "waiting" /\ phase' = [phase EXCEPT ![w] = "taken"]
      /\ UNCHANGED <<sequence, todo, seen>>
      BY DEF Take
<1>0. \A s \in Subscribers : Seen(s)' = Seen(s)
      BY <1>2 DEF Seen
<1>3. Before({e}, queue')
      BY <1>1, EventsDiffer DEF Before, Precedes, Events
<1>4. /\ e \in Events /\ e.sequence <= sequence
      /\ \A s \in Subscribers : Before(Seen(s), {e})
      BY DEF Ordered, Before
<1>5. item'[w] = e /\ phase'[w] = "taken"
      BY <1>1, <1>2
<1>6. \A v \in Loops \ {w} : item'[v] = item[v] /\ phase'[v] = phase[v]
      BY <1>1, <1>2
<1>7. ASSUME NEW v \in Loops, Delivering(v)' PROVE DeliveryOK(v)'
      <2>1. CASE v = w
            <3>1. phase'[v] # "calling"
                  BY <2>1, <1>5
            <3>2. \A s \in Subscribers : Before(Seen(s)', {item'[v]})
                  BY <2>1, <1>0, <1>4, <1>5
            <3> QED BY <2>1, <3>1, <3>2, <1>0, <1>2, <1>3, <1>4, <1>5 DEF DeliveryOK
      <2>2. CASE v # w
            <3>1. Delivering(v)
                  BY <2>2, <1>6, <1>7 DEF Delivering
            <3>2. DeliveryOK(v)
                  BY <3>1 DEF Ordered
            <3>3. Before({item'[v]}, queue')
                  BY <2>2, <3>2, <1>1, <1>6 DEF DeliveryOK, Before
            <3>4. Ahead(v)' = Ahead(v)
                  BY <1>2 DEF Ahead
            <3> QED BY <2>2, <3>2, <3>3, <3>4, <1>0, <1>2, <1>6 DEF DeliveryOK
      <2> QED BY <2>1, <2>2
<1>8. /\ \A f \in queue' : f.sequence <= sequence'
      /\ \A s \in Subscribers : \A f \in Seen(s)' : f.sequence <= sequence'
      /\ \A s \in Subscribers : Before(Seen(s)', queue')
      BY <1>0, <1>1, <1>2 DEF Ordered, Before
<1> QED BY <1>7, <1>8 DEF Ordered

LEMMA OneDelivers ==
  ASSUME BusInv, NEW v \in Loops, NEW w \in Loops, Delivering(v), Delivering(w)
  PROVE  v = w
<1>1. v \in Int /\ w \in Int /\ loop \in Int
      BY DEF Loops, BusInv, BusTypes
<1>2. ~(v < loop) /\ ~(v > loop) /\ ~(w < loop) /\ ~(w > loop)
      BY DEF BusInv, OneLoop, Delivering
<1> QED BY <1>1, <1>2

\* What calling the next of the subscribers establishes.
LEMMA CallOrders ==
  ASSUME BusInv, NEW w \in Loops, Delivering(w),
         NEW list \in Seq(Subscribers), NoRepeats(list),
         \A i \in 1..Len(list) : Before(Seen(list[i]), {item[w]}),
         CallOn(w, list), UNCHANGED <<queue, sequence, item>>
  PROVE  Ordered'
<1> USE DEF BusInv, BusTypes
<1>1. DeliveryOK(w)
      BY DEF Ordered
<1>2. \A v \in Loops \ {w} : ~Delivering(v)' /\ phase'[v] = phase[v]
      <2>2. \A v \in Loops \ {w} : ~Delivering(v)
            BY OneDelivers
      <2>3. \A v \in Loops \ {w} : phase'[v] = phase[v]
            BY DEF CallOn
      <2> QED BY <2>2, <2>3 DEF Delivering
<1>3. CASE list = <<>>
      <2>1. ~Delivering(w)' /\ UNCHANGED seen
            BY <1>3 DEF CallOn, Delivering, AtHead
      <2>2. \A v \in Loops : ~Delivering(v)'
            BY <2>1, <1>2
      <2>3. \A s \in Subscribers : Seen(s)' = Seen(s)
            BY <2>1 DEF Seen
      <2> QED BY <2>2, <2>3 DEF Ordered, Before
<1>4. CASE list # <<>>
      <2>1. /\ Head(list) = list[1] /\ Len(list) \in Nat \ {0} /\ list[1] \in Subscribers
            BY <1>4, EmptySeq, ElementOfSeq
      <2>2. /\ todo'[w] = list /\ phase'[w] = "calling"
            /\ seen' = [seen EXCEPT ![list[1]] = Append(@, item[w])]
            BY <1>4, <2>1 DEF CallOn
      <2>3. \A s \in Subscribers : Seen(s)' = IF s = list[1] THEN Seen(s) \cup {item[w]} ELSE Seen(s)
            <3>1. item[w] \in Events
                  BY DEF Delivering
            <3>2. ASSUME NEW s \in Subscribers
                  PROVE  Seen(s)' = IF s = list[1] THEN Seen(s) \cup {item[w]} ELSE Seen(s)
                  <4>1. seen[s] \in Seq(Events)
                        OBVIOUS
                  <4>2. seen'[s] = IF s = list[1] THEN Append(seen[s], item[w]) ELSE seen[s]
                        BY <2>1, <2>2
                  <4>3. Range(Append(seen[s], item[w])) = Range(seen[s]) \cup {item[w]}
                        BY <3>1, <4>1, AppendRange
                  <4> QED BY <4>2, <4>3, Zenon DEF Seen
            <3> QED BY <3>2
      <2>4. ASSUME NEW s \in Subscribers, s \in Ahead(w)'
            PROVE  Before(Seen(s)', {item[w]})
            <3>1. PICK i \in 2..Len(list) : s = list[i]
                  BY <2>2, <2>4 DEF Ahead
            <3>2. i \in 1..Len(list) /\ s # list[1]
                  BY <3>1, <2>1 DEF NoRepeats
            <3>3. Before(Seen(s), {item[w]})
                  BY <3>1, <3>2
            <3> QED BY <3>2, <3>3, <2>3
      <2>5. DeliveryOK(w)'
            BY <1>1, <2>2, <2>4, <1>4 DEF DeliveryOK, Before
      <2>6. /\ \A s \in Subscribers : \A e \in Seen(s)' : e.sequence <= sequence'
            /\ \A s \in Subscribers : Before(Seen(s)', queue')
            <3>1. item[w].sequence <= sequence /\ Before({item[w]}, queue)
                  BY <1>1 DEF DeliveryOK
            <3>2. \A s \in Subscribers : /\ \A e \in Seen(s) : e.sequence <= sequence
                                         /\ Before(Seen(s), queue)
                  BY DEF Ordered
            <3>3. ASSUME NEW s \in Subscribers
                  PROVE  Before(Seen(s)', queue) /\ \A e \in Seen(s)' : e.sequence <= sequence
                  <4>1. Seen(s)' \subseteq Seen(s) \cup {item[w]}
                        BY <2>3
                  <4> QED BY <3>1, <3>2, <4>1 DEF Before
            <3> QED BY <3>3
      <2>7. \A e \in queue' : e.sequence <= sequence'
            BY DEF Ordered
      <2>8. \A v \in Loops : Delivering(v)' => DeliveryOK(v)'
            BY <2>5, <1>2
      <2> QED BY <2>6, <2>7, <2>8 DEF Ordered
<1> QED BY <1>3, <1>4

\* In both calls of CallOn the subscribers it goes on with are still behind the
\* event.
LEMMA NextAreBehind ==
  ASSUME BusInv, NEW w \in Loops, Delivering(w)
  PROVE  /\ phase[w] = "taken" =>
              \A i \in 1..Len(subs) : subs[i] \in Subscribers /\ Before(Seen(subs[i]), {item[w]})
         /\ phase[w] = "calling" =>
              /\ Tail(todo[w]) \in Seq(Subscribers) /\ NoRepeats(Tail(todo[w]))
              /\ \A i \in 1..Len(Tail(todo[w])) :
                   /\ Tail(todo[w])[i] \in Subscribers
                   /\ Before(Seen(Tail(todo[w])[i]), {item[w]})
<1> USE DEF BusInv, BusTypes
<1>1. DeliveryOK(w)
      BY DEF Ordered
<1>2. ASSUME phase[w] = "taken", NEW i \in 1..Len(subs)
      PROVE  subs[i] \in Subscribers /\ Before(Seen(subs[i]), {item[w]})
      <2>1. subs[i] \in Subscribers
            BY ElementOfSeq
      <2> QED BY <1>1, <1>2, <2>1 DEF DeliveryOK
<1>3. ASSUME phase[w] = "calling"
      PROVE  /\ Tail(todo[w]) \in Seq(Subscribers) /\ NoRepeats(Tail(todo[w]))
             /\ \A i \in 1..Len(Tail(todo[w])) :
                  /\ Tail(todo[w])[i] \in Subscribers
                  /\ Before(Seen(Tail(todo[w])[i]), {item[w]})
      <2>1. /\ todo[w] \in Seq(Subscribers) /\ todo[w] # <<>> /\ NoRepeats(todo[w])
            /\ \A s \in Subscribers : s \in Ahead(w) => Before(Seen(s), {item[w]})
            BY <1>1, <1>3 DEF DeliveryOK
      <2>2. /\ Tail(todo[w]) \in Seq(Subscribers) /\ NoRepeats(Tail(todo[w]))
            /\ \A i \in 1..Len(Tail(todo[w])) :
                 i + 1 \in 2..Len(todo[w]) /\ Tail(todo[w])[i] = todo[w][i + 1]
            BY <2>1, TailFacts
      <2>3. ASSUME NEW i \in 1..Len(Tail(todo[w]))
            PROVE  /\ Tail(todo[w])[i] \in Subscribers
                   /\ Before(Seen(Tail(todo[w])[i]), {item[w]})
            <3>1. Tail(todo[w])[i] \in Subscribers
                  BY <2>2, ElementOfSeq
            <3>2. Tail(todo[w])[i] \in Ahead(w)
                  BY <2>2 DEF Ahead
            <3> QED BY <3>1, <3>2, <2>1
      <2> QED BY <2>2, <2>3
<1> QED BY <1>2, <1>3

LEMMA StepOrdered == BusInv /\ [BusNext]_busVars => Ordered'
<1> SUFFICES ASSUME BusInv, [BusNext]_busVars PROVE Ordered'
    OBVIOUS
<1> USE BusAssumption
<1>0. BusTypes /\ Ordered
      BY DEF BusInv
<1>00. ASSUME UNCHANGED seen, NEW s \in Subscribers
       PROVE  Seen(s)' = Seen(s)
       BY <1>00 DEF Seen
<1>1. ASSUME NEW priority \in Priorities, Publish(priority) PROVE Ordered'
      <2>1. UNCHANGED <<phase, item, todo, seen>>
            BY <1>1 DEF Publish
      <2>2. CASE UNCHANGED <<queue, sequence>>
            BY <1>0, <1>00, <2>1, <2>2 DEF Ordered, Before, Delivering, DeliveryOK, Ahead
      <2>3. CASE /\ sequence' = sequence + 1
                 /\ queue' = queue \cup {[priority |-> priority, sequence |-> sequence + 1]}
            <3> DEFINE new == [priority |-> priority, sequence |-> sequence + 1]
            <3>1. new.sequence = sequence + 1 /\ sequence \in Nat
                  BY <1>0 DEF BusTypes
            <3> HIDE DEF new
            <3>0. \A s \in Subscribers : Seen(s) \in SUBSET Events
                  BY <1>0, RangeOfSeq DEF BusTypes, Seen
            <3>2. /\ \A e \in queue' : e.sequence <= sequence'
                  /\ \A s \in Subscribers : \A e \in Seen(s)' : e.sequence <= sequence'
                  BY <1>0, <1>00, <2>1, <2>3, <3>1, <3>0 DEF Ordered, BusTypes, Events, new
            <3>3. ASSUME NEW E \in SUBSET Events, Before(E, queue),
                         \A e \in E : e.sequence <= sequence
                  PROVE  Before(E, queue')
                  BY <2>3, <3>1, <3>3 DEF Before, Events, new
            <3>4. \A s \in Subscribers : Before(Seen(s)', queue')
                  BY <1>0, <1>00, <2>1, <3>0, <3>3 DEF Ordered
            <3>5. ASSUME NEW w \in Loops, Delivering(w)' PROVE DeliveryOK(w)'
                  <4>1. DeliveryOK(w)
                        BY <1>0, <2>1, <3>5 DEF Ordered, Delivering
                  <4>2. Before({item[w]}, queue')
                        <5>1. item[w] \in Events
                              BY <1>0, <2>1, <3>5 DEF BusTypes, Delivering
                        <5> QED BY <3>3, <4>1, <5>1 DEF DeliveryOK
                  <4>3. item[w].sequence <= sequence'
                        BY <1>0, <2>1, <2>3, <3>1, <3>5, <4>1 DEF DeliveryOK, Events, BusTypes, Delivering
                  <4> QED BY <1>00, <2>1, <4>1, <4>2, <4>3 DEF DeliveryOK, Ahead
            <3> QED BY <3>2, <3>4, <3>5 DEF Ordered
      <2> QED BY <1>1, <2>2, <2>3 DEF Publish, Enqueue
<1>2. ASSUME UNCHANGED <<queue, sequence, phase, item, todo, seen>> PROVE Ordered'
      BY <1>0, <1>00, <1>2 DEF Ordered, Before, Delivering, DeliveryOK, Ahead
<1>3. CASE CollectDead \/ \E s \in Subscribers : Subscribe(s) \/ Unsubscribe(s)
      BY <1>2, <1>3 DEF CollectDead, Subscribe, Unsubscribe
<1>4. ASSUME NEW w \in Loops, Take(w) PROVE Ordered'
      BY <1>4, TakeOrders
<1>5. ASSUME NEW w \in Loops, Deliver(w) PROVE Ordered'
      <2>1. Delivering(w) /\ subs \in Seq(Subscribers) /\ NoRepeats(subs)
            BY <1>0, <1>5 DEF Deliver, Delivering, BusTypes
      <2>2. \A i \in 1..Len(subs) : Before(Seen(subs[i]), {item[w]})
            BY <1>5, <2>1, NextAreBehind DEF Deliver
      <2>3. CallOn(w, subs) /\ UNCHANGED <<queue, sequence, item>>
            BY <1>5 DEF Deliver
      <2> QED BY <2>1, <2>2, <2>3, CallOrders
<1>6. ASSUME NEW w \in Loops, CallbackReturns(w) \/ CallbackRaises(w) PROVE Ordered'
      <2>1. Delivering(w) /\ phase[w] = "calling"
            BY <1>6 DEF CallbackReturns, CallbackRaises, Delivering
      <2>2. /\ Tail(todo[w]) \in Seq(Subscribers) /\ NoRepeats(Tail(todo[w]))
            /\ \A i \in 1..Len(Tail(todo[w])) : Before(Seen(Tail(todo[w])[i]), {item[w]})
            BY <2>1, NextAreBehind
      <2>3. CallOn(w, Tail(todo[w])) /\ UNCHANGED <<queue, sequence, item>>
            BY <1>6 DEF CallbackReturns, CallbackRaises
      <2> QED BY <2>1, <2>2, <2>3, CallOrders
<1>7. ASSUME /\ UNCHANGED <<queue, sequence, item, seen>>
             /\ \A w \in Loops : Delivering(w)' =>
                  Delivering(w) /\ phase'[w] = phase[w] /\ todo'[w] = todo[w]
      PROVE  Ordered'
      <2>1. ASSUME NEW w \in Loops, Delivering(w)' PROVE DeliveryOK(w)'
            BY <1>0, <1>00, <1>7, <2>1 DEF Ordered, DeliveryOK, Ahead
      <2> QED BY <1>0, <1>00, <1>7, <2>1 DEF Ordered
<1>8. ASSUME NEW w \in Loops, CallbackCancelled(w) PROVE Ordered'
      BY <1>0, <1>7, <1>8 DEF CallbackCancelled, Delivering, BusTypes
<1>9. CASE BusStart \/ BusStop
      <2>1. CASE BusStart
            BY <1>0, <1>2, <1>7, <2>1 DEF BusStart, busVars, Delivering, BusTypes
      <2>2. CASE BusStop
            <3>1. UNCHANGED <<queue, sequence, item, todo, seen>>
                  BY <2>2 DEF BusStop
            <3>2. \A v \in Loops : phase'[v] = phase[v] \/ phase'[v] = Cancelled(phase[v])
                  BY <2>2 DEF BusStop
            <3>3. \A v \in Loops : Delivering(v)' => Delivering(v) /\ phase'[v] = phase[v]
                  BY <3>2 DEF Cancelled, Delivering
            <3> QED BY <1>7, <3>1, <3>3
      <2> QED BY <1>9, <2>1, <2>2
<1>10. CASE UNCHANGED busVars
       BY <1>2, <1>10 DEF busVars
<1> QED BY <1>1, <1>3, <1>4, <1>5, <1>6, <1>8, <1>9, <1>10 DEF BusNext, LoopStep

LEMMA StepOneLoop == BusInv /\ [BusNext]_busVars => OneLoop'
<1> SUFFICES ASSUME BusInv, [BusNext]_busVars PROVE OneLoop'
    OBVIOUS
<1> USE BusAssumption
<1>0. BusTypes /\ OneLoop
      BY DEF BusInv
<1>1. ASSUME UNCHANGED <<loop, phase>> PROVE OneLoop'
      BY <1>0, <1>1 DEF OneLoop
<1>2. ASSUME NEW w \in Loops, NEW p \in Phases,
             phase[w] # "unborn", p # "unborn",
             phase[w] \in {"cancelled", "over"} => p \in {"cancelled", "over"},
             phase' = [phase EXCEPT ![w] = p], UNCHANGED loop
      PROVE  OneLoop'
      BY <1>0, <1>2 DEF OneLoop, BusTypes, Loops
<1>3. ASSUME NEW w \in Loops, LoopStep(w) PROVE OneLoop'
      <2>1. CASE Take(w)
            BY <1>2, <2>1 DEF Take, Phases
      <2>2. CASE CallbackCancelled(w)
            BY <1>2, <2>2 DEF CallbackCancelled, Phases
      <2>3. ASSUME NEW list, CallOn(w, list), UNCHANGED loop, Delivering(w) PROVE OneLoop'
            BY <1>2, <2>3 DEF CallOn, AtHead, Delivering, Phases
      <2>4. CASE Deliver(w) \/ CallbackReturns(w) \/ CallbackRaises(w)
            BY <2>3, <2>4 DEF Deliver, CallbackReturns, CallbackRaises, Delivering
      <2> QED BY <1>3, <2>1, <2>2, <2>4 DEF LoopStep
<1>4. CASE Quiet(loop) /\ BusStart
      <2>1. CASE running
            BY <1>1, <1>4, <2>1 DEF BusStart, busVars
      <2>2. CASE ~running
            <3>1. /\ loop + 1 \in Loops /\ loop' = loop + 1
                  /\ phase' = [phase EXCEPT ![loop + 1] = "waiting"]
                  BY <1>0, <1>4, <2>2 DEF BusStart, Loops, BusTypes
            <3>2. loop # 0 => phase[loop] \in {"cancelled", "over"}
                  BY <1>4 DEF Quiet
            <3> QED BY <1>0, <3>1, <3>2 DEF OneLoop, Loops, BusTypes
      <2> QED BY <2>1, <2>2
<1>5. CASE BusStop
      <2>1. loop' = loop /\ \A w \in Loops : phase'[w] = IF w = loop THEN Cancelled(phase[w]) ELSE phase[w]
            BY <1>5 DEF BusStop
      <2> QED BY <1>0, <2>1 DEF OneLoop, Cancelled, Loops, BusTypes
<1>6. CASE \/ \E priority \in Priorities : Publish(priority)
           \/ CollectDead
           \/ \E s \in Subscribers : Subscribe(s) \/ Unsubscribe(s)
           \/ UNCHANGED busVars
      BY <1>1, <1>6 DEF Publish, CollectDead, Subscribe, Unsubscribe, busVars
<1> QED BY <1>3, <1>4, <1>5, <1>6 DEF BusNext

\* What keeps the types: any step of the bus, a start by a hasty owner included.
AnyBusNext == BusNext \/ BusStart

LEMMA StepBusTypes == BusTypes /\ [AnyBusNext]_busVars => BusTypes'
<1> SUFFICES ASSUME BusTypes, [AnyBusNext]_busVars PROVE BusTypes'
    OBVIOUS
<1> USE BusAssumption
<1> DEFINE Holding == \A w \in Loops : /\ phase[w] \in {"taken", "calling"} => item[w] \in Events
                                       /\ phase[w] = "calling" => todo[w] # <<>>
<1>0. Holding /\ (\A w \in Loops : phase[w] \in Phases)
      BY DEF BusTypes
<1>01. ASSUME UNCHANGED <<phase, item, todo>> PROVE Holding'
       BY <1>0, <1>01
<1> HIDE DEF Holding
<1>1. ASSUME NEW priority \in Priorities, Publish(priority) PROVE BusTypes'
      <2>1. UNCHANGED <<running, subs, loop, phase, item, todo, seen>>
            BY <1>1 DEF Publish
      <2>2. sequence' \in 0..MaxEvents /\ queue' \subseteq Events
            BY <1>1 DEF Publish, Enqueue, BusTypes, Events
      <2> QED BY <1>01, <2>1, <2>2 DEF BusTypes, Holding
<1>2. CASE CollectDead \/ UNCHANGED busVars
      BY <1>01, <1>2 DEF CollectDead, busVars, BusTypes, Holding
<1>3. ASSUME NEW s \in Subscribers, Subscribe(s) PROVE BusTypes'
      <2>1. /\ subs \in Seq(Subscribers) /\ subs' = Append(subs, s)
            /\ \A i \in 1..Len(subs) : subs[i] # s
            BY <1>3, RangeEquality DEF Subscribe, Subscribed, BusTypes
      <2>2. subs' \in Seq(Subscribers) /\ NoRepeats(subs')
            BY <2>1, AppendProperties DEF NoRepeats, BusTypes
      <2> QED BY <1>01, <1>3, <2>2 DEF Subscribe, BusTypes, Holding
<1>4. ASSUME NEW s \in Subscribers, Unsubscribe(s) PROVE BusTypes'
      <2>1. PICK i \in 1..Len(subs) :
              subs' = SubSeq(subs, 1, i - 1) \o SubSeq(subs, i + 1, Len(subs))
            BY <1>4 DEF Unsubscribe
      <2>2. subs' \in Seq(Subscribers) /\ NoRepeats(subs')
            BY <2>1, RemovalFacts DEF BusTypes
      <2> QED BY <1>01, <1>4, <2>2 DEF Unsubscribe, BusTypes, Holding
<1>5. ASSUME NEW w \in Loops, LoopStep(w) PROVE BusTypes'
      <2>1. CASE Take(w)
            <3>1. PICK e \in queue : item' = [item EXCEPT ![w] = e] /\ queue' = queue \ {e}
                  BY <2>1 DEF Take
            <3>2. e \in Events /\ phase' = [phase EXCEPT ![w] = "taken"]
                  /\ UNCHANGED <<running, sequence, subs, loop, todo, seen>>
                  BY <2>1 DEF Take, BusTypes
            <3>3. Holding'
                  BY <1>0, <3>1, <3>2 DEF Holding, BusTypes
            <3> QED BY <3>1, <3>2, <3>3 DEF BusTypes, Phases, Holding
      <2>3. CASE CallbackCancelled(w)
            <3>1. phase' \in [Loops -> Phases] /\ todo' \in [Loops -> Seq(Subscribers)]
                  BY <2>3, EmptySeq DEF CallbackCancelled, BusTypes, Phases
            <3>2. Holding'
                  BY <1>0, <2>3 DEF CallbackCancelled, Holding, BusTypes
            <3> QED BY <2>3, <3>1, <3>2 DEF CallbackCancelled, BusTypes, Holding
      <2>4. ASSUME NEW list \in Seq(Subscribers), CallOn(w, list), Delivering(w),
                   UNCHANGED <<running, queue, sequence, subs, loop, item>>
            PROVE  BusTypes'
            <3>1. phase' \in [Loops -> Phases] /\ todo' \in [Loops -> Seq(Subscribers)]
                  BY <2>4 DEF CallOn, AtHead, BusTypes, Phases
            <3>2. item[w] \in Events
                  BY <1>0, <2>4 DEF Delivering, Holding
            <3>3. seen' \in [Subscribers -> Seq(Events)]
                  <4>1. CASE list = <<>>
                        BY <2>4, <4>1 DEF CallOn, BusTypes
                  <4>2. CASE list # <<>>
                        <5>1. Head(list) \in Subscribers
                              BY <2>4, <4>2, HeadTailProperties
                        <5>2. seen' = [seen EXCEPT ![Head(list)] = Append(@, item[w])]
                              BY <2>4, <4>2 DEF CallOn
                        <5>3. seen[Head(list)] \in Seq(Events)
                              BY <5>1 DEF BusTypes
                        <5>4. Append(seen[Head(list)], item[w]) \in Seq(Events)
                              BY <3>2, <5>3, AppendProperties
                        <5> QED BY <5>1, <5>2, <5>4 DEF BusTypes
                  <4> QED BY <4>1, <4>2
            <3>4. Holding'
                  BY <1>0, <2>4, <3>2 DEF CallOn, AtHead, Holding, BusTypes
            <3> QED BY <2>4, <3>1, <3>3, <3>4 DEF BusTypes, Holding
      <2>5. CASE Deliver(w)
            BY <2>4, <2>5 DEF Deliver, Delivering, BusTypes
      <2>6. CASE CallbackReturns(w) \/ CallbackRaises(w)
            <3>1. Delivering(w) /\ phase[w] = "calling"
                  BY <2>6 DEF CallbackReturns, CallbackRaises, Delivering
            <3>2. Tail(todo[w]) \in Seq(Subscribers)
                  BY <3>1, HeadTailProperties DEF BusTypes
            <3> QED BY <2>4, <2>6, <3>1, <3>2 DEF CallbackReturns, CallbackRaises
      <2> QED BY <1>5, <2>1, <2>3, <2>5, <2>6 DEF LoopStep
<1>6. CASE BusStart
      <2>1. CASE running
            BY <1>2, <1>6, <2>1 DEF BusStart
      <2>2. CASE ~running
            <3>1. running' \in BOOLEAN
                  BY <1>6, <2>2, Zenon DEF BusStart
            <3>2. loop' \in 0..MaxStarts
                  BY <1>6, <2>2 DEF BusStart, BusTypes
            <3>3. phase' = [phase EXCEPT ![loop + 1] = "waiting"]
                  BY <1>6, <2>2 DEF BusStart
            <3>4. UNCHANGED <<queue, sequence, subs, item, todo, seen>>
                  BY <1>6, <2>2 DEF BusStart
            <3>5. Holding'
                  BY <1>0, <3>3, <3>4 DEF Holding, BusTypes
            <3>6. phase' \in [Loops -> Phases]
                  BY <3>3 DEF BusTypes, Phases
            <3> QED BY <3>1, <3>2, <3>4, <3>5, <3>6 DEF BusTypes, Holding
      <2> QED BY <2>1, <2>2
<1>7. CASE BusStop
      <2>1. running' \in BOOLEAN
            BY <1>7, Zenon DEF BusStop
      <2>2. phase' \in [Loops -> Phases]
            BY <1>7 DEF BusStop, BusTypes, Cancelled, Phases
      <2>3. Holding'
            BY <1>0, <1>7 DEF BusStop, Cancelled, Holding, BusTypes
      <2> QED BY <1>7, <2>1, <2>2, <2>3 DEF BusStop, BusTypes, Holding
<1> QED BY <1>1, <1>2, <1>3, <1>4, <1>5, <1>6, <1>7 DEF AnyBusNext, BusNext

\* A subscriber is called with the events of one priority in their order, since
\* the one it is called with now comes after all it was called with before.
LEMMA StepInOrder == BusInv /\ [BusNext]_busVars => InOrder'
<1> SUFFICES ASSUME BusInv, [BusNext]_busVars PROVE InOrder'
    OBVIOUS
<1>0. BusTypes /\ InOrder
      BY DEF BusInv
<1>1. CASE UNCHANGED seen
      BY <1>0, <1>1 DEF InOrder
<1>2. ASSUME NEW w \in Loops, Delivering(w), NEW list \in Seq(Subscribers), CallOn(w, list),
             \A i \in 1..Len(list) : Before(Seen(list[i]), {item[w]})
      PROVE  InOrder'
      <2>1. CASE list = <<>>
            BY <1>1, <1>2, <2>1 DEF CallOn
      <2>2. CASE list # <<>>
            <3> DEFINE h == list[1]
                       old == seen[h]
                       new == Append(old, item[w])
            <3>1. Head(list) = h /\ 1 \in 1..Len(list) /\ h \in Subscribers
                  BY <2>2, EmptySeq, ElementOfSeq
            <3>2. seen' = [seen EXCEPT ![h] = new]
                  BY <1>2, <2>2, <3>1 DEF CallOn
            <3>3. old \in Seq(Events) /\ item[w] \in Events
                  BY <1>0, <1>2, <3>1 DEF BusTypes, Delivering
            <3>4. Before(Range(old), {item[w]})
                  BY <1>2, <3>1 DEF Seen
            <3>5. \A i, j \in 1..Len(old) :
                    i < j /\ old[i].priority = old[j].priority => old[i].sequence < old[j].sequence
                  BY <1>0, <3>1 DEF InOrder
            <3> HIDE DEF old, h
            <3>6. /\ Len(new) = Len(old) + 1 /\ Len(old) \in Nat /\ new[Len(old) + 1] = item[w]
                  /\ \A i \in 1..Len(old) : new[i] = old[i] /\ old[i] \in Range(old)
                  BY <3>3, AppendProperties, LenProperties, RangeEquality
            <3> HIDE DEF new
            <3>7. ASSUME NEW i \in 1..Len(new), NEW j \in 1..Len(new), i < j,
                         new[i].priority = new[j].priority
                  PROVE  new[i].sequence < new[j].sequence
                  <4>1. i \in 1..Len(old)
                        BY <3>6, <3>7
                  <4>2. CASE j \in 1..Len(old)
                        BY <3>5, <3>6, <3>7, <4>1, <4>2
                  <4>3. CASE j = Len(old) + 1
                        BY <3>4, <3>6, <3>7, <4>1, <4>3 DEF Before
                  <4> QED BY <3>6, <4>2, <4>3
            <3>8. \A s \in Subscribers : seen'[s] = IF s = h THEN new ELSE seen[s]
                  BY <1>0, <3>1, <3>2 DEF BusTypes
            <3> QED BY <1>0, <3>7, <3>8 DEF InOrder
      <2> QED BY <2>1, <2>2
<1>3. ASSUME NEW w \in Loops, Deliver(w) PROVE InOrder'
      <2>1. Delivering(w) /\ phase[w] = "taken" /\ CallOn(w, subs) /\ subs \in Seq(Subscribers)
            BY <1>0, <1>3 DEF Deliver, Delivering, BusTypes
      <2>2. \A i \in 1..Len(subs) : Before(Seen(subs[i]), {item[w]})
            BY <2>1, NextAreBehind
      <2> QED BY <1>2, <2>1, <2>2
<1>4. ASSUME NEW w \in Loops, CallbackReturns(w) \/ CallbackRaises(w) PROVE InOrder'
      <2>1. Delivering(w) /\ phase[w] = "calling" /\ CallOn(w, Tail(todo[w]))
            BY <1>4 DEF CallbackReturns, CallbackRaises, Delivering
      <2>2. /\ Tail(todo[w]) \in Seq(Subscribers)
            /\ \A i \in 1..Len(Tail(todo[w])) : Before(Seen(Tail(todo[w])[i]), {item[w]})
            BY <2>1, NextAreBehind
      <2> QED BY <1>2, <2>1, <2>2
<1> QED BY <1>1, <1>3, <1>4 DEF BusNext, LoopStep, Publish, CollectDead, Subscribe, Unsubscribe,
           Take, CallbackCancelled, BusStart, BusStop, busVars

LEMMA StepBusInv == BusInv /\ [BusNext]_busVars => BusInv'
BY StepBusTypes, StepOneLoop, StepOrdered, StepInOrder DEF BusInv, AnyBusNext

\* Where another letter goes, the oldest makes room.
LEMMA BuriedFacts ==
  ASSUME DeadOK, NEW letter \in Subscribers \cup {"bus"}
  PROVE  Buried(letter) \in Seq(Subscribers \cup {"bus"}) /\ Len(Buried(letter)) <= MaxDead
<1> DEFINE Letters == Subscribers \cup {"bus"}
           kept == IF Len(dead) >= MaxDead THEN Tail(dead) ELSE dead
<1>1. dead \in Seq(Letters) /\ Len(dead) <= MaxDead /\ MaxDead \in Nat \ {0}
      BY BusAssumption DEF DeadOK
<1>2. kept \in Seq(Letters) /\ Len(kept) < MaxDead
      <2>1. CASE Len(dead) >= MaxDead
            <3>1. dead # <<>>
                  BY <1>1, <2>1, EmptySeq
            <3> QED BY <1>1, <2>1, <3>1, HeadTailProperties
      <2>2. CASE ~(Len(dead) >= MaxDead)
            BY <1>1, <2>2, LenProperties
      <2> QED BY <2>1, <2>2
<1>3. Buried(letter) = Append(kept, letter) /\ letter \in Letters
      BY DEF Buried
<1> HIDE DEF kept, Letters
<1>4. Append(kept, letter) \in Seq(Letters) /\ Len(Append(kept, letter)) <= MaxDead
      BY <1>1, <1>2, <1>3, AppendProperties, LenProperties
<1> QED BY <1>3, <1>4 DEF Letters

LEMMA StepDead == BusTypes /\ DeadOK /\ [AnyBusNext]_busVars => DeadOK'
<1> SUFFICES ASSUME BusTypes, DeadOK, [AnyBusNext]_busVars PROVE DeadOK'
    OBVIOUS
<1>1. CASE UNCHANGED dead
      BY <1>1 DEF DeadOK
<1>2. ASSUME NEW priority \in Priorities, Publish(priority) PROVE DeadOK'
      BY <1>1, <1>2, BuriedFacts DEF Publish, Enqueue, DeadOK
<1>3. CASE CollectDead
      BY <1>3, EmptySeq, BusAssumption DEF CollectDead, DeadOK
<1>4. ASSUME NEW w \in Loops, CallbackRaises(w) PROVE DeadOK'
      BY <1>4, BuriedFacts, BusAssumption DEF CallbackRaises, DeadOK
<1> QED BY <1>1, <1>2, <1>3, <1>4 DEF AnyBusNext, BusNext, LoopStep, Take, Deliver, CallbackReturns,
              CallbackCancelled, Subscribe, Unsubscribe, BusStart, BusStop, busVars

LEMMA StepQueue == QueueOK /\ [AnyBusNext]_busVars => QueueOK'
<1> SUFFICES ASSUME QueueOK, [AnyBusNext]_busVars PROVE QueueOK'
    OBVIOUS
<1>1. CASE UNCHANGED queue
      BY <1>1 DEF QueueOK
<1>2. ASSUME NEW priority \in Priorities, Publish(priority) PROVE QueueOK'
      <2>1. CASE /\ MaxQueue = 0 \/ Cardinality(queue) < MaxQueue
                 /\ queue' = queue \cup {[priority |-> priority, sequence |-> sequence + 1]}
            <3>1. IsFiniteSet(queue) /\ Cardinality(queue) \in Nat
                  BY FS_CardinalityType DEF QueueOK
            <3> DEFINE new == [priority |-> priority, sequence |-> sequence + 1]
            <3> HIDE DEF new
            <3>2. /\ IsFiniteSet(queue \cup {new})
                  /\ Cardinality(queue \cup {new}) =
                       IF new \in queue THEN Cardinality(queue) ELSE Cardinality(queue) + 1
                  BY <3>1, FS_AddElement
            <3>3. queue' = queue \cup {new}
                  BY <2>1 DEF new
            <3>4. IsFiniteSet(queue') /\ Cardinality(queue') <= Cardinality(queue) + 1
                  BY <3>1, <3>2, <3>3
            <3>5. Cardinality(queue') \in Nat
                  BY <3>4, FS_CardinalityType
            <3> QED BY <2>1, <3>1, <3>4, <3>5, BusAssumption DEF QueueOK
      <2> QED BY <1>1, <1>2, <2>1 DEF Publish, Enqueue
<1>3. ASSUME NEW w \in Loops, Take(w) PROVE QueueOK'
      <2>1. PICK e \in queue : queue' = queue \ {e}
            BY <1>3 DEF Take
      <2>2. IsFiniteSet(queue) /\ Cardinality(queue) \in Nat
            BY FS_CardinalityType DEF QueueOK
      <2>3. /\ IsFiniteSet(queue \ {e})
            /\ Cardinality(queue \ {e}) = Cardinality(queue) - 1
            BY <2>2, FS_RemoveElement
      <2>4. IsFiniteSet(queue') /\ Cardinality(queue') <= Cardinality(queue)
            BY <2>1, <2>2, <2>3
      <2>5. Cardinality(queue') \in Nat
            BY <2>4, FS_CardinalityType
      <2> QED BY <2>2, <2>4, <2>5, BusAssumption DEF QueueOK
<1> QED BY <1>1, <1>2, <1>3 DEF AnyBusNext, BusNext, LoopStep, Deliver, CallbackReturns, CallbackRaises,
              CallbackCancelled, CollectDead, Subscribe, Unsubscribe, BusStart, BusStop, busVars

\* The queues of the bus keep to their capacities, whatever is published.
THEOREM BusTypeCorrect == BusSpec => []BusTypeOK
<1> DEFINE All == BusInv /\ DeadOK /\ QueueOK
<1>1. BusInit => All
      BY BusInitInv
<1>2. All /\ [BusNext]_busVars => All'
      BY StepBusInv, StepDead, StepQueue DEF BusInv, AnyBusNext
<1>3. All => BusTypeOK
      BY Zenon DEF BusInv, BusTypes, DeadOK, QueueOK, BusTypeOK
<1> HIDE DEF All
<1> QED BY <1>1, <1>2, <1>3, PTL DEF BusSpec

\* Per priority a subscriber is called with the events in the order of their
\* publication and with none of them twice, over any number of stops and restarts
\* by an orderly owner.
THEOREM DeliveryInOrder == BusSpec => []InOrder
<1>1. BusInit => BusInv
      BY BusInitInv
<1>2. BusInv => InOrder
      BY DEF BusInv
<1> QED BY <1>1, <1>2, StepBusInv, PTL DEF BusSpec

-----------------------------------------------------------------------------
(* The breaker and the flow of the manager.                                *)

BreakerOK(b) ==
  /\ b \in [state : {"closed", "open", "half_open"},
            failures : 0..(FailureThreshold - 1),
            successes : 0..(SuccessThreshold - 1),
            probes : 0..HalfOpenMaxCalls, elapsed : BOOLEAN]
  /\ b.state # "closed" => b.failures = 0
  /\ b.state # "half_open" => b.successes = 0 /\ b.probes = 0

Calls == [at : Suspended, priority : Priorities] \cup {Idle}
CallsOK(c) == c \in [Producers -> Calls]

LEMMA BreakerFields ==
  ASSUME NEW state \in {"closed", "open", "half_open"}, NEW failures \in 0..(FailureThreshold - 1),
         NEW successes \in 0..(SuccessThreshold - 1), NEW probes \in 0..HalfOpenMaxCalls,
         NEW elapsed \in BOOLEAN,
         state # "closed" => failures = 0,
         state # "half_open" => successes = 0 /\ probes = 0
  PROVE  BreakerOK(Breaker(state, failures, successes, probes, elapsed))
BY DEF BreakerOK, Breaker

LEMMA FreshBreakers == BreakerOK(Closed) /\ BreakerOK(Open)
<1>1. 0 \in 0..(FailureThreshold - 1) /\ 0 \in 0..(SuccessThreshold - 1) /\ 0 \in 0..HalfOpenMaxCalls
      BY ManagerAssumption
<1>2. FALSE \in BOOLEAN
      OBVIOUS
<1> QED BY <1>1, <1>2, BreakerFields DEF Closed, Open

LEMMA BreakerSteps ==
  ASSUME NEW b, BreakerOK(b)
  PROVE  /\ BreakerOK(Checked(b))
         /\ Admits(b) => BreakerOK(Admitted(b))
         /\ BreakerOK(Succeeded(b))
         /\ BreakerOK(Failed(b))
         /\ b.state = "open" => BreakerOK([b EXCEPT !.elapsed = TRUE])
<1> USE ManagerAssumption
<1>0. /\ b.state \in {"closed", "open", "half_open"} /\ b.failures \in 0..(FailureThreshold - 1)
      /\ b.successes \in 0..(SuccessThreshold - 1) /\ b.probes \in 0..HalfOpenMaxCalls
      /\ b.elapsed \in BOOLEAN
      /\ b.state # "closed" => b.failures = 0
      /\ b.state # "half_open" => b.successes = 0 /\ b.probes = 0
      /\ b = [state |-> b.state, failures |-> b.failures, successes |-> b.successes,
              probes |-> b.probes, elapsed |-> b.elapsed]
      BY DEF BreakerOK
<1>1. BreakerOK(Checked(b))
      <2>1. CASE b.state = "open" /\ b.elapsed
            <3>1. /\ 0 \in 0..(FailureThreshold - 1) /\ 0 \in 0..HalfOpenMaxCalls
                  /\ "half_open" \in {"closed", "open", "half_open"} /\ FALSE \in BOOLEAN
                  OBVIOUS
            <3>2. BreakerOK(Breaker("half_open", 0, b.successes, 0, FALSE))
                  BY <1>0, <3>1, BreakerFields
            <3> QED BY <2>1, <3>2 DEF Checked
      <2>2. CASE ~(b.state = "open" /\ b.elapsed)
            BY <2>2 DEF Checked
      <2> QED BY <2>1, <2>2
<1>2. ASSUME b.state = "half_open", NEW n \in 0..HalfOpenMaxCalls
      PROVE  BreakerOK([b EXCEPT !.probes = n])
      BY <1>2 DEF BreakerOK
<1>3. ASSUME b.state = "half_open", NEW n \in 0..(SuccessThreshold - 1)
      PROVE  BreakerOK([b EXCEPT !.successes = n])
      BY <1>3 DEF BreakerOK
<1>4. ASSUME b.state = "closed", NEW n \in 0..(FailureThreshold - 1)
      PROVE  BreakerOK([b EXCEPT !.failures = n])
      BY <1>4 DEF BreakerOK
<1>5. Admits(b) => BreakerOK(Admitted(b))
      BY <1>0, <1>2 DEF Admits, Admitted
<1>6. BreakerOK(Succeeded(b))
      BY <1>0, <1>3, <1>4, FreshBreakers DEF Succeeded
<1>7. BreakerOK(Failed(b))
      BY <1>0, <1>4, FreshBreakers DEF Failed
<1>8. b.state = "open" => BreakerOK([b EXCEPT !.elapsed = TRUE])
      BY DEF BreakerOK
<1> QED BY <1>1, <1>5, <1>6, <1>7, <1>8

-----------------------------------------------------------------------------
(* The manager.                                                            *)

StopPlaces == {"none", "flushing", "closing", "stopping", "awaiting", "late"}

LifeOK ==
  /\ up \in BOOLEAN /\ shutdown \in BOOLEAN /\ hasty \in BOOLEAN
  /\ stopper \in StopPlaces
  /\ policy \in OverflowPolicies /\ mode \in Modes

\* Counts of the shutdown: while a bus.stop() runs, it is one of those to be made.
StopsOK ==
  /\ sets \in 0..MaxStarts /\ stops \in 0..MaxStarts /\ awaited \in 0..MaxStarts
  /\ stopper \in {"flushing", "closing"} => sets > 0
  /\ up => sets > 0
  /\ stopper \in {"stopping", "awaiting", "late"} => stops > 0
  /\ stopper # "none" => shutdown

FlowOK ==
  /\ paused \in BOOLEAN /\ depth \in 0..BufferSize
  /\ CallsOK(call) /\ BreakerOK(breaker)

\* Of an orderly owner: a stopped bus calls no subscriber any more, but while the
\* shutdown still waits for it, and then the loop it waits for is the last.
Handover ==
  /\ ~running /\ stopper # "awaiting" => Quiet(loop)
  /\ stopper = "awaiting" => ~running /\ awaited = loop

LEMMA AtFacts ==
  ASSUME NEW place \in Suspended, NEW priority \in Priorities
  PROVE  /\ At(place, priority) \in Calls
         /\ At(place, priority).at = place
         /\ At(place, priority) # Idle
BY DEF At, Idle, Suspended, Calls

LEMMA IdleFacts == Idle \in Calls /\ Idle.at = "idle" /\ Idle.priority = 0
BY DEF At, Idle, Calls

LEMMA CallFacts ==
  ASSUME CallsOK(call), NEW p \in Producers
  PROVE  /\ call[p] \in Calls
         /\ call[p].at = "idle" <=> call[p] = Idle
         /\ call[p].at \in Suspended => call[p].priority \in Priorities
BY IdleFacts DEF CallsOK, Calls, Suspended

LEMMA WokenFacts ==
  ASSUME CallsOK(call), NEW wake \in BOOLEAN
  PROVE  /\ CallsOK(Woken(wake))
         /\ \A p \in Producers : Woken(wake)[p].at = "paused" => ~wake /\ call[p].at = "paused"
         /\ \A p \in Producers : Woken(wake)[p] = Idle <=> call[p] = Idle
<1> SUFFICES ASSUME NEW p \in Producers
             PROVE  /\ Woken(wake)[p] \in Calls
                    /\ Woken(wake)[p].at = "paused" => ~wake /\ call[p].at = "paused"
                    /\ Woken(wake)[p] = Idle <=> call[p] = Idle
    BY DEF CallsOK, Woken
<1>1. CASE wake /\ call[p].at = "paused"
      <2>1. Woken(wake)[p] = At("throttled", call[p].priority)
            BY <1>1 DEF Woken
      <2>2. call[p].priority \in Priorities /\ call[p] # Idle
            BY <1>1, CallFacts, IdleFacts DEF Suspended
      <2> QED BY <2>1, <2>2, AtFacts DEF Suspended
<1>2. CASE ~(wake /\ call[p].at = "paused")
      BY <1>2, CallFacts DEF Woken
<1> QED BY <1>1, <1>2

\* Where a call that goes on leads to, whatever has become of the other calls.
LEMMA GoOnFacts ==
  ASSUME NEW p \in Producers, NEW calls, CallsOK(calls), NEW b, BreakerOK(b),
         NEW priority \in Priorities, depth \in 0..BufferSize,
         GoOn(p, calls, b, priority)
  PROVE  /\ depth' \in 0..BufferSize
         /\ \/ /\ call' = [calls EXCEPT ![p] = At("blocked", priority)]
               /\ breaker' = b
            \/ /\ call' = [calls EXCEPT ![p] = Idle]
               /\ breaker' \in {Succeeded(b), Failed(b)}
         /\ UNCHANGED busVars \/ Publish(priority)
BY ManagerAssumption DEF GoOn, BufferAndPublish

LEMMA StepFlow ==
  ASSUME LifeOK, FlowOK, [Next]_vars
  PROVE  FlowOK'
<1> USE ManagerAssumption DEF FlowOK
<1>1. ASSUME NEW p \in Producers, NEW calls, CallsOK(calls), NEW b, BreakerOK(b),
             NEW priority \in Priorities, GoOn(p, calls, b, priority)
      PROVE  depth' \in 0..BufferSize /\ CallsOK(call') /\ BreakerOK(breaker')
      <2>1. CallsOK([calls EXCEPT ![p] = At("blocked", priority)]) /\ CallsOK([calls EXCEPT ![p] = Idle])
            BY <1>1, AtFacts, IdleFacts DEF CallsOK, Suspended
      <2>2. BreakerOK(Succeeded(b)) /\ BreakerOK(Failed(b))
            BY <1>1, BreakerSteps
      <2>3. /\ depth' \in 0..BufferSize
            /\ \/ /\ call' = [calls EXCEPT ![p] = At("blocked", priority)]
                  /\ breaker' = b
               \/ /\ call' = [calls EXCEPT ![p] = Idle]
                  /\ breaker' \in {Succeeded(b), Failed(b)}
            BY <1>1, GoOnFacts
      <2> QED BY <1>1, <2>1, <2>2, <2>3
<1>2. ASSUME NEW p \in Producers, NEW priority \in Priorities, Offer(p, priority) PROVE FlowOK'
      <2> DEFINE b == Admitted(Checked(breaker))
                 calls == Woken(paused /\ ~PausedNow)
      <2>1. paused' = PausedNow /\ PausedNow \in BOOLEAN
            BY <1>2, Zenon DEF Offer, PausedNow, Pauses, Resumes
      <2>2. (paused /\ ~PausedNow) \in BOOLEAN
            BY Zenon
      <2>3. BreakerOK(b)
            BY <1>2, BreakerSteps DEF Offer
      <2>4. CallsOK(calls)
            BY <2>2, WokenFacts
      <2>5. \/ \E place \in {"paused", "throttled"} :
                 /\ call' = [calls EXCEPT ![p] = At(place, priority)]
                 /\ breaker' = b
                 /\ depth' = depth
            \/ GoOn(p, calls, b, priority)
            BY <1>2 DEF Offer
      <2> HIDE DEF b, calls
      <2>6. CASE GoOn(p, calls, b, priority)
            BY <1>1, <2>1, <2>3, <2>4, <2>6
      <2>7. ASSUME NEW place \in {"paused", "throttled"},
                   call' = [calls EXCEPT ![p] = At(place, priority)], breaker' = b, depth' = depth
            PROVE  FlowOK'
            <3>1. CallsOK(call')
                  BY <2>4, <2>7, AtFacts DEF CallsOK, Suspended
            <3> QED BY <2>1, <2>3, <2>7, <3>1
      <2> QED BY <2>5, <2>6, <2>7
<1>3. ASSUME NEW p \in Producers, ProducerStep(p) PROVE FlowOK'
      <2>1. paused' = paused /\ call[p].priority \in Priorities
            BY <1>3, CallFacts DEF ProducerStep, Throttled, Unblock, Abandon, Suspended
      <2>2. CASE Throttled(p)
            <3>1. GoOn(p, call, breaker, call[p].priority)
                  BY <2>2 DEF Throttled
            <3> QED BY <1>1, <2>1, <3>1
      <2>3. CASE Unblock(p)
            <3>1. GoOn(p, call, breaker, call[p].priority)
                  BY <2>3 DEF Unblock, GoOn
            <3> QED BY <1>1, <2>1, <3>1
      <2>4. CASE Abandon(p)
            <3>1. CallsOK([call EXCEPT ![p] = Idle])
                  BY IdleFacts DEF CallsOK
            <3> QED BY <2>1, <2>4, <3>1, BreakerSteps DEF Abandon
      <2> QED BY <1>3, <2>2, <2>3, <2>4 DEF ProducerStep
<1>4. CASE Look \/ TimePasses
      <2>1. CASE Look
            BY <2>1, BreakerSteps DEF Look
      <2>2. CASE TimePasses
            BY <2>2, BreakerSteps DEF TimePasses
      <2> QED BY <1>4, <2>1, <2>2
<1>5. CASE ByHand
      <2>1. ASSUME NEW state, ForceBreaker(state) PROVE FlowOK'
            <3>1. breaker' \in {Open, Closed} /\ UNCHANGED <<paused, depth, call>>
                  BY <2>1 DEF ForceBreaker
            <3> QED BY <3>1, FreshBreakers
      <2>2. CASE PauseByHand
            <3>1. paused' = TRUE /\ UNCHANGED <<depth, call, breaker>>
                  BY <2>2 DEF PauseByHand
            <3> QED BY <3>1
      <2>3. CASE ResumeByHand
            <3>1. paused' = FALSE /\ call' = Woken(TRUE) /\ UNCHANGED <<depth, breaker>>
                  BY <2>3 DEF ResumeByHand
            <3>2. CallsOK(call')
                  BY <3>1, WokenFacts
            <3> QED BY <3>1, <3>2
      <2> QED BY <1>5, <2>1, <2>2, <2>3 DEF ByHand
<1>6. CASE Consume \/ Start \/ Stop \/ StopStep
      BY <1>6 DEF Consume, Start, Stop, StopStep, Flush, Close, StopBus, StopReturns, StopTimesOut, rest
<1>7. CASE BusStep \/ UNCHANGED vars \/ \E priority \in Priorities : PublishDirectly(priority)
      BY <1>7 DEF BusStep, vars, PublishDirectly
<1> QED BY <1>2, <1>3, <1>4, <1>5, <1>6, <1>7 DEF Next

LEMMA StepLife == LifeOK /\ [Next]_vars => LifeOK'
<1> SUFFICES ASSUME LifeOK, [Next]_vars PROVE LifeOK'
    OBVIOUS
<1> USE DEF LifeOK
<1>1. CASE UNCHANGED lifeVars
      BY <1>1, Zenon DEF lifeVars, stopVars
<1>2. CASE Start
      <2>1. UNCHANGED <<shutdown, stopper, policy, mode>> /\ up' = TRUE /\ hasty' = (hasty \/ stopper # "none")
            BY <1>2, Zenon DEF Start, rest
      <2> QED BY <2>1, Zenon
<1>3. CASE Stop
      <2>1. UNCHANGED <<hasty, policy, mode>> /\ up' = FALSE /\ shutdown' = TRUE
            BY <1>3, Zenon DEF Stop, rest
      <2>2. stopper' \in StopPlaces
            BY <1>3 DEF Stop, StopPlaces
      <2> QED BY <2>1, <2>2, Zenon
<1>4. CASE StopStep
      <2>1. UNCHANGED <<up, shutdown, hasty, policy, mode>>
            BY <1>4, Zenon DEF StopStep, Flush, Close, StopBus, StopReturns, StopTimesOut, rest
      <2>2. stopper' \in StopPlaces
            BY <1>4 DEF StopStep, Flush, Close, StopBus, StopReturns, StopTimesOut, StopPlaces
      <2> QED BY <2>1, <2>2, Zenon
<1>5. ASSUME NEW p \in Producers, ProducerStep(p) \/ \E priority \in Priorities : Offer(p, priority)
      PROVE  UNCHANGED lifeVars
      BY <1>5 DEF Offer, ProducerStep, Throttled, Unblock, Abandon
<1>6. CASE Look \/ TimePasses \/ Consume \/ ByHand
      <2>1. UNCHANGED lifeVars
            BY <1>6 DEF Look, TimePasses, Consume, ByHand, ForceBreaker, PauseByHand, ResumeByHand
      <2> QED BY <1>1, <2>1
<1>7. CASE BusStep \/ UNCHANGED vars \/ \E priority \in Priorities : PublishDirectly(priority)
      <2>1. UNCHANGED lifeVars
            BY <1>7 DEF BusStep, PublishDirectly, vars
      <2> QED BY <1>1, <2>1
<1> QED BY <1>1, <1>2, <1>3, <1>4, <1>5, <1>6, <1>7 DEF Next

LEMMA StepStops ==
  ASSUME BusTypes, LifeOK, StopsOK, [Next]_vars
  PROVE  StopsOK'
<1> USE ManagerAssumption, BusAssumption DEF StopsOK
<1>1. CASE UNCHANGED lifeVars
      BY <1>1 DEF lifeVars, stopVars
<1>2. CASE Start
      BY <1>2 DEF Start
<1>3. CASE Stop
      BY <1>3 DEF Stop
<1>4. CASE StopStep
      <2>1. CASE StopBus
            <3>1. awaited' \in 0..MaxStarts
                  BY <2>1 DEF StopBus, BusTypes
            <3> QED BY <2>1, <3>1 DEF StopBus
      <2>2. CASE Flush \/ Close \/ StopReturns \/ StopTimesOut
            BY <2>2 DEF Flush, Close, StopReturns, StopTimesOut
      <2> QED BY <1>4, <2>1, <2>2 DEF StopStep
<1>5. ASSUME NEW p \in Producers, ProducerStep(p) \/ \E priority \in Priorities : Offer(p, priority)
      PROVE  UNCHANGED lifeVars
      BY <1>5 DEF Offer, ProducerStep, Throttled, Unblock, Abandon
<1>6. CASE Look \/ TimePasses \/ Consume \/ ByHand
      <2>1. UNCHANGED lifeVars
            BY <1>6 DEF Look, TimePasses, Consume, ByHand, ForceBreaker, PauseByHand, ResumeByHand
      <2> QED BY <1>1, <2>1
<1>7. CASE BusStep \/ UNCHANGED vars \/ \E priority \in Priorities : PublishDirectly(priority)
      <2>1. UNCHANGED lifeVars
            BY <1>7 DEF BusStep, PublishDirectly, vars
      <2> QED BY <1>1, <2>1
<1> QED BY <1>1, <1>2, <1>3, <1>4, <1>5, <1>6, <1>7 DEF Next

\* A step of the manager that is neither a start nor a time-out of a stop does to
\* the bus what an orderly owner may do, or leaves it alone.
LEMMA MostStepsOfBus ==
  ASSUME FlowOK, [Next]_vars, ~Start, ~StopTimesOut
  PROVE  [BusNext]_busVars
<1>1. ASSUME NEW p \in Producers, NEW calls, NEW b, NEW priority, priority \in Priorities,
             GoOn(p, calls, b, priority)
      PROVE  [BusNext]_busVars
      BY <1>1 DEF GoOn, BufferAndPublish, BusNext
<1>2. ASSUME NEW p \in Producers, NEW priority \in Priorities, Offer(p, priority)
      PROVE  [BusNext]_busVars
      BY <1>1, <1>2 DEF Offer
<1>3. ASSUME NEW p \in Producers, ProducerStep(p) PROVE [BusNext]_busVars
      <2>1. call[p].priority \in Priorities
            BY <1>3, CallFacts DEF ProducerStep, Throttled, Unblock, Abandon, FlowOK, Suspended
      <2>2. CASE Throttled(p)
            BY <1>1, <2>1, <2>2 DEF Throttled
      <2>3. CASE Unblock(p)
            BY <2>1, <2>3 DEF Unblock, BufferAndPublish, BusNext
      <2>4. CASE Abandon(p)
            BY <2>4 DEF Abandon
      <2> QED BY <1>3, <2>2, <2>3, <2>4 DEF ProducerStep
<1>4. CASE Look \/ TimePasses \/ Consume \/ ByHand \/ Stop
      BY <1>4 DEF Look, TimePasses, Consume, ByHand, ForceBreaker, PauseByHand, ResumeByHand, Stop
<1>5. CASE StopStep
      BY <1>5 DEF StopStep, Flush, Close, StopBus, StopReturns, BusNext
<1>6. CASE BusStep
      BY <1>6 DEF BusStep, BusNext
<1>7. ASSUME NEW priority \in Priorities, PublishDirectly(priority) PROVE [BusNext]_busVars
      BY <1>7 DEF PublishDirectly, BusNext
<1>8. CASE UNCHANGED vars
      BY <1>8 DEF vars, busVars
<1> QED BY <1>2, <1>3, <1>4, <1>5, <1>6, <1>7, <1>8 DEF Next

\* A time-out of a stop cancels the loop that is awaited, once more.
LEMMA TimeOutFacts ==
  ASSUME BusTypes, StopsOK, StopTimesOut
  PROVE  /\ awaited \in Loops
         /\ phase' = [w \in Loops |-> IF w = awaited THEN Cancelled(phase[w]) ELSE phase[w]]
         /\ UNCHANGED <<running, queue, sequence, subs, dead, loop, item, todo, seen>>
<1>1. awaited # 0 /\ phase' = [phase EXCEPT ![awaited] = Cancelled(@)]
      BY DEF StopTimesOut, Over
<1>2. awaited \in Loops /\ phase \in [Loops -> Phases]
      BY <1>1, BusAssumption DEF StopsOK, BusTypes, Loops
<1> QED BY <1>1, <1>2 DEF StopTimesOut

\* Whatever the owner does, what the bus holds keeps its types and capacities.
LEMMA StepHeld ==
  ASSUME BusTypes, DeadOK, QueueOK, FlowOK, StopsOK, [Next]_vars
  PROVE  BusTypes' /\ DeadOK' /\ QueueOK'
<1>1. CASE StopTimesOut
      <2>1. /\ awaited \in Loops
            /\ phase' = [w \in Loops |-> IF w = awaited THEN Cancelled(phase[w]) ELSE phase[w]]
            /\ UNCHANGED <<running, queue, sequence, subs, dead, loop, item, todo, seen>>
            BY <1>1, TimeOutFacts
      <2>2. \A w \in Loops : phase'[w] \in Phases
            BY <2>1 DEF BusTypes, Cancelled, Phases
      <2>3. phase' \in [Loops -> Phases]
            BY <2>1, <2>2
      <2>4. \A w \in Loops : /\ phase'[w] \in {"taken", "calling"} => item'[w] \in Events
                             /\ phase'[w] = "calling" => todo'[w] # <<>>
            BY <2>1 DEF BusTypes, Cancelled
      <2>5. BusTypes'
            BY <2>1, <2>3, <2>4 DEF BusTypes
      <2> QED BY <2>1, <2>5 DEF DeadOK, QueueOK
<1>2. CASE ~StopTimesOut
      <2>1. [AnyBusNext]_busVars
            BY <1>2, MostStepsOfBus DEF Start, AnyBusNext
      <2> QED BY <2>1, StepBusTypes, StepDead, StepQueue
<1> QED BY <1>1, <1>2

\* Of an orderly owner every step is one of the bus, or leaves the bus alone.
LEMMA StepOfBus ==
  ASSUME BusTypes, StopsOK, FlowOK, Handover, [Next]_vars, ~hasty'
  PROVE  [BusNext]_busVars
<1>1. CASE Start
      <2>1. CASE running
            BY <1>1, <2>1 DEF Start, BusStart
      <2>2. CASE ~running
            BY <1>1, <2>2 DEF Start, Handover, BusNext
      <2> QED BY <2>1, <2>2
<1>2. CASE StopTimesOut
      <2>1. ~running /\ awaited = loop
            BY <1>2 DEF StopTimesOut, Handover
      <2>2. running' = FALSE
            <3>1. running' = running
                  BY <1>2 DEF StopTimesOut
            <3>2. running \in BOOLEAN
                  BY DEF BusTypes
            <3> QED BY <2>1, <3>1, <3>2, Zenon
      <2>3. BusStop
            BY <1>2, <2>1, <2>2, TimeOutFacts DEF BusStop
      <2> QED BY <2>3 DEF BusNext
<1> QED BY <1>1, <1>2, MostStepsOfBus

LEMMA HastyStays == LifeOK /\ [Next]_vars /\ ~hasty' => ~hasty
<1> SUFFICES ASSUME LifeOK, [Next]_vars, hasty PROVE hasty'
    BY Zenon
<1>1. CASE UNCHANGED hasty
      BY <1>1, Zenon
<1>2. CASE Start
      BY <1>2, Zenon DEF Start
<1>3. CASE Stop \/ StopStep
      BY <1>1, <1>3, Zenon DEF Stop, StopStep, Flush, Close, StopBus, StopReturns, StopTimesOut
<1>4. ASSUME UNCHANGED lifeVars PROVE hasty'
      BY <1>1, <1>4, Zenon DEF lifeVars, stopVars
<1>5. ASSUME NEW p \in Producers, ProducerStep(p) \/ \E priority \in Priorities : Offer(p, priority)
      PROVE  hasty'
      BY <1>4, <1>5 DEF Offer, ProducerStep, Throttled, Unblock, Abandon
<1>6. CASE Look \/ TimePasses \/ Consume \/ ByHand
      BY <1>4, <1>6 DEF Look, TimePasses, Consume, ByHand, ForceBreaker, PauseByHand, ResumeByHand
<1>7. CASE BusStep \/ UNCHANGED vars \/ \E priority \in Priorities : PublishDirectly(priority)
      BY <1>4, <1>7 DEF BusStep, PublishDirectly, vars
<1> QED BY <1>2, <1>3, <1>5, <1>6, <1>7 DEF Next

LEMMA StepHandover ==
  ASSUME BusInv, LifeOK, StopsOK, Handover, [Next]_vars, ~hasty'
  PROVE  Handover'
<1>0. BusTypes
      BY DEF BusInv
<1>1. CASE UNCHANGED <<running, stopper, awaited, loop, phase>>
      BY <1>1 DEF Handover, Quiet
<1>2. CASE UNCHANGED <<running, stopper, awaited, loop>> /\ \E w \in Loops : LoopStep(w)
      <2>0. stopper' = "awaiting" => ~running' /\ awaited' = loop'
            BY <1>2 DEF Handover
      <2>1. PICK w \in Loops : LoopStep(w)
            BY <1>2
      <2>2. CASE w # loop
            <3>1. phase'[loop] = phase[loop] \/ loop = 0
                  <4>1. loop \in Loops \/ loop = 0
                        BY DEF BusInv, BusTypes, Loops
                  <4>2. \E p : phase' = [phase EXCEPT ![w] = p]
                        BY <2>1 DEF LoopStep, Take, Deliver, CallbackReturns,
                           CallbackRaises, CallbackCancelled, CallOn
                  <4> QED BY <2>2, <4>1, <4>2 DEF BusInv, BusTypes
            <3> QED BY <1>2, <2>0, <3>1 DEF Handover, Quiet
      <2>3. CASE w = loop /\ Quiet(loop)
            <3>1. CallbackCancelled(w)
                  BY <2>1, <2>3 DEF LoopStep, Take, Deliver, CallbackReturns,
                     CallbackRaises, Quiet, Loops
            <3>2. phase \in [Loops -> Phases] /\ phase' = [phase EXCEPT ![w] = "over"]
                  BY <3>1 DEF CallbackCancelled, BusInv, BusTypes
            <3>3. phase'[loop'] = "over"
                  BY <1>2, <2>3, <3>2
            <3> QED BY <2>0, <3>3 DEF Handover, Quiet
      <2>4. CASE ~Quiet(loop)
            BY <1>2, <2>0, <2>4 DEF Handover
      <2> QED BY <2>2, <2>3, <2>4
<1>3. CASE Start
      <2>0. stopper = "none" /\ stopper' = "none"
            BY <1>3 DEF Start
      <2>1. CASE running
            BY <1>1, <1>3, <2>1 DEF Start, BusStart, busVars
      <2>2. CASE ~running
            BY <1>3, <2>0, <2>2 DEF Start, BusStart, Handover
      <2> QED BY <2>1, <2>2
<1>4. CASE Stop
      <2>1. UNCHANGED <<running, awaited, loop, phase>>
            BY <1>4 DEF Stop, busVars
      <2>2. UNCHANGED stopper \/ (stopper' = "flushing" /\ ~shutdown)
            BY <1>4 DEF Stop
      <2>3. CASE UNCHANGED stopper
            BY <1>1, <2>1, <2>3
      <2>4. CASE stopper' = "flushing" /\ stopper # "awaiting"
            BY <2>1, <2>4 DEF Handover, Quiet
      <2>5. CASE ~shutdown
            BY <2>1, <2>2, <2>3, <2>4, <2>5 DEF StopsOK
      <2> QED BY <2>2, <2>3, <2>5
<1>5. CASE StopStep
      <2>1. CASE Flush \/ Close
            BY <2>1 DEF Flush, Close, Handover, Quiet, busVars
      <2>2. CASE StopBus
            <3>1. running' = FALSE /\ awaited' = loop' /\ stopper' = "awaiting"
                  BY <2>2 DEF StopBus, BusStop
            <3> QED BY <3>1 DEF Handover
      <2>3. CASE StopReturns
            <3>1. stopper' # "awaiting" /\ UNCHANGED <<running, loop, phase>>
                  BY <2>3 DEF StopReturns, busVars
            <3>2. CASE stopper = "awaiting"
                  BY <2>3, <3>1, <3>2 DEF StopReturns, Over, Handover, Quiet
            <3>3. CASE stopper = "late"
                  BY <3>1, <3>3 DEF Handover, Quiet
            <3> QED BY <2>3, <3>2, <3>3 DEF StopReturns
      <2>4. CASE StopTimesOut
            <3>1. awaited \in Loops /\ awaited = loop /\ stopper' = "late" /\ loop' = loop
                  BY <1>0, <2>4, TimeOutFacts DEF StopTimesOut, Handover
            <3>2. phase[loop] \notin {"taken", "over"} /\ phase'[loop] = Cancelled(phase[loop])
                  BY <1>0, <2>4, <3>1, TimeOutFacts DEF StopTimesOut, Over
            <3>3. phase[loop] \in Phases /\ phase[loop] # "unborn"
                  BY <3>1 DEF BusInv, BusTypes, OneLoop
            <3>4. phase'[loop'] \in {"cancelled", "over"}
                  BY <3>1, <3>2, <3>3 DEF Cancelled, Phases
            <3> QED BY <3>1, <3>4 DEF Handover, Quiet
      <2> QED BY <1>5, <2>1, <2>2, <2>3, <2>4 DEF StopStep
<1>6. ASSUME NEW priority, Publish(priority), UNCHANGED <<stopper, awaited>> PROVE Handover'
      BY <1>1, <1>6 DEF Publish, Enqueue
<1>7. ASSUME NEW p \in Producers, NEW calls, NEW b, NEW priority, GoOn(p, calls, b, priority),
             UNCHANGED <<stopper, awaited>>
      PROVE  Handover'
      BY <1>1, <1>6, <1>7 DEF GoOn, BufferAndPublish, busVars
<1>8. ASSUME NEW p \in Producers, NEW priority \in Priorities, Offer(p, priority) PROVE Handover'
      BY <1>1, <1>7, <1>8 DEF Offer, busVars, lifeVars, stopVars
<1>9. ASSUME NEW p \in Producers, ProducerStep(p) PROVE Handover'
      <2>1. CASE Throttled(p)
            BY <1>7, <2>1 DEF Throttled, lifeVars, stopVars
      <2>2. CASE Unblock(p)
            BY <1>1, <1>6, <2>2 DEF Unblock, BufferAndPublish, lifeVars, stopVars, busVars
      <2>3. CASE Abandon(p)
            BY <1>1, <2>3 DEF Abandon, lifeVars, stopVars, busVars
      <2> QED BY <1>9, <2>1, <2>2, <2>3 DEF ProducerStep
<1>10. CASE Look \/ TimePasses \/ Consume \/ ByHand \/ UNCHANGED vars
       BY <1>1, <1>10 DEF Look, TimePasses, Consume, ByHand, ForceBreaker, PauseByHand, ResumeByHand,
          vars, lifeVars, stopVars, busVars
<1>11. CASE BusStep
       <2>1. CASE \E w \in Loops : LoopStep(w)
             <3>1. UNCHANGED <<running, stopper, awaited, loop>>
                   BY <1>11, <2>1 DEF BusStep, lifeVars, stopVars, LoopStep, Take, Deliver,
                      CallbackReturns, CallbackRaises, CallbackCancelled
             <3> QED BY <1>2, <2>1, <3>1
       <2>2. CASE CollectDead \/ \E s \in Subscribers : Subscribe(s) \/ Unsubscribe(s)
             BY <1>1, <1>11, <2>2 DEF BusStep, lifeVars, stopVars, CollectDead, Subscribe, Unsubscribe
       <2> QED BY <1>11, <2>1, <2>2 DEF BusStep
<1>12. ASSUME NEW priority \in Priorities, PublishDirectly(priority) PROVE Handover'
       BY <1>6, <1>12 DEF PublishDirectly, lifeVars, stopVars
<1> QED BY <1>3, <1>4, <1>5, <1>8, <1>9, <1>10, <1>11, <1>12 DEF Next

\* A producer that waits, waits for a flow that is paused: no wake-up is lost.
LEMMA StepWaiters ==
  ASSUME LifeOK, FlowOK, WaitersArePaused, [Next]_vars
  PROVE  WaitersArePaused'
<1>1. CASE UNCHANGED <<call, paused>>
      BY <1>1 DEF WaitersArePaused
<1>2. ASSUME NEW p \in Producers, NEW calls, CallsOK(calls), NEW b, BreakerOK(b),
             NEW priority \in Priorities, GoOn(p, calls, b, priority),
             \A q \in Producers : calls[q].at = "paused" => paused'
      PROVE  WaitersArePaused'
      <2>1. \E place \in Calls :
              place.at # "paused" /\ call' = [calls EXCEPT ![p] = place]
            <3>1. /\ At("blocked", priority) \in Calls /\ At("blocked", priority).at = "blocked"
                  /\ Idle \in Calls /\ Idle.at = "idle"
                  BY AtFacts, IdleFacts DEF Suspended
            <3>2. \/ call' = [calls EXCEPT ![p] = At("blocked", priority)]
                  \/ call' = [calls EXCEPT ![p] = Idle]
                  BY <1>2 DEF GoOn, BufferAndPublish
            <3> QED BY <3>1, <3>2
      <2> QED BY <1>2, <2>1 DEF WaitersArePaused, CallsOK
<1>3. ASSUME NEW p \in Producers, NEW priority \in Priorities, Offer(p, priority)
      PROVE  WaitersArePaused'
      <2> DEFINE b == Admitted(Checked(breaker))
                 calls == Woken(paused /\ ~PausedNow)
      <2>1. /\ (paused /\ ~PausedNow) \in BOOLEAN /\ paused' = PausedNow
            /\ paused \in BOOLEAN /\ PausedNow \in BOOLEAN
            BY <1>3, Zenon DEF Offer, PausedNow, Pauses, Resumes, FlowOK
      <2>2. BreakerOK(b) /\ CallsOK(calls)
            BY <1>3, <2>1, WokenFacts, BreakerSteps DEF Offer, FlowOK
      <2>3. ASSUME NEW q \in Producers, calls[q].at = "paused" PROVE paused'
            <3>1. ~(paused /\ ~PausedNow) /\ call[q].at = "paused"
                  BY <2>1, <2>3, WokenFacts DEF FlowOK
            <3> QED BY <2>1, <3>1 DEF WaitersArePaused
      <2>4. \/ PausedNow /\ call' = [calls EXCEPT ![p] = At("paused", priority)]
            \/ call' = [calls EXCEPT ![p] = At("throttled", priority)]
            \/ GoOn(p, calls, b, priority)
            BY <1>3 DEF Offer
      <2> HIDE DEF b, calls
      <2>5. CASE PausedNow /\ call' = [calls EXCEPT ![p] = At("paused", priority)]
            BY <2>1, <2>5 DEF WaitersArePaused
      <2>6. CASE call' = [calls EXCEPT ![p] = At("throttled", priority)]
            <3>1. At("throttled", priority).at = "throttled"
                  BY AtFacts DEF Suspended
            <3> QED BY <2>2, <2>3, <2>6, <3>1 DEF WaitersArePaused, CallsOK
      <2>7. CASE GoOn(p, calls, b, priority)
            BY <1>2, <2>2, <2>3, <2>7
      <2> QED BY <2>4, <2>5, <2>6, <2>7
<1>4. ASSUME NEW p \in Producers, ProducerStep(p) PROVE WaitersArePaused'
      <2>1. paused' = paused /\ call[p].priority \in Priorities
            BY <1>4, CallFacts DEF ProducerStep, Throttled, Unblock, Abandon, Suspended, FlowOK
      <2>2. CASE Throttled(p) \/ Unblock(p)
            <3>1. GoOn(p, call, breaker, call[p].priority)
                  BY <2>2, ManagerAssumption DEF Throttled, Unblock, GoOn, FlowOK
            <3>2. \A q \in Producers : call[q].at = "paused" => paused'
                  BY <2>1 DEF WaitersArePaused
            <3> QED BY <1>2, <2>1, <3>1, <3>2 DEF FlowOK
      <2>3. CASE Abandon(p)
            <3>1. call' = [call EXCEPT ![p] = Idle] /\ Idle.at = "idle"
                  BY <2>3, IdleFacts DEF Abandon
            <3> QED BY <2>1, <3>1 DEF WaitersArePaused, FlowOK, CallsOK
      <2> QED BY <1>4, <2>2, <2>3 DEF ProducerStep
<1>5. CASE ByHand
      <2>1. CASE PauseByHand
            BY <2>1 DEF PauseByHand, WaitersArePaused
      <2>2. CASE ResumeByHand
            <3>1. call' = Woken(TRUE)
                  BY <2>2 DEF ResumeByHand
            <3> QED BY <3>1, WokenFacts DEF WaitersArePaused, FlowOK
      <2>3. ASSUME NEW state, ForceBreaker(state) PROVE WaitersArePaused'
            BY <1>1, <2>3 DEF ForceBreaker
      <2> QED BY <1>5, <2>1, <2>2, <2>3 DEF ByHand
<1>6. CASE Look \/ TimePasses \/ Consume \/ UNCHANGED vars
      BY <1>1, <1>6 DEF Look, TimePasses, Consume, vars
<1>7. CASE Start \/ Stop \/ StopStep
      BY <1>1, <1>7 DEF Start, Stop, StopStep, Flush, Close, StopBus, StopReturns, StopTimesOut, rest
<1>8. CASE BusStep \/ \E priority \in Priorities : PublishDirectly(priority)
      BY <1>1, <1>8 DEF BusStep, PublishDirectly
<1> QED BY <1>3, <1>4, <1>5, <1>6, <1>7, <1>8 DEF Next

ManagerInv ==
  /\ BusTypes /\ DeadOK /\ QueueOK
  /\ LifeOK /\ StopsOK /\ FlowOK /\ WaitersArePaused
  /\ ~hasty => BusInv /\ Handover

LEMMA InitManagerInv == Init => ManagerInv
<1> SUFFICES ASSUME Init PROVE ManagerInv
    OBVIOUS
<1> USE ManagerAssumption
<1>1. BusInv /\ BusTypes /\ DeadOK /\ QueueOK
      BY BusInitInv DEF Init, BusInv
<1>2. LifeOK
      <2>1. stopper \in StopPlaces
            BY DEF Init, StopPlaces
      <2> QED BY <2>1, Zenon DEF Init, LifeOK
<1>3. FlowOK
      <2>1. paused \in BOOLEAN
            BY Zenon DEF Init
      <2>2. depth \in 0..BufferSize
            BY DEF Init
      <2>3. CallsOK(call)
            BY IdleFacts DEF Init, CallsOK
      <2>4. BreakerOK(breaker)
            BY FreshBreakers DEF Init
      <2> QED BY <2>1, <2>2, <2>3, <2>4 DEF FlowOK
<1>4. Handover
      BY DEF Init, BusInit, Handover, Quiet
<1>5. WaitersArePaused
      BY IdleFacts DEF Init, WaitersArePaused
<1>6. StopsOK
      BY BusAssumption DEF Init, StopsOK
<1> QED BY <1>1, <1>2, <1>3, <1>4, <1>5, <1>6 DEF ManagerInv

LEMMA StepManagerInv == ManagerInv /\ [Next]_vars => ManagerInv'
<1> SUFFICES ASSUME ManagerInv, [Next]_vars PROVE ManagerInv'
    OBVIOUS
<1> USE DEF ManagerInv
<1>1. BusTypes' /\ DeadOK' /\ QueueOK'
      BY StepHeld
<1>2. LifeOK' /\ StopsOK' /\ FlowOK' /\ WaitersArePaused'
      BY StepLife, StepStops, StepFlow, StepWaiters
<1>3. ASSUME ~hasty' PROVE BusInv' /\ Handover'
      <2>1. BusInv /\ Handover
            BY <1>3, HastyStays
      <2>2. [BusNext]_busVars
            BY <1>3, <2>1, StepOfBus
      <2> QED BY <1>3, <2>1, <2>2, StepBusInv, StepHandover
<1> QED BY <1>1, <1>2, <1>3

\* As long as no start comes in the middle of a shutdown, the manager uses its bus
\* as an orderly owner does: above all it never starts it while the old delivery
\* loop may still call a subscriber.
THEOREM ManagerImplementsBus == Spec => OrderlyBus
<1>1. Init => BusInit
      BY DEF Init
<1>2. ManagerInv /\ [Next]_vars => [hasty' \/ BusNext]_busVars
      <2> SUFFICES ASSUME ManagerInv, [Next]_vars, ~hasty' PROVE [BusNext]_busVars
          OBVIOUS
      <2>1. ~hasty
            BY HastyStays DEF ManagerInv
      <2> QED BY <2>1, StepOfBus DEF ManagerInv
<1> QED BY <1>1, <1>2, InitManagerInv, StepManagerInv, PTL DEF Spec, OrderlyBus

\* No wake-up of a paused producer is lost, under any policy and mode.
THEOREM NoLostWakeUp == Spec => []WaitersArePaused
<1>1. ManagerInv => WaitersArePaused
      BY DEF ManagerInv
<1> QED BY <1>1, InitManagerInv, StepManagerInv, PTL DEF Spec

\* Types of the layer: queues, letters and buffer keep to their capacities, the
\* breaker to its thresholds.
THEOREM TypeCorrect == Spec => []TypeOK
<1>1. ManagerInv => BusTypeOK
      BY Zenon DEF ManagerInv, BusTypes, DeadOK, QueueOK, BusTypeOK
<1>2. ASSUME CallsOK(call)
      PROVE  call \in [Producers -> [at : Suspended \cup {"idle"}, priority : Priorities \cup {0}]]
      <2>1. Calls \subseteq [at : Suspended \cup {"idle"}, priority : Priorities \cup {0}]
            BY DEF Calls, Idle, At
      <2> QED BY <1>2, <2>1 DEF CallsOK
<1>3. ManagerInv => TypeOK
      BY <1>1, <1>2, Zenon DEF ManagerInv, LifeOK, StopPlaces, StopsOK, FlowOK, BreakerOK, TypeOK
<1> QED BY <1>3, InitManagerInv, StepManagerInv, PTL DEF Spec

\* As long as no start comes in the middle of a shutdown, the manager delivers per
\* priority in the order of publication, and nothing twice.
THEOREM ManagerDeliversInOrder == Spec => [](hasty \/ InOrder)
<1>1. ManagerInv => hasty \/ InOrder
      BY DEF ManagerInv, BusInv
<1> QED BY <1>1, InitManagerInv, StepManagerInv, PTL DEF Spec
=============================================================================
