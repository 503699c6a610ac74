----------------------------- MODULE StreamBus ------------------------------
(***************************************************************************)
(* The event bus of the streaming layer: InMemoryPriorityBus and the       *)
(* PriorityQueue under it, libraries/infrastructure/event_stream.          *)
(*                                                                         *)
(* One delivery loop takes the most urgent event and calls the subscribers *)
(* one after the other, suspended wherever a callback suspends.  A stop    *)
(* clears the flag the loop looks at, cancels the loop and awaits it.  The *)
(* loop takes its events through asyncio.wait_for, which (in the Python    *)
(* 3.11 of the images) runs the take in a task of its own and, when it is  *)
(* cancelled after that task is done, returns the event and forgets the    *)
(* cancellation.                                                           *)
(***************************************************************************)
EXTENDS Integers, Sequences, FiniteSets, Functions

CONSTANTS
  Subscribers,
  Raising,      \* those subscribed without the StreamSubscriber that contains errors
  Priorities,   \* 0 is the most urgent
  MaxQueue,     \* max_queue_size, 0 for an unbounded queue
  MaxDead,      \* max_dead_letter
  MaxEvents,    \* bound: events put into the queue
  MaxStarts     \* bound: delivery loops ever started

ASSUME BusAssumption ==
  /\ Raising \subseteq Subscribers
  /\ Priorities \subseteq Nat
  /\ MaxQueue \in Nat /\ MaxDead \in Nat \ {0}
  /\ MaxEvents \in Nat /\ MaxStarts \in Nat

Events == [priority : Priorities, sequence : 1..MaxEvents]
Loops == 1..MaxStarts
Phases == {"unborn", "waiting", "taken", "calling", "cancelled", "over"}

VARIABLES
  running,   \* _running
  queue,     \* the heap: the events waiting
  sequence,  \* _sequence
  subs,      \* _subscriptions, of the one type all events here have
  dead,      \* _dead_letter
  loop,      \* _worker_task: the last of the loops started, 0 before the first
  phase,     \* per loop: where it is suspended
  item,      \* per loop: the event it took last
  todo,      \* per loop: the subscribers left for that event, the head being called
  seen       \* per subscriber: the events it was called with, call by call

busVars == <<running, queue, sequence, subs, dead, loop, phase, item, todo, seen>>

BusInit ==
  /\ running = FALSE
  /\ queue = {} /\ sequence = 0
  /\ subs = <<>>
  /\ dead = <<>>
  /\ loop = 0
  /\ phase = [w \in Loops |-> "unborn"]
  /\ item = [w \in Loops |-> <<>>]
  /\ todo = [w \in Loops |-> <<>>]
  /\ seen = [s \in Subscribers |-> <<>>]

\* Mutant: among events of one priority the heap has no order.
PrecedesByPriority(e, f) == e.priority < f.priority

\* PriorityQueueItem.__lt__
Precedes(e, f) ==
  \/ e.priority < f.priority
  \/ e.priority = f.priority /\ e.sequence < f.sequence

-----------------------------------------------------------------------------
(* Publishing.                                                             *)

\* Mutant: the oldest makes room one letter late.
BuriedLate(letter) ==
  Append(IF Len(dead) > MaxDead THEN Tail(dead) ELSE dead, letter)

\* The dead letters once another is routed to them: the oldest makes room.
Buried(letter) ==
  Append(IF Len(dead) >= MaxDead THEN Tail(dead) ELSE dead, letter)

\* publish() of a running bus, up to the queue: an event that finds the queue
\* full is dropped into the dead letters.
Enqueue(priority) ==
  /\ running
  /\ \/ /\ MaxQueue = 0 \/ Cardinality(queue) < MaxQueue
        /\ sequence < MaxEvents
        /\ sequence' = sequence + 1
        /\ queue' = queue \cup {[priority |-> priority, sequence |-> sequence + 1]}
        /\ UNCHANGED dead
     \/ /\ MaxQueue > 0 /\ Cardinality(queue) >= MaxQueue
        /\ dead' = Buried("bus")
        /\ UNCHANGED <<queue, sequence>>

Publish(priority) ==
  /\ Enqueue(priority)
  /\ UNCHANGED <<running, subs, loop, phase, item, todo, seen>>

\* get_dead_letter_events() hands them over and forgets them.
CollectDead ==
  /\ dead # <<>>
  /\ dead' = <<>>
  /\ UNCHANGED <<running, queue, sequence, subs, loop, phase, item, todo, seen>>

Subscribed == Range(subs)

Subscribe(s) ==
  /\ s \notin Subscribed
  /\ subs' = Append(subs, s)
  /\ UNCHANGED <<running, queue, sequence, dead, loop, phase, item, todo, seen>>

Unsubscribe(s) ==
  /\ \E i \in 1..Len(subs) :
       subs[i] = s /\ subs' = SubSeq(subs, 1, i - 1) \o SubSeq(subs, i + 1, Len(subs))
  /\ UNCHANGED <<running, queue, sequence, dead, loop, phase, item, todo, seen>>

-----------------------------------------------------------------------------
(* The delivery loop.                                                      *)

\* Back at the head of the loop, which ends once the bus is stopped.
AtHead == IF running THEN "waiting" ELSE "over"

\* queue.get(), in the task of wait_for.  (A wait that times out begins again: a
\* loop that waits while the bus is stopped has been cancelled.)
Take(w) ==
  /\ phase[w] = "waiting"
  /\ \E e \in queue :
       /\ \A f \in queue \ {e} : ~Precedes(f, e)
       /\ queue' = queue \ {e}
       /\ item' = [item EXCEPT ![w] = e]
  /\ phase' = [phase EXCEPT ![w] = "taken"]
  /\ UNCHANGED <<running, sequence, subs, dead, loop, todo, seen>>

\* The loop goes on with the subscribers in rest: it calls the first one.
CallOn(w, rest) ==
  /\ todo' = [todo EXCEPT ![w] = rest]
  /\ IF rest = <<>>
     THEN /\ phase' = [phase EXCEPT ![w] = AtHead]
          /\ UNCHANGED seen
     ELSE /\ phase' = [phase EXCEPT ![w] = "calling"]
          /\ seen' = [seen EXCEPT ![Head(rest)] = Append(@, item[w])]

\* _deliver() looks the subscribers up once for the event.
Deliver(w) ==
  /\ phase[w] = "taken"
  /\ CallOn(w, subs)
  /\ UNCHANGED <<running, queue, sequence, subs, dead, loop, item>>

CallbackReturns(w) ==
  /\ phase[w] = "calling"
  /\ CallOn(w, Tail(todo[w]))
  /\ UNCHANGED <<running, queue, sequence, subs, dead, loop, item>>

\* Mutant: an error in a callback ends the delivery of the event.
CallbackRaisesForAll(w) ==
  /\ phase[w] = "calling"
  /\ Head(todo[w]) \in Raising
  /\ dead' = Buried(Head(todo[w]))
  /\ CallOn(w, <<>>)
  /\ UNCHANGED <<running, queue, sequence, subs, loop, item>>

\* An error goes to the dead letters; the other subscribers are served.
CallbackRaises(w) ==
  /\ phase[w] = "calling"
  /\ Head(todo[w]) \in Raising
  /\ dead' = Buried(Head(todo[w]))
  /\ CallOn(w, Tail(todo[w]))
  /\ UNCHANGED <<running, queue, sequence, subs, loop, item>>

\* The callback the cancellation was thrown into has cleaned up.
CallbackCancelled(w) ==
  /\ phase[w] = "cancelled"
  /\ phase' = [phase EXCEPT ![w] = "over"]
  /\ todo' = [todo EXCEPT ![w] = <<>>]
  /\ UNCHANGED <<running, queue, sequence, subs, dead, loop, item, seen>>

LoopStep(w) ==
  \/ Take(w) \/ Deliver(w)
  \/ CallbackReturns(w) \/ CallbackRaises(w) \/ CallbackCancelled(w)

-----------------------------------------------------------------------------
(* start() and stop().                                                     *)

BusStart ==
  IF running
  THEN UNCHANGED busVars
  ELSE /\ loop < MaxStarts
       /\ running' = TRUE
       /\ loop' = loop + 1
       /\ phase' = [phase EXCEPT ![loop + 1] = "waiting"]
       /\ UNCHANGED <<queue, sequence, subs, dead, item, todo, seen>>

\* What task.cancel() makes of a loop, by where it is suspended.
Cancelled(p) ==
  CASE p = "waiting" -> "over"
    [] p = "calling" -> "cancelled"
    [] OTHER -> p

\* stop() up to its await.
BusStop ==
  /\ running' = FALSE
  /\ phase' = [w \in Loops |-> IF w = loop THEN Cancelled(phase[w]) ELSE phase[w]]
  /\ UNCHANGED <<queue, sequence, subs, dead, loop, item, todo, seen>>

\* A loop that will call no subscriber any more.
Quiet(w) == w # 0 => phase[w] \in {"cancelled", "over"}

\* stop() returns when the loop it awaits is over.
Over(w) == w # 0 => phase[w] = "over"

\* The bus under an orderly owner, who starts it again only when the loop he has
\* stopped will call nobody any more.  start() does not check it.
BusNext ==
  \/ \E priority \in Priorities : Publish(priority)
  \/ CollectDead
  \/ \E s \in Subscribers : Subscribe(s) \/ Unsubscribe(s)
  \/ \E w \in Loops : LoopStep(w)
  \/ Quiet(loop) /\ BusStart
  \/ BusStop

BusSpec == BusInit /\ [][BusNext]_busVars

\* The event loop gives the delivery loops their turns, and callbacks return.
FairBusSpec == BusSpec /\ \A w \in Loops : WF_busVars(LoopStep(w))

-----------------------------------------------------------------------------
(* Properties.                                                             *)

NoRepeats(list) == \A i, j \in 1..Len(list) : i # j => list[i] # list[j]

\* The queues keep to their capacities, and every event in one of them, taken or
\* delivered was numbered by the queue.
BusTypeOK ==
  /\ running \in BOOLEAN
  /\ sequence \in 0..MaxEvents
  /\ queue \subseteq Events /\ (MaxQueue > 0 => Cardinality(queue) <= MaxQueue)
  /\ subs \in Seq(Subscribers) /\ NoRepeats(subs)
  /\ dead \in Seq(Subscribers \cup {"bus"}) /\ Len(dead) <= MaxDead
  /\ loop \in 0..MaxStarts
  /\ phase \in [Loops -> Phases]
  /\ item \in [Loops -> Events \cup {<<>>}]
  /\ todo \in [Loops -> Seq(Subscribers)]
  /\ seen \in [Subscribers -> Seq(Events)]

\* A subscriber is called with the events of one priority in the order they were
\* published, and with none a second time: at no time do two loops deliver.
InOrder ==
  \A s \in Subscribers : \A i, j \in 1..Len(seen[s]) :
    i < j /\ seen[s][i].priority = seen[s][j].priority =>
      seen[s][i].sequence < seen[s][j].sequence

\* An event in the queue of a running bus reaches everyone who is subscribed, in
\* spite of the errors of the others, unless they unsubscribe, the bus stops, or
\* more urgent events come again and again: the queue serves those first, however
\* long the others have waited.
EveryoneIsServed ==
  \A s \in Subscribers, e \in Events :
    \/ []<>(\E f \in queue : f.priority < e.priority)
    \/ (e \in queue /\ s \in Subscribed) ~>
         (e \in Range(seen[s]) \/ s \notin Subscribed \/ ~running)
=============================================================================
