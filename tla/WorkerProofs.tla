---------------------------- MODULE WorkerProofs ----------------------------
(***************************************************************************)
(* Proofs about Worker, for any symbols, callers and bounds: behind the    *)
(* gate of the lifecycle the schedulers are safe however many callers start*)
(* and stop the worker.  What is known of the schedulers comes from        *)
(* AsyncSchedulerProofs.                                                   *)
(***************************************************************************)
EXTENDS Worker, SequenceTheorems, TLAPS

Loops == INSTANCE AsyncSchedulerProofs WITH MaxDoublings <- 1, MaxStreak <- 1

Types ==
  /\ Loops!Types
  /\ state \in {"stopped", "running", "stopping"}
  /\ batch \subseteq Symbols
  /\ orders \in 0..MaxOrders

At(t) == tasks[t].at

\* Only the trading loop is ever found in a cycle.
CyclesAreTrading == \A t \in 1..Len(tasks) : At(t) = "cycle" => tasks[t].sched = "trading"

\* Symbols are left to trade only in a cycle.
BatchIsTraded == batch # {} => handle["trading"] # 0 /\ At(handle["trading"]) = "cycle"

\* A live loop that nobody has stopped.
Free(s) ==
  /\ running[s] /\ handle[s] # 0
  /\ At(handle[s]) # "over" /\ ~tasks[handle[s]].cancelled

\* A stop awaits one loop after the other.
Awaits(c) ==
  \/ /\ awaiting[c] = handle["trading"] /\ tasks[handle["trading"]].cancelled
     /\ Free("market")
  \/ awaiting[c] = handle["market"] /\ handle["trading"] = 0

Stopped ==
  /\ state = "stopped"
  /\ \A c \in Callers : awaiting[c] = 0
  /\ \A t \in 1..Len(tasks) : At(t) = "over"

Running ==
  /\ state = "running"
  /\ \A c \in Callers : awaiting[c] = 0
  /\ Free("market") /\ Free("trading")

Stopping ==
  /\ state = "stopping"
  /\ \E c \in Callers :
       /\ \A d \in Callers : d # c => awaiting[d] = 0
       /\ awaiting[c] # 0 /\ Awaits(c)

Held ==
  /\ \A s \in Schedulers : handle[s] # 0 => tasks[handle[s]].sched = s
  /\ \A t \in 1..Len(tasks) : At(t) # "over" => handle[tasks[t].sched] = t

Inv ==
  /\ Types /\ Loops!Counted /\ Held
  /\ CyclesAreTrading /\ BatchIsTraded
  /\ Stopped \/ Running \/ Stopping

-----------------------------------------------------------------------------
(* The scheduler's names here and there.                                   *)

LEMMA Names ==
  /\ Loops!TaskIds = DOMAIN tasks
  /\ \A n : Sched!TopOfLoop(n) = Loops!TopOfLoop(n)
  /\ \A t, place : Sched!MoveTo(t, place) <=> Loops!MoveTo(t, place)
  /\ \A t : Sched!InCycle(t) <=> At(t) = "cycle"
  /\ \A t : Sched!Alive(t) <=> t # 0 /\ At(t) # "over"
  /\ \A t : Sched!BeginCycle(t) <=> Loops!BeginCycle(t)
  /\ \A t : Sched!CycleAtOnce(t) <=> Loops!CycleAtOnce(t)
  /\ \A t : Sched!CycleReturns(t) <=> Loops!CycleReturns(t)
  /\ \A t : Sched!LoopEnds(t) <=> Loops!LoopEnds(t)
  /\ \A c, s : Sched!BeginStop(c, s) <=> Loops!BeginStop(c, s)
  /\ \A c : Sched!EndStop(c) <=> Loops!EndStop(c)
<1> USE DEF Sched!TopOfLoop, Loops!TopOfLoop, Sched!MoveTo, Loops!MoveTo, Sched!NoTask, Loops!NoTask,
            Sched!InCycle, Loops!InCycle, Sched!Alive, Loops!Alive, At
<1>1. Loops!TaskIds = DOMAIN tasks
      BY DEF Loops!TaskIds
<1>2. /\ \A n : Sched!TopOfLoop(n) = Loops!TopOfLoop(n)
      /\ \A t, place : Sched!MoveTo(t, place) <=> Loops!MoveTo(t, place)
      /\ \A t : Sched!InCycle(t) <=> At(t) = "cycle"
      /\ \A t : Sched!Alive(t) <=> t # 0 /\ At(t) # "over"
      OBVIOUS
<1>3. \A t : Sched!BeginCycle(t) <=> Loops!BeginCycle(t)
      BY DEF Sched!BeginCycle, Loops!BeginCycle
<1>4. \A t : Sched!CycleAtOnce(t) <=> Loops!CycleAtOnce(t)
      BY DEF Sched!CycleAtOnce, Loops!CycleAtOnce
<1>5. \A t : Sched!CycleReturns(t) <=> Loops!CycleReturns(t)
      BY DEF Sched!CycleReturns, Loops!CycleReturns
<1>6. \A t : Sched!LoopEnds(t) <=> Loops!LoopEnds(t)
      BY DEF Sched!LoopEnds, Loops!LoopEnds
<1>7. \A c, s : Sched!BeginStop(c, s) <=> Loops!BeginStop(c, s)
      BY DEF Sched!BeginStop, Loops!BeginStop
<1>8. \A c : Sched!EndStop(c) <=> Loops!EndStop(c)
      BY DEF Sched!EndStop, Loops!EndStop
<1> QED BY <1>1, <1>2, <1>3, <1>4, <1>5, <1>6, <1>7, <1>8

LEMMA Bounds ==
  /\ Loops!BoundAssumption
  /\ Schedulers = {"market", "trading"}
  /\ Loops!TopOfLoop(0) = "sleep" /\ Loops!TopOfLoop(1) = "sleep"
BY WorkerAssumption DEF Loops!BoundAssumption, Schedulers, Loops!TopOfLoop

\* What the types say of the tasks.
LEMMA TypesAre ==
  ASSUME Types
  PROVE  /\ Len(tasks) \in Nat /\ DOMAIN tasks = 1..Len(tasks)
         /\ \A s \in Schedulers : handle[s] \in 0..Len(tasks) /\ running[s] \in BOOLEAN
         /\ \A c \in Callers : awaiting[c] \in 0..Len(tasks)
         /\ \A t \in 1..Len(tasks) : tasks[t].sched \in Schedulers
<1>1. Loops!TaskIds = 1..Len(tasks) /\ Len(tasks) \in Nat
      BY Bounds, Loops!TaskIdsAre DEF Types
<1>2. DOMAIN tasks = 1..Len(tasks)
      BY <1>1, Names
<1>3. \A t \in 1..Len(tasks) : tasks[t].sched \in Schedulers
      BY Bounds, Loops!TaskIs DEF Types
<1>4. /\ \A s \in Schedulers : handle[s] \in 0..Len(tasks) /\ running[s] \in BOOLEAN
      /\ \A c \in Callers : awaiting[c] \in 0..Len(tasks)
      BY Zenon DEF Types, Loops!Types
<1> QED BY <1>1, <1>2, <1>3, <1>4

-----------------------------------------------------------------------------
(* Types.                                                                  *)

\* A step of one of the loops, as the scheduler sees it.
LEMMA LoopSteps ==
  ASSUME NEW t \in DOMAIN tasks, LoopStep(t)
  PROVE  UNCHANGED sched \/ Loops!Next
<1>1. CASE QuietCycle(t) \/ BeginTrading(t) \/ LoopEnds(t)
      <2>1. Loops!LoopStep(t)
            BY <1>1, Names DEF QuietCycle, BeginTrading, LoopEnds, Loops!LoopStep
      <2> QED BY <2>1, Names DEF Loops!Next
<1>2. CASE OrderLands(t)
      <2>1. UNCHANGED sched \/ Loops!CycleReturns(t)
            BY <1>2, Names DEF OrderLands
      <2> QED BY <2>1, Names DEF Loops!Next, Loops!LoopStep
<1> QED BY <1>1, <1>2 DEF LoopStep

LEMMA StepSchedulers ==
  ASSUME Types, Loops!Counted, Held, UNCHANGED sched \/ Loops!Next
  PROVE  Loops!Types' /\ Loops!Counted'
<1>1. [Loops!Next]_(Loops!vars)
      BY DEF sched, Loops!vars
<1>2. Loops!EveryLoopIsHeld
      BY TypesAre, Names DEF Held, Loops!EveryLoopIsHeld, Loops!TaskIds, Loops!Alive, Loops!NoTask, At
<1>3. Loops!Types'
      BY <1>1, Bounds, Loops!StepTypes DEF Types
<1>4. Loops!Counted'
      BY <1>1, <1>2, Bounds, Loops!StepCounted DEF Types
<1> QED BY <1>3, <1>4

\* Both loops are created at once.
LEMMA Starting ==
  ASSUME Types, NEW c \in Callers, Start(c)
  PROVE  LET n == Len(tasks) IN
         /\ tasks' \in Seq(Loops!Tasks) /\ Len(tasks') = n + 2 /\ n + 2 <= MaxTasks
         /\ \A u \in 1..n : tasks'[u] = tasks[u]
         /\ tasks'[n + 1] = [sched |-> "market", at |-> "sleep", cancelled |-> FALSE]
         /\ tasks'[n + 2] = [sched |-> "trading", at |-> "sleep", cancelled |-> FALSE]
         /\ handle'["market"] = n + 1 /\ handle'["trading"] = n + 2
         /\ handle' \in [Schedulers -> 0..(n + 2)]
         /\ running' = [s \in Schedulers |-> TRUE]
<1> DEFINE n == Len(tasks)
           r == [sched |-> "market", at |-> "sleep", cancelled |-> FALSE]
           q == [sched |-> "trading", at |-> "sleep", cancelled |-> FALSE]
<1>1. r \in Loops!Tasks /\ q \in Loops!Tasks
      BY Bounds DEF Loops!Tasks, Loops!Places
<1>2. NewLoop("market") = r /\ NewLoop("trading") = q
      <2>1. \A s \in Schedulers : streak[s] = 0 \/ streak[s] = 1
            BY DEF Types, Loops!Types, Loops!Streaks
      <2>2. \A s \in Schedulers : Sched!TopOfLoop(streak[s]) = "sleep"
            BY <2>1, Bounds, Names
      <2> QED BY <2>2, Bounds DEF NewLoop
<1> HIDE DEF r, q
<1>3. tasks' = tasks \o <<r, q>> /\ tasks \in Seq(Loops!Tasks) /\ n + 2 <= MaxTasks
      BY <1>2 DEF Start, Types, Loops!Types
<1>4. <<r, q>> \in Seq(Loops!Tasks) /\ Len(<<r, q>>) = 2 /\ <<r, q>>[1] = r /\ <<r, q>>[2] = q
      BY <1>1
<1>5. /\ tasks' \in Seq(Loops!Tasks) /\ Len(tasks') = n + 2
      /\ \A i \in 1..(n + 2) : tasks'[i] = IF i <= n THEN tasks[i] ELSE <<r, q>>[i - n]
      BY <1>3, <1>4, ConcatProperties
<1>6. n \in Nat
      BY TypesAre
<1> HIDE DEF n
<1>7. tasks'[n + 1] = r /\ tasks'[n + 2] = q
      <2>1. n + 1 \in 1..(n + 2) /\ n + 2 \in 1..(n + 2) /\ ~(n + 1 <= n) /\ ~(n + 2 <= n)
            /\ (n + 1) - n = 1 /\ (n + 2) - n = 2
            BY <1>6
      <2> QED BY <1>4, <1>5, <2>1
<1>8. \A u \in 1..n : tasks'[u] = tasks[u]
      BY <1>5, <1>6
<1>9. handle' = [s \in Schedulers |-> n + (IF s = "market" THEN 1 ELSE 2)]
      BY DEF Start, n
<1>10. /\ handle'["market"] = n + 1 /\ handle'["trading"] = n + 2
       /\ handle' \in [Schedulers -> 0..(n + 2)]
       BY <1>6, <1>9, Bounds
<1>11. running' = [s \in Schedulers |-> TRUE]
       BY DEF Start
<1> QED BY <1>3, <1>5, <1>7, <1>8, <1>10, <1>11 DEF n, r, q

\* start(): from STOPPED to RUNNING.
LEMMA StepStart ==
  ASSUME Inv, NEW c \in Callers, Start(c)
  PROVE  Inv'
<1> DEFINE n == Len(tasks)
<1>1. Stopped /\ Types
      BY DEF Inv, Stopped, Running, Stopping, Start
<1>2. /\ n \in Nat
      /\ tasks' \in Seq(Loops!Tasks) /\ Len(tasks') = n + 2 /\ n + 2 <= MaxTasks
      /\ \A u \in 1..n : tasks'[u] = tasks[u]
      /\ tasks'[n + 1] = [sched |-> "market", at |-> "sleep", cancelled |-> FALSE]
      /\ tasks'[n + 2] = [sched |-> "trading", at |-> "sleep", cancelled |-> FALSE]
      /\ handle'["market"] = n + 1 /\ handle'["trading"] = n + 2
      /\ handle' \in [Schedulers -> 0..(n + 2)]
      /\ running' = [s \in Schedulers |-> TRUE]
      BY <1>1, Starting, TypesAre
<1>3. /\ UNCHANGED <<streak, uncounted, awaiting, batch, orders>> /\ state' = "running"
      BY DEF Start
<1>4. /\ \A t \in 1..n : At(t) = "over"
      /\ \A d \in Callers : awaiting[d] = 0
      BY <1>1 DEF Stopped
<1>5. batch = {}
      <2>1. handle["trading"] \in 0..n
            BY <1>1, TypesAre, Bounds
      <2>2. ASSUME batch # {} PROVE FALSE
            <3>1. handle["trading"] \in 1..n /\ At(handle["trading"]) = "cycle"
                  BY <1>2, <2>1, <2>2 DEF Inv, BatchIsTraded
            <3> QED BY <1>4, <3>1
      <2> QED BY <2>2
<1> HIDE DEF n
<1>6. \A u \in 1..(n + 2) : u \in 1..n \/ u = n + 1 \/ u = n + 2
      BY <1>2
<1>7. Types'
      <2>1. running' \in [Schedulers -> BOOLEAN]
            BY <1>2
      <2>2. awaiting' \in [Callers -> 0..(n + 2)]
            <3>1. awaiting \in [Callers -> 0..n] /\ 0..n \subseteq 0..(n + 2)
                  BY <1>1, <1>2 DEF Types, Loops!Types, n
            <3> QED BY <1>3, <3>1
      <2>3. Loops!Types'
            BY <1>1, <1>2, <1>3, <2>1, <2>2 DEF Types, Loops!Types
      <2> QED BY <1>1, <1>3, <2>3 DEF Types
<1>8. Loops!Counted'
      <2> SUFFICES ASSUME NEW s \in Schedulers
                   PROVE  /\ uncounted[s] <= n + 2
                          /\ \A t \in 1..(n + 2) : tasks'[t].sched = s =>
                               /\ tasks'[t].at = "sleep" => uncounted[s] + 1 <= n + 2
                               /\ tasks'[t].at = "cycle" => uncounted[s] >= 1
          BY <1>2, <1>3 DEF Loops!Counted
      <2>1. uncounted[s] \in Nat /\ uncounted[s] <= n
            BY <1>1 DEF Inv, Loops!Counted, Types, Loops!Types, n
      <2>2. \A t \in 1..(n + 2) : tasks'[t].at # "cycle"
            BY <1>2, <1>4, <1>6 DEF At
      <2> QED BY <1>2, <2>1, <2>2
<1>9. Held'
      <2>1. \A s \in Schedulers : tasks'[handle'[s]].sched = s
            BY <1>2, Bounds
      <2>2. ASSUME NEW t \in 1..(n + 2), tasks'[t].at # "over" PROVE handle'[tasks'[t].sched] = t
            <3>1. t \notin 1..n
                  BY <1>2, <1>4, <2>2 DEF At
            <3>2. CASE t = n + 1
                  <4>1. tasks'[t].sched = "market"
                        BY <1>2, <3>2
                  <4> QED BY <1>2, <3>2, <4>1
            <3>3. CASE t = n + 2
                  <4>1. tasks'[t].sched = "trading"
                        BY <1>2, <3>3
                  <4> QED BY <1>2, <3>3, <4>1
            <3> QED BY <1>6, <3>1, <3>2, <3>3
      <2> QED BY <1>2, <2>1, <2>2 DEF Held, At
<1>10. CyclesAreTrading' /\ BatchIsTraded'
       <2>1. \A t \in 1..(n + 2) : tasks'[t].at # "cycle"
             BY <1>2, <1>4, <1>6 DEF At
       <2> QED BY <1>2, <1>3, <1>5, <2>1 DEF CyclesAreTrading, BatchIsTraded, At
<1>11. Running'
       <2>1. n + 1 # 0 /\ n + 2 # 0
             BY <1>2
       <2>2. running'["market"] /\ running'["trading"]
             BY <1>2, Bounds
       <2>3. Free("market")' /\ Free("trading")'
             BY <1>2, <2>1, <2>2 DEF Free, At
       <2> QED BY <1>3, <1>4, <2>3 DEF Running
<1> QED BY <1>7, <1>8, <1>9, <1>10, <1>11 DEF Inv

\* A task is cancelled: nothing else of it changes, and nothing of the others.
LEMMA Marking ==
  ASSUME Types, NEW t \in 1..Len(tasks), tasks' = [tasks EXCEPT ![t].cancelled = TRUE]
  PROVE  /\ tasks' \in Seq(Loops!Tasks) /\ Len(tasks') = Len(tasks)
         /\ \A u \in 1..Len(tasks) : tasks'[u].sched = tasks[u].sched /\ tasks'[u].at = tasks[u].at
         /\ \A u \in 1..Len(tasks) : u # t => tasks'[u] = tasks[u]
         /\ tasks'[t].cancelled
<1>1. Loops!Mark(t)
      BY DEF Loops!Mark
<1>2. /\ tasks' \in Seq(Loops!Tasks) /\ Len(tasks') = Len(tasks)
      /\ \A u \in 1..Len(tasks) : tasks'[u].sched = tasks[u].sched /\ tasks'[u].at = tasks[u].at
      BY <1>1, Bounds, Loops!Marked, Zenon DEF Types
<1>3. DOMAIN tasks = 1..Len(tasks)
      BY TypesAre
<1>4. \A u \in 1..Len(tasks) : u # t => tasks'[u] = tasks[u]
      BY <1>3
<1>5. tasks'[t].cancelled
      <2>1. tasks[t] \in Loops!Tasks
            BY Bounds, Loops!TaskIs DEF Types
      <2>2. tasks'[t] = [tasks[t] EXCEPT !.cancelled = TRUE]
            BY <1>3
      <2> QED BY <2>1, <2>2 DEF Loops!Tasks
<1> QED BY <1>2, <1>4, <1>5

\* stop() as far as the trading loop.
LEMMA StepBeginStop ==
  ASSUME Inv, NEW c \in Callers, BeginStop(c)
  PROVE  Inv'
<1> DEFINE t == handle["trading"]
<1>1. Running /\ Types
      BY DEF Inv, Stopped, Running, Stopping, BeginStop
<1>2. t # 0 /\ At(t) # "over" /\ t \in 1..Len(tasks) /\ tasks[t].sched = "trading"
      <2>1. t # 0 /\ At(t) # "over"
            BY <1>1 DEF Running, Free
      <2>2. t \in 1..Len(tasks)
            BY <1>1, <2>1, TypesAre, Bounds
      <2> QED BY <2>1, <2>2, Bounds DEF Inv, Held
<1>3. Loops!BeginStop(c, "trading") /\ UNCHANGED <<batch, orders>> /\ state' = "stopping"
      BY Names DEF BeginStop
<1>4. /\ Loops!Alive(t)
      /\ running' = [running EXCEPT !["trading"] = FALSE]
      /\ tasks' = [tasks EXCEPT ![t].cancelled = TRUE]
      /\ awaiting' = [awaiting EXCEPT ![c] = t] /\ handle' = handle
      <2>1. Loops!Alive(t)
            BY <1>2 DEF Loops!Alive, Loops!NoTask, At
      <2> QED BY <1>3, <2>1 DEF Loops!BeginStop
<1>5. Loops!Types' /\ Loops!Counted'
      <2>1. Loops!Next
            BY <1>3, Bounds DEF Loops!Next
      <2> QED BY <2>1, StepSchedulers DEF Inv
<1> HIDE DEF t
<1>6. /\ Len(tasks') = Len(tasks)
      /\ \A u \in 1..Len(tasks) : tasks'[u].sched = tasks[u].sched /\ tasks'[u].at = tasks[u].at
      /\ \A u \in 1..Len(tasks) : u # t => tasks'[u] = tasks[u]
      /\ tasks'[t].cancelled
      BY <1>1, <1>2, <1>4, Marking
<1>7. Types'
      BY <1>1, <1>3, <1>5 DEF Types
<1>8. Held'
      <2>1. \A s \in Schedulers : handle[s] # 0 => handle[s] \in 1..Len(tasks)
            BY <1>1, TypesAre
      <2> QED BY <1>4, <1>6, <2>1 DEF Inv, Held, At
<1>9. CyclesAreTrading' /\ BatchIsTraded'
      BY <1>2, <1>3, <1>4, <1>6 DEF Inv, CyclesAreTrading, BatchIsTraded, At, t
<1>10. Stopping'
       <2>1. /\ handle["market"] # 0 /\ handle["market"] \in 1..Len(tasks)
             /\ tasks[handle["market"]].sched = "market" /\ Free("market")
             <3>1. Free("market") /\ handle["market"] # 0
                   BY <1>1 DEF Running, Free
             <3>2. handle["market"] \in 1..Len(tasks)
                   BY <1>1, <3>1, TypesAre, Bounds
             <3> QED BY <3>1, <3>2, Bounds DEF Inv, Held
       <2>2. tasks'[handle["market"]] = tasks[handle["market"]]
             BY <1>2, <1>6, <2>1
       <2>3. running'["market"]
             BY <1>1, <1>4, <2>1, Bounds DEF Free, Types, Loops!Types
       <2>4. Free("market")'
             BY <1>4, <2>1, <2>2, <2>3 DEF Free, At
       <2>5. awaiting'[c] = t /\ \A d \in Callers : d # c => awaiting'[d] = 0
             BY <1>1, <1>4 DEF Running, Types, Loops!Types
       <2>6. Awaits(c)'
             BY <1>4, <1>6, <2>4, <2>5 DEF Awaits, t
       <2> QED BY <1>2, <1>3, <2>5, <2>6 DEF Stopping
<1> QED BY <1>5, <1>7, <1>8, <1>9, <1>10 DEF Inv

\* Only one caller ever waits.
LEMMA Waiting ==
  ASSUME Inv, NEW c \in Callers, awaiting[c] # 0
  PROVE  /\ state = "stopping" /\ Awaits(c)
         /\ \A d \in Callers : d # c => awaiting[d] = 0
         /\ awaiting[c] \in 1..Len(tasks)
BY TypesAre DEF Inv, Stopped, Running, Stopping

\* stop() from the trading loop to the market loop.
LEMMA StepStopMarket ==
  ASSUME Inv, NEW c \in Callers, StopMarket(c)
  PROVE  Inv'
<1> DEFINE t == handle["market"]
           r == handle["trading"]
<1>0. Types
      BY DEF Inv
<1>1. awaiting[c] # 0 /\ tasks[awaiting[c]].sched = "trading" /\ At(awaiting[c]) = "over"
      BY Names DEF StopMarket, Idle, Sched!NoTask
<1>2. /\ awaiting[c] = r /\ Free("market") /\ state = "stopping"
      /\ \A d \in Callers : d # c => awaiting[d] = 0
      <2>1. awaiting[c] # handle["market"]
            <3>1. handle["market"] # 0 => tasks[handle["market"]].sched = "market"
                  BY Bounds DEF Inv, Held
            <3> QED BY <1>1, <3>1
      <2> QED BY <1>1, <2>1, Waiting DEF Awaits
<1>3. t # 0 /\ t \in 1..Len(tasks) /\ tasks[t].sched = "market" /\ At(t) # "over"
      <2>1. t # 0 /\ At(t) # "over"
            BY <1>2 DEF Free
      <2>2. t \in 1..Len(tasks)
            BY <1>0, <2>1, TypesAre, Bounds
      <2> QED BY <2>1, <2>2, Bounds DEF Inv, Held
<1>4. /\ handle' = [handle EXCEPT !["trading"] = 0]
      /\ running' = [running EXCEPT !["market"] = FALSE]
      /\ tasks' = [tasks EXCEPT ![t].cancelled = TRUE]
      /\ awaiting' = [awaiting EXCEPT ![c] = t]
      /\ UNCHANGED <<streak, uncounted, state, batch, orders>>
      BY DEF StopMarket, Sched!NoTask
<1>5. At(r) = "over"
      BY <1>1, <1>2
<1> HIDE DEF t, r
<1>6. /\ tasks' \in Seq(Loops!Tasks) /\ Len(tasks') = Len(tasks)
      /\ \A u \in 1..Len(tasks) : tasks'[u].sched = tasks[u].sched /\ tasks'[u].at = tasks[u].at
      BY <1>0, <1>3, <1>4, Marking
<1>7. handle'["market"] = t /\ handle'["trading"] = 0
      BY <1>0, <1>4, Bounds DEF Types, Loops!Types, t
<1>8. Types'
      <2>1. handle' \in [Schedulers -> 0..Len(tasks)] /\ running' \in [Schedulers -> BOOLEAN]
            <3>1. handle \in [Schedulers -> 0..Len(tasks)] /\ running \in [Schedulers -> BOOLEAN]
                  BY <1>0 DEF Types, Loops!Types
            <3>2. 0 \in 0..Len(tasks)
                  BY <1>0, TypesAre
            <3>3. handle' \in [Schedulers -> 0..Len(tasks)]
                  BY <1>4, <3>1, <3>2
            <3>4. running' \in [Schedulers -> BOOLEAN]
                  BY <1>4, <3>1
            <3> QED BY <3>3, <3>4
      <2>2. awaiting' \in [Callers -> 0..Len(tasks)]
            BY <1>0, <1>3, <1>4 DEF Types, Loops!Types
      <2>3. Loops!Types'
            BY <1>0, <1>4, <1>6, <2>1, <2>2 DEF Types, Loops!Types
      <2> QED BY <1>0, <1>4, <2>3 DEF Types
<1>9. Loops!Counted'
      BY <1>4, <1>6 DEF Inv, Loops!Counted
<1>10. Held'
       <2>1. \A s \in Schedulers : handle'[s] # 0 => tasks'[handle'[s]].sched = s
             BY <1>3, <1>6, <1>7, Bounds
       <2>2. ASSUME NEW u \in 1..Len(tasks), At(u) # "over" PROVE handle'[tasks[u].sched] = u
             <3>1. handle[tasks[u].sched] = u /\ tasks[u].sched \in Schedulers
                   BY <1>0, <2>2, TypesAre DEF Inv, Held
             <3>2. tasks[u].sched # "trading"
                   BY <1>5, <2>2, <3>1 DEF r
             <3> QED BY <1>7, <3>1, <3>2, Bounds DEF t
       <2> QED BY <1>6, <2>1, <2>2 DEF Held, At
<1>11. CyclesAreTrading' /\ BatchIsTraded'
       <2>1. batch = {}
             BY <1>5 DEF Inv, BatchIsTraded, r
       <2> QED BY <1>4, <1>6, <2>1 DEF Inv, CyclesAreTrading, BatchIsTraded, At
<1>12. Stopping'
       <2>1. awaiting'[c] = t /\ \A d \in Callers : d # c => awaiting'[d] = 0
             BY <1>0, <1>2, <1>4 DEF Types, Loops!Types
       <2> QED BY <1>2, <1>3, <1>4, <1>7, <2>1 DEF Stopping, Awaits
<1> QED BY <1>8, <1>9, <1>10, <1>11, <1>12 DEF Inv

\* stop() to its end.
LEMMA StepEndStop ==
  ASSUME Inv, NEW c \in Callers, EndStop(c)
  PROVE  Inv'
<1>0. Types
      BY DEF Inv
<1>1. /\ awaiting[c] # 0 /\ tasks[awaiting[c]].sched = "market" /\ Loops!EndStop(c)
      /\ state' = "stopped" /\ UNCHANGED <<batch, orders>>
      BY Names DEF EndStop, Idle, Sched!NoTask
<1>2. /\ At(awaiting[c]) = "over" /\ UNCHANGED <<running, streak, uncounted, tasks>>
      /\ handle' = [handle EXCEPT !["market"] = 0] /\ awaiting' = [awaiting EXCEPT ![c] = 0]
      BY <1>1 DEF Loops!EndStop, Loops!Alive, Loops!NoTask, At
<1>3. /\ awaiting[c] = handle["market"] /\ handle["trading"] = 0
      /\ \A d \in Callers : d # c => awaiting[d] = 0
      <2>1. awaiting[c] # handle["trading"]
            <3>1. handle["trading"] # 0 => tasks[handle["trading"]].sched = "trading"
                  BY Bounds DEF Inv, Held
            <3> QED BY <1>1, <3>1
      <2> QED BY <1>1, <2>1, Waiting DEF Awaits
<1>4. Loops!Types' /\ Loops!Counted'
      <2>1. Loops!Next
            BY <1>1 DEF Loops!Next
      <2> QED BY <2>1, StepSchedulers DEF Inv
<1>5. \A u \in 1..Len(tasks) : At(u) = "over"
      <2> SUFFICES ASSUME NEW u \in 1..Len(tasks), At(u) # "over" PROVE FALSE
          OBVIOUS
      <2>1. handle[tasks[u].sched] = u /\ tasks[u].sched \in Schedulers
            BY <1>0, TypesAre DEF Inv, Held
      <2>2. u # 0
            BY <1>0, TypesAre
      <2> QED BY <1>2, <1>3, <2>1, <2>2, Bounds
<1>6. handle'["market"] = 0 /\ handle'["trading"] = 0
      BY <1>0, <1>2, <1>3, Bounds DEF Types, Loops!Types
<1>7. batch = {}
      BY <1>3 DEF Inv, BatchIsTraded
<1>8. Types'
      BY <1>0, <1>1, <1>4 DEF Types
<1>9. Held' /\ CyclesAreTrading' /\ BatchIsTraded'
      BY <1>1, <1>2, <1>5, <1>6, <1>7, Bounds DEF Held, CyclesAreTrading, BatchIsTraded, At
<1>10. Stopped'
       <2>1. \A d \in Callers : awaiting'[d] = 0
             BY <1>0, <1>2, <1>3 DEF Types, Loops!Types
       <2> QED BY <1>1, <1>2, <1>5, <2>1 DEF Stopped, At
<1> QED BY <1>4, <1>8, <1>9, <1>10 DEF Inv

-----------------------------------------------------------------------------
(* The loops.                                                              *)

\* How a loop moves: unless it was stopped it does not end, only the trading loop
\* begins a cycle, and symbols are left over only by one that stays in it.
LEMMA Moving ==
  ASSUME Inv, NEW t \in 1..Len(tasks), LoopStep(t)
  PROVE  /\ UNCHANGED <<running, handle, awaiting, state>> /\ Len(tasks') = Len(tasks)
         /\ At(t) # "over"
         /\ \E place \in Loops!Places :
              /\ \A u \in 1..Len(tasks) :
                   /\ tasks'[u].sched = tasks[u].sched /\ tasks'[u].cancelled = tasks[u].cancelled
                   /\ tasks'[u].at = IF u = t THEN place ELSE tasks[u].at
              /\ running[tasks[t].sched] /\ ~tasks[t].cancelled => place # "over"
              /\ place = "cycle" => tasks[t].sched = "trading"
              /\ batch' # {} =>
                   \/ place = "cycle"
                   \/ batch # {} /\ (place = At(t) \/ tasks[t].sched # "trading")
<1>0. Types /\ Loops!Types
      BY DEF Inv, Types
<1> DEFINE Moves(place) ==
             \A u \in 1..Len(tasks) :
               /\ tasks'[u].sched = tasks[u].sched /\ tasks'[u].cancelled = tasks[u].cancelled
               /\ tasks'[u].at = IF u = t THEN place ELSE tasks[u].at
<1>1. ASSUME NEW place \in Loops!Places, Loops!MoveTo(t, place)
      PROVE  Moves(place) /\ Len(tasks') = Len(tasks)
      BY <1>0, <1>1, Bounds, Loops!Moved, Zenon
<1>2. "sleep" \in Loops!Places /\ "cycle" \in Loops!Places /\ "over" \in Loops!Places
      BY DEF Loops!Places
<1>3. CASE QuietCycle(t)
      <2>1. /\ At(t) = "sleep" /\ Loops!MoveTo(t, "sleep") /\ batch' = batch
            /\ UNCHANGED <<running, handle, awaiting, state>>
            BY <1>3, Bounds, Names DEF QuietCycle, Loops!CycleAtOnce, At
      <2>2. Moves("sleep") /\ Len(tasks') = Len(tasks)
            BY <1>1, <1>2, <2>1
      <2> QED BY <1>2, <2>1, <2>2
<1>4. CASE BeginTrading(t)
      <2>1. /\ At(t) = "sleep" /\ Loops!MoveTo(t, "cycle") /\ tasks[t].sched = "trading"
            /\ UNCHANGED <<running, handle, awaiting, state>>
            BY <1>4, Names DEF BeginTrading, Loops!BeginCycle, At
      <2>2. Moves("cycle") /\ Len(tasks') = Len(tasks)
            BY <1>1, <1>2, <2>1
      <2> QED BY <1>2, <2>1, <2>2
<1>5. CASE OrderLands(t)
      <2>1. At(t) = "cycle" /\ ~tasks[t].cancelled /\ UNCHANGED state
            BY <1>5, Names DEF OrderLands
      <2>2. tasks[t].sched = "trading"
            BY <2>1 DEF Inv, CyclesAreTrading
      <2>3. CASE batch' = {} /\ Loops!CycleReturns(t)
            <3>1. /\ Loops!MoveTo(t, IF running[tasks[t].sched] THEN "sleep" ELSE "over")
                  /\ UNCHANGED <<running, handle, awaiting>>
                  BY <2>3, Bounds DEF Loops!CycleReturns
            <3>2. CASE running[tasks[t].sched]
                  <4>1. Moves("sleep") /\ Len(tasks') = Len(tasks)
                        BY <1>1, <1>2, <3>1, <3>2
                  <4> QED BY <1>2, <2>1, <2>3, <3>1, <4>1
            <3>3. CASE ~running[tasks[t].sched]
                  <4>1. Moves("over") /\ Len(tasks') = Len(tasks)
                        BY <1>1, <1>2, <3>1, <3>3
                  <4> QED BY <1>2, <2>1, <2>3, <3>1, <3>3, <4>1
            <3> QED BY <3>2, <3>3
      <2>4. CASE batch' # {} /\ UNCHANGED sched
            <3>1. UNCHANGED <<running, handle, awaiting, tasks>>
                  BY <2>4 DEF sched
            <3>2. Moves("cycle") /\ Len(tasks') = Len(tasks)
                  BY <2>1, <3>1 DEF At
            <3> QED BY <1>2, <2>1, <2>2, <3>1, <3>2
      <2> QED BY <1>5, <2>3, <2>4, Names DEF OrderLands
<1>6. CASE LoopEnds(t)
      <2>1. /\ Loops!LoopEnds(t) /\ UNCHANGED state
            /\ batch' = IF tasks[t].sched = "trading" THEN {} ELSE batch
            BY <1>6, Names DEF LoopEnds
      <2>2. /\ Loops!MoveTo(t, "over") /\ UNCHANGED <<running, handle, awaiting>>
            /\ At(t) # "over"
            /\ ~running[tasks[t].sched] \/ tasks[t].cancelled
            BY <2>1 DEF Loops!LoopEnds, Loops!Alive, At
      <2>3. Moves("over") /\ Len(tasks') = Len(tasks)
            BY <1>1, <1>2, <2>2
      <2> QED BY <1>2, <2>1, <2>2, <2>3
<1> QED BY <1>3, <1>4, <1>5, <1>6 DEF LoopStep

LEMMA StepLoop ==
  ASSUME Inv, NEW t \in DOMAIN tasks, LoopStep(t)
  PROVE  Inv'
<1>0. Types
      BY DEF Inv
<1>1. t \in 1..Len(tasks)
      BY <1>0, TypesAre
<1>2. /\ UNCHANGED <<running, handle, awaiting, state>> /\ Len(tasks') = Len(tasks)
      /\ At(t) # "over"
      BY <1>1, Moving
<1>3. PICK place \in Loops!Places :
        /\ \A u \in 1..Len(tasks) :
             /\ tasks'[u].sched = tasks[u].sched /\ tasks'[u].cancelled = tasks[u].cancelled
             /\ tasks'[u].at = IF u = t THEN place ELSE tasks[u].at
        /\ running[tasks[t].sched] /\ ~tasks[t].cancelled => place # "over"
        /\ place = "cycle" => tasks[t].sched = "trading"
        /\ batch' # {} =>
             \/ place = "cycle"
             \/ batch # {} /\ (place = At(t) \/ tasks[t].sched # "trading")
      BY <1>1, Moving
<1>4. handle[tasks[t].sched] = t /\ t # 0
      BY <1>0, <1>1, <1>2, TypesAre DEF Inv, Held
<1>5. Loops!Types' /\ Loops!Counted'
      BY <1>1, LoopSteps, StepSchedulers DEF Inv
<1>6. \A s \in Schedulers : handle[s] # 0 => handle[s] \in 1..Len(tasks) /\ tasks[handle[s]].sched = s
      BY <1>0, TypesAre DEF Inv, Held
<1>7. Types'
      <2>1. orders' \in 0..MaxOrders
            BY <1>0, WorkerAssumption DEF LoopStep, QuietCycle, BeginTrading, OrderLands, LoopEnds, Types
      <2>2. batch' \subseteq Symbols
            BY <1>0 DEF LoopStep, QuietCycle, BeginTrading, OrderLands, LoopEnds, Types
      <2> QED BY <1>0, <1>2, <1>5, <2>1, <2>2 DEF Types
<1>8. Held'
      <2>1. \A u \in 1..Len(tasks) : tasks'[u].at # "over" => At(u) # "over"
            BY <1>2, <1>3 DEF At
      <2> QED BY <1>2, <1>3, <1>6, <2>1 DEF Inv, Held, At
<1>9. CyclesAreTrading'
      BY <1>2, <1>3 DEF Inv, CyclesAreTrading, At
<1>10. BatchIsTraded'
       <2> SUFFICES ASSUME batch' # {} PROVE handle["trading"] # 0 /\ tasks'[handle["trading"]].at = "cycle"
           BY <1>2 DEF BatchIsTraded, At
       <2>1. CASE place = "cycle"
             BY <1>1, <1>3, <1>4, <2>1
       <2>2. CASE place # "cycle"
             <3>1. /\ batch # {} /\ (place = At(t) \/ tasks[t].sched # "trading")
                   /\ handle["trading"] # 0 /\ At(handle["trading"]) = "cycle"
                   BY <1>3, <2>2 DEF Inv, BatchIsTraded
             <3>2. handle["trading"] \in 1..Len(tasks) /\ tasks[handle["trading"]].sched = "trading"
                   BY <1>6, <3>1, Bounds
             <3>3. handle["trading"] # t
                   BY <2>2, <3>1, <3>2
             <3> QED BY <1>3, <3>1, <3>2, <3>3 DEF At
       <2> QED BY <2>1, <2>2
\* A loop nobody has stopped goes on.
<1>11. ASSUME NEW s \in Schedulers, Free(s) PROVE Free(s)'
       <2>1. /\ handle[s] # 0 /\ handle[s] \in 1..Len(tasks) /\ tasks[handle[s]].sched = s
             /\ running[s] /\ ~tasks[handle[s]].cancelled /\ At(handle[s]) # "over"
             BY <1>6, <1>11 DEF Free
       <2>2. tasks'[handle[s]].at # "over" /\ ~tasks'[handle[s]].cancelled
             BY <1>3, <2>1 DEF At
       <2> QED BY <1>2, <2>1, <2>2 DEF Free, At
<1>12. (Stopped \/ Running \/ Stopping)'
       <2>1. ~Stopped
             BY <1>1, <1>2 DEF Stopped
       <2>2. CASE Running
             BY <1>2, <1>11, <2>2, Bounds DEF Running
       <2>3. CASE Stopping
             <3>1. PICK c \in Callers : /\ \A d \in Callers : d # c => awaiting[d] = 0
                                        /\ awaiting[c] # 0 /\ Awaits(c)
                   BY <2>3 DEF Stopping
             <3>2. Awaits(c)'
                   <4>1. CASE /\ awaiting[c] = handle["trading"] /\ tasks[handle["trading"]].cancelled
                              /\ Free("market")
                         <5>1. handle["trading"] \in 1..Len(tasks)
                               BY <1>6, <3>1, <4>1, Bounds
                         <5> QED BY <1>2, <1>3, <1>11, <4>1, <5>1, Bounds DEF Awaits
                   <4>2. CASE awaiting[c] = handle["market"] /\ handle["trading"] = 0
                         BY <1>2, <4>2 DEF Awaits
                   <4> QED BY <3>1, <4>1, <4>2 DEF Awaits
             <3> QED BY <1>2, <2>3, <3>1, <3>2 DEF Stopping
       <2> QED BY <2>1, <2>2, <2>3 DEF Inv
<1> QED BY <1>5, <1>7, <1>8, <1>9, <1>10, <1>12 DEF Inv

-----------------------------------------------------------------------------
(* The theorems.                                                           *)

LEMMA InitInv == Init => Inv
<1> SUFFICES ASSUME Init PROVE Inv
    OBVIOUS
<1>0. Loops!Init
      BY DEF Init, Sched!Init, Loops!Init, Sched!NoTask, Loops!NoTask
<1>1. Loops!Types /\ Loops!Counted
      BY <1>0, Bounds, Loops!InitInv DEF Loops!Inv
<1>2. /\ tasks = <<>> /\ batch = {} /\ state = "stopped" /\ orders = 0
      /\ \A c \in Callers : awaiting[c] = 0
      /\ \A s \in Schedulers : handle[s] = 0
      BY <1>0 DEF Init, Loops!Init, Loops!NoTask
<1>3. Len(tasks) = 0
      BY <1>2
<1>4. Types
      BY <1>1, <1>2, WorkerAssumption DEF Types
<1>5. Held /\ CyclesAreTrading /\ BatchIsTraded
      BY <1>2, <1>3 DEF Held, CyclesAreTrading, BatchIsTraded
<1>6. Stopped
      BY <1>2, <1>3 DEF Stopped
<1> QED BY <1>1, <1>4, <1>5, <1>6 DEF Inv

LEMMA StepUnchanged == ASSUME Inv, UNCHANGED vars PROVE Inv'
<1>1. Loops!Types' /\ Loops!Counted'
      BY StepSchedulers DEF Inv, vars
<1>2. UNCHANGED <<running, handle, awaiting, tasks, state, batch, orders>>
      BY DEF vars, sched
<1>3. Types'
      BY <1>1, <1>2 DEF Inv, Types
<1>4. Held' /\ CyclesAreTrading' /\ BatchIsTraded'
      BY <1>2 DEF Inv, Held, CyclesAreTrading, BatchIsTraded, At
<1>5. (Stopped \/ Running \/ Stopping)'
      BY <1>2 DEF Inv, Stopped, Running, Stopping, Awaits, Free, At
<1> QED BY <1>1, <1>3, <1>4, <1>5 DEF Inv

LEMMA StepInv == Inv /\ [Next]_vars => Inv'
<1> SUFFICES ASSUME Inv, [Next]_vars PROVE Inv'
    OBVIOUS
<1>1. ASSUME NEW c \in Callers, Start(c) PROVE Inv'
      BY <1>1, StepStart
<1>2. ASSUME NEW c \in Callers, BeginStop(c) PROVE Inv'
      BY <1>2, StepBeginStop
<1>3. ASSUME NEW c \in Callers, StopMarket(c) PROVE Inv'
      BY <1>3, StepStopMarket
<1>4. ASSUME NEW c \in Callers, EndStop(c) PROVE Inv'
      BY <1>4, StepEndStop
<1>5. ASSUME NEW t \in DOMAIN tasks, LoopStep(t) PROVE Inv'
      BY <1>5, StepLoop
<1>6. CASE UNCHANGED vars
      BY <1>6, StepUnchanged
<1> QED BY <1>1, <1>2, <1>3, <1>4, <1>5, <1>6 DEF Next, CallIgnored

\* Behind the lifecycle the schedulers are safe for any number of callers: no cycle
\* overlaps another, every live loop can be reached by a stop, and a worker that runs
\* has both its loops.
THEOREM SchedulersCorrect == Spec => []SchedulersAreSafe
<1>1. Inv => SchedulersAreSafe
      <2> SUFFICES ASSUME Inv PROVE SchedulersAreSafe
          OBVIOUS
      <2>1. Types /\ DOMAIN tasks = 1..Len(tasks)
            BY TypesAre DEF Inv
      <2>2. Sched!EveryLoopIsHeld
            BY <2>1, Names DEF Inv, Held, Sched!EveryLoopIsHeld, Sched!TaskIds
      <2>3. Sched!CyclesNeverOverlap
            <3> SUFFICES ASSUME NEW t \in 1..Len(tasks), NEW u \in 1..Len(tasks),
                                At(t) = "cycle", At(u) = "cycle", tasks[t].sched = tasks[u].sched
                         PROVE  t = u
                BY <2>1, Names DEF Sched!CyclesNeverOverlap, Sched!TaskIds
            <3> QED BY DEF Inv, Held
      <2>4. ASSUME state = "running", NEW s \in Schedulers PROVE Sched!Alive(handle[s])
            <3>1. Free("market") /\ Free("trading")
                  BY <2>4 DEF Inv, Stopped, Running, Stopping
            <3> QED BY <3>1, Bounds, Names DEF Free
      <2> QED BY <2>2, <2>3, <2>4 DEF SchedulersAreSafe
<1> QED BY <1>1, InitInv, StepInv, PTL DEF Spec

\* A worker that says it is stopped has drained, for any number of callers.
THEOREM StoppedCorrect == Spec => []StoppedIsDrained
<1>1. Inv => StoppedIsDrained
      <2> SUFFICES ASSUME Inv, state = "stopped"
                   PROVE  /\ \A t \in DOMAIN tasks : ~Sched!Alive(t)
                          /\ batch = {}
                          /\ \A c \in Callers : Idle(c)
          BY DEF StoppedIsDrained
      <2>1. Stopped /\ Types
            BY DEF Inv, Running, Stopping
      <2>2. DOMAIN tasks = 1..Len(tasks) /\ handle["trading"] \in 0..Len(tasks) /\ Len(tasks) \in Nat
            BY <2>1, TypesAre, Bounds
      <2>3. batch = {}
            <3> SUFFICES ASSUME batch # {} PROVE FALSE
                OBVIOUS
            <3>1. handle["trading"] # 0 /\ At(handle["trading"]) = "cycle"
                  BY DEF Inv, BatchIsTraded
            <3>2. handle["trading"] \in 1..Len(tasks)
                  BY <2>2, <3>1
            <3> QED BY <2>1, <3>1, <3>2 DEF Stopped
      <2> QED BY <2>1, <2>2, <2>3, Names DEF Stopped, Idle, Sched!NoTask
<1> QED BY <1>1, InitInv, StepInv, PTL DEF Spec

\* No order lands once a stop has begun.
THEOREM OrdersCorrect == Spec => OrdersOnlyWhileRunning
<1>1. Inv /\ [Next]_vars => [orders' # orders => state = "running"]_vars
      <2> SUFFICES ASSUME Inv, Next, orders' # orders PROVE state = "running"
          OBVIOUS
      <2>1. Types /\ DOMAIN tasks = 1..Len(tasks)
            BY TypesAre DEF Inv
      <2>2. PICK t \in 1..Len(tasks) : OrderLands(t)
            BY <2>1 DEF Next, Start, BeginStop, CallIgnored, StopMarket, EndStop, LoopStep, QuietCycle,
               BeginTrading, LoopEnds, vars
      <2>3. At(t) = "cycle" /\ ~tasks[t].cancelled
            BY <2>2, Names DEF OrderLands
      <2>4. tasks[t].sched = "trading" /\ handle["trading"] = t /\ t # 0
            <3>1. tasks[t].sched = "trading"
                  BY <2>3 DEF Inv, CyclesAreTrading
            <3> QED BY <2>1, <2>3, <3>1, TypesAre DEF Inv, Held
      <2>5. ~Stopped
            BY <2>3 DEF Stopped
      <2>6. ~Stopping
            <3> SUFFICES ASSUME NEW c \in Callers, awaiting[c] # 0, Awaits(c) PROVE FALSE
                BY DEF Stopping
            <3> QED BY <2>3, <2>4 DEF Awaits
      <2> QED BY <2>5, <2>6 DEF Inv, Running
<1> QED BY <1>1, InitInv, StepInv, PTL DEF Spec, OrdersOnlyWhileRunning

\* Types of the worker and of its schedulers.
THEOREM TypeCorrect == Spec => []TypeOK
<1>1. Inv => TypeOK
      <2> SUFFICES ASSUME Inv PROVE TypeOK
          OBVIOUS
      <2>1. uncounted \in [Schedulers -> 0..MaxTasks]
            <3>1. \A s \in Schedulers : uncounted[s] \in Nat /\ uncounted[s] <= Len(tasks)
                  BY DEF Inv, Types, Loops!Types, Loops!Counted
            <3>2. Len(tasks) \in Nat /\ Len(tasks) <= MaxTasks /\ uncounted \in [Schedulers -> Nat]
                  BY TypesAre DEF Inv, Types, Loops!Types
            <3> QED BY <3>1, <3>2, WorkerAssumption
      <2>2. Sched!TypeOK
            BY <2>1 DEF Inv, Types, Loops!Types, Loops!Tasks, Loops!Places, Loops!Streaks, Sched!TypeOK
      <2> QED BY <2>2 DEF Inv, Types, TypeOK
<1> QED BY <1>1, InitInv, StepInv, PTL DEF Spec
=============================================================================
