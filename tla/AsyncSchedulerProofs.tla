------------------------ MODULE AsyncSchedulerProofs ------------------------
(***************************************************************************)
(* Proofs about AsyncScheduler, for any schedulers, streaks of failures and*)
(* number of tasks, and for one caller: with two, a start() may meet a     *)
(* stop() in progress, which then forgets the loop the start() created.    *)
(***************************************************************************)
EXTENDS AsyncScheduler, SequenceTheorems, TLAPS

OneCaller == \A c, d \in Callers : c = d

Places == {"sleep", "cycle", "over"}
Tasks == [sched : Schedulers, at : Places, cancelled : BOOLEAN]
Streaks == 0..MaxStreak

Types ==
  /\ running \in [Schedulers -> BOOLEAN]
  /\ streak \in [Schedulers -> Streaks]
  /\ uncounted \in [Schedulers -> Nat]
  /\ tasks \in Seq(Tasks) /\ Len(tasks) <= MaxTasks
  /\ handle \in [Schedulers -> 0..Len(tasks)]
  /\ awaiting \in [Callers -> 0..Len(tasks)]

\* A handle names a task of its own scheduler.
HandlesAreOwn == \A s \in Schedulers : handle[s] # 0 => tasks[handle[s]].sched = s

\* A stop() awaits the task its scheduler has.
AwaitedIsHeld == \A c \in Callers : awaiting[c] # 0 => handle[tasks[awaiting[c]].sched] = awaiting[c]

\* A loop that lives on in a stopped scheduler is being awaited.
StoppedIsAwaited ==
  \A s \in Schedulers :
    ~running[s] /\ Alive(handle[s]) => \E c \in Callers : awaiting[c] = handle[s]

\* Cycles are started at most once per task at a time: there is one for each cycle
\* under way, and none for a loop that sleeps.
Counted ==
  \A s \in Schedulers :
    /\ uncounted[s] <= Len(tasks)
    /\ \A t \in 1..Len(tasks) : tasks[t].sched = s =>
         /\ tasks[t].at = "sleep" => uncounted[s] + 1 <= Len(tasks)
         /\ tasks[t].at = "cycle" => uncounted[s] >= 1

Held == HandlesAreOwn /\ AwaitedIsHeld /\ StoppedIsAwaited /\ EveryLoopIsHeld

LEMMA TaskIdsAre == ASSUME Types PROVE TaskIds = 1..Len(tasks) /\ Len(tasks) \in Nat
BY LenProperties DEF Types, TaskIds

LEMMA TaskIs ==
  ASSUME Types, NEW t \in 1..Len(tasks)
  PROVE  /\ tasks[t] \in Tasks /\ tasks[t].sched \in Schedulers
         /\ tasks[t].at \in Places
<1>1. tasks[t] \in Tasks
      BY ElementOfSeq DEF Types
<1> QED BY <1>1 DEF Tasks

LEMMA TopOfLoopIs == ASSUME NEW n PROVE TopOfLoop(n) \in {"sleep", "over"}
BY DEF TopOfLoop

\* One task moves on.
LEMMA Moved ==
  ASSUME Types, NEW t \in 1..Len(tasks), NEW place \in Places, MoveTo(t, place)
  PROVE  /\ tasks' \in Seq(Tasks) /\ Len(tasks') = Len(tasks) /\ DOMAIN tasks' = 1..Len(tasks)
         /\ \A u \in 1..Len(tasks) :
              /\ tasks'[u].sched = tasks[u].sched /\ tasks'[u].cancelled = tasks[u].cancelled
              /\ tasks'[u].at = IF u = t THEN place ELSE tasks[u].at
<1> DEFINE r == [tasks[t] EXCEPT !.at = place]
<1>1. tasks[t] \in Tasks
      BY TaskIs
<1>2. r \in Tasks /\ r.sched = tasks[t].sched /\ r.at = place
      BY <1>1 DEF Tasks
<1>3. r.cancelled = tasks[t].cancelled
      BY <1>1 DEF Tasks
<1>4. tasks' = [tasks EXCEPT ![t] = r]
      BY DEF MoveTo
<1> HIDE DEF r
<1>5. tasks \in Seq(Tasks)
      BY DEF Types
<1>6. /\ tasks' \in Seq(Tasks) /\ Len(tasks') = Len(tasks)
      /\ \A u \in 1..Len(tasks) : tasks'[u] = IF u = t THEN r ELSE tasks[u]
      BY <1>2, <1>4, <1>5, ExceptSeq
<1>7. DOMAIN tasks' = 1..Len(tasks)
      BY <1>6, LenProperties
<1> QED BY <1>2, <1>3, <1>6, <1>7

\* One task is cancelled.
Mark(t) == tasks' = [tasks EXCEPT ![t].cancelled = TRUE]

LEMMA Marked ==
  ASSUME Types, NEW t \in 1..Len(tasks), Mark(t)
  PROVE  /\ tasks' \in Seq(Tasks) /\ Len(tasks') = Len(tasks) /\ DOMAIN tasks' = 1..Len(tasks)
         /\ \A u \in 1..Len(tasks) :
              tasks'[u].sched = tasks[u].sched /\ tasks'[u].at = tasks[u].at
<1> DEFINE r == [tasks[t] EXCEPT !.cancelled = TRUE]
<1>1. tasks[t] \in Tasks
      BY TaskIs
<1>2. r \in Tasks /\ r.sched = tasks[t].sched /\ r.at = tasks[t].at
      BY <1>1 DEF Tasks
<1> HIDE DEF r
<1>3. tasks' = [tasks EXCEPT ![t] = r] /\ tasks \in Seq(Tasks)
      BY DEF Mark, Types, r
<1>4. /\ tasks' \in Seq(Tasks) /\ Len(tasks') = Len(tasks)
      /\ \A u \in 1..Len(tasks) : tasks'[u] = IF u = t THEN r ELSE tasks[u]
      BY <1>2, <1>3, ExceptSeq
<1>5. DOMAIN tasks' = 1..Len(tasks)
      BY <1>4, LenProperties
<1> QED BY <1>2, <1>4, <1>5

\* One task is created.
LEMMA Created ==
  ASSUME Types, NEW s \in Schedulers, NEW place \in Places,
         tasks' = Append(tasks, [sched |-> s, at |-> place, cancelled |-> FALSE])
  PROVE  LET n == Len(tasks) IN
         /\ tasks' \in Seq(Tasks) /\ Len(tasks') = n + 1 /\ DOMAIN tasks' = 1..(n + 1)
         /\ \A u \in 1..n : tasks'[u] = tasks[u]
         /\ tasks'[n + 1].sched = s /\ tasks'[n + 1].at = place
<1> DEFINE r == [sched |-> s, at |-> place, cancelled |-> FALSE]
<1>1. r \in Tasks /\ r.sched = s /\ r.at = place
      BY DEF Tasks
<1> HIDE DEF r
<1>2. tasks' = Append(tasks, r) /\ tasks \in Seq(Tasks)
      BY DEF Types, r
<1>3. /\ tasks' \in Seq(Tasks) /\ Len(tasks') = Len(tasks) + 1
      /\ \A u \in 1..Len(tasks) : tasks'[u] = tasks[u]
      /\ tasks'[Len(tasks) + 1] = r
      BY <1>1, <1>2, AppendProperties
<1>4. DOMAIN tasks' = 1..(Len(tasks) + 1)
      BY <1>3, LenProperties
<1> QED BY <1>1, <1>3, <1>4

-----------------------------------------------------------------------------
(* Types.                                                                  *)

LEMMA StepTypes == Types /\ Counted /\ [Next]_vars => Types'
<1> SUFFICES ASSUME Types, Counted, [Next]_vars PROVE Types'
    OBVIOUS
<1> USE BoundAssumption
<1>0. TaskIds = 1..Len(tasks) /\ Len(tasks) \in Nat
      BY TaskIdsAre
<1>1. ASSUME NEW s \in Schedulers, Start(s) PROVE Types'
      <2>1. TopOfLoop(streak[s]) \in Places
            BY TopOfLoopIs DEF Places
      <2>2. tasks' \in Seq(Tasks) /\ Len(tasks') = Len(tasks) + 1
            BY <1>1, <2>1, Created DEF Start
      <2>3. running' \in [Schedulers -> BOOLEAN] /\ streak' \in [Schedulers -> Streaks]
            /\ uncounted' \in [Schedulers -> Nat]
            BY <1>1 DEF Start, Types
      <2>4. handle' \in [Schedulers -> 0..Len(tasks')] /\ awaiting' \in [Callers -> 0..Len(tasks')]
            BY <1>0, <1>1, <2>2 DEF Start, Types
      <2>5. Len(tasks') <= MaxTasks
            BY <1>0, <1>1, <2>2 DEF Start
      <2> QED BY <2>2, <2>3, <2>4, <2>5 DEF Types
<1>2. ASSUME NEW c \in Callers, NEW s \in Schedulers, BeginStop(c, s) PROVE Types'
      <2>1. running' \in [Schedulers -> BOOLEAN] /\ streak' \in [Schedulers -> Streaks]
            /\ uncounted' \in [Schedulers -> Nat]
            BY <1>2 DEF BeginStop, Types
      <2>2. CASE /\ Alive(handle[s]) /\ Mark(handle[s])
                 /\ awaiting' = [awaiting EXCEPT ![c] = handle[s]] /\ UNCHANGED handle
            <3>1. handle[s] \in 1..Len(tasks)
                  BY <1>0, <2>2 DEF Alive, NoTask, Types
            <3>2. tasks' \in Seq(Tasks) /\ Len(tasks') = Len(tasks)
                  BY <2>2, <3>1, Marked
            <3> QED BY <1>0, <2>1, <2>2, <3>1, <3>2 DEF Types
      <2>3. CASE handle' = [handle EXCEPT ![s] = NoTask] /\ UNCHANGED <<tasks, awaiting>>
            BY <1>0, <2>1, <2>3 DEF Types, NoTask
      <2> QED BY <1>2, <2>2, <2>3 DEF BeginStop, Mark
<1>3. ASSUME NEW c \in Callers, EndStop(c) PROVE Types'
      <2>1. UNCHANGED <<running, streak, uncounted, tasks>>
            BY <1>3 DEF EndStop
      <2>2. awaiting[c] \in 1..Len(tasks)
            BY <1>0, <1>3 DEF EndStop, Types, NoTask
      <2>3. tasks[awaiting[c]].sched \in Schedulers
            BY <2>2, TaskIs
      <2>4. handle' \in [Schedulers -> 0..Len(tasks)]
            BY <1>0, <1>3, <2>3 DEF EndStop, Types, NoTask
      <2>5. awaiting' \in [Callers -> 0..Len(tasks)]
            BY <1>0, <1>3 DEF EndStop, Types, NoTask
      <2> QED BY <2>1, <2>4, <2>5 DEF Types
<1>4. ASSUME NEW t \in TaskIds, LoopStep(t) PROVE Types'
      <2>0. t \in 1..Len(tasks) /\ tasks[t].sched \in Schedulers
            BY <1>0, <1>4, TaskIs
      <2>1. PICK place \in Places : MoveTo(t, place)
            BY <1>4, TopOfLoopIs DEF LoopStep, BeginCycle, CycleAtOnce, CycleReturns, CycleRaises,
               LoopEnds, Places
      <2>2. tasks' \in Seq(Tasks) /\ Len(tasks') = Len(tasks)
            BY <2>0, <2>1, Moved
      <2>3. UNCHANGED <<running, handle, awaiting>>
            BY <1>4 DEF LoopStep, BeginCycle, CycleAtOnce, CycleReturns, CycleRaises, LoopEnds
      <2>4. streak' \in [Schedulers -> Streaks]
            <3> DEFINE s == tasks[t].sched
            <3>1. \/ streak' = streak
                  \/ streak' = [streak EXCEPT ![s] = 0]
                  \/ streak[s] < MaxStreak /\ streak' = [streak EXCEPT ![s] = @ + 1]
                  BY <1>4 DEF LoopStep, BeginCycle, CycleAtOnce, CycleReturns, CycleRaises, LoopEnds
            <3>2. streak \in [Schedulers -> Streaks] /\ s \in Schedulers
                  BY <2>0 DEF Types
            <3> HIDE DEF s
            <3> QED BY <3>1, <3>2 DEF Streaks
      <2>5. uncounted' \in [Schedulers -> Nat]
            <3>1. CASE BeginCycle(t)
                  BY <2>0, <3>1 DEF BeginCycle, Types
            <3>2. CASE CycleAtOnce(t) \/ LoopEnds(t)
                  BY <3>2 DEF CycleAtOnce, LoopEnds, Types
            <3>3. CASE CycleReturns(t) \/ CycleRaises(t)
                  <4>1. /\ tasks[t].at = "cycle"
                        /\ uncounted' = [uncounted EXCEPT ![tasks[t].sched] = @ - 1]
                        BY <3>3 DEF CycleReturns, CycleRaises, InCycle
                  <4>2. uncounted[tasks[t].sched] >= 1
                        BY <2>0, <4>1 DEF Counted
                  <4> QED BY <2>0, <4>1, <4>2 DEF Types
            <3> QED BY <1>4, <3>1, <3>2, <3>3 DEF LoopStep
      <2> QED BY <2>2, <2>3, <2>4, <2>5 DEF Types
<1>5. CASE UNCHANGED vars
      BY <1>5 DEF vars, Types
<1> QED BY <1>1, <1>2, <1>3, <1>4, <1>5 DEF Next

-----------------------------------------------------------------------------
(* The loops are held.                                                     *)

LEMMA StepHeld == OneCaller /\ Types /\ Held /\ [Next]_vars => Held'
<1> SUFFICES ASSUME OneCaller, Types, Held, [Next]_vars PROVE Held'
    OBVIOUS
<1> USE DEF NoTask
<1>0. TaskIds = 1..Len(tasks) /\ Len(tasks) \in Nat
      BY TaskIdsAre
<1>1. ASSUME NEW c \in Callers, awaiting[c] = 0, NEW s \in Schedulers, Start(s) PROVE Held'
      <2> DEFINE n == Len(tasks)
      <2>1. TopOfLoop(streak[s]) \in Places
            BY TopOfLoopIs DEF Places
      <2>2. /\ DOMAIN tasks' = 1..(n + 1) /\ \A u \in 1..n : tasks'[u] = tasks[u]
            /\ tasks'[n + 1].sched = s
            BY <1>1, <2>1, Created DEF Start
      <2>3. /\ ~running[s] /\ running' = [running EXCEPT ![s] = TRUE]
            /\ handle' = [handle EXCEPT ![s] = n + 1] /\ awaiting' = awaiting
            BY <1>1 DEF Start
      <2>4. \A d \in Callers : awaiting[d] = 0
            BY <1>1 DEF OneCaller
      <2>5. ~Alive(handle[s])
            <3>1. n + 1 # 0
                  BY <1>0
            <3>2. ASSUME Alive(handle[s]) PROVE FALSE
                  <4>1. PICK d \in Callers : awaiting[d] = handle[s]
                        BY <2>3, <3>2 DEF Held, StoppedIsAwaited
                  <4> QED BY <2>4, <3>2, <4>1 DEF Alive
            <3> QED BY <3>2
      <2>6. \A u \in Schedulers \ {s} : handle'[u] = handle[u] /\ (running'[u] <=> running[u])
            BY <2>3 DEF Types
      <2>7. handle'[s] = n + 1 /\ running'[s]
            BY <2>3 DEF Types
      <2>8. \A u \in Schedulers : handle[u] # 0 => handle[u] \in 1..n
            BY <1>0 DEF Types
      <2> HIDE DEF n
      <2>9. HandlesAreOwn'
            <3> SUFFICES ASSUME NEW u \in Schedulers, handle'[u] # 0
                         PROVE  tasks'[handle'[u]].sched = u
                BY DEF HandlesAreOwn
            <3>1. CASE u = s
                  BY <2>2, <2>7, <3>1
            <3>2. CASE u # s
                  BY <2>2, <2>6, <2>8, <3>2 DEF Held, HandlesAreOwn
            <3> QED BY <3>1, <3>2
      <2>10. AwaitedIsHeld'
            BY <2>3, <2>4 DEF AwaitedIsHeld
      <2>11. StoppedIsAwaited'
            <3> SUFFICES ASSUME NEW u \in Schedulers, ~running'[u], Alive(handle[u])'
                         PROVE  \E d \in Callers : awaiting'[d] = handle'[u]
                BY DEF StoppedIsAwaited
            <3>1. u # s
                  BY <2>7
            <3>2. handle'[u] = handle[u] /\ ~running[u] /\ handle[u] # 0
                  BY <2>6, <3>1 DEF Alive
            <3>3. tasks'[handle[u]] = tasks[handle[u]]
                  BY <2>2, <2>8, <3>2
            <3>4. Alive(handle[u])
                  BY <3>2, <3>3 DEF Alive
            <3> QED BY <2>3, <3>2, <3>4 DEF Held, StoppedIsAwaited
      <2>12. EveryLoopIsHeld'
            <3> SUFFICES ASSUME NEW t \in 1..(n + 1), tasks'[t].at # "over"
                         PROVE  handle'[tasks'[t].sched] = t
                BY <2>2 DEF EveryLoopIsHeld, TaskIds, Alive
            <3>1. CASE t = n + 1
                  BY <2>2, <2>7, <3>1
            <3>2. CASE t # n + 1
                  <4>1. t \in 1..n
                        BY <1>0, <3>2 DEF n
                  <4>2. tasks'[t] = tasks[t] /\ t # 0
                        BY <2>2, <4>1
                  <4>3. handle[tasks[t].sched] = t /\ Alive(t)
                        BY <1>0, <4>1, <4>2 DEF Held, EveryLoopIsHeld, Alive, n
                  <4>4. tasks[t].sched # s
                        BY <2>5, <4>3
                  <4>5. tasks[t].sched \in Schedulers
                        BY <4>1, TaskIs DEF n
                  <4> QED BY <2>6, <4>2, <4>3, <4>4, <4>5
            <3> QED BY <3>1, <3>2
      <2> QED BY <2>9, <2>10, <2>11, <2>12 DEF Held
<1>2. ASSUME NEW c \in Callers, NEW s \in Schedulers, BeginStop(c, s) PROVE Held'
      <2>1. running' = [running EXCEPT ![s] = FALSE]
            BY <1>2 DEF BeginStop
      <2>2. \A u \in Schedulers : u # s => (running'[u] <=> running[u])
            BY <2>1 DEF Types
      <2>3. \A d \in Callers : awaiting[d] = 0 /\ d = c
            BY <1>2 DEF OneCaller, BeginStop
      <2>4. CASE /\ Alive(handle[s]) /\ Mark(handle[s])
                 /\ awaiting' = [awaiting EXCEPT ![c] = handle[s]] /\ UNCHANGED handle
            <3>1. handle[s] \in 1..Len(tasks)
                  BY <1>0, <2>4 DEF Alive, Types
            <3>2. /\ DOMAIN tasks' = 1..Len(tasks)
                  /\ \A u \in 1..Len(tasks) :
                       tasks'[u].sched = tasks[u].sched /\ tasks'[u].at = tasks[u].at
                  BY <2>4, <3>1, Marked
            <3>3. \A u \in Schedulers : handle[u] # 0 => handle[u] \in 1..Len(tasks)
                  BY <1>0 DEF Types
            <3>4. handle' = handle /\ awaiting'[c] = handle[s] /\ tasks[handle[s]].sched = s
                  BY <2>4, <3>1 DEF Types, Held, HandlesAreOwn
            <3>5. HandlesAreOwn'
                  BY <3>2, <3>3, <3>4 DEF Held, HandlesAreOwn
            <3>6. AwaitedIsHeld'
                  BY <2>3, <3>1, <3>2, <3>4 DEF AwaitedIsHeld
            <3>7. StoppedIsAwaited'
                  <4> SUFFICES ASSUME NEW u \in Schedulers, ~running'[u], Alive(handle[u])'
                               PROVE  \E d \in Callers : awaiting'[d] = handle'[u]
                      BY DEF StoppedIsAwaited
                  <4>1. CASE u = s
                        BY <3>4, <4>1
                  <4>2. CASE u # s
                        <5>1. ~running[u] /\ handle[u] # 0 /\ tasks[handle[u]].at # "over"
                              BY <2>2, <3>2, <3>3, <3>4, <4>2 DEF Alive
                        <5>2. PICK d \in Callers : awaiting[d] = handle[u]
                              BY <5>1 DEF Held, StoppedIsAwaited, Alive
                        <5> QED BY <2>3, <5>1, <5>2
                  <4> QED BY <4>1, <4>2
            <3>8. EveryLoopIsHeld'
                  BY <1>0, <3>2, <3>4 DEF Held, EveryLoopIsHeld, TaskIds, Alive
            <3> QED BY <3>5, <3>6, <3>7, <3>8 DEF Held
      <2>5. CASE ~Alive(handle[s]) /\ handle' = [handle EXCEPT ![s] = 0] /\ UNCHANGED <<tasks, awaiting>>
            <3>1. \A u \in Schedulers : handle'[u] = IF u = s THEN 0 ELSE handle[u]
                  BY <2>5 DEF Types
            <3>2. HandlesAreOwn' /\ AwaitedIsHeld'
                  BY <2>3, <2>5, <3>1 DEF Held, HandlesAreOwn, AwaitedIsHeld
            <3>3. StoppedIsAwaited'
                  <4> SUFFICES ASSUME NEW u \in Schedulers, ~running'[u], Alive(handle[u])'
                               PROVE  \E d \in Callers : awaiting'[d] = handle'[u]
                      BY DEF StoppedIsAwaited
                  <4>1. u # s
                        BY <3>1 DEF Alive
                  <4> QED BY <2>2, <2>5, <3>1, <4>1 DEF Held, StoppedIsAwaited, Alive
            <3>4. EveryLoopIsHeld'
                  <4> SUFFICES ASSUME NEW t \in 1..Len(tasks), Alive(t)
                               PROVE  handle'[tasks[t].sched] = t
                      BY <1>0, <2>5 DEF EveryLoopIsHeld, TaskIds, Alive
                  <4>1. handle[tasks[t].sched] = t /\ tasks[t].sched \in Schedulers
                        BY <1>0, TaskIs DEF Held, EveryLoopIsHeld
                  <4>2. tasks[t].sched # s
                        BY <2>5, <4>1
                  <4> QED BY <3>1, <4>1, <4>2
            <3> QED BY <3>2, <3>3, <3>4 DEF Held
      <2> QED BY <1>2, <2>4, <2>5 DEF BeginStop, Mark
<1>3. ASSUME NEW c \in Callers, EndStop(c) PROVE Held'
      <2> DEFINE t == awaiting[c]
                 s == tasks[t].sched
      <2>1. /\ t # 0 /\ ~Alive(t) /\ handle' = [handle EXCEPT ![s] = 0]
            /\ awaiting' = [awaiting EXCEPT ![c] = 0] /\ UNCHANGED <<running, tasks>>
            BY <1>3 DEF EndStop
      <2>2. s \in Schedulers
            <3>1. t \in 1..Len(tasks)
                  BY <1>0, <2>1 DEF Types
            <3> QED BY <3>1, TaskIs
      <2>3. handle[s] = t
            BY <2>1 DEF Held, AwaitedIsHeld
      <2>4. \A u \in Schedulers : handle'[u] = IF u = s THEN 0 ELSE handle[u]
            BY <2>1 DEF Types
      <2>5. \A d \in Callers : awaiting'[d] = 0 /\ d = c
            BY <2>1 DEF OneCaller, Types
      <2> HIDE DEF s
      <2>6. HandlesAreOwn' /\ AwaitedIsHeld'
            BY <2>1, <2>4, <2>5 DEF Held, HandlesAreOwn, AwaitedIsHeld
      <2>7. StoppedIsAwaited'
            <3> SUFFICES ASSUME NEW u \in Schedulers, ~running'[u], Alive(handle[u])' PROVE FALSE
                BY DEF StoppedIsAwaited
            <3>1. u # s /\ handle'[u] = handle[u] /\ ~running[u] /\ Alive(handle[u])
                  BY <2>1, <2>4 DEF Alive
            <3>2. PICK d \in Callers : awaiting[d] = handle[u]
                  BY <3>1 DEF Held, StoppedIsAwaited
            <3> QED BY <2>1, <2>5, <3>1, <3>2
      <2>8. EveryLoopIsHeld'
            <3> SUFFICES ASSUME NEW u \in 1..Len(tasks), Alive(u) PROVE handle'[tasks[u].sched] = u
                BY <1>0, <2>1 DEF EveryLoopIsHeld, TaskIds, Alive
            <3>1. handle[tasks[u].sched] = u /\ tasks[u].sched \in Schedulers
                  BY <1>0, TaskIs DEF Held, EveryLoopIsHeld
            <3>2. tasks[u].sched # s
                  BY <2>1, <2>3, <3>1
            <3> QED BY <2>4, <3>1, <3>2
      <2> QED BY <2>6, <2>7, <2>8 DEF Held
<1>4. ASSUME NEW t \in TaskIds, LoopStep(t) PROVE Held'
      <2>0. t \in 1..Len(tasks)
            BY <1>0, <1>4
      <2>1. PICK place \in Places : MoveTo(t, place)
            BY <1>4, TopOfLoopIs DEF LoopStep, BeginCycle, CycleAtOnce, CycleReturns, CycleRaises,
               LoopEnds, Places
      <2>2. tasks[t].at # "over"
            BY <1>4 DEF LoopStep, BeginCycle, CycleAtOnce, CycleReturns, CycleRaises, LoopEnds,
               InCycle, Alive
      <2>3. /\ DOMAIN tasks' = 1..Len(tasks)
            /\ \A u \in 1..Len(tasks) :
                 /\ tasks'[u].sched = tasks[u].sched
                 /\ tasks'[u].at # "over" => tasks[u].at # "over"
            BY <2>0, <2>1, <2>2, Moved
      <2>4. UNCHANGED <<running, handle, awaiting>>
            BY <1>4 DEF LoopStep, BeginCycle, CycleAtOnce, CycleReturns, CycleRaises, LoopEnds
      <2>5. \A u \in Schedulers : handle[u] # 0 => handle[u] \in 1..Len(tasks)
            BY <1>0 DEF Types
      <2>6. \A c \in Callers : awaiting[c] # 0 => awaiting[c] \in 1..Len(tasks)
            BY <1>0 DEF Types
      <2>7. HandlesAreOwn' /\ AwaitedIsHeld'
            BY <2>3, <2>4, <2>5, <2>6 DEF Held, HandlesAreOwn, AwaitedIsHeld
      <2>8. StoppedIsAwaited'
            BY <2>3, <2>4, <2>5 DEF Held, StoppedIsAwaited, Alive
      <2>9. EveryLoopIsHeld'
            BY <1>0, <2>3, <2>4 DEF Held, EveryLoopIsHeld, TaskIds, Alive
      <2> QED BY <2>7, <2>8, <2>9 DEF Held
<1>5. CASE UNCHANGED vars
      BY <1>5 DEF vars, Held, HandlesAreOwn, AwaitedIsHeld, StoppedIsAwaited, EveryLoopIsHeld,
         TaskIds, Alive
<1> QED BY <1>1, <1>2, <1>3, <1>4, <1>5 DEF Next

-----------------------------------------------------------------------------
(* The counters.                                                           *)

LEMMA StepCounted == Types /\ EveryLoopIsHeld /\ Counted /\ [Next]_vars => Counted'
<1> SUFFICES ASSUME Types, EveryLoopIsHeld, Counted, [Next]_vars PROVE Counted'
    OBVIOUS
<1> USE DEF NoTask
<1>0. /\ TaskIds = 1..Len(tasks) /\ Len(tasks) \in Nat
      /\ \A s \in Schedulers : uncounted[s] \in Nat
      BY TaskIdsAre DEF Types
<1>1. ASSUME NEW s \in Schedulers, Start(s) PROVE Counted'
      <2>1. TopOfLoop(streak[s]) \in Places
            BY TopOfLoopIs DEF Places
      <2>2. /\ Len(tasks') = Len(tasks) + 1 /\ \A u \in 1..Len(tasks) : tasks'[u] = tasks[u]
            /\ tasks'[Len(tasks) + 1].at \in {"sleep", "over"}
            BY <1>1, <2>1, Created, TopOfLoopIs DEF Start
      <2>3. uncounted' = uncounted
            BY <1>1 DEF Start
      <2> SUFFICES ASSUME NEW u \in Schedulers
                   PROVE  /\ uncounted[u] <= Len(tasks')
                          /\ \A t \in 1..Len(tasks') : tasks'[t].sched = u =>
                               /\ tasks'[t].at = "sleep" => uncounted[u] + 1 <= Len(tasks')
                               /\ tasks'[t].at = "cycle" => uncounted[u] >= 1
          BY <2>3 DEF Counted
      <2>4. uncounted[u] \in Nat /\ uncounted[u] <= Len(tasks)
            BY <1>0 DEF Counted
      <2>5. ASSUME NEW t \in 1..Len(tasks'), tasks'[t].sched = u, tasks'[t].at = "cycle"
            PROVE  uncounted[u] >= 1
            <3>1. t \in 1..Len(tasks)
                  BY <1>0, <2>2, <2>5
            <3> QED BY <2>2, <2>5, <3>1 DEF Counted
      <2> QED BY <1>0, <2>2, <2>4, <2>5
<1>2. ASSUME NEW c \in Callers, NEW s \in Schedulers, BeginStop(c, s) PROVE Counted'
      <2>1. uncounted' = uncounted
            BY <1>2 DEF BeginStop
      <2>2. CASE Alive(handle[s]) /\ Mark(handle[s])
            <3>1. handle[s] \in 1..Len(tasks)
                  BY <1>0, <2>2 DEF Alive, Types
            <3>2. /\ Len(tasks') = Len(tasks)
                  /\ \A u \in 1..Len(tasks) :
                       tasks'[u].sched = tasks[u].sched /\ tasks'[u].at = tasks[u].at
                  BY <2>2, <3>1, Marked
            <3> QED BY <2>1, <3>2 DEF Counted
      <2>3. CASE tasks' = tasks
            BY <2>1, <2>3 DEF Counted
      <2> QED BY <1>2, <2>2, <2>3 DEF BeginStop, Mark
<1>3. ASSUME NEW c \in Callers, EndStop(c) PROVE Counted'
      BY <1>3 DEF EndStop, Counted
<1>4. ASSUME NEW t \in TaskIds, LoopStep(t) PROVE Counted'
      <2> DEFINE s == tasks[t].sched
      <2>0. t \in 1..Len(tasks) /\ s \in Schedulers
            BY <1>0, <1>4, TaskIs
      <2>1. PICK place \in Places : MoveTo(t, place) /\ (place = "cycle" => BeginCycle(t))
            BY <1>4, TopOfLoopIs DEF LoopStep, BeginCycle, CycleAtOnce, CycleReturns, CycleRaises,
               LoopEnds, Places
      <2>2. /\ Len(tasks') = Len(tasks)
            /\ \A u \in 1..Len(tasks) :
                 /\ tasks'[u].sched = tasks[u].sched
                 /\ tasks'[u].at = IF u = t THEN place ELSE tasks[u].at
            BY <2>0, <2>1, Moved
      <2>3. tasks[t].at # "over"
            BY <1>4 DEF LoopStep, BeginCycle, CycleAtOnce, CycleReturns, CycleRaises, LoopEnds,
               InCycle, Alive
      \* No other loop of the scheduler is alive.
      <2>4. \A u \in 1..Len(tasks) : u # t /\ tasks[u].sched = s => tasks[u].at = "over"
            <3> SUFFICES ASSUME NEW u \in 1..Len(tasks), u # t, tasks[u].sched = s,
                                tasks[u].at # "over"
                         PROVE  FALSE
                OBVIOUS
            <3>1. Alive(u) /\ Alive(t)
                  BY <1>0, <2>3 DEF Alive
            <3> QED BY <1>0, <3>1 DEF EveryLoopIsHeld
      <2>5. /\ uncounted[s] <= Len(tasks) /\ uncounted[s] \in Nat
            /\ tasks[t].at = "sleep" => uncounted[s] + 1 <= Len(tasks)
            /\ tasks[t].at = "cycle" => uncounted[s] >= 1
            BY <1>0, <2>0 DEF Counted
      <2>6. \A u \in Schedulers \ {s} : uncounted'[u] = uncounted[u]
            BY <1>4, <2>0 DEF LoopStep, BeginCycle, CycleAtOnce, CycleReturns, CycleRaises, LoopEnds,
               Types
      <2>7. /\ uncounted'[s] \in Nat /\ uncounted'[s] <= Len(tasks)
            /\ place = "sleep" => uncounted'[s] + 1 <= Len(tasks)
            /\ place = "cycle" => uncounted'[s] >= 1
            <3>1. CASE BeginCycle(t)
                  <4>1. tasks[t].at = "sleep" /\ uncounted'[s] = uncounted[s] + 1
                        BY <2>0, <3>1 DEF BeginCycle, Types
                  <4>2. place = "cycle"
                        <5>1. tasks'[t].at = "cycle"
                              BY <2>0, <3>1, Moved DEF BeginCycle, Places
                        <5> QED BY <2>0, <2>2, <5>1
                  <4> QED BY <1>0, <2>5, <4>1, <4>2
            <3>2. CASE CycleAtOnce(t)
                  <4>1. tasks[t].at = "sleep" /\ uncounted' = uncounted
                        BY <3>2 DEF CycleAtOnce
                  <4>2. place # "cycle"
                        <5>1. TopOfLoop(0) \in Places /\ MoveTo(t, TopOfLoop(0))
                              BY <3>2, TopOfLoopIs DEF CycleAtOnce, Places
                        <5>2. tasks'[t].at = TopOfLoop(0)
                              BY <2>0, <5>1, Moved
                        <5> QED BY <2>0, <2>2, <5>2, TopOfLoopIs
                  <4> QED BY <2>5, <4>1, <4>2
            <3>3. CASE CycleReturns(t) \/ CycleRaises(t)
                  <4>1. tasks[t].at = "cycle" /\ uncounted'[s] = uncounted[s] - 1
                        BY <2>0, <3>3 DEF CycleReturns, CycleRaises, InCycle, Types
                  <4>2. place # "cycle"
                        BY <2>1, <4>1 DEF BeginCycle
                  <4> QED BY <1>0, <2>5, <4>1, <4>2
            <3>4. CASE LoopEnds(t)
                  <4>1. uncounted' = uncounted
                        BY <3>4 DEF LoopEnds
                  <4>2. place = "over"
                        <5>1. tasks'[t].at = "over"
                              BY <2>0, <3>4, Moved DEF LoopEnds, Places
                        <5> QED BY <2>0, <2>2, <5>1
                  <4> QED BY <2>5, <4>1, <4>2
            <3> QED BY <1>4, <3>1, <3>2, <3>3, <3>4 DEF LoopStep
      <2> HIDE DEF s
      <2> SUFFICES ASSUME NEW r \in Schedulers
                   PROVE  /\ uncounted'[r] <= Len(tasks)
                          /\ \A u \in 1..Len(tasks) : tasks'[u].sched = r =>
                               /\ tasks'[u].at = "sleep" => uncounted'[r] + 1 <= Len(tasks)
                               /\ tasks'[u].at = "cycle" => uncounted'[r] >= 1
          BY <2>2 DEF Counted
      <2>8. CASE r = s
            BY <2>2, <2>4, <2>7, <2>8
      <2>9. CASE r # s
            <3>1. tasks[t].sched = s
                  BY DEF s
            <3> QED BY <2>2, <2>6, <2>9, <3>1 DEF Counted
      <2> QED BY <2>8, <2>9
<1>5. CASE UNCHANGED vars
      BY <1>5 DEF vars, Counted
<1> QED BY <1>1, <1>2, <1>3, <1>4, <1>5 DEF Next

\* While a scheduler runs its loop is alive, and nobody has cancelled it.
Lively == \A s \in Schedulers : running[s] => Alive(handle[s]) /\ ~tasks[handle[s]].cancelled

LEMMA StepLively ==
  ASSUME MaxStreak <= MaxDoublings
  PROVE  Types /\ HandlesAreOwn /\ AwaitedIsHeld /\ Lively /\ [Next]_vars => Lively'
<1> SUFFICES ASSUME Types, HandlesAreOwn, AwaitedIsHeld, Lively, [Next]_vars PROVE Lively'
    OBVIOUS
<1> USE BoundAssumption DEF NoTask
<1>0. /\ TaskIds = 1..Len(tasks) /\ Len(tasks) \in Nat
      /\ \A u \in Schedulers : handle[u] # 0 => handle[u] \in 1..Len(tasks)
      BY TaskIdsAre DEF Types
<1>1. \A n \in 0..MaxStreak : TopOfLoop(n) = "sleep"
      BY DEF TopOfLoop
<1>2. ASSUME NEW s \in Schedulers, Start(s) PROVE Lively'
      <2> DEFINE n == Len(tasks)
      <2>1. TopOfLoop(streak[s]) = "sleep"
            BY <1>1 DEF Types, Streaks
      <2>2. /\ \A u \in 1..n : tasks'[u] = tasks[u]
            /\ tasks'[n + 1] = [sched |-> s, at |-> "sleep", cancelled |-> FALSE]
            BY <1>2, <2>1, AppendProperties DEF Start, Types
      <2>3. \A u \in Schedulers \ {s} : handle'[u] = handle[u] /\ (running'[u] <=> running[u])
            BY <1>2 DEF Start, Types
      <2>4. handle'[s] = n + 1 /\ n + 1 # 0
            BY <1>0, <1>2 DEF Start, Types
      <2> HIDE DEF n
      <2> SUFFICES ASSUME NEW u \in Schedulers, running'[u]
                   PROVE  Alive(handle[u])' /\ ~tasks'[handle'[u]].cancelled
          BY DEF Lively
      <2>5. CASE u = s
            BY <2>2, <2>4, <2>5 DEF Alive
      <2>6. CASE u # s
            <3>1. handle'[u] = handle[u] /\ Alive(handle[u]) /\ ~tasks[handle[u]].cancelled
                  BY <2>3, <2>6 DEF Lively
            <3>2. tasks'[handle[u]] = tasks[handle[u]]
                  BY <1>0, <2>2, <3>1 DEF Alive, n
            <3> QED BY <3>1, <3>2 DEF Alive
      <2> QED BY <2>5, <2>6
<1>3. ASSUME NEW c \in Callers, NEW s \in Schedulers, BeginStop(c, s) PROVE Lively'
      <2> SUFFICES ASSUME NEW u \in Schedulers, running'[u]
                   PROVE  Alive(handle[u])' /\ ~tasks'[handle'[u]].cancelled
          BY DEF Lively
      <2>1. u # s /\ running[u]
            BY <1>3 DEF BeginStop, Types
      <2>2. Alive(handle[u]) /\ ~tasks[handle[u]].cancelled /\ handle[u] \in 1..Len(tasks)
            BY <1>0, <2>1 DEF Lively, Alive
      <2>3. CASE Alive(handle[s]) /\ Mark(handle[s]) /\ UNCHANGED handle
            <3>1. handle[s] \in 1..Len(tasks) /\ handle[u] # handle[s]
                  BY <1>0, <2>1, <2>2, <2>3 DEF Alive, HandlesAreOwn
            <3>2. tasks'[handle[u]] = tasks[handle[u]]
                  BY <2>2, <2>3, <3>1 DEF Mark, Types
            <3> QED BY <2>2, <2>3, <3>2 DEF Alive
      <2>4. CASE handle' = [handle EXCEPT ![s] = NoTask] /\ tasks' = tasks
            <3>1. handle'[u] = handle[u]
                  BY <2>1, <2>4 DEF Types
            <3> QED BY <2>2, <2>4, <3>1 DEF Alive
      <2> QED BY <1>3, <2>3, <2>4 DEF BeginStop, Mark
<1>4. ASSUME NEW c \in Callers, EndStop(c) PROVE Lively'
      <2> SUFFICES ASSUME NEW u \in Schedulers, running[u]
                   PROVE  Alive(handle[u])' /\ ~tasks'[handle'[u]].cancelled
          BY <1>4 DEF Lively, EndStop
      <2> DEFINE s == tasks[awaiting[c]].sched
      <2>1. awaiting[c] # 0 /\ ~Alive(awaiting[c]) /\ tasks' = tasks /\ handle' = [handle EXCEPT ![s] = 0]
            BY <1>4 DEF EndStop
      <2>2. handle[s] = awaiting[c]
            BY <2>1 DEF AwaitedIsHeld
      <2>3. Alive(handle[u]) /\ ~tasks[handle[u]].cancelled
            BY DEF Lively
      <2>4. u # s
            BY <2>1, <2>2, <2>3
      <2>5. handle'[u] = handle[u]
            BY <2>1, <2>4 DEF Types
      <2> QED BY <2>1, <2>3, <2>5 DEF Alive
<1>5. ASSUME NEW t \in TaskIds, LoopStep(t) PROVE Lively'
      <2>0. t \in 1..Len(tasks) /\ tasks[t].sched \in Schedulers
            BY <1>0, <1>5, TaskIs
      <2>1. UNCHANGED <<running, handle, awaiting>>
            BY <1>5 DEF LoopStep, BeginCycle, CycleAtOnce, CycleReturns, CycleRaises, LoopEnds
      <2>2. PICK place \in Places :
              /\ MoveTo(t, place)
              /\ running[tasks[t].sched] /\ ~tasks[t].cancelled => place # "over"
            <3>1. streak[tasks[t].sched] \in 0..MaxStreak
                  BY <2>0 DEF Types, Streaks
            <3>2. CASE BeginCycle(t) \/ CycleAtOnce(t) \/ CycleReturns(t) \/ LoopEnds(t)
                  BY <1>1, <3>2 DEF BeginCycle, CycleAtOnce, CycleReturns, LoopEnds, Places
            <3>3. CASE CycleRaises(t)
                  <4>1. streak'[tasks[t].sched] \in 0..MaxStreak
                        BY <2>0, <3>1, <3>3 DEF CycleRaises, Types
                  <4> QED BY <1>1, <3>3, <4>1 DEF CycleRaises, Places
            <3> QED BY <1>5, <3>2, <3>3 DEF LoopStep
      <2>3. \A u \in 1..Len(tasks) :
              /\ tasks'[u].cancelled = tasks[u].cancelled
              /\ tasks'[u].at = IF u = t THEN place ELSE tasks[u].at
            BY <2>0, <2>2, Moved
      <2> SUFFICES ASSUME NEW u \in Schedulers, running[u]
                   PROVE  Alive(handle[u])' /\ ~tasks'[handle[u]].cancelled
          BY <2>1 DEF Lively
      <2>4. Alive(handle[u]) /\ ~tasks[handle[u]].cancelled /\ handle[u] \in 1..Len(tasks)
            BY <1>0 DEF Lively, Alive
      <2>5. tasks[handle[u]].sched = u
            BY <2>4 DEF HandlesAreOwn
      <2>6. tasks'[handle[u]].at # "over"
            BY <2>2, <2>3, <2>4, <2>5 DEF Alive
      <2> QED BY <2>1, <2>3, <2>4, <2>6 DEF Alive
<1>6. CASE UNCHANGED vars
      BY <1>6 DEF vars, Lively, Alive
<1> QED BY <1>2, <1>3, <1>4, <1>5, <1>6 DEF Next

-----------------------------------------------------------------------------
(* The theorems.                                                           *)

Inv == Types /\ Held /\ Counted

LEMMA InitInv == Init => Inv /\ Lively
<1> SUFFICES ASSUME Init PROVE Inv /\ Lively
    OBVIOUS
<1> USE BoundAssumption DEF NoTask
<1>1. tasks = <<>> /\ tasks \in Seq(Tasks) /\ Len(tasks) = 0 /\ TaskIds = {}
      BY EmptySeq DEF Init, TaskIds
<1>2. running \in [Schedulers -> BOOLEAN] /\ \A s \in Schedulers : ~running[s]
      BY DEF Init
<1>3. Types
      BY <1>1, <1>2 DEF Init, Types, Streaks
<1>4. Held /\ Counted
      BY <1>1 DEF Init, Held, HandlesAreOwn, AwaitedIsHeld, StoppedIsAwaited, EveryLoopIsHeld,
         Counted, Alive
<1> QED BY <1>2, <1>3, <1>4 DEF Inv, Lively

LEMMA StepInv == OneCaller /\ Inv /\ [Next]_vars => Inv'
BY StepTypes, StepHeld, StepCounted DEF Inv, Held

\* With one caller no live loop ever escapes the handle of its scheduler, so that a
\* stop() can always reach it.
THEOREM LoopsAreHeld ==
  ASSUME OneCaller
  PROVE  Spec => []EveryLoopIsHeld
<1>1. Inv => EveryLoopIsHeld
      BY DEF Inv, Held
<1>2. Inv /\ [Next]_vars => Inv'
      BY StepInv
<1> QED BY <1>1, <1>2, InitInv, PTL DEF Spec

\* With one caller no two cycles of a scheduler overlap, across starts and stops.
THEOREM CyclesAreExclusive ==
  ASSUME OneCaller
  PROVE  Spec => []CyclesNeverOverlap
<1>1. Inv => CyclesNeverOverlap
      <2> SUFFICES ASSUME Inv, NEW t \in TaskIds, NEW u \in TaskIds, InCycle(t), InCycle(u),
                          tasks[t].sched = tasks[u].sched
                   PROVE  t = u
          BY DEF CyclesNeverOverlap
      <2>1. t # 0 /\ u # 0
            BY TaskIdsAre DEF Inv
      <2>2. Alive(t) /\ Alive(u)
            BY <2>1 DEF InCycle, Alive, NoTask
      <2> QED BY <2>2 DEF Inv, Held, EveryLoopIsHeld
<1>2. Inv /\ [Next]_vars => Inv'
      BY StepInv
<1> QED BY <1>1, <1>2, InitInv, PTL DEF Spec

\* While no streak of failures outgrows what a float can hold, a scheduler that runs
\* has a live loop.
THEOREM LoopsSurvive ==
  ASSUME OneCaller, MaxStreak <= MaxDoublings
  PROVE  Spec => []RunningLoopsAreAlive
<1>1. Inv /\ Lively => RunningLoopsAreAlive
      <2> SUFFICES ASSUME Inv, Lively, NEW s \in Schedulers, running[s]
                   PROVE  \E t \in TaskIds : tasks[t].sched = s /\ Alive(t)
          BY DEF RunningLoopsAreAlive
      <2>1. Alive(handle[s]) /\ handle[s] \in 0..Len(tasks) /\ handle[s] # 0
            BY DEF Lively, Inv, Types, Alive, NoTask
      <2>2. handle[s] \in TaskIds
            BY <2>1, TaskIdsAre DEF Inv
      <2>3. tasks[handle[s]].sched = s
            BY <2>1 DEF Inv, Held, HandlesAreOwn
      <2> QED BY <2>1, <2>2, <2>3
<1>2. Inv /\ Lively /\ [Next]_vars => (Inv /\ Lively)'
      BY StepInv, StepLively DEF Inv, Held
<1> QED BY <1>1, <1>2, InitInv, PTL DEF Spec

\* Types of the schedulers; no more cycles are left uncounted than tasks were made.
THEOREM TypeCorrect ==
  ASSUME OneCaller
  PROVE  Spec => []TypeOK
<1>1. Inv => TypeOK
      <2> SUFFICES ASSUME Inv PROVE TypeOK
          OBVIOUS
      <2>1. uncounted \in [Schedulers -> 0..MaxTasks]
            <3>1. \A s \in Schedulers : uncounted[s] \in Nat /\ uncounted[s] <= Len(tasks)
                  BY DEF Inv, Types, Counted
            <3>2. Len(tasks) \in Nat /\ Len(tasks) <= MaxTasks /\ uncounted \in [Schedulers -> Nat]
                  BY TaskIdsAre DEF Inv, Types
            <3> QED BY <3>1, <3>2, BoundAssumption
      <2> QED BY <2>1 DEF Inv, Types, TypeOK, Tasks, Places, Streaks
<1>2. Inv /\ [Next]_vars => Inv'
      BY StepInv
<1> QED BY <1>1, <1>2, InitInv, PTL DEF Spec
=============================================================================
