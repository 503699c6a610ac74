--------------------------- MODULE AsyncScheduler ---------------------------
(***************************************************************************)
(* The periodic task runner of the autonomous worker,                      *)
(* apps/trading-engine/src/workers/scheduler.py: schedulers that callers   *)
(* start and stop, each running its callback in a background task.         *)
(*                                                                         *)
(* A task is the coroutine _loop; it yields only while it sleeps and while *)
(* the callback does.  task.cancel() takes effect when the task next runs, *)
(* so a cancelled task may be found at either place a little longer.       *)
(*                                                                         *)
(* The three cycle counters are kept as one number per scheduler: the      *)
(* cycles that were started and never counted as completed or failed.      *)
(***************************************************************************)
EXTENDS Integers, Sequences

CONSTANTS
  Schedulers,
  Callers,
  MaxDoublings,  \* largest n for which interval * 2 ** n is still a float
  MaxStreak,     \* bound: consecutive failures of a callback
  MaxTasks       \* bound: background tasks ever created

NoTask == 0

ASSUME BoundAssumption == MaxDoublings \in Nat /\ MaxStreak \in Nat /\ MaxTasks \in Nat

VARIABLES
  running,    \* _running, per scheduler
  handle,     \* _task, per scheduler
  streak,     \* _consecutive_failures
  uncounted,  \* _cycles_started - _cycles_completed - _cycles_failed
  tasks,      \* the background tasks created so far
  awaiting    \* per caller of stop(), the task it awaits

vars == <<running, handle, streak, uncounted, tasks, awaiting>>

TaskIds == DOMAIN tasks
Alive(t) == t # NoTask /\ tasks[t].at # "over"
InCycle(t) == tasks[t].at = "cycle"

Init ==
  /\ running = [s \in Schedulers |-> FALSE]
  /\ handle = [s \in Schedulers |-> NoTask]
  /\ streak = [s \in Schedulers |-> 0]
  /\ uncounted = [s \in Schedulers |-> 0]
  /\ tasks = << >>
  /\ awaiting = [c \in Callers |-> NoTask]

-----------------------------------------------------------------------------
(* start() and stop().                                                     *)

\* Where the loop is after _backoff_interval: computing the pause raises once
\* the power of two does not fit a float, and that ends the task.
TopOfLoop(failures) == IF failures <= MaxDoublings THEN "sleep" ELSE "over"

\* Mutant: a scheduler that is running starts a second loop.
StartAnyway(s) ==
  /\ Len(tasks) < MaxTasks
  /\ running' = [running EXCEPT ![s] = TRUE]
  /\ handle' = [handle EXCEPT ![s] = Len(tasks) + 1]
  /\ tasks' = Append(tasks, [sched |-> s, at |-> TopOfLoop(streak[s]), cancelled |-> FALSE])
  /\ UNCHANGED <<streak, uncounted, awaiting>>

\* A scheduler that is running ignores the call (a stuttering step).
Start(s) ==
  /\ ~running[s]
  /\ Len(tasks) < MaxTasks
  /\ running' = [running EXCEPT ![s] = TRUE]
  /\ handle' = [handle EXCEPT ![s] = Len(tasks) + 1]
  /\ tasks' = Append(tasks, [sched |-> s, at |-> TopOfLoop(streak[s]), cancelled |-> FALSE])
  /\ UNCHANGED <<streak, uncounted, awaiting>>

\* stop() up to `await self._task', or to its end if there is nothing to await.
BeginStop(c, s) ==
  /\ awaiting[c] = NoTask
  /\ running' = [running EXCEPT ![s] = FALSE]
  /\ \/ /\ Alive(handle[s])
        /\ tasks' = [tasks EXCEPT ![handle[s]].cancelled = TRUE]
        /\ awaiting' = [awaiting EXCEPT ![c] = handle[s]]
        /\ UNCHANGED handle
     \/ /\ ~Alive(handle[s])
        /\ handle' = [handle EXCEPT ![s] = NoTask]
        /\ UNCHANGED <<tasks, awaiting>>
  /\ UNCHANGED <<streak, uncounted>>

\* The awaited task is over: stop() forgets whatever task the scheduler has.
EndStop(c) ==
  /\ awaiting[c] # NoTask
  /\ ~Alive(awaiting[c])
  /\ handle' = [handle EXCEPT ![tasks[awaiting[c]].sched] = NoTask]
  /\ awaiting' = [awaiting EXCEPT ![c] = NoTask]
  /\ UNCHANGED <<running, streak, uncounted, tasks>>

-----------------------------------------------------------------------------
(* _loop.                                                                  *)

MoveTo(t, place) == tasks' = [tasks EXCEPT ![t].at = place]

\* Mutant: the cycle is not counted as started.
BeginCycleUncounted(t) ==
  /\ tasks[t].at = "sleep" /\ ~tasks[t].cancelled
  /\ running[tasks[t].sched]
  /\ MoveTo(t, "cycle")
  /\ UNCHANGED <<running, handle, streak, uncounted, awaiting>>

\* The pause is over and nobody stopped the scheduler: the callback begins.
BeginCycle(t) ==
  LET s == tasks[t].sched
  IN /\ tasks[t].at = "sleep" /\ ~tasks[t].cancelled
     /\ running[s]
     /\ MoveTo(t, "cycle")
     /\ uncounted' = [uncounted EXCEPT ![s] = @ + 1]
     /\ UNCHANGED <<running, handle, streak, awaiting>>

\* The callback returns without ever having yielded.
CycleAtOnce(t) ==
  LET s == tasks[t].sched
  IN /\ tasks[t].at = "sleep" /\ ~tasks[t].cancelled
     /\ running[s]
     /\ MoveTo(t, TopOfLoop(0))
     /\ streak' = [streak EXCEPT ![s] = 0]
     /\ UNCHANGED <<running, handle, uncounted, awaiting>>

CycleReturns(t) ==
  LET s == tasks[t].sched
  IN /\ InCycle(t) /\ ~tasks[t].cancelled
     /\ MoveTo(t, IF running[s] THEN TopOfLoop(0) ELSE "over")
     /\ streak' = [streak EXCEPT ![s] = 0]
     /\ uncounted' = [uncounted EXCEPT ![s] = @ - 1]
     /\ UNCHANGED <<running, handle, awaiting>>

\* Mutant: what the callback raises leaves the loop.
CycleRaisesThrough(t) ==
  LET s == tasks[t].sched
  IN /\ InCycle(t) /\ ~tasks[t].cancelled
     /\ streak[s] < MaxStreak
     /\ streak' = [streak EXCEPT ![s] = @ + 1]
     /\ MoveTo(t, "over")
     /\ uncounted' = [uncounted EXCEPT ![s] = @ - 1]
     /\ UNCHANGED <<running, handle, awaiting>>

CycleRaises(t) ==
  LET s == tasks[t].sched
  IN /\ InCycle(t) /\ ~tasks[t].cancelled
     /\ streak[s] < MaxStreak
     /\ streak' = [streak EXCEPT ![s] = @ + 1]
     /\ MoveTo(t, IF running[s] THEN TopOfLoop(streak'[s]) ELSE "over")
     /\ uncounted' = [uncounted EXCEPT ![s] = @ - 1]
     /\ UNCHANGED <<running, handle, awaiting>>

\* Mutant: the callback is shielded from the cancellation, and with it the loop.
LoopEndsAsleep(t) ==
  /\ tasks[t].at = "sleep"
  /\ ~running[tasks[t].sched] \/ tasks[t].cancelled
  /\ MoveTo(t, "over")
  /\ UNCHANGED <<running, handle, streak, uncounted, awaiting>>

\* The loop ends: it wakes to find itself stopped, or is thrown the
\* cancellation wherever it is.
LoopEnds(t) ==
  /\ \/ tasks[t].at = "sleep" /\ ~running[tasks[t].sched]
     \/ Alive(t) /\ tasks[t].cancelled
  /\ MoveTo(t, "over")
  /\ UNCHANGED <<running, handle, streak, uncounted, awaiting>>

LoopStep(t) ==
  \/ BeginCycle(t)
  \/ CycleAtOnce(t)
  \/ CycleReturns(t)
  \/ CycleRaises(t)
  \/ LoopEnds(t)

Next ==
  \/ \E c \in Callers, s \in Schedulers : awaiting[c] = NoTask /\ Start(s)
  \/ \E c \in Callers, s \in Schedulers : BeginStop(c, s)
  \/ \E c \in Callers : EndStop(c)
  \/ \E t \in TaskIds : LoopStep(t)

\* Sleeps end, callbacks end, and the event loop runs whatever is ready.
Fairness ==
  /\ \A t \in 1..MaxTasks : WF_vars(t \in TaskIds /\ LoopStep(t))
  /\ \A c \in Callers : WF_vars(EndStop(c))

Spec == Init /\ [][Next]_vars /\ Fairness

-----------------------------------------------------------------------------
(* Properties.                                                             *)

\* Types of the schedulers, their tasks and their callers.
TypeOK ==
  /\ running \in [Schedulers -> BOOLEAN]
  /\ streak \in [Schedulers -> 0..MaxStreak]
  /\ uncounted \in [Schedulers -> 0..MaxTasks]
  /\ tasks \in Seq([sched : Schedulers, at : {"sleep", "cycle", "over"},
                    cancelled : BOOLEAN])
  /\ handle \in [Schedulers -> 0..Len(tasks)]
  /\ awaiting \in [Callers -> 0..Len(tasks)]

\* scheduler.py: "Never spawns a new cycle while the previous one is still
\* running", across any number of starts and stops.  (One caller: a start()
\* that meets a stop() in progress creates a loop the stop() then forgets.)
CyclesNeverOverlap ==
  \A t, u \in TaskIds :
    InCycle(t) /\ InCycle(u) /\ tasks[t].sched = tasks[u].sched => t = u

\* No task is orphaned: every live task of a scheduler is the one its handle
\* names, so that a stop() can reach it.
EveryLoopIsHeld ==
  \A t \in TaskIds : Alive(t) => handle[tasks[t].sched] = t

\* Failures slow a scheduler down ("so a worker never freezes for too long")
\* but never end it: while it is running it has a live loop.
RunningLoopsAreAlive ==
  \A s \in Schedulers : running[s] => \E t \in TaskIds : tasks[t].sched = s /\ Alive(t)

\* Every stop() returns, wherever it finds the loop and whatever else is started
\* meanwhile.
StopsReturn == \A c \in Callers : awaiting[c] # NoTask ~> awaiting[c] = NoTask

=============================================================================
