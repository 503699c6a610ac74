------------------------------- MODULE Worker -------------------------------
(***************************************************************************)
(* The autonomous paper-trading worker: the lifecycle, the coordinator     *)
(* with its two schedulers and the trading cycle                           *)
(* (apps/trading-engine/src/workers/).  Its callers are the routes that    *)
(* start and stop it and the lifespan of the application.                  *)
(*                                                                         *)
(* start() never yields: the risk engine the coordinator builds has no     *)
(* policy to initialise, so STARTING lies inside one step.  A poll of the  *)
(* simulated market never yields either.  A trading cycle yields only      *)
(* while an order of its is under way to the broker adapter.  What the     *)
(* decision and the risk engine make of a tick is left open.               *)
(***************************************************************************)
EXTENDS Integers, Sequences

CONSTANTS
  Symbols,
  Callers,
  MaxTasks,  \* bound: background tasks ever created
  MaxOrders  \* bound: orders the worker submits

Schedulers == {"market", "trading"}

VARIABLES
  running, handle, streak, uncounted, tasks, awaiting,  \* as in AsyncScheduler
  state,    \* WorkerLifecycle._state
  batch,    \* symbols the current trading cycle has still to trade
  orders    \* orders the adapter has taken from the worker

sched == <<running, handle, streak, uncounted, tasks, awaiting>>
vars == <<sched, state, batch, orders>>

Sched == INSTANCE AsyncScheduler WITH MaxDoublings <- 1, MaxStreak <- 1

ASSUME WorkerAssumption == MaxTasks \in Nat /\ MaxOrders \in Nat

Init ==
  /\ Sched!Init
  /\ state = "stopped"
  /\ batch = {}
  /\ orders = 0

-----------------------------------------------------------------------------
(* The coordinator's start() and stop().                                   *)

Idle(c) == awaiting[c] = Sched!NoTask

NewLoop(s) == [sched |-> s, at |-> Sched!TopOfLoop(streak[s]), cancelled |-> FALSE]

\* Mutant: the lifecycle lets a worker start while it is still stopping.
StartWhileStopping(c) ==
  /\ Idle(c)
  /\ state # "running"
  /\ Len(tasks) + 2 <= MaxTasks
  /\ state' = "running"
  /\ running' = [s \in Schedulers |-> TRUE]
  /\ handle' = [s \in Schedulers |-> Len(tasks) + (IF s = "market" THEN 1 ELSE 2)]
  /\ tasks' = tasks \o <<NewLoop("market"), NewLoop("trading")>>
  /\ UNCHANGED <<streak, uncounted, awaiting, batch, orders>>

\* STOPPED -> STARTING -> RUNNING, and both schedulers are given a task.
Start(c) ==
  /\ Idle(c)
  /\ state = "stopped"
  /\ Len(tasks) + 2 <= MaxTasks
  /\ state' = "running"
  /\ running' = [s \in Schedulers |-> TRUE]
  /\ handle' = [s \in Schedulers |-> Len(tasks) + (IF s = "market" THEN 1 ELSE 2)]
  /\ tasks' = tasks \o <<NewLoop("market"), NewLoop("trading")>>
  /\ UNCHANGED <<streak, uncounted, awaiting, batch, orders>>

\* RUNNING -> STOPPING; stop() cancels the trading loop and awaits it.
BeginStop(c) ==
  /\ Idle(c)
  /\ state = "running"
  /\ state' = "stopping"
  /\ Sched!BeginStop(c, "trading")
  /\ UNCHANGED <<batch, orders>>

\* A start that finds the worker not stopped, or a stop that finds it not
\* running, returns at once, while another stop is in progress too.
CallIgnored(c) ==
  /\ Idle(c)
  /\ UNCHANGED vars

\* Mutant: the worker is stopped as soon as its trading loop is.
StopTradingOnly(c) ==
  /\ ~Idle(c) /\ tasks[awaiting[c]].sched = "trading"
  /\ ~Sched!Alive(awaiting[c])
  /\ state' = "stopped"
  /\ handle' = [handle EXCEPT !["trading"] = Sched!NoTask]
  /\ awaiting' = [awaiting EXCEPT ![c] = Sched!NoTask]
  /\ UNCHANGED <<running, streak, uncounted, tasks, batch, orders>>

\* The trading loop is over: stop() goes on to the market loop.
StopMarket(c) ==
  /\ ~Idle(c) /\ tasks[awaiting[c]].sched = "trading"
  /\ ~Sched!Alive(awaiting[c])
  /\ handle' = [handle EXCEPT !["trading"] = Sched!NoTask]
  /\ running' = [running EXCEPT !["market"] = FALSE]
  /\ tasks' = [tasks EXCEPT ![handle["market"]].cancelled = TRUE]
  /\ awaiting' = [awaiting EXCEPT ![c] = handle["market"]]
  /\ UNCHANGED <<streak, uncounted, state, batch, orders>>

\* The market loop is over too: nothing is left to drain.  STOPPING -> STOPPED.
EndStop(c) ==
  /\ ~Idle(c) /\ tasks[awaiting[c]].sched = "market"
  /\ Sched!EndStop(c)
  /\ state' = "stopped"
  /\ UNCHANGED <<batch, orders>>

-----------------------------------------------------------------------------
(* The loops and their callbacks.                                          *)

\* A poll, a trading cycle that submits nothing, or one that finds the worker
\* no longer running: the callback never yields.
QuietCycle(t) ==
  /\ Sched!CycleAtOnce(t)
  /\ UNCHANGED <<state, batch, orders>>

\* A trading cycle reaches its first order: some symbols have fresh ticks and
\* a decision that passes risk and validation.  The order is under way.
BeginTrading(t) ==
  /\ tasks[t].sched = "trading"
  /\ state = "running"
  /\ Sched!BeginCycle(t)
  /\ batch' \in SUBSET Symbols \ {{}}
  /\ UNCHANGED <<state, orders>>

\* Mutant: the cancelled cycle still completes its order.
OrderLandsAnyway(t) ==
  \E s \in batch :
    /\ Sched!InCycle(t)
    /\ orders < MaxOrders
    /\ orders' = orders + 1
    /\ batch' = batch \ {s}
    /\ IF batch' = {} /\ ~tasks[t].cancelled THEN Sched!CycleReturns(t) ELSE UNCHANGED sched
    /\ UNCHANGED state

\* The adapter takes the order, or raises; the cycle goes on with its next
\* symbol, and returns after the last.
OrderLands(t) ==
  \E s \in batch :
    /\ Sched!InCycle(t) /\ ~tasks[t].cancelled
    /\ \/ orders < MaxOrders /\ orders' = orders + 1
       \/ UNCHANGED orders
    /\ batch' = batch \ {s}
    /\ IF batch' = {} THEN Sched!CycleReturns(t) ELSE UNCHANGED sched
    /\ UNCHANGED state

\* Mutant: the cycle is shielded from the cancellation, and with it its loop.
LoopEndsAsleep(t) ==
  /\ Sched!LoopEndsAsleep(t)
  /\ batch' = IF tasks[t].sched = "trading" THEN {} ELSE batch
  /\ UNCHANGED <<state, orders>>

\* A stopped loop ends; the cycle it was in is abandoned where it stood.
LoopEnds(t) ==
  /\ Sched!LoopEnds(t)
  /\ batch' = IF tasks[t].sched = "trading" THEN {} ELSE batch
  /\ UNCHANGED <<state, orders>>

LoopStep(t) == QuietCycle(t) \/ BeginTrading(t) \/ OrderLands(t) \/ LoopEnds(t)

Next ==
  \/ \E c \in Callers : Start(c)
  \/ \E c \in Callers : BeginStop(c) \/ CallIgnored(c)
  \/ \E c \in Callers : StopMarket(c) \/ EndStop(c)
  \/ \E t \in DOMAIN tasks : LoopStep(t)

\* The event loop resumes whatever is ready; sleeps and submissions end.
Fairness ==
  /\ \A t \in 1..MaxTasks : WF_vars(t \in DOMAIN tasks /\ LoopStep(t))
  /\ \A c \in Callers : WF_vars(StopMarket(c) \/ EndStop(c))

Spec == Init /\ [][Next]_vars /\ Fairness

-----------------------------------------------------------------------------
(* Properties.                                                             *)

\* Types of the worker and of its schedulers.
TypeOK ==
  /\ Sched!TypeOK
  /\ state \in {"stopped", "running", "stopping"}
  /\ batch \subseteq Symbols
  /\ orders \in 0..MaxOrders

\* Behind the lifecycle gate the schedulers are safe whatever the callers do:
\* no cycle overlaps another, no live loop is out of reach of a stop, and a
\* running worker has both its loops.
SchedulersAreSafe ==
  /\ Sched!CyclesNeverOverlap
  /\ Sched!EveryLoopIsHeld
  /\ state = "running" => \A s \in Schedulers : Sched!Alive(handle[s])

\* A worker that says it is stopped has drained: no loop is alive, no order is
\* under way and nobody still waits to stop it.
StoppedIsDrained ==
  state = "stopped" =>
    /\ \A t \in DOMAIN tasks : ~Sched!Alive(t)
    /\ batch = {}
    /\ \A c \in Callers : Idle(c)

\* A stop reaches the order under way: none lands once stopping has begun.
OrdersOnlyWhileRunning == [][orders' # orders => state = "running"]_vars

\* A stop that has begun ends, wherever it finds the two loops.
StopsEnd == state = "stopping" ~> state = "stopped"

=============================================================================
