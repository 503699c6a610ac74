--------------------------- MODULE StreamManager ----------------------------
(***************************************************************************)
(* The composition root of the streaming layer, stream_manager.py, with    *)
(* its buffer, flow controller, circuit breaker and shutdown coordinator,  *)
(* around the bus of StreamBus.                                            *)
(*                                                                         *)
(* process_event() passes the rate limiter and the breaker of its provider,*)
(* reads the depth of the buffer, waits while the flow is paused, sleeps a *)
(* throttling delay, and only then fills the buffer and publishes; the     *)
(* breaker is told how it ended.  Every producer here offers events of one *)
(* provider.  Who reads the buffer is not part of the layer.               *)
(*                                                                         *)
(* start() only looks at the manager's own flag, which a stop clears before*)
(* it begins to shut down: a start in the middle of a stop goes through,   *)
(* and may start the bus beside the loop that is still being stopped.      *)
(***************************************************************************)
EXTENDS StreamBus

CONSTANTS
  Producers,
  BufferSize,        \* buffer_maxsize
  OverflowPolicies,  \* the overflow policies to consider
  HighWater,         \* backpressure_high_water
  LowWater,          \* backpressure_low_water
  Modes,             \* the backpressure modes to consider
  FailureThreshold,  \* circuit_breaker_failure_threshold
  SuccessThreshold,  \* circuit_breaker_success_threshold
  HalfOpenMaxCalls   \* half_open_max_calls, which the manager leaves at its default 1

ASSUME ManagerAssumption ==
  /\ BufferSize \in Nat \ {0}
  /\ OverflowPolicies \subseteq {"drop_oldest", "drop_newest", "block"}
  /\ HighWater \in Nat /\ LowWater \in Nat /\ LowWater < HighWater
  /\ Modes \subseteq {"pause_producer", "drop_events", "adaptive"}
  /\ FailureThreshold \in Nat \ {0}
  /\ SuccessThreshold \in Nat \ {0}
  /\ HalfOpenMaxCalls \in Nat \ {0}

VARIABLES
  up,        \* _running of the manager
  shutdown,  \* _shutting_down of the coordinator
  stopper,   \* where the shutdown in progress is, if there is one
  sets,      \* sets of shutdown tasks registered, one by each start
  stops,     \* those whose bus.stop() the phase in progress has still to run
  awaited,   \* the delivery loop that the bus.stop() in progress awaits, or 0
  hasty,     \* history: a start came in the middle of a shutdown
  policy, mode,
  depth,     \* number of events in the buffer
  paused,    \* _paused, and not _pause_event
  call,      \* per producer: where its process_event is suspended, and its event
  breaker    \* of the provider

stopVars == <<stopper, sets, stops, awaited, hasty>>
lifeVars == <<up, shutdown, stopVars, policy, mode>>
vars == <<busVars, lifeVars, depth, paused, call, breaker>>

At(place, priority) == [at |-> place, priority |-> priority]
Idle == At("idle", 0)
Suspended == {"paused", "throttled", "blocked"}

-----------------------------------------------------------------------------
(* The circuit breaker: what becomes of it.                                *)

Breaker(state, failures, successes, probes, elapsed) ==
  [state |-> state, failures |-> failures, successes |-> successes,
   probes |-> probes, elapsed |-> elapsed]

Closed == Breaker("closed", 0, 0, 0, FALSE)
Open == Breaker("open", 0, 0, 0, FALSE)

\* The breaker an event comes to: looked at after its timeout, an open one is
\* half-open.
Checked(b) ==
  IF b.state = "open" /\ b.elapsed THEN Breaker("half_open", 0, b.successes, 0, FALSE) ELSE b

Admits(b) ==
  \/ b.state = "closed"
  \/ b.state = "half_open" /\ b.probes < HalfOpenMaxCalls

\* call() up to the guarded function.
Admitted(b) ==
  IF b.state = "half_open" THEN [b EXCEPT !.probes = @ + 1] ELSE b

\* _on_success
Succeeded(b) ==
  CASE b.state = "half_open" ->
         IF b.successes + 1 >= SuccessThreshold THEN Closed
         ELSE [b EXCEPT !.successes = @ + 1]
    [] b.state = "closed" -> [b EXCEPT !.failures = 0]
    [] OTHER -> b

\* Mutant: the breaker opens one failure late.
FailedLate(b) ==
  CASE b.state = "half_open" -> Open
    [] b.state = "closed" ->
         IF b.failures >= FailureThreshold THEN Open
         ELSE [b EXCEPT !.failures = @ + 1]
    [] OTHER -> b

\* _on_failure, for an exception and for a cancellation
Failed(b) ==
  CASE b.state = "half_open" -> Open
    [] b.state = "closed" ->
         IF b.failures + 1 >= FailureThreshold THEN Open
         ELSE [b EXCEPT !.failures = @ + 1]
    [] OTHER -> b

-----------------------------------------------------------------------------
(* Backpressure.                                                           *)

\* How far a depth lies between the watermarks, in tenths of their distance.
Tenths == 10 * (depth - LowWater)
Distance == HighWater - LowWater

Pauses ==
  \/ mode # "drop_events" /\ depth >= HighWater
  \/ mode = "adaptive" /\ depth > LowWater /\ Tenths > 7 * Distance

Resumes ==
  \/ mode # "drop_events" /\ depth <= LowWater
  \/ mode = "adaptive" /\ depth < HighWater /\ Tenths < 3 * Distance

\* update_depth(), which only producers call: the flow after it.
PausedNow == (paused /\ ~Resumes) \/ Pauses

\* Mutant: the flag is cleared and the event is not set.
WokenNone(wake) == call

\* Setting the event wakes everyone who waits for it.  The depth they read was
\* above the low watermark, so a throttling delay is what comes next.
Woken(wake) ==
  [p \in Producers |->
     IF wake /\ call[p].at = "paused" THEN At("throttled", call[p].priority) ELSE call[p]]

-----------------------------------------------------------------------------
(* process_event().                                                        *)

\* enqueue(), publish() and the report to the breaker b.  A publication that the
\* stopped bus refuses is a failure, an event dropped as the newest a success.
BufferAndPublish(p, calls, b, priority) ==
  /\ call' = [calls EXCEPT ![p] = Idle]
  /\ IF depth >= BufferSize /\ policy = "drop_newest"
     THEN breaker' = Succeeded(b) /\ UNCHANGED <<busVars, depth>>
     ELSE /\ depth' = IF depth < BufferSize THEN depth + 1 ELSE depth
          /\ IF running
             THEN breaker' = Succeeded(b) /\ Publish(priority)
             ELSE breaker' = Failed(b) /\ UNCHANGED busVars

\* The rest of _buffer_event(): with the buffer full the blocking policy waits
\* for room.
GoOn(p, calls, b, priority) ==
  IF depth >= BufferSize /\ policy = "block"
  THEN /\ call' = [calls EXCEPT ![p] = At("blocked", priority)]
       /\ breaker' = b
       /\ UNCHANGED <<busVars, depth>>
  ELSE BufferAndPublish(p, calls, b, priority)

\* A call that the rate limiter and the breaker let pass, up to where it is
\* suspended first; the one they turn away changes nothing but what Look does.
Offer(p, priority) ==
  /\ up /\ call[p].at = "idle"
  /\ Admits(Checked(breaker))
  /\ paused' = PausedNow
  /\ LET b == Admitted(Checked(breaker))
         calls == Woken(paused /\ ~PausedNow)
         suspended(place) ==
           /\ call' = [calls EXCEPT ![p] = At(place, priority)]
           /\ breaker' = b
           /\ UNCHANGED <<busVars, depth>>
     IN \/ PausedNow /\ suspended("paused")
        \/ ~PausedNow /\ depth > LowWater /\ suspended("throttled")
        \/ ~PausedNow /\ depth <= LowWater /\ GoOn(p, calls, b, priority)
  /\ UNCHANGED lifeVars

\* The throttling delay is over.
Throttled(p) ==
  /\ call[p].at = "throttled"
  /\ GoOn(p, call, breaker, call[p].priority)
  /\ UNCHANGED <<lifeVars, paused>>

\* There is room for a blocked producer.
Unblock(p) ==
  /\ call[p].at = "blocked" /\ depth < BufferSize
  /\ BufferAndPublish(p, call, breaker, call[p].priority)
  /\ UNCHANGED <<lifeVars, paused>>

\* The caller of process_event() gives up waiting and cancels it.
Abandon(p) ==
  /\ call[p].at \in Suspended
  /\ call' = [call EXCEPT ![p] = Idle]
  /\ breaker' = Failed(breaker)
  /\ UNCHANGED <<busVars, lifeVars, depth, paused>>

\* Somebody looks at the state of the breaker.
Look ==
  /\ Checked(breaker) # breaker
  /\ breaker' = Checked(breaker)
  /\ UNCHANGED <<busVars, lifeVars, depth, paused, call>>

TimePasses ==
  /\ breaker.state = "open" /\ ~breaker.elapsed
  /\ breaker' = [breaker EXCEPT !.elapsed = TRUE]
  /\ UNCHANGED <<busVars, lifeVars, depth, paused, call>>

\* force_open() and force_close(), pause() and resume().
ForceBreaker(state) ==
  /\ breaker' \in {Open, Closed} /\ breaker'.state = state
  /\ UNCHANGED <<busVars, lifeVars, depth, paused, call>>

PauseByHand ==
  /\ ~paused /\ paused' = TRUE
  /\ UNCHANGED <<busVars, lifeVars, depth, call, breaker>>

ResumeByHand ==
  /\ paused /\ paused' = FALSE
  /\ call' = Woken(TRUE)
  /\ UNCHANGED <<busVars, lifeVars, depth, breaker>>

\* Someone outside the layer reads an event from the buffer.
Consume ==
  /\ depth > 0
  /\ depth' = depth - 1
  /\ UNCHANGED <<busVars, lifeVars, paused, call, breaker>>

-----------------------------------------------------------------------------
(* start() and stop() of the manager.                                      *)

rest == <<policy, mode, paused, call, breaker>>

Start ==
  /\ ~up /\ up' = TRUE
  /\ sets < MaxStarts /\ sets' = sets + 1
  /\ hasty' = (hasty \/ stopper # "none")
  /\ BusStart
  /\ UNCHANGED <<shutdown, stopper, stops, awaited, depth, rest>>

\* stop() and execute() up to the first phase.  A coordinator that has shut down
\* once, or still does, takes every later shutdown for done: nothing resets it.
Stop ==
  /\ up /\ up' = FALSE
  /\ shutdown' = TRUE
  /\ stopper' = IF shutdown THEN stopper ELSE "flushing"
  /\ UNCHANGED <<busVars, sets, stops, awaited, hasty, depth, rest>>

\* Phase FLUSH_QUEUES.  wait_for runs each task of a phase in a task of its own,
\* so that the others go on between two of them.
Flush ==
  /\ stopper = "flushing" /\ stopper' = "closing"
  /\ depth' = 0
  /\ UNCHANGED <<busVars, up, shutdown, sets, stops, awaited, hasty, rest>>

\* Phase CLOSE_TRANSPORTS: it runs what is registered when it begins.
Close ==
  /\ stopper = "closing" /\ stopper' = "stopping"
  /\ stops' = sets
  /\ UNCHANGED <<busVars, up, shutdown, sets, awaited, hasty, depth, rest>>

\* _close_transports(), up to its await.
StopBus ==
  /\ stopper = "stopping" /\ stopper' = "awaiting"
  /\ BusStop
  /\ awaited' = loop
  /\ UNCHANGED <<up, shutdown, sets, stops, hasty, depth, rest>>

StopReturns ==
  /\ stopper \in {"awaiting", "late"} /\ Over(awaited)
  /\ stopper' = IF stops = 1 THEN "none" ELSE "stopping"
  /\ stops' = stops - 1 /\ awaited' = 0
  /\ UNCHANGED <<busVars, up, shutdown, sets, hasty, depth, rest>>

\* Mutant: the task that takes too long is left to itself.
StopGivesUp ==
  /\ stopper = "awaiting" /\ ~Over(awaited) /\ phase[awaited] # "taken"
  /\ stopper' = "none" /\ stops' = 0 /\ awaited' = 0
  /\ UNCHANGED <<busVars, up, shutdown, sets, hasty, depth, rest>>

\* The task takes too long: it is cancelled, and with it once more the loop it
\* awaits, whose end it still waits for.  A loop that only waits for its turn has
\* had it by then.
StopTimesOut ==
  /\ stopper = "awaiting" /\ ~Over(awaited) /\ phase[awaited] # "taken"
  /\ stopper' = "late"
  /\ phase' = [phase EXCEPT ![awaited] = Cancelled(@)]
  /\ UNCHANGED <<running, queue, sequence, subs, dead, loop, item, todo, seen>>
  /\ UNCHANGED <<up, shutdown, sets, stops, awaited, hasty, depth, rest>>

-----------------------------------------------------------------------------
Init ==
  /\ BusInit
  /\ up = FALSE /\ shutdown = FALSE
  /\ stopper = "none" /\ sets = 0 /\ stops = 0 /\ awaited = 0 /\ hasty = FALSE
  /\ policy \in OverflowPolicies /\ mode \in Modes
  /\ depth = 0 /\ paused = FALSE
  /\ call = [p \in Producers |-> Idle]
  /\ breaker = Closed

\* The bus by itself; its subscribers come and go.
BusStep ==
  /\ \/ CollectDead
     \/ \E s \in Subscribers : Subscribe(s) \/ Unsubscribe(s)
     \/ \E w \in Loops : LoopStep(w)
  /\ UNCHANGED <<lifeVars, depth, paused, call, breaker>>

\* StreamPublisher and the connection events publish past the pipeline.
PublishDirectly(priority) ==
  /\ Publish(priority)
  /\ UNCHANGED <<lifeVars, depth, paused, call, breaker>>

ProducerStep(p) == Throttled(p) \/ Unblock(p) \/ Abandon(p)
StopStep == Flush \/ Close \/ StopBus \/ StopReturns \/ StopTimesOut
ByHand == ForceBreaker("open") \/ ForceBreaker("closed") \/ PauseByHand \/ ResumeByHand

Next ==
  \/ \E p \in Producers, priority \in Priorities : Offer(p, priority)
  \/ \E p \in Producers : ProducerStep(p)
  \/ Look \/ TimePasses \/ Consume \/ ByHand
  \/ Start \/ Stop \/ StopStep
  \/ BusStep
  \/ \E priority \in Priorities : PublishDirectly(priority)

Spec == Init /\ [][Next]_vars

-----------------------------------------------------------------------------
(* Properties.                                                             *)

\* Every queue keeps to its capacity; the breaker counts failures only while
\* closed and probes only while half-open, and none beyond its threshold.
TypeOK ==
  /\ BusTypeOK
  /\ up \in BOOLEAN /\ shutdown \in BOOLEAN /\ paused \in BOOLEAN
  /\ stopper \in {"none", "flushing", "closing", "stopping", "awaiting", "late"}
  /\ sets \in 0..MaxStarts /\ stops \in 0..MaxStarts
  /\ awaited \in 0..MaxStarts /\ hasty \in BOOLEAN
  /\ policy \in OverflowPolicies /\ mode \in Modes
  /\ depth \in 0..BufferSize
  /\ call \in [Producers -> [at : Suspended \cup {"idle"}, priority : Priorities \cup {0}]]
  /\ breaker \in [state : {"closed", "open", "half_open"},
                  failures : 0..(FailureThreshold - 1),
                  successes : 0..(SuccessThreshold - 1),
                  probes : 0..HalfOpenMaxCalls, elapsed : BOOLEAN]
  /\ breaker.state # "closed" => breaker.failures = 0
  /\ breaker.state # "half_open" => breaker.successes = 0 /\ breaker.probes = 0

\* A producer waits for the flow to be resumed only while it is paused: the
\* event it waits for and the flag never part, so no wake-up is lost.
WaitersArePaused == \A p \in Producers : call[p].at = "paused" => paused

\* As long as nobody starts the manager in the middle of a shutdown, it is an
\* orderly owner of its bus: it never starts it while a delivery loop that was
\* stopped may still call a subscriber.
OrderlyBus == BusInit /\ [][hasty' \/ BusNext]_busVars
=============================================================================
