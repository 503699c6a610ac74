--------------------------- MODULE CircuitBreaker ---------------------------
(***************************************************************************)
(* The circuit breaker of the execution layer,                             *)
(* libraries/infrastructure/execution/circuit_breaker.py.                  *)
(*                                                                         *)
(* A call is admitted under the lock, runs without it, and reports its     *)
(* outcome under the lock again, in whatever state the breaker is by then. *)
(* The lock is never held across a suspension, so each of these is one     *)
(* step.  Calls admitted in the present half-open episode are probes; the  *)
(* others were admitted before it.                                         *)
(***************************************************************************)
EXTENDS Integers, FiniteSets

CONSTANTS
  Callers,
  FailureThreshold,   \* failure_threshold
  SuccessThreshold,   \* success_threshold
  HalfOpenMaxCalls,   \* half_open_max_calls
  MaxForces           \* bound: manual interventions

ASSUME CallersAssumption == IsFiniteSet(Callers)
ASSUME ConfigAssumption ==
  /\ FailureThreshold \in Nat \ {0}
  /\ SuccessThreshold \in Nat \ {0}
  /\ HalfOpenMaxCalls \in Nat \ {0}
ASSUME BoundAssumption == MaxForces \in Nat

States == {"closed", "open", "half_open"}

VARIABLES
  state,      \* _state
  failures,   \* _failure_count
  successes,  \* _success_count
  probes,     \* _half_open_calls
  elapsed,    \* the recovery timeout has passed since _state_changed_at
  call,       \* per caller: none, or the call it has in flight
  healthy,    \* external: from now on guarded calls succeed
  nested,     \* external: guarded calls may meet an open breaker of their own
  forces      \* manual interventions so far

breakerVars == <<state, failures, successes, probes, elapsed, call, healthy, nested, forces>>

BreakerInit ==
  /\ state = "closed"
  /\ failures = 0 /\ successes = 0 /\ probes = 0
  /\ elapsed = FALSE
  /\ call = [c \in Callers |-> "none"]
  /\ healthy = FALSE
  /\ nested \in BOOLEAN
  /\ forces = 0

InFlight(kind) == {c \in Callers : call[c] = kind}

-----------------------------------------------------------------------------
(* Transitions.                                                            *)

Over(c) == [call EXCEPT ![c] = "none"]

\* Calls in flight when the breaker leaves its episode.
EpisodeOver(calls) ==
  [c \in Callers |-> IF calls[c] = "probe" THEN "earlier" ELSE calls[c]]

\* Mutant: the successes of the episode are kept.
TripToOpenKeeping ==
  /\ state' = "open"
  /\ failures' = 0 /\ probes' = 0
  /\ elapsed' = FALSE
  /\ UNCHANGED successes

TripToOpen ==
  /\ state' = "open"
  /\ failures' = 0 /\ successes' = 0 /\ probes' = 0
  /\ elapsed' = FALSE

ResetToClosed ==
  /\ state' = "closed"
  /\ failures' = 0 /\ successes' = 0 /\ probes' = 0
  /\ elapsed' = FALSE

\* OPEN becomes HALF_OPEN when someone looks after the recovery timeout.
Recovering == state = "open" /\ elapsed

\* Looking at the property `state' or `is_available' is enough.
CheckState ==
  /\ Recovering
  /\ state' = "half_open"
  /\ probes' = 0
  /\ elapsed' = FALSE
  /\ UNCHANGED <<failures, successes, call, healthy, nested, forces>>

-----------------------------------------------------------------------------
(* execute().                                                              *)

\* execute() up to the guarded call.  A call that is turned away changes
\* nothing, beyond the transition to HALF_OPEN that CheckState describes.
Admit(c) ==
  /\ call[c] = "none"
  /\ \/ /\ state = "closed"
        /\ call' = [call EXCEPT ![c] = "earlier"]
        /\ UNCHANGED <<state, probes, elapsed>>
     \/ /\ Recovering
        /\ state' = "half_open"
        /\ probes' = 1
        /\ elapsed' = FALSE
        /\ call' = [call EXCEPT ![c] = "probe"]
     \/ /\ state = "half_open" /\ probes < HalfOpenMaxCalls
        /\ probes' = probes + 1
        /\ call' = [call EXCEPT ![c] = "probe"]
        /\ UNCHANGED <<state, elapsed>>
  /\ UNCHANGED <<failures, successes, healthy, nested, forces>>

CallOver(c) == call' = Over(c)

\* Mutant: the success of a probe is not counted.
OnSuccessUncounted(c) ==
  /\ call[c] # "none"
  /\ \/ /\ state = "half_open" /\ successes + 1 >= SuccessThreshold
        /\ ResetToClosed /\ call' = EpisodeOver(Over(c))
     \/ /\ state = "half_open" /\ successes + 1 < SuccessThreshold
        /\ probes' = 0
        /\ CallOver(c)
        /\ UNCHANGED <<state, failures, successes, elapsed>>
     \/ /\ state = "closed" /\ failures' = 0 /\ CallOver(c)
        /\ UNCHANGED <<state, successes, probes, elapsed>>
     \/ /\ state = "open" /\ CallOver(c)
        /\ UNCHANGED <<state, failures, successes, probes, elapsed>>
  /\ UNCHANGED <<healthy, nested, forces>>

\* The call returns: _on_success.
OnSuccess(c) ==
  /\ call[c] # "none"
  /\ \/ /\ state = "half_open" /\ successes + 1 >= SuccessThreshold
        /\ ResetToClosed /\ call' = EpisodeOver(Over(c))
     \/ /\ state = "half_open" /\ successes + 1 < SuccessThreshold
        /\ successes' = successes + 1 /\ probes' = 0
        /\ CallOver(c)
        /\ UNCHANGED <<state, failures, elapsed>>
     \/ /\ state = "closed" /\ failures' = 0 /\ CallOver(c)
        /\ UNCHANGED <<state, successes, probes, elapsed>>
     \/ /\ state = "open" /\ CallOver(c)
        /\ UNCHANGED <<state, failures, successes, probes, elapsed>>
  /\ UNCHANGED <<healthy, nested, forces>>

\* Mutant: a probe that fails is only forgotten.
OnFailureOfProbeIgnored(c) ==
  /\ call[c] # "none" /\ ~healthy
  /\ \/ /\ state = "closed" /\ failures + 1 >= FailureThreshold
        /\ TripToOpen /\ call' = EpisodeOver(Over(c))
     \/ /\ state = "closed" /\ failures + 1 < FailureThreshold
        /\ failures' = failures + 1 /\ CallOver(c)
        /\ UNCHANGED <<state, successes, probes, elapsed>>
     \/ /\ state # "closed" /\ CallOver(c)
        /\ UNCHANGED <<state, failures, successes, probes, elapsed>>
  /\ UNCHANGED <<healthy, nested, forces>>

\* Mutant: one failure more than the threshold is let pass.
OnFailureLate(c) ==
  /\ call[c] # "none" /\ ~healthy
  /\ \/ /\ state = "half_open" \/ (state = "closed" /\ failures >= FailureThreshold)
        /\ TripToOpen /\ call' = EpisodeOver(Over(c))
     \/ /\ state = "closed" /\ failures < FailureThreshold
        /\ failures' = failures + 1 /\ CallOver(c)
        /\ UNCHANGED <<state, successes, probes, elapsed>>
     \/ /\ state = "open" /\ CallOver(c)
        /\ UNCHANGED <<state, failures, successes, probes, elapsed>>
  /\ UNCHANGED <<healthy, nested, forces>>

\* The call raises, times out or is cancelled: _on_failure.
OnFailure(c) ==
  /\ call[c] # "none" /\ ~healthy
  /\ \/ /\ state = "half_open" \/ (state = "closed" /\ failures + 1 >= FailureThreshold)
        /\ TripToOpen /\ call' = EpisodeOver(Over(c))
     \/ /\ state = "closed" /\ failures + 1 < FailureThreshold
        /\ failures' = failures + 1 /\ CallOver(c)
        /\ UNCHANGED <<state, successes, probes, elapsed>>
     \/ /\ state = "open" /\ CallOver(c)
        /\ UNCHANGED <<state, failures, successes, probes, elapsed>>
  /\ UNCHANGED <<healthy, nested, forces>>

\* The call raises CircuitBreakerOpenError, from a breaker of its own: it is
\* passed on and reported neither as a success nor as a failure.
NotReported(c) ==
  /\ nested
  /\ call[c] # "none" /\ ~healthy
  /\ CallOver(c)
  /\ UNCHANGED <<state, failures, successes, probes, elapsed, healthy, nested, forces>>

-----------------------------------------------------------------------------
(* Operators, the clock and the guarded service.                           *)

ForceOpen ==
  /\ forces < MaxForces /\ forces' = forces + 1
  /\ TripToOpen
  /\ call' = EpisodeOver(call)
  /\ UNCHANGED <<healthy, nested>>

ForceClose ==
  /\ forces < MaxForces /\ forces' = forces + 1
  /\ ResetToClosed
  /\ call' = EpisodeOver(call)
  /\ UNCHANGED <<healthy, nested>>

TimePasses ==
  /\ state = "open" /\ ~elapsed
  /\ elapsed' = TRUE
  /\ UNCHANGED <<state, failures, successes, probes, call, healthy, nested, forces>>

ServiceHeals ==
  /\ ~healthy
  /\ healthy' = TRUE
  /\ UNCHANGED <<state, failures, successes, probes, elapsed, call, nested, forces>>

CallerStep(c) == Admit(c) \/ OnSuccess(c) \/ OnFailure(c) \/ NotReported(c)

BreakerNext ==
  \/ \E c \in Callers : CallerStep(c)
  \/ CheckState
  \/ ForceOpen
  \/ ForceClose
  \/ TimePasses
  \/ ServiceHeals

\* Callers keep calling, calls end and time passes.
Fairness ==
  /\ \A c \in Callers : WF_breakerVars(CallerStep(c))
  /\ WF_breakerVars(TimePasses)

BreakerSpec == BreakerInit /\ [][BreakerNext]_breakerVars /\ Fairness

-----------------------------------------------------------------------------
(* Properties.                                                             *)

\* Types; a closed breaker has not seen FailureThreshold failures, a half-open
\* one not SuccessThreshold successes, and no more slots than there are are taken.
BreakerTypeOK ==
  /\ state \in States
  /\ failures \in 0..(FailureThreshold - 1)
  /\ successes \in 0..(SuccessThreshold - 1)
  /\ probes \in 0..HalfOpenMaxCalls
  /\ elapsed \in BOOLEAN /\ healthy \in BOOLEAN /\ nested \in BOOLEAN
  /\ call \in [Callers -> {"none", "earlier", "probe"}]
  /\ forces \in 0..MaxForces

\* No count outlives the state it was made in, whichever of the timeout, a late
\* result and a manual intervention ends that state: a success counted in one
\* half-open episode cannot help to close another.
CountsAreFresh ==
  /\ state # "closed" => failures = 0
  /\ state # "half_open" => successes = 0 /\ probes = 0 /\ InFlight("probe") = {}

\* A half-open breaker has no timeout of its own, so it must not turn everybody
\* away for ever: when its slots are used up, a probe is in flight whose outcome
\* will free them.  (A guarded call that meets an open breaker of its own keeps
\* its slot: with nested breakers this fails.)
NoLeakedSlot ==
  ~nested /\ state = "half_open" /\ probes >= HalfOpenMaxCalls
    => InFlight("probe") # {}

\* Once the service has healed the breaker closes again ("automatic recovery"),
\* however late the results of earlier calls arrive.
Recovers == healthy /\ ~nested ~> state = "closed"

=============================================================================
