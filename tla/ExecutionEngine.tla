--------------------------- MODULE ExecutionEngine --------------------------
(***************************************************************************)
(* The order execution engine, libraries/domain/execution: one decision in,*)
(* one order out, past a deduplicator with a window and a capacity, a      *)
(* router, a retry loop around the broker and a registry of the orders.    *)
(*                                                                         *)
(* Orders are numbered as they are built.  An execution is suspended while *)
(* the broker is asked and while it backs off; until then it runs without  *)
(* giving way.  The engine itself drives an order from NEW to SUBMITTED and*)
(* through its fills; whoever holds the order's lifecycle (an adapter) does*)
(* the rest, and is taken to acknowledge only what the broker has.         *)
(***************************************************************************)
EXTENDS OrderLifecycle, Integers, Sequences, FiniteSets

CONSTANTS
  Decisions,
  MaxRetries,  \* max_retries of the retry handler
  MaxEntries,  \* max_entries of the deduplicator
  Quantity,    \* of every order
  Held,        \* the triggers the holder of a lifecycle issues
  MaxOrders    \* bound: orders ever built

ASSUME EngineAssumption ==
  /\ MaxRetries \in Nat \ {0} /\ MaxEntries \in Nat \ {0}
  /\ Quantity \in Nat \ {0} /\ MaxOrders \in Nat
  /\ Held \subseteq {"acknowledge", "reject", "cancel", "timeout", "expire", "settle", "complete"}

Orders == 1..MaxOrders
Keys == {"decision", "order"}
Places == {"asking", "taken", "declined", "answered", "backoff", "over"}

VARIABLES
  ready,      \* _is_ready, and not _is_shutdown
  routable,   \* some registered broker takes the order
  decision,   \* of the orders built so far, in that order
  status,     \* per order built: _current_status of its lifecycle
  tracked,    \* the orders in the registry
  lookup,     \* _decision_map, 0 for an absent decision
  entries,    \* _entries of the deduplicator: <<key, order>>
  expired,    \* the registrations of the orders up to this one are older than the window
  execution,  \* per order built: where execute() is, and its attempt
  copies,     \* how often the broker took the order
  left,       \* what the broker has not executed of it yet
  reports     \* the fills it has reported: [volume, remaining]

engineVars == <<ready, routable, tracked, lookup, entries, expired>>
brokerVars == <<copies, left, reports>>
vars == <<engineVars, decision, status, execution, brokerVars>>

Built == DOMAIN decision

Init ==
  /\ ready = FALSE /\ routable = FALSE
  /\ decision = <<>> /\ status = <<>> /\ execution = <<>>
  /\ tracked = {} /\ lookup = [d \in Decisions |-> 0]
  /\ entries = {} /\ expired = 0
  /\ copies = <<>> /\ left = <<>> /\ reports = <<>>

-----------------------------------------------------------------------------
(* The deduplicator.                                                       *)

\* Of two keys of one order the decision comes first.
Older(e, f) == e[2] < f[2] \/ (e[2] = f[2] /\ e[1] = "decision" /\ f[1] = "order")

\* _cleanup_expired
Unexpired == {e \in entries : e[2] > expired}

\* Mutant: room is made one entry early.
OldestGoEarly(all) ==
  {e \in all : Cardinality({f \in all : Older(e, f)}) + 1 < MaxEntries}

\* Mutant: no room is made.
NoneGo(all) == all

\* _enforce_max_entries: the oldest keys go, one by one.
OldestGo(all) ==
  {e \in all : Cardinality({f \in all : Older(e, f)}) < MaxEntries}

IsDuplicate(d) == \E e \in Unexpired : e[1] = "decision" /\ decision[e[2]] = d

\* check_and_register() of an order with a new id.
Register(order) == entries' = OldestGo(Unexpired \cup {<<key, order>> : key \in Keys})

\* The window of the oldest registration that is still in it passes.
WindowPasses ==
  /\ expired < Len(decision)
  /\ expired' = expired + 1
  /\ UNCHANGED <<ready, routable, tracked, lookup, entries, decision, status, execution, brokerVars>>

-----------------------------------------------------------------------------
(* execute().                                                              *)

\* An order that is built, and given to the registry and the broker if it found
\* a route; without one its registration in the deduplicator stays.
Build(d, at, first) ==
  /\ decision' = Append(decision, d)
  /\ status' = Append(status, first)
  /\ execution' = Append(execution, [at |-> at, attempt |-> 1])
  /\ copies' = Append(copies, 0)
  /\ left' = Append(left, Quantity)
  /\ reports' = Append(reports, {})

\* Mutant: the order is called submitted before the broker is asked.
ExecuteAnnouncing(d) ==
  LET order == Len(decision) + 1 IN
  /\ ready /\ order \in Orders /\ routable
  /\ ~IsDuplicate(d) /\ Register(order)
  /\ Build(d, "asking", "submitted")
  /\ tracked' = tracked \cup {order}
  /\ lookup' = [lookup EXCEPT ![d] = order]
  /\ UNCHANGED <<ready, routable, expired>>

\* execute() up to the first question to the broker.  A duplicate, and a call of
\* an engine that is not ready, change nothing.
Execute(d) ==
  LET order == Len(decision) + 1 IN
  /\ ready /\ order \in Orders
  /\ ~IsDuplicate(d) /\ Register(order)
  /\ \/ /\ ~routable
        /\ Build(d, "over", "new")
        /\ UNCHANGED <<tracked, lookup>>
     \/ /\ routable
        /\ Build(d, "asking", "routed")
        /\ tracked' = tracked \cup {order}
        /\ lookup' = [lookup EXCEPT ![d] = order]
  /\ UNCHANGED <<ready, routable, expired>>

\* The broker takes the order; its answer is still to come.
BrokerTakes(o) ==
  /\ execution[o].at = "asking"
  /\ execution' = [execution EXCEPT ![o].at = "taken"]
  /\ copies' = [copies EXCEPT ![o] = @ + 1]
  /\ UNCHANGED <<engineVars, decision, status, left, reports>>

\* The broker declines the order, and answers so.
BrokerDeclines(o) ==
  /\ execution[o].at = "asking"
  /\ execution' = [execution EXCEPT ![o].at = "declined"]
  /\ UNCHANGED <<engineVars, decision, status, brokerVars>>

\* An answer arrives.  What it says is not looked at: the order is submitted also
\* when the broker declined it, and when no submit function is there to ask one.
\* If the lifecycle has left ROUTED in the meantime, the transition is refused and
\* execute() raises.
Submitted(o) ==
  /\ execution[o].at \in {"taken", "declined"}
  /\ execution' = [execution EXCEPT ![o].at = "answered"]
  /\ status' = IF CanTransition(status[o], "submit")
               THEN [status EXCEPT ![o] = NextStatus(@, "submit")] ELSE status
  /\ UNCHANGED <<engineVars, decision, brokerVars>>

\* No answer arrives, but an exception: the broker cannot be reached, its answer is
\* lost, or it refuses in that way.  After the last attempt the order stays where
\* it is.
AttemptFails(o) ==
  /\ execution[o].at \in {"asking", "taken", "declined"}
  /\ execution' = [execution EXCEPT ![o].at =
                     IF execution[o].attempt < MaxRetries THEN "backoff" ELSE "over"]
  /\ UNCHANGED <<engineVars, decision, status, brokerVars>>

RetryAttempt(o) ==
  /\ execution[o].at = "backoff"
  /\ execution' = [execution EXCEPT ![o] = [at |-> "asking", attempt |-> @.attempt + 1]]
  /\ UNCHANGED <<engineVars, decision, status, brokerVars>>

-----------------------------------------------------------------------------
(* Fills.                                                                  *)

\* The broker executes a part of the order.  It knows the order by its id, so
\* however often it took it, it executes its quantity once.
BrokerFills(o, volume) ==
  /\ copies[o] > 0 /\ volume \in 1..left[o]
  /\ left' = [left EXCEPT ![o] = @ - volume]
  /\ reports' = [reports EXCEPT ![o] =
                   @ \cup {[volume |-> volume, remaining |-> left[o] - volume]}]
  /\ UNCHANGED <<engineVars, decision, status, execution, copies>>

FillTrigger(report) == IF report.remaining = 0 THEN "full_fill" ELSE "partial_fill"

\* handle_fill(), with a report that may come late, again or out of order.  The
\* lifecycle refuses it unless the order has been acknowledged, and it is lost.
HandleFill(o, report) ==
  /\ o \in tracked /\ report \in reports[o]
  /\ report.volume + report.remaining <= Quantity
  /\ CanTransition(status[o], FillTrigger(report))
  /\ status' = [status EXCEPT ![o] = NextStatus(@, FillTrigger(report))]
  /\ UNCHANGED <<engineVars, decision, execution, brokerVars>>

\* What the holder of the lifecycle does with it.
Advance(o, trigger) ==
  /\ o \in tracked
  /\ trigger = "acknowledge" => copies[o] > 0
  /\ CanTransition(status[o], trigger)
  /\ status' = [status EXCEPT ![o] = NextStatus(@, trigger)]
  /\ UNCHANGED <<engineVars, decision, execution, brokerVars>>

-----------------------------------------------------------------------------
(* The registry, the brokers, the engine.                                  *)

\* Mutant: the decision map keeps an order that is removed.
RemoveOnly(o) ==
  /\ o \in tracked
  /\ tracked' = tracked \ {o}
  /\ UNCHANGED <<ready, routable, lookup, entries, expired, decision, status, execution, brokerVars>>

\* remove(): the order goes, and with it whatever its decision leads to.
Remove(o) ==
  /\ o \in tracked
  /\ tracked' = tracked \ {o}
  /\ lookup' = [lookup EXCEPT ![decision[o]] = 0]
  /\ UNCHANGED <<ready, routable, entries, expired, decision, status, execution, brokerVars>>

RegisterBroker ==
  /\ routable' = TRUE
  /\ UNCHANGED <<ready, tracked, lookup, entries, expired, decision, status, execution, brokerVars>>

UnregisterBroker ==
  /\ routable' = FALSE
  /\ UNCHANGED <<ready, tracked, lookup, entries, expired, decision, status, execution, brokerVars>>

Initialize ==
  /\ ready' = TRUE
  /\ UNCHANGED <<routable, tracked, lookup, entries, expired, decision, status, execution, brokerVars>>

\* shutdown() leaves the executions in progress alone.
Shutdown ==
  /\ ready' = FALSE
  /\ UNCHANGED <<routable, tracked, lookup, entries, expired, decision, status, execution, brokerVars>>

OrderStep(o) ==
  \/ BrokerTakes(o) \/ BrokerDeclines(o) \/ Submitted(o) \/ AttemptFails(o) \/ RetryAttempt(o)
  \/ \E volume \in 1..Quantity : BrokerFills(o, volume)
  \/ \E report \in reports[o] : HandleFill(o, report)
  \/ \E trigger \in Held : Advance(o, trigger)
  \/ Remove(o)

Next ==
  \/ \E d \in Decisions : Execute(d)
  \/ \E o \in Built : OrderStep(o)
  \/ WindowPasses
  \/ RegisterBroker \/ UnregisterBroker \/ Initialize \/ Shutdown

Spec == Init /\ [][Next]_vars

-----------------------------------------------------------------------------
(* Properties.                                                             *)

\* Types; the deduplicator keeps to its capacity.
TypeOK ==
  /\ ready \in BOOLEAN /\ routable \in BOOLEAN
  /\ decision \in Seq(Decisions) /\ Len(decision) <= MaxOrders
  /\ status \in [Built -> Statuses]
  /\ execution \in [Built -> [at : Places, attempt : 1..MaxRetries]]
  /\ tracked \subseteq Built
  /\ lookup \in [Decisions -> Built \cup {0}]
  /\ entries \subseteq Keys \X Built /\ Cardinality(entries) <= MaxEntries
  /\ expired \in 0..Len(decision)
  /\ copies \in [Built -> 0..MaxRetries]
  /\ left \in [Built -> 0..Quantity]
  /\ \A o \in Built : reports[o] \subseteq [volume : 1..Quantity, remaining : 0..(Quantity - 1)]

AtBroker == {"acknowledged", "partially_filled", "filled", "settled", "completed"}
Done == {"filled", "settled", "completed"}

\* A lifecycle claims no more than what has happened at the broker: what it calls
\* submitted the broker has answered, if only to decline it; what is beyond that
\* the broker has taken; what it calls partially filled has a fill, and what it
\* calls filled has nothing left, whichever reports were lost, late or repeated.
ClaimsAreReal ==
  \A o \in Built :
    /\ status[o] \in AtBroker \cup {"submitted"} => execution[o].at = "answered"
    /\ status[o] \in AtBroker => copies[o] > 0
    /\ status[o] = "partially_filled" => left[o] < Quantity
    /\ status[o] \in Done => left[o] = 0

\* Within its window no decision is executed a second time, unless the
\* deduplicator had to make room for more orders than it can hold in between.
RemembersLastOrders ==
  \A o, p \in Built :
    o > expired /\ o < p /\ decision[o] = decision[p] => 2 * (p - o) > MaxEntries

\* What a decision is looked up to is an order in the registry, of that decision.
LookupIsSafe ==
  \A d \in Decisions : lookup[d] # 0 => lookup[d] \in tracked /\ decision[lookup[d]] = d
=============================================================================
