-------------------------- MODULE ExecutionProofs --------------------------
(***************************************************************************)
(* Proofs about ExecutionEngine, for any decisions, retries, quantities and*)
(* capacity of the deduplicator, and for any number of orders; and, in the *)
(* last part, about CircuitBreaker, for any callers, thresholds and slots. *)
(* The two modules share no state.                                         *)
(***************************************************************************)
EXTENDS ExecutionEngine, CircuitBreaker, FiniteSetTheorems, SequenceTheorems, TLAPS

Executions == [at : Places, attempt : 1..MaxRetries]
Counts == 0..MaxRetries
Volumes == 0..Quantity
Reports == [volume : 1..Quantity, remaining : 0..(Quantity - 1)]
ReportSets == SUBSET Reports

Types ==
  /\ decision \in Seq(Decisions) /\ Len(decision) <= MaxOrders
  /\ status \in [1..Len(decision) -> Statuses]
  /\ execution \in [1..Len(decision) -> Executions]
  /\ copies \in [1..Len(decision) -> Counts]
  /\ left \in [1..Len(decision) -> Volumes]
  /\ reports \in [1..Len(decision) -> ReportSets]
  /\ tracked \subseteq 1..Len(decision)
  /\ lookup \in [Decisions -> 0..Len(decision)]
  /\ expired \in 0..Len(decision)

Flags == ready \in BOOLEAN /\ routable \in BOOLEAN

\* The broker was asked at most once per attempt, and a report says no less than
\* is left by now.
AttemptsCounted ==
  \A o \in Built :
    /\ copies[o] <= execution[o].attempt
    /\ execution[o].at = "asking" => copies[o] < execution[o].attempt
    /\ execution[o].at = "taken" => copies[o] > 0
    /\ execution[o].at = "backoff" => execution[o].attempt < MaxRetries
    /\ \A r \in reports[o] : left[o] <= r.remaining

-----------------------------------------------------------------------------
(* The table.                                                              *)

LEMMA TransitionsAre ==
  ASSUME NEW from, NEW trigger, CanTransition(from, trigger)
  PROVE  <<from, trigger, NextStatus(from, trigger)>> \in Transitions
<1>1. PICK t \in Transitions : t[1] = from /\ t[2] = trigger
      BY DEF CanTransition
<1> DEFINE c == CHOOSE u \in Transitions : u[1] = from /\ u[2] = trigger
<1>2. c \in Transitions /\ c[1] = from /\ c[2] = trigger
      BY <1>1
<1> HIDE DEF c
<1>3. ASSUME NEW sources, NEW tr, NEW to, c \in From(sources, tr, to)
      PROVE  c = <<c[1], c[2], c[3]>>
      <2>1. PICK source \in sources : c = <<source, tr, to>>
            BY <1>3, Zenon DEF From
      <2> QED BY <2>1
<1>4. c = <<c[1], c[2], c[3]>>
      BY <1>2, <1>3, Zenon DEF Transitions
<1> QED BY <1>2, <1>4 DEF NextStatus, c

\* Where the triggers lead that are issued on orders already built.
LEMMA NextStatusIs ==
  ASSUME NEW from \in Statuses, NEW trigger, CanTransition(from, trigger)
  PROVE  /\ NextStatus(from, trigger) \in Statuses
         /\ trigger = "submit" => NextStatus(from, trigger) = "submitted"
         /\ trigger = "acknowledge" =>
              from = "submitted" /\ NextStatus(from, trigger) = "acknowledged"
         /\ trigger = "partial_fill" =>
              from \in Working /\ NextStatus(from, trigger) = "partially_filled"
         /\ trigger = "full_fill" => from \in Working /\ NextStatus(from, trigger) = "filled"
         /\ trigger = "settle" => from = "filled" /\ NextStatus(from, trigger) = "settled"
         /\ trigger = "complete" => from = "settled" /\ NextStatus(from, trigger) = "completed"
         /\ trigger = "reject" => NextStatus(from, trigger) = "rejected"
         /\ trigger = "cancel" => NextStatus(from, trigger) = "cancelled"
         /\ trigger \in {"timeout", "expire"} => NextStatus(from, trigger) = "expired"
<1> DEFINE to == NextStatus(from, trigger)
<1>1. <<from, trigger, to>> \in Transitions
      BY TransitionsAre
<1> HIDE DEF to
<1> QED BY <1>1 DEF Transitions, From, Working, Statuses, Early, to

-----------------------------------------------------------------------------
LEMMA Appending ==
  ASSUME NEW S, NEW f \in Seq(S), NEW x \in S
  PROVE  /\ Append(f, x) \in [1..(Len(f) + 1) -> S]
         /\ \A i \in 1..Len(f) : Append(f, x)[i] = f[i]
         /\ Append(f, x)[Len(f) + 1] = x
<1>1. /\ Append(f, x) \in Seq(S) /\ Len(Append(f, x)) = Len(f) + 1
      /\ \A i \in 1..Len(f) : Append(f, x)[i] = f[i]
      /\ Append(f, x)[Len(f) + 1] = x
      BY AppendProperties
<1>2. Append(f, x) \in [1..Len(Append(f, x)) -> S]
      BY <1>1, LenProperties
<1> QED BY <1>1, <1>2

LEMMA InitTypes == Init => Types /\ Flags /\ AttemptsCounted
<1> SUFFICES ASSUME Init PROVE Types /\ Flags /\ AttemptsCounted
    OBVIOUS
<1> USE EngineAssumption
<1>1. decision = <<>> /\ decision \in Seq(Decisions) /\ Len(decision) = 0
      BY EmptySeq DEF Init
<1>2. <<>> \in [1..0 -> Statuses] /\ <<>> \in [1..0 -> Executions] /\ <<>> \in [1..0 -> Counts]
      /\ <<>> \in [1..0 -> Volumes] /\ <<>> \in [1..0 -> ReportSets]
      OBVIOUS
<1>3. Types
      BY <1>1, <1>2 DEF Init, Types
<1>4. Flags
      BY Zenon DEF Init, Flags
<1>5. AttemptsCounted
      BY <1>1 DEF AttemptsCounted, Built
<1> QED BY <1>3, <1>4, <1>5

\* A new order leaves those before it as they are.
LEMMA Building ==
  ASSUME Types, NEW d \in Decisions, NEW at \in Places, NEW first \in Statuses,
         Len(decision) + 1 <= MaxOrders, Build(d, at, first)
  PROVE  LET n == Len(decision) IN
         /\ decision' \in Seq(Decisions) /\ Len(decision') = n + 1 /\ Len(decision') <= MaxOrders
         /\ status' \in [1..(n + 1) -> Statuses]
         /\ execution' \in [1..(n + 1) -> Executions]
         /\ copies' \in [1..(n + 1) -> Counts]
         /\ left' \in [1..(n + 1) -> Volumes]
         /\ reports' \in [1..(n + 1) -> ReportSets]
         /\ \A i \in 1..n : /\ decision'[i] = decision[i] /\ status'[i] = status[i]
                            /\ execution'[i] = execution[i] /\ copies'[i] = copies[i]
                            /\ left'[i] = left[i] /\ reports'[i] = reports[i]
         /\ decision'[n + 1] = d /\ status'[n + 1] = first
         /\ execution'[n + 1] = [at |-> at, attempt |-> 1] /\ copies'[n + 1] = 0
         /\ left'[n + 1] = Quantity /\ reports'[n + 1] = {}
<1> USE EngineAssumption
<1> DEFINE n == Len(decision)
<1>0. n \in Nat
      BY LenProperties DEF Types
<1>1. /\ decision' \in Seq(Decisions) /\ Len(decision') = n + 1
      /\ \A i \in 1..n : decision'[i] = decision[i]
      /\ decision'[n + 1] = d
      BY AppendProperties DEF Build, Types
<1> HIDE DEF n
<1>2. /\ status' \in [1..(n + 1) -> Statuses] /\ status'[n + 1] = first
      /\ \A i \in 1..n : status'[i] = status[i]
      <2>1. status' = Append(status, first) /\ status \in [1..n -> Statuses] /\ first \in Statuses
            BY DEF Build, Types, n
      <2>2. status \in Seq(Statuses) /\ Len(status) = n
            BY <1>0, <2>1
      <2>3. /\ Append(status, first) \in [1..(n + 1) -> Statuses]
            /\ \A i \in 1..n : Append(status, first)[i] = status[i]
            /\ Append(status, first)[n + 1] = first
            BY <2>1, <2>2, Appending
      <2> QED BY <2>1, <2>3
<1>3. /\ execution' \in [1..(n + 1) -> Executions]
      /\ execution'[n + 1] = [at |-> at, attempt |-> 1]
      /\ \A i \in 1..n : execution'[i] = execution[i]
      <2> DEFINE x == [at |-> at, attempt |-> 1]
      <2>1. x \in Executions
            BY DEF Executions
      <2>2. execution' = Append(execution, x) /\ execution \in [1..n -> Executions]
            BY DEF Build, Types, n
      <2> HIDE DEF x
      <2>3. execution \in Seq(Executions) /\ Len(execution) = n
            BY <1>0, <2>2
      <2>4. /\ Append(execution, x) \in [1..(n + 1) -> Executions]
            /\ \A i \in 1..n : Append(execution, x)[i] = execution[i]
            /\ Append(execution, x)[n + 1] = x
            BY <2>1, <2>3, Appending
      <2> QED BY <2>2, <2>4 DEF x
<1>4. /\ copies' \in [1..(n + 1) -> Counts] /\ copies'[n + 1] = 0
      /\ \A i \in 1..n : copies'[i] = copies[i]
      <2>1. copies' = Append(copies, 0) /\ copies \in [1..n -> Counts] /\ 0 \in Counts
            BY DEF Build, Types, n, Counts
      <2>2. copies \in Seq(Counts) /\ Len(copies) = n
            BY <1>0, <2>1
      <2>3. /\ Append(copies, 0) \in [1..(n + 1) -> Counts]
            /\ \A i \in 1..n : Append(copies, 0)[i] = copies[i]
            /\ Append(copies, 0)[n + 1] = 0
            BY <2>1, <2>2, Appending
      <2> QED BY <2>1, <2>3
<1>5. /\ left' \in [1..(n + 1) -> Volumes] /\ left'[n + 1] = Quantity
      /\ \A i \in 1..n : left'[i] = left[i]
      <2>1. left' = Append(left, Quantity) /\ left \in [1..n -> Volumes] /\ Quantity \in Volumes
            BY DEF Build, Types, n, Volumes
      <2>2. left \in Seq(Volumes) /\ Len(left) = n
            BY <1>0, <2>1
      <2>3. /\ Append(left, Quantity) \in [1..(n + 1) -> Volumes]
            /\ \A i \in 1..n : Append(left, Quantity)[i] = left[i]
            /\ Append(left, Quantity)[n + 1] = Quantity
            BY <2>1, <2>2, Appending
      <2> QED BY <2>1, <2>3
<1>6. /\ reports' \in [1..(n + 1) -> ReportSets] /\ reports'[n + 1] = {}
      /\ \A i \in 1..n : reports'[i] = reports[i]
      <2>1. reports' = Append(reports, {}) /\ reports \in [1..n -> ReportSets] /\ {} \in ReportSets
            BY DEF Build, Types, n, ReportSets
      <2>2. reports \in Seq(ReportSets) /\ Len(reports) = n
            BY <1>0, <2>1
      <2>3. /\ Append(reports, {}) \in [1..(n + 1) -> ReportSets]
            /\ \A i \in 1..n : Append(reports, {})[i] = reports[i]
            /\ Append(reports, {})[n + 1] = {}
            BY <2>1, <2>2, Appending
      <2> QED BY <2>1, <2>3
<1> QED BY <1>0, <1>1, <1>2, <1>3, <1>4, <1>5, <1>6 DEF n

LEMMA BuiltIs == ASSUME Types PROVE Built = 1..Len(decision) /\ Len(decision) \in Nat
BY LenProperties DEF Types, Built

\* Execute() builds the next order.
LEMMA Executing ==
  ASSUME Types, NEW d \in Decisions, Execute(d)
  PROVE  /\ Len(decision) + 1 <= MaxOrders /\ Len(decision) + 1 \in 1..MaxOrders
         /\ \E at \in {"asking", "over"}, first \in {"new", "routed"} : Build(d, at, first)
<1>1. Len(decision) \in Nat
      BY BuiltIs
<1> QED BY <1>1 DEF Execute, Orders

LEMMA StepTypes == Types /\ AttemptsCounted /\ [Next]_vars => Types'
<1> SUFFICES ASSUME Types, AttemptsCounted, [Next]_vars PROVE Types'
    OBVIOUS
<1> USE EngineAssumption
<1>0. Built = 1..Len(decision) /\ Len(decision) \in Nat
      BY BuiltIs
<1>1. ASSUME NEW d \in Decisions, Execute(d) PROVE Types'
      <2>1. PICK at \in {"asking", "over"}, first \in {"new", "routed"} : Build(d, at, first)
            BY <1>1, Executing
      <2>2. at \in Places /\ first \in Statuses /\ Len(decision) + 1 <= MaxOrders
            BY <1>1, Executing DEF Places, Statuses
      <2>3. /\ tracked' \subseteq 1..(Len(decision) + 1)
            /\ lookup' \in [Decisions -> 0..(Len(decision) + 1)]
            /\ expired' = expired
            <3>1. \/ UNCHANGED <<tracked, lookup>>
                  \/ /\ tracked' = tracked \cup {Len(decision) + 1}
                     /\ lookup' = [lookup EXCEPT ![d] = Len(decision) + 1]
                  BY <1>1 DEF Execute
            <3>2. tracked \subseteq 1..Len(decision) /\ lookup \in [Decisions -> 0..Len(decision)]
                  BY DEF Types
            <3>3. expired' = expired
                  BY <1>1 DEF Execute
            <3>4. tracked' \subseteq 1..(Len(decision) + 1)
                  <4>1. tracked' \subseteq tracked \cup {Len(decision) + 1}
                        BY <3>1
                  <4> QED BY <1>0, <3>2, <4>1
            <3>5. lookup' \in [Decisions -> 0..(Len(decision) + 1)]
                  BY <1>0, <3>1, <3>2
            <3> QED BY <3>3, <3>4, <3>5
      <2>4. /\ decision' \in Seq(Decisions) /\ Len(decision') = Len(decision) + 1
            /\ status' \in [1..(Len(decision) + 1) -> Statuses]
            /\ execution' \in [1..(Len(decision) + 1) -> Executions]
            /\ copies' \in [1..(Len(decision) + 1) -> Counts]
            /\ left' \in [1..(Len(decision) + 1) -> Volumes]
            /\ reports' \in [1..(Len(decision) + 1) -> ReportSets]
            BY <2>1, <2>2, Building
      <2>5. expired' \in 0..Len(decision')
            BY <1>0, <2>3, <2>4 DEF Types
      <2> QED BY <2>2, <2>3, <2>4, <2>5 DEF Types
<1>2. ASSUME NEW o \in Built, OrderStep(o) PROVE Types'
      <2> USE <1>0 DEF Types, Counts, Volumes, ReportSets
      <2>1. CASE BrokerTakes(o)
            <3>1. execution[o].at = "asking" /\ copies[o] + 1 <= MaxRetries
                  BY <2>1 DEF BrokerTakes, AttemptsCounted, Executions
            <3>2. [execution[o] EXCEPT !.at = "taken"] \in Executions
                  BY DEF Executions, Places
            <3>3. execution' \in [1..Len(decision) -> Executions] /\ copies' \in [1..Len(decision) -> Counts]
                  BY <2>1, <3>1, <3>2 DEF BrokerTakes
            <3>4. UNCHANGED <<tracked, lookup, expired, decision, status, left, reports>>
                  BY <2>1 DEF BrokerTakes, engineVars
            <3> QED BY <3>3, <3>4
      <2>2. CASE Submitted(o)
            <3>1. [execution[o] EXCEPT !.at = "answered"] \in Executions
                  BY DEF Executions, Places
            <3>2. CanTransition(status[o], "submit") => NextStatus(status[o], "submit") \in Statuses
                  BY NextStatusIs
            <3>3. execution' \in [1..Len(decision) -> Executions]
                  BY <2>2, <3>1 DEF Submitted
            <3>4. status' \in [1..Len(decision) -> Statuses]
                  BY <2>2, <3>2 DEF Submitted
            <3>5. UNCHANGED <<tracked, lookup, expired, decision, copies, left, reports>>
                  BY <2>2 DEF Submitted, engineVars, brokerVars
            <3> QED BY <3>3, <3>4, <3>5
      <2>3. CASE BrokerDeclines(o) \/ AttemptFails(o)
            <3>1. \A at \in {"declined", "backoff", "over"} :
                    [execution[o] EXCEPT !.at = at] \in Executions
                  BY DEF Executions, Places
            <3> QED BY <2>3, <3>1 DEF BrokerDeclines, AttemptFails, engineVars, brokerVars
      <2>4. CASE RetryAttempt(o)
            <3>1. execution[o].attempt + 1 \in 1..MaxRetries
                  <4>1. execution[o].at = "backoff"
                        BY <2>4 DEF RetryAttempt
                  <4>2. execution[o].attempt \in 1..MaxRetries
                        BY DEF Executions
                  <4>3. execution[o].attempt < MaxRetries
                        BY <4>1 DEF AttemptsCounted
                  <4> QED BY <4>2, <4>3
            <3>2. [at |-> "asking", attempt |-> execution[o].attempt + 1] \in Executions
                  BY <3>1 DEF Executions, Places
            <3>3. execution' \in [1..Len(decision) -> Executions]
                  BY <2>4, <3>2 DEF RetryAttempt
            <3>4. UNCHANGED <<tracked, lookup, expired, decision, status, copies, left, reports>>
                  BY <2>4 DEF RetryAttempt, engineVars, brokerVars
            <3> QED BY <3>3, <3>4
      <2>5. ASSUME NEW volume \in 1..Quantity, BrokerFills(o, volume) PROVE Types'
            <3>1. left[o] - volume \in 0..(Quantity - 1)
                  <4>1. left[o] \in 0..Quantity /\ volume \in 1..left[o]
                        BY <2>5 DEF BrokerFills
                  <4> QED BY <4>1
            <3>2. [volume |-> volume, remaining |-> left[o] - volume] \in Reports
                  BY <3>1 DEF Reports
            <3>3. left' \in [1..Len(decision) -> Volumes]
                  BY <2>5, <3>1 DEF BrokerFills
            <3>4. reports' \in [1..Len(decision) -> ReportSets]
                  BY <2>5, <3>2 DEF BrokerFills
            <3> QED BY <2>5, <3>3, <3>4 DEF BrokerFills, engineVars
      <2>6. ASSUME NEW trigger, CanTransition(status[o], trigger),
                   status' = [status EXCEPT ![o] = NextStatus(@, trigger)],
                   UNCHANGED <<engineVars, decision, execution, brokerVars>>
            PROVE  Types'
            <3>1. NextStatus(status[o], trigger) \in Statuses
                  <4>1. status[o] \in Statuses
                        OBVIOUS
                  <4> QED BY <2>6, <4>1, NextStatusIs
            <3>2. status' \in [1..Len(decision) -> Statuses]
                  <4>1. status' = [status EXCEPT ![o] = NextStatus(status[o], trigger)]
                        BY <2>6
                  <4> HIDE DEF NextStatus
                  <4> QED BY <3>1, <4>1
            <3>3. UNCHANGED <<decision, execution, copies, left, reports, tracked, lookup, expired>>
                  BY <2>6 DEF engineVars, brokerVars
            <3> QED BY <3>2, <3>3
      <2>7. ASSUME NEW report, HandleFill(o, report) PROVE Types'
            BY <2>6, <2>7 DEF HandleFill
      <2>8. ASSUME NEW trigger, Advance(o, trigger) PROVE Types'
            BY <2>6, <2>8 DEF Advance
      <2>9. CASE Remove(o)
            BY <2>9 DEF Remove, brokerVars
      <2> QED BY <1>2, <2>1, <2>2, <2>3, <2>4, <2>5, <2>7, <2>8, <2>9 DEF OrderStep
<1>3. CASE WindowPasses
      BY <1>0, <1>3 DEF WindowPasses, brokerVars, Types
<1>4. CASE RegisterBroker \/ UnregisterBroker \/ Initialize \/ Shutdown
      BY <1>4 DEF RegisterBroker, UnregisterBroker, Initialize, Shutdown, brokerVars, Types
<1>5. CASE UNCHANGED vars
      BY <1>5 DEF vars, engineVars, brokerVars, Types
<1> QED BY <1>1, <1>2, <1>3, <1>4, <1>5 DEF Next

LEMMA StepAttempts == Types /\ AttemptsCounted /\ [Next]_vars => AttemptsCounted'
<1> SUFFICES ASSUME Types, AttemptsCounted, [Next]_vars PROVE AttemptsCounted'
    OBVIOUS
<1> USE EngineAssumption
<1>0. Built = 1..Len(decision) /\ Len(decision) \in Nat /\ Types'
      BY BuiltIs, StepTypes
<1> DEFINE Fine(o) ==
      /\ copies[o] <= execution[o].attempt
      /\ execution[o].at = "asking" => copies[o] < execution[o].attempt
      /\ execution[o].at = "taken" => copies[o] > 0
      /\ execution[o].at = "backoff" => execution[o].attempt < MaxRetries
      /\ \A r \in reports[o] : left[o] <= r.remaining
<1>1. ASSUME NEW d \in Decisions, Execute(d) PROVE AttemptsCounted'
      <2>1. PICK at \in {"asking", "over"}, first \in {"new", "routed"} : Build(d, at, first)
            BY <1>1, Executing
      <2>2. at \in Places /\ first \in Statuses /\ Len(decision) + 1 <= MaxOrders
            BY <1>1, Executing DEF Places, Statuses
      <2> DEFINE n == Len(decision)
      <2>3. /\ Len(decision') = n + 1
            /\ \A i \in 1..n : /\ execution'[i] = execution[i] /\ copies'[i] = copies[i]
                               /\ left'[i] = left[i] /\ reports'[i] = reports[i]
            /\ execution'[n + 1] = [at |-> at, attempt |-> 1] /\ copies'[n + 1] = 0
            /\ reports'[n + 1] = {}
            BY <2>1, <2>2, Building
      <2>4. Built' = 1..(n + 1)
            BY <1>0, <2>3, BuiltIs DEF Built, Types
      <2>5. ASSUME NEW i \in Built' PROVE Fine(i)'
            <3>1. CASE i \in 1..n
                  <4>1. Fine(i)
                        BY <1>0, <3>1 DEF AttemptsCounted
                  <4> QED BY <2>3, <3>1, <4>1
            <3>2. CASE i = n + 1
                  <4>1. /\ execution'[i].at = at /\ execution'[i].attempt = 1
                        /\ copies'[i] = 0 /\ reports'[i] = {}
                        BY <2>3, <3>2
                  <4> QED BY <4>1
            <3> QED BY <1>0, <2>4, <3>1, <3>2
      <2> QED BY <2>5 DEF AttemptsCounted
<1>2. ASSUME NEW o \in Built, OrderStep(o) PROVE AttemptsCounted'
      <2>1. decision' = decision /\ Built' = Built
            BY <1>2 DEF OrderStep, BrokerTakes, BrokerDeclines, Submitted, AttemptFails, RetryAttempt, BrokerFills,
               HandleFill, Advance, Remove, Built
      <2>2. ASSUME Fine(o)', \A p \in Built \ {o} : Fine(p)'
            PROVE  AttemptsCounted'
            BY <2>1, <2>2 DEF AttemptsCounted
      <2>3. \A p \in Built : /\ Fine(p) /\ execution[p] \in Executions
                             /\ execution[p].attempt \in 1..MaxRetries /\ copies[p] \in 0..MaxRetries
            BY <1>0 DEF AttemptsCounted, Types, Executions, Counts
      <2>4. CASE UNCHANGED <<execution, copies, left, reports>>
            BY <2>1, <2>4 DEF AttemptsCounted
      <2>5. CASE BrokerTakes(o)
            <3>1. /\ execution' = [execution EXCEPT ![o].at = "taken"]
                  /\ copies' = [copies EXCEPT ![o] = @ + 1] /\ UNCHANGED <<left, reports>>
                  /\ execution[o].at = "asking"
                  BY <2>5 DEF BrokerTakes
            <3>2. /\ execution'[o].at = "taken" /\ execution'[o].attempt = execution[o].attempt
                  /\ copies'[o] = copies[o] + 1
                  BY <1>0, <3>1, <2>3 DEF Types, Executions
            <3>3. \A p \in Built \ {o} : execution'[p] = execution[p] /\ copies'[p] = copies[p]
                  BY <1>0, <3>1 DEF Types
            <3>4. Fine(o)'
                  BY <2>3, <3>1, <3>2
            <3>5. \A p \in Built \ {o} : Fine(p)'
                  BY <2>3, <3>1, <3>3
            <3> QED BY <2>2, <3>4, <3>5
      <2>6. ASSUME NEW at \in {"declined", "answered", "over", "backoff"},
                   at = "backoff" => execution[o].attempt < MaxRetries,
                   execution' = [execution EXCEPT ![o].at = at], UNCHANGED <<copies, left, reports>>
            PROVE  AttemptsCounted'
            <3>1. execution'[o].at = at /\ execution'[o].attempt = execution[o].attempt
                  BY <1>0, <2>6, <2>3 DEF Types, Executions
            <3>2. \A p \in Built \ {o} : execution'[p] = execution[p]
                  BY <1>0, <2>6 DEF Types
            <3>3. Fine(o)'
                  BY <2>3, <2>6, <3>1
            <3>4. \A p \in Built \ {o} : Fine(p)'
                  BY <2>3, <2>6, <3>2
            <3> QED BY <2>2, <3>3, <3>4
      <2>7. CASE BrokerDeclines(o) \/ Submitted(o) \/ AttemptFails(o)
            <3>1. UNCHANGED <<copies, left, reports>>
                  BY <2>7 DEF BrokerDeclines, Submitted, AttemptFails, brokerVars
            <3>2. CASE Submitted(o)
                  BY <2>6, <3>1, <3>2 DEF Submitted
            <3>3. CASE AttemptFails(o)
                  BY <2>6, <3>1, <3>3 DEF AttemptFails
            <3>4. CASE BrokerDeclines(o)
                  BY <2>6, <3>1, <3>4 DEF BrokerDeclines
            <3> QED BY <2>7, <3>2, <3>3, <3>4
      <2>8. CASE RetryAttempt(o)
            <3>1. /\ execution' = [execution EXCEPT ![o] = [at |-> "asking", attempt |-> @.attempt + 1]]
                  /\ UNCHANGED <<copies, left, reports>>
                  BY <2>8 DEF RetryAttempt, brokerVars
            <3>2. execution'[o] = [at |-> "asking", attempt |-> execution[o].attempt + 1]
                  BY <1>0, <3>1 DEF Types
            <3>3. \A p \in Built \ {o} : execution'[p] = execution[p]
                  BY <1>0, <3>1 DEF Types
            <3>4. Fine(o)'
                  BY <2>3, <3>1, <3>2
            <3>5. \A p \in Built \ {o} : Fine(p)'
                  BY <2>3, <3>1, <3>3
            <3> QED BY <2>2, <3>4, <3>5
      <2>9. ASSUME NEW volume \in 1..Quantity, BrokerFills(o, volume) PROVE AttemptsCounted'
            <3> DEFINE new == [volume |-> volume, remaining |-> left[o] - volume]
            <3>1. /\ left' = [left EXCEPT ![o] = @ - volume]
                  /\ reports' = [reports EXCEPT ![o] = @ \cup {new}]
                  /\ UNCHANGED <<execution, copies>>
                  BY <2>9 DEF BrokerFills
            <3>2. left'[o] = left[o] - volume /\ reports'[o] = reports[o] \cup {new} /\ left[o] \in 0..Quantity
                  BY <1>0, <3>1 DEF Types, Volumes
            <3>3. new.remaining = left[o] - volume
                  OBVIOUS
            <3>4. \A r \in reports[o] : r.remaining \in Int
                  <4>1. reports[o] \subseteq Reports
                        BY <1>0 DEF Types, ReportSets
                  <4> QED BY <4>1 DEF Reports
            <3>5. \A p \in Built \ {o} : left'[p] = left[p] /\ reports'[p] = reports[p]
                  BY <1>0, <3>1 DEF Types
            <3> HIDE DEF new
            <3>6. \A r \in reports'[o] : left'[o] <= r.remaining
                  BY <2>3, <3>2, <3>3, <3>4
            <3>7. Fine(o)'
                  BY <2>3, <3>1, <3>6
            <3>8. \A p \in Built \ {o} : Fine(p)'
                  BY <2>3, <3>1, <3>5
            <3> QED BY <2>2, <3>7, <3>8
      <2>10. CASE \/ \E report \in reports[o] : HandleFill(o, report)
                  \/ \E trigger \in Held : Advance(o, trigger)
                  \/ Remove(o)
             BY <2>4, <2>10 DEF HandleFill, Advance, Remove, brokerVars
      <2> QED BY <1>2, <2>5, <2>7, <2>8, <2>9, <2>10 DEF OrderStep
<1>3. CASE UNCHANGED <<decision, execution, brokerVars>>
      BY <1>3 DEF AttemptsCounted, brokerVars, Built
<1>4. CASE WindowPasses \/ RegisterBroker \/ UnregisterBroker \/ Initialize \/ Shutdown \/ UNCHANGED vars
      BY <1>3, <1>4 DEF WindowPasses, RegisterBroker, UnregisterBroker, Initialize, Shutdown, vars
<1> QED BY <1>1, <1>2, <1>4 DEF Next

-----------------------------------------------------------------------------
(* The lifecycle claims no more than what has happened.                    *)

LEMMA StepClaims == Types /\ AttemptsCounted /\ ClaimsAreReal /\ [Next]_vars => ClaimsAreReal'
<1> SUFFICES ASSUME Types, AttemptsCounted, ClaimsAreReal, [Next]_vars PROVE ClaimsAreReal'
    OBVIOUS
<1> USE EngineAssumption
<1>0. Built = 1..Len(decision) /\ Len(decision) \in Nat /\ Types'
      BY BuiltIs, StepTypes
<1> DEFINE Fine(o) ==
      /\ status[o] \in AtBroker \cup {"submitted"} => execution[o].at = "answered"
      /\ status[o] \in AtBroker => copies[o] > 0
      /\ status[o] = "partially_filled" => left[o] < Quantity
      /\ status[o] \in Done => left[o] = 0
<1>1. ASSUME NEW d \in Decisions, Execute(d) PROVE ClaimsAreReal'
      <2>1. PICK at \in {"asking", "over"}, first \in {"new", "routed"} : Build(d, at, first)
            BY <1>1, Executing
      <2>2. at \in Places /\ first \in Statuses /\ Len(decision) + 1 <= MaxOrders
            BY <1>1, Executing DEF Places, Statuses
      <2> DEFINE n == Len(decision)
      <2>3. /\ Len(decision') = n + 1
            /\ \A i \in 1..n : /\ status'[i] = status[i] /\ execution'[i] = execution[i]
                               /\ copies'[i] = copies[i] /\ left'[i] = left[i]
            /\ status'[n + 1] = first
            BY <2>1, <2>2, Building
      <2>4. Built' = 1..(n + 1)
            BY <1>0, <2>3, BuiltIs DEF Built, Types
      <2>5. ASSUME NEW i \in Built' PROVE Fine(i)'
            <3>1. CASE i \in 1..n
                  <4>1. Fine(i)
                        BY <1>0, <3>1 DEF ClaimsAreReal
                  <4> QED BY <2>3, <3>1, <4>1
            <3>2. CASE i = n + 1
                  BY <2>3, <3>2 DEF AtBroker, Done
            <3> QED BY <1>0, <2>4, <3>1, <3>2
      <2> QED BY <2>5 DEF ClaimsAreReal
<1>2. ASSUME NEW o \in Built, OrderStep(o) PROVE ClaimsAreReal'
      <2>1. decision' = decision /\ Built' = Built
            BY <1>2 DEF OrderStep, BrokerTakes, BrokerDeclines, Submitted, AttemptFails, RetryAttempt, BrokerFills,
               HandleFill, Advance, Remove, Built
      <2>2. \A p \in Built : /\ Fine(p) /\ status[p] \in Statuses
                             /\ copies[p] \in 0..MaxRetries /\ left[p] \in 0..Quantity
            BY <1>0 DEF ClaimsAreReal, Types, Counts, Volumes
      <2>3. CASE UNCHANGED <<status, execution, copies, left>>
            BY <2>1, <2>3 DEF ClaimsAreReal
      <2>4. ASSUME execution[o].at # "answered", UNCHANGED <<status, left>>,
                   \A p \in Built \ {o} : execution'[p] = execution[p] /\ copies'[p] = copies[p]
            PROVE  ClaimsAreReal'
            <3>1. status[o] \notin AtBroker \cup {"submitted"}
                  BY <2>2, <2>4
            <3>2. Fine(o)'
                  BY <2>4, <3>1 DEF AtBroker, Done
            <3>3. \A p \in Built \ {o} : Fine(p)'
                  BY <2>2, <2>4
            <3> QED BY <2>1, <3>2, <3>3 DEF ClaimsAreReal
      <2>5. ASSUME NEW volume \in 1..Quantity, BrokerFills(o, volume) PROVE ClaimsAreReal'
            <3>1. /\ UNCHANGED <<status, execution, copies>>
                  /\ left' = [left EXCEPT ![o] = @ - volume] /\ volume \in 1..left[o]
                  BY <2>5 DEF BrokerFills
            <3>2. \A p \in Built : left'[p] = IF p = o THEN left[o] - volume ELSE left[p]
                  BY <1>0, <3>1 DEF Types
            <3>3. \A p \in Built : Fine(p)'
                  BY <2>2, <3>1, <3>2
            <3> QED BY <2>1, <3>3 DEF ClaimsAreReal
      <2>6. ASSUME NEW trigger, CanTransition(status[o], trigger),
                   status' = [status EXCEPT ![o] = NextStatus(@, trigger)],
                   UNCHANGED <<copies, left>>,
                   \A p \in Built \ {o} : execution'[p] = execution[p],
                   IF trigger = "submit" THEN execution'[o].at = "answered"
                                         ELSE execution' = execution,
                   trigger = "acknowledge" => copies[o] > 0,
                   trigger = "partial_fill" => left[o] < Quantity,
                   trigger = "full_fill" => left[o] = 0,
                   trigger \in Held \cup {"submit", "partial_fill", "full_fill"}
            PROVE  ClaimsAreReal'
            <3>1. status'[o] = NextStatus(status[o], trigger) /\ status[o] \in Statuses
                  BY <1>0, <2>6 DEF Types
            <3>2. \A p \in Built \ {o} : status'[p] = status[p]
                  BY <1>0, <2>6 DEF Types
            <3>3. Fine(o)'
                  <4>1. Fine(o)
                        BY <2>2
                  <4>2. /\ trigger = "submit" => status'[o] = "submitted"
                        /\ trigger = "acknowledge" =>
                             status[o] = "submitted" /\ status'[o] = "acknowledged"
                        /\ trigger = "partial_fill" =>
                             status[o] \in Working /\ status'[o] = "partially_filled"
                        /\ trigger = "full_fill" => status[o] \in Working /\ status'[o] = "filled"
                        /\ trigger = "settle" => status[o] = "filled" /\ status'[o] = "settled"
                        /\ trigger = "complete" => status[o] = "settled" /\ status'[o] = "completed"
                        /\ trigger = "reject" => status'[o] = "rejected"
                        /\ trigger = "cancel" => status'[o] = "cancelled"
                        /\ trigger \in {"timeout", "expire"} => status'[o] = "expired"
                        BY <2>6, <3>1, NextStatusIs
                  <4> QED BY <2>6, <4>1, <4>2 DEF AtBroker, Done, Working
            <3>4. \A p \in Built \ {o} : Fine(p)'
                  BY <2>2, <2>6, <3>2
            <3> QED BY <2>1, <3>3, <3>4 DEF ClaimsAreReal
      <2>7. CASE Submitted(o)
            <3>1. /\ execution' = [execution EXCEPT ![o].at = "answered"]
                  /\ UNCHANGED <<copies, left>>
                  BY <2>7 DEF Submitted, brokerVars
            <3>2. /\ execution'[o].at = "answered"
                  /\ \A p \in Built \ {o} : execution'[p] = execution[p]
                  BY <1>0, <3>1 DEF Types, Executions
            <3>3. CASE CanTransition(status[o], "submit")
                  BY <2>6, <2>7, <3>1, <3>2, <3>3 DEF Submitted
            <3>4. CASE ~CanTransition(status[o], "submit")
                  <4>1. status' = status
                        BY <2>7, <3>4 DEF Submitted
                  <4>2. \A p \in Built : Fine(p)'
                        BY <2>2, <3>1, <3>2, <4>1
                  <4> QED BY <2>1, <4>2 DEF ClaimsAreReal
            <3> QED BY <3>3, <3>4
      <2>8. ASSUME NEW report \in reports[o], HandleFill(o, report) PROVE ClaimsAreReal'
            <3>1. report \in Reports /\ left[o] <= report.remaining
                  <4>1. reports[o] \subseteq Reports
                        BY <1>0 DEF Types, ReportSets
                  <4> QED BY <4>1 DEF AttemptsCounted
            <3>2. /\ left[o] < Quantity
                  /\ report.remaining = 0 => left[o] = 0
                  BY <2>2, <3>1 DEF Reports
            <3>3. FillTrigger(report) \in {"full_fill", "partial_fill"}
                  BY DEF FillTrigger
            <3>4. FillTrigger(report) = "full_fill" => left[o] = 0
                  BY <3>2 DEF FillTrigger
            <3> QED BY <2>6, <2>8, <3>2, <3>3, <3>4 DEF HandleFill, brokerVars
      <2>9. ASSUME NEW trigger \in Held, Advance(o, trigger) PROVE ClaimsAreReal'
            BY <2>6, <2>9 DEF Advance, brokerVars
      <2>10. CASE BrokerTakes(o) \/ BrokerDeclines(o) \/ AttemptFails(o) \/ RetryAttempt(o)
             <3>1. /\ execution[o].at # "answered" /\ UNCHANGED <<status, left>>
                   /\ \E e : execution' = [execution EXCEPT ![o] = e]
                   /\ copies' = copies \/ copies' = [copies EXCEPT ![o] = @ + 1]
                   BY <2>10 DEF BrokerTakes, BrokerDeclines, AttemptFails, RetryAttempt, brokerVars
             <3>2. \A p \in Built \ {o} : execution'[p] = execution[p] /\ copies'[p] = copies[p]
                   BY <1>0, <3>1 DEF Types
             <3> QED BY <2>4, <3>1, <3>2
      <2>11. CASE Remove(o)
             BY <2>3, <2>11 DEF Remove, brokerVars
      <2> QED BY <1>2, <2>5, <2>7, <2>8, <2>9, <2>10, <2>11 DEF OrderStep
<1>3. CASE UNCHANGED <<decision, status, execution, brokerVars>>
      BY <1>3 DEF ClaimsAreReal, brokerVars, Built
<1>4. CASE WindowPasses \/ RegisterBroker \/ UnregisterBroker \/ Initialize \/ Shutdown \/ UNCHANGED vars
      BY <1>3, <1>4 DEF WindowPasses, RegisterBroker, UnregisterBroker, Initialize, Shutdown, vars
<1> QED BY <1>1, <1>2, <1>4 DEF Next

-----------------------------------------------------------------------------
(* The registry.                                                           *)

LEMMA StepLookup == Types /\ AttemptsCounted /\ LookupIsSafe /\ [Next]_vars => LookupIsSafe'
<1> SUFFICES ASSUME Types, AttemptsCounted, LookupIsSafe, [Next]_vars PROVE LookupIsSafe'
    OBVIOUS
<1>0. Built = 1..Len(decision) /\ Len(decision) \in Nat
      BY BuiltIs
<1>1. CASE UNCHANGED <<tracked, lookup, decision>>
      BY <1>1 DEF LookupIsSafe
<1>2. ASSUME NEW d \in Decisions, Execute(d) PROVE LookupIsSafe'
      <2>1. PICK at \in {"asking", "over"}, first \in {"new", "routed"} : Build(d, at, first)
            BY <1>2, Executing
      <2>2. at \in Places /\ first \in Statuses /\ Len(decision) + 1 <= MaxOrders
            BY <1>2, Executing DEF Places, Statuses
      <2>3. /\ \A i \in 1..Len(decision) : decision'[i] = decision[i]
            /\ decision'[Len(decision) + 1] = d
            BY <2>1, <2>2, Building
      <2>4. \/ UNCHANGED <<tracked, lookup>>
            \/ /\ tracked' = tracked \cup {Len(decision) + 1}
               /\ lookup' = [lookup EXCEPT ![d] = Len(decision) + 1]
            BY <1>2 DEF Execute
      <2>5. \A c \in Decisions : lookup[c] # 0 => lookup[c] \in tracked /\ decision'[lookup[c]] = c
            BY <2>3 DEF LookupIsSafe, Types
      <2> QED BY <2>3, <2>4, <2>5 DEF LookupIsSafe, Types
<1>3. ASSUME NEW o \in Built, Remove(o) PROVE LookupIsSafe'
      <2>1. decision[o] \in Decisions
            BY <1>0, ElementOfSeq DEF Types
      <2> QED BY <1>3, <2>1 DEF Remove, LookupIsSafe, Types
<1>4. ASSUME NEW o \in Built, OrderStep(o) PROVE LookupIsSafe'
      <2>1. Remove(o) \/ UNCHANGED <<tracked, lookup, decision>>
            BY <1>4 DEF OrderStep, BrokerTakes, BrokerDeclines, Submitted, AttemptFails, RetryAttempt, BrokerFills,
               HandleFill, Advance, engineVars
      <2> QED BY <1>1, <1>3, <2>1
<1>5. CASE WindowPasses \/ RegisterBroker \/ UnregisterBroker \/ Initialize \/ Shutdown \/ UNCHANGED vars
      BY <1>1, <1>5 DEF WindowPasses, RegisterBroker, UnregisterBroker, Initialize, Shutdown, vars, engineVars
<1> QED BY <1>2, <1>4, <1>5 DEF Next

Inv == Types /\ AttemptsCounted /\ ClaimsAreReal /\ LookupIsSafe

LEMMA InitInv == Init => Inv
<1> SUFFICES ASSUME Init PROVE Inv
    OBVIOUS
<1>1. Built = {}
      BY DEF Init, Built
<1> QED BY <1>1, InitTypes DEF Init, Inv, ClaimsAreReal, LookupIsSafe

LEMMA StepInv == Inv /\ [Next]_vars => Inv'
BY StepTypes, StepAttempts, StepClaims, StepLookup DEF Inv

\* Submitted, acknowledged, partially filled, filled: an order is called so only when
\* the broker has answered, if only to decline it, has taken it, filled a part of
\* it, and filled all of it, for any loss, delay or repetition of its answers and
\* reports.
THEOREM ClaimsCorrect == Spec => []ClaimsAreReal
<1>1. Inv => ClaimsAreReal
      BY DEF Inv
<1> QED BY <1>1, InitInv, StepInv, PTL DEF Spec

\* What the registry finds for a decision is an order of that decision.
THEOREM LookupCorrect == Spec => []LookupIsSafe
<1>1. Inv => LookupIsSafe
      BY DEF Inv
<1> QED BY <1>1, InitInv, StepInv, PTL DEF Spec

-----------------------------------------------------------------------------
(* The deduplicator.                                                       *)

\* The age of a key as a number: of one order the decision comes first.
Code(e) == 2 * e[2] + (IF e[1] = "order" THEN 1 ELSE 0)

Younger(all, e) == {f \in all : Older(e, f)}

LEMMA CodeFacts ==
  ASSUME NEW e \in Keys \X Nat, NEW f \in Keys \X Nat
  PROVE  /\ Code(e) \in Nat
         /\ Older(e, f) <=> Code(e) < Code(f)
         /\ Code(e) = Code(f) => e = f
<1>1. /\ e = <<e[1], e[2]>> /\ e[1] \in Keys /\ e[2] \in Nat
      /\ f = <<f[1], f[2]>> /\ f[1] \in Keys /\ f[2] \in Nat
      OBVIOUS
<1>2. Code(e) \in Nat
      BY <1>1 DEF Code
<1>3. Older(e, f) <=> Code(e) < Code(f)
      BY <1>1 DEF Older, Code, Keys
<1>4. ASSUME Code(e) = Code(f) PROVE e = f
      <2>1. e[2] = f[2] /\ (e[1] = "order" <=> f[1] = "order")
            BY <1>1, <1>4 DEF Code
      <2>2. e[1] = f[1]
            BY <1>1, <2>1 DEF Keys
      <2> QED BY <1>1, <2>1, <2>2
<1> QED BY <1>2, <1>3, <1>4

\* Keys have at most as many younger ones as there are ages after theirs.
LEMMA YoungerBound ==
  ASSUME NEW n \in Nat, NEW all, all \subseteq Keys \X (1..n), NEW e \in all
  PROVE  /\ IsFiniteSet(Younger(all, e))
         /\ Cardinality(Younger(all, e)) <= 2 * n + 1 - Code(e)
<1> DEFINE S == Younger(all, e)
           T == (Code(e) + 1)..(2 * n + 1)
           c == [f \in S |-> Code(f)]
<1>1. S \subseteq Keys \X (1..n) /\ S \subseteq Keys \X Nat /\ e \in Keys \X Nat /\ e \in Keys \X (1..n)
      BY DEF Younger
<1>2. ASSUME NEW f \in Keys \X (1..n) PROVE Code(f) \in 0..(2 * n + 1)
      <2>1. f[2] \in 1..n
            OBVIOUS
      <2> QED BY <2>1 DEF Code
<1>3. Code(e) \in 0..(2 * n + 1)
      BY <1>1, <1>2
<1>4. \A f \in S : Code(f) \in T
      <2> SUFFICES ASSUME NEW f \in S PROVE Code(f) \in T
          OBVIOUS
      <2>1. Code(f) \in 0..(2 * n + 1) /\ Older(e, f)
            BY <1>1, <1>2 DEF Younger
      <2>2. Code(e) < Code(f)
            BY <1>1, <2>1, CodeFacts
      <2> QED BY <1>3, <2>1, <2>2
<1>5. c \in Injection(S, T)
      <2>1. \A f, g \in S : Code(f) = Code(g) => f = g
            BY <1>1, CodeFacts
      <2> HIDE DEF S, T
      <2>2. c \in [S -> T]
            BY <1>4
      <2> QED BY <2>1, <2>2 DEF Injection, IsInjective
<1>6. IsFiniteSet(T) /\ Cardinality(T) = 2 * n + 1 - Code(e)
      <2> DEFINE low == Code(e) + 1
                 high == 2 * n + 1
      <2>1. low \in Int /\ high \in Int /\ low <= high + 1 /\ high - low + 1 = 2 * n + 1 - Code(e)
            BY <1>3
      <2>2. T = low..high
            OBVIOUS
      <2> HIDE DEF low, high, T
      <2>3. IsFiniteSet(low..high) /\ Cardinality(low..high) = (IF low > high THEN 0 ELSE high - low + 1)
            BY <2>1, FS_Interval
      <2>4. Cardinality(low..high) = high - low + 1
            BY <2>1, <2>3
      <2> QED BY <2>1, <2>2, <2>3, <2>4
<1> HIDE DEF S, T, c
<1>7. IsFiniteSet(S) /\ Cardinality(S) <= Cardinality(T)
      BY <1>5, <1>6, FS_Injection
<1> QED BY <1>6, <1>7 DEF S

\* Room is made: no more keys are left than there are entries.
LEMMA RoomIsMade ==
  ASSUME NEW all, all \subseteq Keys \X Nat, IsFiniteSet(all)
  PROVE  IsFiniteSet(OldestGo(all)) /\ Cardinality(OldestGo(all)) <= MaxEntries
<1> USE EngineAssumption
<1> DEFINE S == OldestGo(all)
           T == 0..(MaxEntries - 1)
           rank == [e \in S |-> Cardinality(Younger(all, e))]
<1>1. \A e \in all : IsFiniteSet(Younger(all, e)) /\ Cardinality(Younger(all, e)) \in Nat
      <2> SUFFICES ASSUME NEW e \in all
                   PROVE  IsFiniteSet(Younger(all, e)) /\ Cardinality(Younger(all, e)) \in Nat
          OBVIOUS
      <2>1. Younger(all, e) \subseteq all
            BY DEF Younger
      <2> QED BY <2>1, FS_Subset, FS_CardinalityType
<1>2. ASSUME NEW e \in all, NEW f \in all, Code(e) < Code(f)
      PROVE  Cardinality(Younger(all, f)) < Cardinality(Younger(all, e))
      <2>1. \A g \in all : g \in Younger(all, f) => g \in Younger(all, e)
            <3> SUFFICES ASSUME NEW g \in all, Older(f, g) PROVE Older(e, g)
                BY DEF Younger
            <3>1. Code(f) < Code(g) /\ Code(e) \in Nat /\ Code(f) \in Nat /\ Code(g) \in Nat
                  BY CodeFacts
            <3>2. Code(e) < Code(g)
                  BY <1>2, <3>1
            <3> QED BY <3>2, CodeFacts
      <2>2. f \in Younger(all, e)
            BY <1>2, CodeFacts DEF Younger
      <2>3. f \notin Younger(all, f)
            <3>1. Older(f, f) <=> Code(f) < Code(f)
                  BY CodeFacts
            <3>2. Code(f) \in Nat
                  BY CodeFacts
            <3> QED BY <3>1, <3>2 DEF Younger
      <2>4. Younger(all, f) \subseteq Younger(all, e) \ {f}
            BY <2>1, <2>3 DEF Younger
      <2>5. /\ IsFiniteSet(Younger(all, e) \ {f})
            /\ Cardinality(Younger(all, e) \ {f}) = Cardinality(Younger(all, e)) - 1
            BY <1>1, <2>2, FS_RemoveElement
      <2>6. Cardinality(Younger(all, f)) <= Cardinality(Younger(all, e) \ {f})
            BY <2>4, <2>5, FS_Subset
      <2> QED BY <1>1, <2>5, <2>6
<1>3. S \subseteq all /\ \A e \in S : Cardinality(Younger(all, e)) < MaxEntries
      BY DEF OldestGo, Younger
<1>4. rank \in Injection(S, T)
      <2>1. \A e \in S : Cardinality(Younger(all, e)) \in T
            BY <1>1, <1>3
      <2>2. \A e, f \in S : Cardinality(Younger(all, e)) = Cardinality(Younger(all, f)) => e = f
            <3> SUFFICES ASSUME NEW e \in S, NEW f \in S, e # f
                         PROVE  Cardinality(Younger(all, e)) # Cardinality(Younger(all, f))
                OBVIOUS
            <3>1. e \in all /\ f \in all /\ Code(e) \in Nat /\ Code(f) \in Nat /\ Code(e) # Code(f)
                  BY <1>3, CodeFacts
            <3>2. Code(e) < Code(f) \/ Code(f) < Code(e)
                  BY <3>1
            <3> QED BY <1>1, <1>2, <3>1, <3>2
      <2> HIDE DEF S, T
      <2>3. rank \in [S -> T]
            BY <2>1
      <2> QED BY <2>2, <2>3 DEF Injection, IsInjective
<1>5. IsFiniteSet(T) /\ Cardinality(T) = MaxEntries
      BY FS_Interval
<1> HIDE DEF S, T, rank
<1>6. IsFiniteSet(S) /\ Cardinality(S) <= Cardinality(T)
      BY <1>4, <1>5, FS_Injection
<1> QED BY <1>5, <1>6 DEF S

EntriesOK ==
  /\ entries \subseteq Keys \X (1..Len(decision))
  /\ IsFiniteSet(entries) /\ Cardinality(entries) <= MaxEntries

\* The decisions within the window are remembered as far as there is room.
Kept ==
  \A o \in 1..Len(decision) :
    o > expired /\ 2 * (Len(decision) - o) + 1 < MaxEntries => <<"decision", o>> \in entries

LEMMA Registering ==
  ASSUME Types, EntriesOK, Kept, NEW d \in Decisions, Execute(d)
  PROVE  /\ Len(decision') = Len(decision) + 1 /\ expired' = expired
         /\ EntriesOK' /\ Kept'
<1> USE EngineAssumption
<1> DEFINE n == Len(decision)
           added == {<<key, n + 1>> : key \in Keys}
           all == Unexpired \cup added
<1>0. n \in Nat /\ expired \in 0..n
      BY BuiltIs DEF Types
<1>1. Len(decision') = n + 1
      <2>1. PICK at \in {"asking", "over"}, first \in {"new", "routed"} : Build(d, at, first)
            BY Executing
      <2>2. at \in Places /\ first \in Statuses /\ Len(decision) + 1 <= MaxOrders
            BY Executing DEF Places, Statuses
      <2> QED BY <2>1, <2>2, Building
<1>2. expired' = expired /\ entries' = OldestGo(all)
      BY DEF Execute, Register
<1>3. Unexpired \subseteq entries /\ IsFiniteSet(Unexpired)
      <2>1. Unexpired \subseteq entries
            BY DEF Unexpired
      <2> QED BY <2>1, FS_Subset DEF EntriesOK
<1>4. added = {<<"decision", n + 1>>, <<"order", n + 1>>}
      BY DEF Keys
<1>5. IsFiniteSet(all)
      <2>1. all = (Unexpired \cup {<<"decision", n + 1>>}) \cup {<<"order", n + 1>>}
            BY <1>4
      <2>2. IsFiniteSet(Unexpired \cup {<<"decision", n + 1>>})
            BY <1>3, FS_AddElement
      <2> HIDE DEF all
      <2> QED BY <2>1, <2>2, FS_AddElement
<1>6. all \subseteq Keys \X (1..(n + 1))
      <2>1. entries \subseteq Keys \X (1..n)
            BY DEF EntriesOK
      <2>2. Keys \X (1..n) \subseteq Keys \X (1..(n + 1))
            BY <1>0
      <2>3. added \subseteq Keys \X (1..(n + 1))
            BY <1>0
      <2> QED BY <1>3, <2>1, <2>2, <2>3
<1>7. all \subseteq Keys \X Nat
      BY <1>6
<1>8. \A o \in 1..(n + 1) :
        o > expired /\ 2 * (n + 1 - o) + 1 < MaxEntries => <<"decision", o>> \in OldestGo(all)
      <2> SUFFICES ASSUME NEW o \in 1..(n + 1), o > expired, 2 * (n + 1 - o) + 1 < MaxEntries
                   PROVE  <<"decision", o>> \in OldestGo(all)
          OBVIOUS
      <2> DEFINE e == <<"decision", o>>
      <2>1. e \in all
            <3>1. CASE o = n + 1
                  BY <1>4, <3>1
            <3>2. CASE o # n + 1
                  <4>1. o \in 1..n /\ 2 * (n - o) + 1 < MaxEntries
                        BY <1>0, <3>2
                  <4>2. e \in entries
                        BY <4>1 DEF Kept
                  <4> QED BY <4>2 DEF Unexpired
            <3> QED BY <3>1, <3>2
      <2>2. Code(e) = 2 * o
            BY <1>0 DEF Code
      <2> HIDE DEF all, e, n
      <2>3. n + 1 \in Nat
            BY <1>0
      <2>4. Cardinality(Younger(all, e)) <= 2 * (n + 1) + 1 - Code(e) /\ IsFiniteSet(Younger(all, e))
            BY <1>6, <2>1, <2>3, YoungerBound
      <2>5. Cardinality(Younger(all, e)) \in Nat
            BY <2>4, FS_CardinalityType
      <2>6. Cardinality(Younger(all, e)) < MaxEntries
            BY <1>0, <2>2, <2>4, <2>5
      <2> QED BY <2>1, <2>6 DEF OldestGo, Younger, e
<1> HIDE DEF all, n
<1>9. /\ IsFiniteSet(OldestGo(all)) /\ Cardinality(OldestGo(all)) <= MaxEntries
      /\ OldestGo(all) \subseteq all
      BY <1>5, <1>7, RoomIsMade DEF OldestGo
<1>10. EntriesOK'
       BY <1>1, <1>2, <1>6, <1>9 DEF EntriesOK
<1>11. Kept'
       <2> SUFFICES ASSUME NEW o \in 1..Len(decision'), o > expired',
                           2 * (Len(decision') - o) + 1 < MaxEntries
                    PROVE  <<"decision", o>> \in entries'
           BY DEF Kept
       <2>1. Len(decision') = n + 1
             BY <1>1
       <2>2. o \in 1..(n + 1)
             BY <2>1
       <2>3. 2 * (n + 1 - o) + 1 < MaxEntries
             BY <1>0, <2>1, <2>2
       <2>4. o > expired
             BY <1>2
       <2> QED BY <1>2, <1>8, <2>2, <2>3, <2>4
<1> QED BY <1>1, <1>2, <1>10, <1>11 DEF n

\* Whatever is not execute() builds nothing and registers nothing.
LEMMA OrderStepsRegisterNothing ==
  ASSUME NEW o, OrderStep(o)
  PROVE  UNCHANGED <<decision, entries, expired>>
BY DEF OrderStep, BrokerTakes, BrokerDeclines, Submitted, AttemptFails, RetryAttempt, BrokerFills, HandleFill,
   Advance, Remove, engineVars

LEMMA StepMemory ==
  Types /\ EntriesOK /\ Kept /\ RemembersLastOrders /\ [Next]_vars
    => EntriesOK' /\ Kept' /\ RemembersLastOrders'
<1> SUFFICES ASSUME Types, EntriesOK, Kept, RemembersLastOrders, [Next]_vars
             PROVE  EntriesOK' /\ Kept' /\ RemembersLastOrders'
    OBVIOUS
<1> USE EngineAssumption
<1>0. Built = 1..Len(decision) /\ Len(decision) \in Nat /\ expired \in 0..Len(decision)
      BY BuiltIs DEF Types
<1>1. CASE UNCHANGED <<decision, entries, expired>>
      BY <1>1 DEF EntriesOK, Kept, RemembersLastOrders, Built
<1>2. CASE WindowPasses
      <2>1. expired' = expired + 1 /\ decision' = decision /\ entries' = entries
            BY <1>2 DEF WindowPasses
      <2>2. EntriesOK'
            BY <2>1 DEF EntriesOK
      <2>3. Kept'
            <3> SUFFICES ASSUME NEW o \in 1..Len(decision), o > expired + 1,
                                2 * (Len(decision) - o) + 1 < MaxEntries
                         PROVE  <<"decision", o>> \in entries
                BY <2>1 DEF Kept
            <3>1. o > expired
                  BY <1>0
            <3> QED BY <3>1 DEF Kept
      <2>4. RemembersLastOrders'
            BY <1>0, <2>1 DEF RemembersLastOrders, Built
      <2> QED BY <2>2, <2>3, <2>4
<1>3. ASSUME NEW d \in Decisions, Execute(d)
      PROVE  EntriesOK' /\ Kept' /\ RemembersLastOrders'
      <2>1. EntriesOK' /\ Kept' /\ expired' = expired
            BY <1>3, Registering
      <2>2. PICK at \in {"asking", "over"}, first \in {"new", "routed"} : Build(d, at, first)
            BY <1>3, Executing
      <2>3. at \in Places /\ first \in Statuses /\ Len(decision) + 1 <= MaxOrders
            BY <1>3, Executing DEF Places, Statuses
      <2>4. /\ decision' \in Seq(Decisions) /\ Len(decision') = Len(decision) + 1
            /\ \A i \in 1..Len(decision) : decision'[i] = decision[i]
            /\ decision'[Len(decision) + 1] = d
            BY <2>2, <2>3, Building
      <2>5. Built' = 1..(Len(decision) + 1)
            BY <2>4, LenProperties DEF Built
      <2>6. \A o \in 1..Len(decision) :
              o > expired /\ decision[o] = d => 2 * (Len(decision) + 1 - o) > MaxEntries
            <3> SUFFICES ASSUME NEW o \in 1..Len(decision), o > expired, decision[o] = d
                         PROVE  2 * (Len(decision) + 1 - o) > MaxEntries
                OBVIOUS
            <3>1. ~IsDuplicate(d)
                  BY <1>3 DEF Execute
            <3>2. <<"decision", o>> \notin entries
                  <4>1. ASSUME <<"decision", o>> \in entries PROVE FALSE
                        <5>1. <<"decision", o>> \in Unexpired
                              BY <4>1 DEF Unexpired
                        <5> QED BY <3>1, <5>1 DEF IsDuplicate
                  <4> QED BY <4>1
            <3>3. ~(2 * (Len(decision) - o) + 1 < MaxEntries)
                  BY <3>2 DEF Kept
            <3> QED BY <1>0, <3>3
      <2>7. RemembersLastOrders'
            <3> SUFFICES ASSUME NEW o \in Built', NEW p \in Built',
                                o > expired', o < p, decision'[o] = decision'[p]
                         PROVE  2 * (p - o) > MaxEntries
                BY DEF RemembersLastOrders
            <3>1. o \in 1..Len(decision) /\ decision'[o] = decision[o] /\ o > expired
                  BY <1>0, <2>1, <2>4, <2>5
            <3>2. CASE p = Len(decision) + 1
                  <4>1. decision[o] = d
                        BY <2>4, <3>1, <3>2
                  <4> QED BY <2>6, <3>1, <3>2, <4>1
            <3>3. CASE p # Len(decision) + 1
                  <4>1. p \in 1..Len(decision)
                        BY <1>0, <2>5, <3>3
                  <4>2. decision[o] = decision[p]
                        BY <2>4, <3>1, <4>1
                  <4> QED BY <1>0, <3>1, <4>1, <4>2 DEF RemembersLastOrders
            <3> QED BY <3>2, <3>3
      <2> QED BY <2>1, <2>7
<1>4. ASSUME NEW o \in Built, OrderStep(o) PROVE EntriesOK' /\ Kept' /\ RemembersLastOrders'
      BY <1>1, <1>4, OrderStepsRegisterNothing
<1>5. CASE RegisterBroker \/ UnregisterBroker \/ Initialize \/ Shutdown \/ UNCHANGED vars
      BY <1>1, <1>5 DEF RegisterBroker, UnregisterBroker, Initialize, Shutdown, vars, engineVars
<1> QED BY <1>2, <1>3, <1>4, <1>5 DEF Next

LEMMA InitMemory == Init => EntriesOK /\ Kept /\ RemembersLastOrders
<1> SUFFICES ASSUME Init PROVE EntriesOK /\ Kept /\ RemembersLastOrders
    OBVIOUS
<1> USE EngineAssumption
<1>1. decision = <<>> /\ Len(decision) = 0 /\ Built = {} /\ entries = {}
      BY DEF Init, Built
<1>2. EntriesOK
      BY <1>1, FS_EmptySet DEF EntriesOK
<1> QED BY <1>1, <1>2 DEF Kept, RemembersLastOrders

\* No decision is executed twice within the window of the deduplicator, unless it
\* had to make room for more orders in between than it holds entries for.
THEOREM RemembersCorrect == Spec => []RemembersLastOrders
<1>1. Init => Types /\ AttemptsCounted /\ EntriesOK /\ Kept /\ RemembersLastOrders
      BY InitTypes, InitMemory
<1>2. (Types /\ AttemptsCounted /\ EntriesOK /\ Kept /\ RemembersLastOrders) /\ [Next]_vars
        => (Types /\ AttemptsCounted /\ EntriesOK /\ Kept /\ RemembersLastOrders)'
      BY StepTypes, StepAttempts, StepMemory
<1> QED BY <1>1, <1>2, PTL DEF Spec

-----------------------------------------------------------------------------
LEMMA StepFlags == Flags /\ [Next]_vars => Flags'
<1> SUFFICES ASSUME Flags, [Next]_vars PROVE Flags'
    OBVIOUS
<1>1. CASE UNCHANGED <<ready, routable>>
      BY <1>1, Zenon DEF Flags
<1>2. CASE RegisterBroker \/ UnregisterBroker
      BY <1>2, Zenon DEF RegisterBroker, UnregisterBroker, Flags
<1>3. CASE Initialize \/ Shutdown
      BY <1>3, Zenon DEF Initialize, Shutdown, Flags
<1>4. ASSUME NEW d \in Decisions, Execute(d) PROVE UNCHANGED <<ready, routable>>
      BY <1>4 DEF Execute
<1>5. ASSUME NEW o \in Built, OrderStep(o) PROVE UNCHANGED <<ready, routable>>
      BY <1>5 DEF OrderStep, BrokerTakes, BrokerDeclines, Submitted, AttemptFails, RetryAttempt, BrokerFills,
         HandleFill, Advance, Remove, engineVars
<1>6. CASE WindowPasses \/ UNCHANGED vars
      BY <1>1, <1>6 DEF WindowPasses, vars, engineVars
<1> QED BY <1>1, <1>2, <1>3, <1>4, <1>5, <1>6 DEF Next

LEMMA TypesAre == Types /\ Flags /\ EntriesOK => TypeOK
<1> SUFFICES ASSUME Types, Flags, EntriesOK PROVE TypeOK
    OBVIOUS
<1>0. Built = 1..Len(decision) /\ Len(decision) \in Nat
      BY BuiltIs
<1>1. ready \in BOOLEAN /\ routable \in BOOLEAN
      BY Zenon DEF Flags
<1>2. lookup \in [Decisions -> Built \cup {0}]
      <2>1. Built \cup {0} = 0..Len(decision)
            BY <1>0
      <2> QED BY <2>1 DEF Types
<1>3. /\ status \in [Built -> Statuses]
      /\ execution \in [Built -> Executions]
      /\ copies \in [Built -> Counts]
      /\ left \in [Built -> Volumes]
      /\ \A o \in Built : reports[o] \in ReportSets
      BY <1>0 DEF Types
<1>4. tracked \subseteq Built /\ entries \subseteq Keys \X Built
      BY <1>0 DEF Types, EntriesOK
<1> HIDE DEF Built
<1> QED BY <1>1, <1>2, <1>3, <1>4
        DEF TypeOK, Types, EntriesOK, Executions, Counts, Volumes, ReportSets, Reports

\* Types of the engine: the deduplicator keeps to its capacity, and the broker is
\* asked no more often than the retries allow.
THEOREM TypeCorrect == Spec => []TypeOK
<1> DEFINE I == Types /\ Flags /\ AttemptsCounted /\ EntriesOK /\ Kept /\ RemembersLastOrders
<1>1. Init => I
      BY InitTypes, InitMemory
<1>2. I /\ [Next]_vars => I'
      BY StepTypes, StepFlags, StepAttempts, StepMemory
<1>3. I => TypeOK
      BY TypesAre
<1> QED BY <1>1, <1>2, <1>3, PTL DEF Spec

-----------------------------------------------------------------------------
(* The circuit breaker.                                                    *)

\* BreakerTypeOK, its two flags apart from what is counted.
FlagsOK == elapsed \in BOOLEAN /\ healthy \in BOOLEAN /\ nested \in BOOLEAN

CountsOK ==
  /\ state \in States
  /\ failures \in 0..(FailureThreshold - 1)
  /\ successes \in 0..(SuccessThreshold - 1)
  /\ probes \in 0..HalfOpenMaxCalls
  /\ call \in [Callers -> {"none", "earlier", "probe"}]
  /\ forces \in 0..MaxForces

BreakerInv == FlagsOK /\ CountsOK /\ CountsAreFresh

\* Every slot taken is owned by a probe in flight; more probes than slots may
\* be in flight, as any success of the episode frees the slots of all.
SlotsAreOwned ==
  ~nested /\ state = "half_open" => probes <= Cardinality(InFlight("probe"))

-----------------------------------------------------------------------------
LEMMA BreakerInitInv == BreakerInit => BreakerInv
<1> SUFFICES ASSUME BreakerInit PROVE BreakerInv
    OBVIOUS
<1>1. FlagsOK
      BY Zenon DEF BreakerInit, FlagsOK
<1>2. CountsOK /\ CountsAreFresh
      BY ConfigAssumption, BoundAssumption DEF BreakerInit, CountsOK, CountsAreFresh, States, InFlight
<1> QED BY <1>1, <1>2 DEF BreakerInv

LEMMA BreakerStepFlags == FlagsOK /\ [BreakerNext]_breakerVars => FlagsOK'
<1> SUFFICES ASSUME FlagsOK, [BreakerNext]_breakerVars PROVE FlagsOK'
    OBVIOUS
<1> USE DEF FlagsOK
<1>1. ASSUME NEW c \in Callers, Admit(c) PROVE FlagsOK'
      BY <1>1, Zenon DEF Admit
<1>2. ASSUME NEW c \in Callers, OnSuccess(c) PROVE FlagsOK'
      BY <1>2, Zenon DEF OnSuccess, ResetToClosed
<1>3. ASSUME NEW c \in Callers, OnFailure(c) PROVE FlagsOK'
      BY <1>3, Zenon DEF OnFailure, TripToOpen
<1>4. ASSUME NEW c \in Callers, NotReported(c) PROVE FlagsOK'
      BY <1>4, Zenon DEF NotReported
<1>5. CASE CheckState \/ ForceOpen \/ ForceClose
      BY <1>5, Zenon DEF CheckState, ForceOpen, ForceClose, TripToOpen, ResetToClosed
<1>6. CASE TimePasses \/ ServiceHeals \/ UNCHANGED breakerVars
      BY <1>6, Zenon DEF TimePasses, ServiceHeals, breakerVars
<1> QED BY <1>1, <1>2, <1>3, <1>4, <1>5, <1>6 DEF BreakerNext, CallerStep

\* Leaving an episode, the calls are again calls and none is a probe.
LEMMA EpisodeOverFacts ==
  ASSUME NEW calls \in [Callers -> {"none", "earlier", "probe"}]
  PROVE  /\ EpisodeOver(calls) \in [Callers -> {"none", "earlier", "probe"}]
         /\ \A d \in Callers : EpisodeOver(calls)[d] # "probe"
BY DEF EpisodeOver

LEMMA OverFacts ==
  ASSUME CountsOK, NEW c \in Callers
  PROVE  /\ Over(c) \in [Callers -> {"none", "earlier", "probe"}]
         /\ \A d \in Callers : Over(c)[d] = IF d = c THEN "none" ELSE call[d]
BY DEF Over, CountsOK

LEMMA BreakerStepInv == BreakerInv /\ [BreakerNext]_breakerVars => BreakerInv'
<1> DEFINE Counted == CountsOK /\ CountsAreFresh
<1> SUFFICES ASSUME BreakerInv, [BreakerNext]_breakerVars PROVE Counted'
    BY BreakerStepFlags DEF BreakerInv
<1> USE ConfigAssumption, BoundAssumption
<1> USE DEF BreakerInv, CountsOK, CountsAreFresh, InFlight, States
<1>1. ASSUME NEW c \in Callers, Admit(c) PROVE Counted'
      BY <1>1 DEF Admit, Recovering
<1>2. ASSUME NEW c \in Callers, OnSuccess(c) PROVE Counted'
      <2>1. /\ EpisodeOver(Over(c)) \in [Callers -> {"none", "earlier", "probe"}]
            /\ \A d \in Callers : EpisodeOver(Over(c))[d] # "probe"
            BY OverFacts, EpisodeOverFacts
      <2> QED BY <1>2, <2>1, OverFacts DEF OnSuccess, ResetToClosed, CallOver
<1>3. ASSUME NEW c \in Callers, OnFailure(c) PROVE Counted'
      <2>1. /\ EpisodeOver(Over(c)) \in [Callers -> {"none", "earlier", "probe"}]
            /\ \A d \in Callers : EpisodeOver(Over(c))[d] # "probe"
            BY OverFacts, EpisodeOverFacts
      <2> QED BY <1>3, <2>1, OverFacts DEF OnFailure, TripToOpen, CallOver
<1>4. ASSUME NEW c \in Callers, NotReported(c) PROVE Counted'
      BY <1>4, OverFacts DEF NotReported, CallOver
<1>5. CASE CheckState
      BY <1>5 DEF CheckState, Recovering
<1>6. CASE ForceOpen \/ ForceClose
      BY <1>6, EpisodeOverFacts DEF ForceOpen, ForceClose, TripToOpen, ResetToClosed
<1>7. CASE TimePasses
      BY <1>7 DEF TimePasses
<1>8. CASE ServiceHeals
      BY <1>8 DEF ServiceHeals
<1>9. CASE UNCHANGED breakerVars
      BY <1>9 DEF breakerVars
<1> QED BY <1>1, <1>2, <1>3, <1>4, <1>5, <1>6, <1>7, <1>8, <1>9 DEF BreakerNext, CallerStep

\* Types and bounds of the counters, for every configuration the code accepts.
THEOREM BreakerTypeCorrect == BreakerSpec => []BreakerTypeOK
<1>1. BreakerInv => BreakerTypeOK
      BY Zenon DEF BreakerInv, FlagsOK, CountsOK, BreakerTypeOK
<1> QED BY BreakerInitInv, BreakerStepInv, <1>1, PTL DEF BreakerSpec

\* Every episode is judged on its own calls' counts: none survives a change of
\* state, whoever causes it.
THEOREM CountsCorrect == BreakerSpec => []CountsAreFresh
<1>1. BreakerInv => CountsAreFresh
      BY DEF BreakerInv
<1> QED BY BreakerInitInv, BreakerStepInv, <1>1, PTL DEF BreakerSpec

-----------------------------------------------------------------------------
LEMMA ProbesFinite == IsFiniteSet(InFlight("probe"))
<1>1. InFlight("probe") \subseteq Callers
      BY DEF InFlight
<1> QED BY <1>1, CallersAssumption, FS_Subset

LEMMA StepSlots ==
  ASSUME BreakerInv, BreakerInv', SlotsAreOwned, [BreakerNext]_breakerVars
  PROVE  SlotsAreOwned'
<1> SUFFICES ASSUME ~nested', state' = "half_open"
             PROVE  probes' <= Cardinality(InFlight("probe")')
    BY DEF SlotsAreOwned
<1>0. ~nested
      <2>1. nested' = nested
            BY Zenon DEF BreakerNext, CallerStep, Admit, OnSuccess, OnFailure, NotReported,
               CheckState, ForceOpen, ForceClose, TimePasses, ServiceHeals, breakerVars
      <2> QED BY <2>1
<1>a. /\ probes \in Int /\ probes' \in Int
      /\ Cardinality(InFlight("probe")) \in Nat
      <2>1. probes \in Int /\ probes' \in Int
            BY ConfigAssumption DEF BreakerInv, CountsOK
      <2> QED BY <2>1, ProbesFinite, FS_CardinalityType
<1>b. IsFiniteSet(InFlight("probe")')
      <2>1. InFlight("probe")' \subseteq Callers
            BY DEF InFlight
      <2> QED BY <2>1, CallersAssumption, FS_Subset
<1>c. Cardinality(InFlight("probe")') \in Nat
      BY <1>b, FS_CardinalityType
<1>1. ASSUME NEW c \in Callers, Admit(c) PROVE probes' <= Cardinality(InFlight("probe")')
      <2>1. c \notin InFlight("probe")
            BY <1>1 DEF Admit, InFlight
      <2>2. /\ state' = "half_open" /\ call' = [call EXCEPT ![c] = "probe"]
            /\ \/ Recovering /\ probes' = 1
               \/ state = "half_open" /\ probes' = probes + 1
            BY <1>1 DEF Admit
      <2>3. InFlight("probe")' = InFlight("probe") \cup {c}
            BY <2>2 DEF InFlight, BreakerInv, CountsOK
      <2>4. Cardinality(InFlight("probe")') = Cardinality(InFlight("probe")) + 1
            BY <2>1, <2>3, ProbesFinite, FS_AddElement
      <2>5. CASE Recovering /\ probes' = 1
            BY <2>4, <2>5, <1>a
      <2>6. CASE state = "half_open" /\ probes' = probes + 1
            BY <2>4, <2>6, <1>0, <1>a DEF SlotsAreOwned
      <2> QED BY <2>2, <2>5, <2>6
<1>2. ASSUME probes' = 0 PROVE probes' <= Cardinality(InFlight("probe")')
      BY <1>2, <1>c
<1>3. ASSUME NEW c \in Callers, OnSuccess(c) PROVE probes' = 0
      BY <1>3 DEF OnSuccess, ResetToClosed
<1>4. ASSUME NEW c \in Callers, OnFailure(c) PROVE FALSE
      BY <1>4 DEF OnFailure, TripToOpen
<1>5. ASSUME NEW c \in Callers, NotReported(c) PROVE FALSE
      BY <1>0, <1>5 DEF NotReported
<1>6. CASE CheckState
      BY <1>2, <1>6 DEF CheckState
<1>7. CASE ForceOpen \/ ForceClose
      BY <1>7 DEF ForceOpen, ForceClose, TripToOpen, ResetToClosed
<1>8. CASE TimePasses \/ ServiceHeals \/ UNCHANGED breakerVars
      BY <1>0, <1>8 DEF TimePasses, ServiceHeals, breakerVars, SlotsAreOwned, InFlight
<1> QED BY <1>1, <1>2, <1>3, <1>4, <1>5, <1>6, <1>7, <1>8 DEF BreakerNext, CallerStep

LEMMA OwnedNotLeaked == BreakerInv /\ SlotsAreOwned => NoLeakedSlot
<1> SUFFICES ASSUME BreakerInv, SlotsAreOwned, ~nested, state = "half_open", probes >= HalfOpenMaxCalls
             PROVE  InFlight("probe") # {}
    BY DEF NoLeakedSlot
<1>1. /\ probes <= Cardinality(InFlight("probe")) /\ probes >= 1 /\ probes \in Int
      BY ConfigAssumption DEF SlotsAreOwned, BreakerInv, CountsOK
<1>2. Cardinality(InFlight("probe")) # 0
      BY <1>1, ProbesFinite, FS_CardinalityType
<1> QED BY <1>2, ProbesFinite, FS_EmptySet

\* Unless a guarded call meets an open breaker of its own, a half-open breaker
\* whose slots are used up has a probe in flight that will free them.
THEOREM NoSlotLeaks == BreakerSpec => []NoLeakedSlot
<1>1. BreakerInit => BreakerInv /\ SlotsAreOwned
      BY BreakerInitInv DEF BreakerInit, SlotsAreOwned
<1>2. BreakerInv /\ SlotsAreOwned /\ [BreakerNext]_breakerVars => BreakerInv' /\ SlotsAreOwned'
      BY BreakerStepInv, StepSlots
<1> QED BY <1>1, <1>2, OwnedNotLeaked, PTL DEF BreakerSpec

=============================================================================
