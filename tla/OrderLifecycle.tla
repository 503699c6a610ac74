--------------------------- MODULE OrderLifecycle ---------------------------
(***************************************************************************)
(* The lifecycle of an order in the execution engine: the transition table *)
(* of libraries/domain/execution/state_machine.py.                         *)
(***************************************************************************)

Statuses ==
  {"new", "validated", "built", "routed", "submitted", "acknowledged",
   "partially_filled", "filled", "settled", "completed",
   "rejected", "cancelled", "expired"}

Triggers ==
  {"validate", "build", "submit", "acknowledge", "partial_fill", "full_fill", "cancel",
   "reject", "expire", "route", "settle", "complete", "retry", "timeout", "recover"}

From(sources, trigger, to) == {<<from, trigger, to>> : from \in sources}

Early == {"new", "validated", "built", "routed"}
Working == {"acknowledged", "partially_filled"}

\* _TRANSITION_MAP
Transitions ==
  From({"new"}, "validate", "validated")
  \cup From({"validated"}, "build", "built")
  \cup From({"built"}, "route", "routed")
  \cup From({"built", "routed"}, "submit", "submitted")
  \cup From({"submitted"}, "acknowledge", "acknowledged")
  \cup From(Working, "partial_fill", "partially_filled")
  \cup From(Working, "full_fill", "filled")
  \cup From({"filled"}, "settle", "settled")
  \cup From({"settled"}, "complete", "completed")
  \cup From(Early \cup {"submitted"} \cup Working, "reject", "rejected")
  \cup From(Early \cup {"submitted"} \cup Working, "cancel", "cancelled")
  \cup From({"submitted"}, "timeout", "expired")
  \cup From(Working, "expire", "expired")
  \cup From({"rejected"}, "retry", "new")

CanTransition(from, trigger) == \E t \in Transitions : t[1] = from /\ t[2] = trigger

NextStatus(from, trigger) ==
  (CHOOSE t \in Transitions : t[1] = from /\ t[2] = trigger)[3]
=============================================================================
