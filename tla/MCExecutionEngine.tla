-------------------------- MODULE MCExecutionEngine -------------------------
(***************************************************************************)
(* The execution engine for TLC.                                           *)
(***************************************************************************)
EXTENDS ExecutionEngine, TLC

CONSTANTS d1, d2

\* Nothing tells two decisions apart.
Interchangeable == Permutations(Decisions)
=============================================================================
