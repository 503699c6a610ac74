------------------------------ MODULE MCWorker ------------------------------
(***************************************************************************)
(* Instances of Worker for TLC.                                            *)
(***************************************************************************)
EXTENDS Worker, TLC

CONSTANTS eurusd, gbpusd, route, lifespan

Interchangeable == Permutations(Symbols) \cup Permutations(Callers)

=============================================================================
