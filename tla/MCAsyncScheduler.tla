-------------------------- MODULE MCAsyncScheduler --------------------------
(***************************************************************************)
(* Instances of AsyncScheduler for TLC.                                    *)
(***************************************************************************)
EXTENDS AsyncScheduler, TLC

CONSTANTS market, trading, c1, c2

Interchangeable == Permutations(Schedulers) \cup Permutations(Callers)

=============================================================================
