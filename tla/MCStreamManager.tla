--------------------------- MODULE MCStreamManager ---------------------------
(***************************************************************************)
(* The streaming layer for TLC.                                            *)
(***************************************************************************)
EXTENDS StreamManager, TLC

CONSTANTS s1, p1, p2

\* Nothing tells one producer from the other, and all that is checked is safety.
Interchangeable == Permutations(Producers)
=============================================================================
