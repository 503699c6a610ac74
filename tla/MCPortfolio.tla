----------------------------- MODULE MCPortfolio ----------------------------
(***************************************************************************)
(* The portfolio for TLC.  Of entries at 2 and 4 some averages are whole   *)
(* and some are rounded, up or down.                                       *)
(***************************************************************************)
EXTENDS Portfolio, TLC

CONSTANTS EURUSD, GBPUSD

Interchangeable == Permutations(Symbols)
=============================================================================
