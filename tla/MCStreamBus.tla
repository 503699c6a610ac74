---------------------------- MODULE MCStreamBus -----------------------------
(***************************************************************************)
(* The event bus of the streaming layer for TLC.                           *)
(***************************************************************************)
EXTENDS StreamBus

CONSTANTS s1, s2
=============================================================================
