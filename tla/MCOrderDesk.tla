---------------------------- MODULE MCOrderDesk ----------------------------
(***************************************************************************)
(* Instances of OrderDesk for TLC.  The two prices are so close that their  *)
(* averages are not whole numbers and have to be rounded.                  *)
(***************************************************************************)
EXTENDS OrderDesk, TLC

CONSTANTS c1, c2

\* Enough for every case of netting within two orders: the sales may fill in part.
FewRequests == {[side |-> "buy", qty |-> 1], [side |-> "sell", qty |-> 2]}

Interchangeable == Permutations(Clients)

=============================================================================
