----------------------------- MODULE MCChoking ------------------------------
(* Small instances of Choking for TLC; the cfg names the connections.      *)
EXTENDS Choking

CONSTANTS c1, c2, c3, c4
=============================================================================
