----------------------------- MODULE MCServing ------------------------------
(* Small instances of Serving for TLC; the cfg names the connections.      *)
EXTENDS Serving

CONSTANTS c1, c2
=============================================================================
