----------------------------- MODULE MCDownload -----------------------------
(* Small instances of Download for TLC.                                    *)
EXTENDS Download

\* Every connection has a remote address and a peer id of its own.
DistinctAddr == [c \in Conns |-> c]
=============================================================================
