----------------------------- MODULE MCTracker ------------------------------
(* Small instances of Tracker for TLC.                                     *)
EXTENDS Tracker

\* The first two clients use the same address.
RestartedKey == [c \in Clients |-> IF c = "b" THEN "a" ELSE c]
=============================================================================
