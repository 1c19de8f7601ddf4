----------------------------- MODULE PieceStore -----------------------------
(***************************************************************************)
(* What a TorrentSession promises about the pieces it holds, with peers,   *)
(* blocks and requests left out: pieces are acquired one at a time, each   *)
(* once, its right bytes being in the file store by then, and the counters *)
(* the tracker is told keep pace without wrapping.                         *)
(***************************************************************************)
EXTENDS Integers, FiniteSets

CONSTANTS Pieces, Len(_)

VARIABLES
    held,    \* the pieces we have and offer to others
    good,    \* how many they are
    left,    \* bytes still to be had
    stored   \* pieces whose bytes in the file store are right

vars == <<held, good, left, stored>>

Init ==
    /\ held \subseteq Pieces
    /\ held \subseteq stored
    /\ good = Cardinality(held)
    /\ left \in Nat

Acquire(k) ==
    /\ k \notin held
    /\ Len(k) <= left
    /\ held' = held \cup {k}
    /\ good' = good + 1
    /\ left' = left - Len(k)
    /\ stored' = stored \cup {k}

Spec == Init /\ [][\E k \in Pieces : Acquire(k)]_vars
=============================================================================
