--------------------------- MODULE MCSessionStart ---------------------------
(* Small instances of SessionStart. *)
EXTENDS SessionStart

(* Files that begin and end within a piece, and an empty one. *)
FileLengths == {<<1, 0, 4>>}

(* Up to four files of up to two bytes. *)
SmallLayouts == UNION {[1 .. n -> 0 .. 2] : n \in 1 .. 4}

(* What find and the loop of ReadAt and WritePiece access is exactly the   *)
(* bytes meant, cut off at the end of the store, for all small layouts.    *)
ASSUME ChunksAreExtents ==
    \A lens \in SmallLayouts : \A off \in 0 .. 8, n \in 0 .. 4 :
        LET chunks == Chunks(lens, off, n)
        IN  UNION {BytesOf(chunks[k]) : k \in DOMAIN chunks}
                = Extent(lens, off, n)

(* A bitset read back from its bytes is the same, and bytes of another     *)
(* length are not taken for it.                                            *)
ASSUME BytesReadBack ==
    \A n \in 0 .. 5 : \A S \in SUBSET (0 .. n - 1) :
        /\ Valid(n, Bytes(S, n)) /\ FromBytes(n, Bytes(S, n)) = S
        /\ \A m \in 0 .. 5 : NumBytes(m) # NumBytes(n) => ~ Valid(m, Bytes(S, n))
=============================================================================
