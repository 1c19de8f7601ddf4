------------------------------- MODULE Bitset -------------------------------
(***************************************************************************)
(* The byte format of a Bitset (torrent/bitset.go), in which resume data   *)
(* are kept: a byte is the set of the positions, from the high bit on,     *)
(* that are 1.                                                             *)
(***************************************************************************)
EXTENDS Integers, Sequences

CONSTANT ByteSize   \* bits in a byte (8)

ASSUME BitsetAssumption == ByteSize \in Nat \ {0}

(* NewBitset: len(b) for n bits *)
NumBytes(n) == (n + ByteSize - 1) \div ByteSize

(* Bytes, for the set of bits S *)
Bytes(S, n) ==
    [b \in 1 .. NumBytes(n) |->
        {k \in 0 .. ByteSize - 1 : (b - 1) * ByteSize + k \in S}]

(* IsSet *)
IsSet(data, i) == i % ByteSize \in data[i \div ByteSize + 1]

(* NewBitsetFromBytes gives nil for data of the wrong length, or with bits *)
(* set after the last.                                                     *)
Valid(n, data) ==
    /\ Len(data) = NumBytes(n)
    /\ \A i \in n .. NumBytes(n) * ByteSize - 1 : ~ IsSet(data, i)

FromBytes(n, data) == {i \in 0 .. n - 1 : IsSet(data, i)}
=============================================================================
