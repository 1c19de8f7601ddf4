----------------------------- MODULE FileStore ------------------------------
(***************************************************************************)
(* The file store (torrent/files.go): a torrent is one long string of      *)
(* bytes that is cut into files, some of which may be empty.  Operators    *)
(* take the sequence of file lengths; files are numbered from 1.           *)
(***************************************************************************)
EXTENDS Integers, Sequences

(* NewFileStore: the offset of each file, and of the end after the last.   *)
Offset(lens, i) ==
    LET sum[k \in 0 .. Len(lens)] == IF k = 0 THEN 0 ELSE sum[k - 1] + lens[k]
    IN  sum[i - 1]

totalSize(lens) == Offset(lens, Len(lens) + 1)

(* find: binary search, between low and high, for the last file that       *)
(* starts at or before off.                                                *)
find(lens, off) ==
    LET Bounds == (0 .. Len(lens)) \X (0 .. Len(lens))
        search[b \in Bounds] ==
            LET low == b[1]  high == b[2]  probe == (low + high) \div 2
            IN  IF low >= high - 1 THEN low
                ELSE IF off < Offset(lens, probe + 1) THEN search[<<low, probe>>]
                ELSE search[<<probe, high>>]
    IN  search[<<0, Len(lens)>>] + 1

(* The loop of ReadAt and WritePiece: which bytes of which files n bytes   *)
(* from off on are, in the order of access.  Its state is the file, the    *)
(* offset and what is left; what is left over lies beyond the end of the   *)
(* store.                                                                  *)
Chunks(lens, off, n) ==
    LET State == (1 .. Len(lens) + 1) \X Nat \X Nat
        loop[s \in State] ==
            LET i == s[1]  o == s[2]  left == s[3]
                itemOffset == o - Offset(lens, i)
                space == lens[i] - itemOffset
                chunk == IF space < left THEN space ELSE left
            IN  IF left = 0 \/ i > Len(lens) THEN <<>>
                ELSE IF itemOffset < lens[i]
                THEN <<[file |-> i, from |-> itemOffset, len |-> chunk]>>
                     \o loop[<<i + 1, o + chunk, left - chunk>>]
                ELSE loop[<<i + 1, o, left>>]
    IN  loop[<<find(lens, off), off, n>>]

(* The bytes of a chunk, as pairs of file and position. *)
BytesOf(c) == {<<c.file, c.from + k>> : k \in 0 .. c.len - 1}

(* The bytes off .. off + n - 1 of the torrent by definition: the reference *)
(* for Chunks.                                                             *)
Extent(lens, off, n) ==
    {x \in (1 .. Len(lens)) \X (0 .. totalSize(lens)) :
        /\ x[2] < lens[x[1]]
        /\ Offset(lens, x[1]) + x[2] \in off .. off + n - 1}
=============================================================================
