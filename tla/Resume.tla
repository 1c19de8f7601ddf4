------------------------------- MODULE Resume -------------------------------
(***************************************************************************)
(* What a session knows of its pieces from one run of the program to the   *)
(* next (torrent/torrent.go: load, RecordBlock; torrent/pieces.go:         *)
(* checkPieces, computeSums): either all pieces are hashed when the        *)
(* session starts, by a reader, several hashing goroutines and a merger,   *)
(* or a bitset is kept in a file that is rewritten after each piece.       *)
(*                                                                         *)
(* The process may be killed at any point; what it has written to files by *)
(* then stays.  Bytes of the files are right or not, and a piece that has  *)
(* a wrong byte has a wrong hash.                                          *)
(***************************************************************************)
EXTENDS FileStore, Bitset, FiniteSets

CONSTANTS
    Layouts,      \* sequences of file lengths
    TotalSize,    \* their sum
    PieceLength,  \* Info.PieceLength
    Workers,      \* hashing goroutines (GOMAXPROCS of them)
    ResultsCap,   \* capacity of the results channel
    MaxFaults,    \* bound: pieces that cannot be read or written
    None

ASSUME ResumeAssumption ==
    /\ PieceLength \in Nat \ {0} /\ ResultsCap \in Nat \ {0}
    /\ MaxFaults \in Nat
    /\ Workers # {} /\ None \notin Nat
    /\ None \notin [i : Nat, ok : BOOLEAN]      \* no piece read is None
    /\ \A l \in Layouts : l \in Seq(Nat) /\ totalSize(l) = TotalSize

(* load: the number of pieces, and the length of each. *)
totalPieces == IF TotalSize % PieceLength = 0 THEN TotalSize \div PieceLength
               ELSE TotalSize \div PieceLength + 1

lastPieceLength == IF TotalSize % PieceLength = 0 THEN PieceLength
                   ELSE TotalSize % PieceLength

Pieces == 0 .. totalPieces - 1
pieceLength(i) == IF i < totalPieces - 1 THEN PieceLength ELSE lastPieceLength

VARIABLES
    layout,    \* file lengths
    good,      \* right bytes of the files
    unwritten, \* pieces that a WritePiece failed on, and none wrote since
    resume,    \* bytes of the haveBitset file, or None
    phase,     \* "down", "check" (in checkPieces), "running", "refused", or
               \* what a module that extends this one adds
    flags,     \* InitialCheck and QuickResume of this run of the program
    pieceSet,  \* ts.pieceSet
    at,        \* RecordBlock: "idle", "write" (in WritePiece), "save"
    piece,     \* the piece it records
    todo,      \* chunks that WritePiece has still to write
    next,      \* computeSums: the piece that is read next,
    hand,      \* the chunk that was read and is offered to the workers,
    hashing,   \* hashing[w]: the chunk a worker has,
    results,   \* the results channel,
    sums,      \* sums[i]: whether the hash of i is the right one,
    unread     \* and pieces that could not be read

files == <<layout, good, unwritten, resume>>
pipeline == <<next, hand, hashing, results, sums, unread>>
record == <<at, piece, todo>>
resumeVars == <<files, phase, flags, pieceSet, record, pipeline>>

Chunk == [i : Pieces, ok : BOOLEAN]

ResumeTypeOK ==
    /\ layout \in Layouts
    /\ good \subseteq Extent(layout, 0, TotalSize)
    /\ unwritten \subseteq Pieces
    /\ resume = None \/ Len(resume) <= NumBytes(totalPieces)
    /\ flags \in [initialCheck : BOOLEAN, quickResume : BOOLEAN]
    /\ pieceSet \subseteq Pieces
    /\ at \in {"idle", "write", "save"}
    /\ piece \in Pieces \cup {0}
    /\ next \in 0 .. totalPieces
    /\ hand \in Chunk \cup {None}
    /\ hashing \in [Workers -> Chunk \cup {None}]
    /\ Len(results) <= ResultsCap
    /\ sums \in [Pieces -> {"none", "good", "bad"}]
    /\ unread \subseteq Pieces

(* Pieces whose bytes in the files are right, by the reference. *)
Right == {i \in Pieces :
            Extent(layout, i * PieceLength, pieceLength(i)) \subseteq good}

(* The disk may fail, up to the bound. *)
Faulty == Cardinality(unread) + Cardinality(unwritten) < MaxFaults

Memory(set) ==
    /\ pieceSet' = set
    /\ at' = "idle" /\ piece' = 0 /\ todo' = <<>>

Pipeline == /\ next' = 0 /\ hand' = None
            /\ hashing' = [w \in Workers |-> None]
            /\ results' = <<>>
            /\ sums' = [i \in Pieces |-> "none"]
            /\ unread' = {}

ResumeInit ==
    /\ layout \in Layouts
    /\ \E S \in SUBSET Pieces :
          /\ good = UNION {Extent(layout, i * PieceLength, pieceLength(i)) :
                           i \in S}
          /\ resume = None
    /\ unwritten = {}
    /\ phase = "down"
    /\ flags = [initialCheck |-> FALSE, quickResume |-> FALSE]
    /\ pieceSet = {}
    /\ at = "idle" /\ piece = 0 /\ todo = <<>>
    /\ next = 0 /\ hand = None
    /\ hashing = [w \in Workers |-> None]
    /\ results = <<>>
    /\ sums = [i \in Pieces |-> "none"]
    /\ unread = {}

-----------------------------------------------------------------------------
(* load, with the flags f.  InitialCheck wins over QuickResume, and resume *)
(* data that are malformed are refused.                                    *)
Malformed(f) == /\ ~ f.initialCheck /\ f.quickResume
                /\ resume # None /\ ~ Valid(totalPieces, resume)

load(f) ==
    /\ ~ Malformed(f)
    /\ phase' = IF f.initialCheck THEN "check" ELSE "running"
    /\ Memory(IF ~ f.initialCheck /\ f.quickResume /\ resume # None
              THEN FromBytes(totalPieces, resume) ELSE {})
    /\ Pipeline
    /\ UNCHANGED files

(* NewTorrentSession for a torrent file.  It is refused for the resume     *)
(* data, or before these for an unknown encoding, a file system or file    *)
(* that cannot be opened, or a piece length of zero.                       *)
Start(f) ==
    /\ phase = "down"
    /\ flags' = f
    /\ \/ load(f)
       \/ /\ phase' = "refused"
          /\ UNCHANGED <<files, pieceSet, record, pipeline>>

-----------------------------------------------------------------------------
(* checkPieces and computeSums. *)

(* The bytes that ReadAt puts into the buffer of piece i. *)
ReadAt(i) ==
    LET chunks == Chunks(layout, i * PieceLength, pieceLength(i))
    IN  UNION {BytesOf(chunks[k]) : k \in DOMAIN chunks}

(* Mutant: the loop leaves out the last piece. *)
MutReadPiece ==
    /\ phase = "check" /\ hand = None /\ next < totalPieces - 1
    /\ hand' = [i |-> next, ok |-> ReadAt(next) \subseteq good]
    /\ next' = next + 1
    /\ UNCHANGED <<files, phase, flags, pieceSet, record, hashing, results, sums,
                   unread>>

(* The reading goroutine; errors are ignored and leave zeros. *)
ReadPiece ==
    /\ phase = "check" /\ hand = None /\ next < totalPieces
    /\ \/ /\ hand' = [i |-> next, ok |-> ReadAt(next) \subseteq good]
          /\ UNCHANGED unread
       \/ /\ Faulty
          /\ hand' = [i |-> next, ok |-> FALSE]
          /\ unread' = unread \cup {next}
    /\ next' = next + 1
    /\ UNCHANGED <<files, phase, flags, pieceSet, record, hashing, results, sums>>

(* The unbuffered channel to the workers. *)
Hand(w) ==
    /\ phase = "check" /\ hand # None /\ hashing[w] = None
    /\ hashing' = [hashing EXCEPT ![w] = hand]
    /\ hand' = None
    /\ UNCHANGED <<files, phase, flags, pieceSet, record, next, results, sums,
                   unread>>

(* hashPiece *)
Hash(w) ==
    /\ phase = "check" /\ hashing[w] # None /\ Len(results) < ResultsCap
    /\ results' = Append(results, hashing[w])
    /\ hashing' = [hashing EXCEPT ![w] = None]
    /\ UNCHANGED <<files, phase, flags, pieceSet, record, next, hand, sums,
                   unread>>

merged == Cardinality({i \in Pieces : sums[i] # "none"})

(* Mutant: results are taken to come in the order of the pieces. *)
MutMerge ==
    /\ phase = "check" /\ results # <<>>
    /\ sums' = [sums EXCEPT ![merged] = IF Head(results).ok THEN "good"
                                        ELSE "bad"]
    /\ results' = Tail(results)
    /\ UNCHANGED <<files, phase, flags, pieceSet, record, next, hand, hashing,
                   unread>>

(* Merge back the results, which come in any order. *)
Merge ==
    /\ phase = "check" /\ results # <<>>
    /\ sums' = [sums EXCEPT ![Head(results).i] = IF Head(results).ok
                                                 THEN "good" ELSE "bad"]
    /\ results' = Tail(results)
    /\ UNCHANGED <<files, phase, flags, pieceSet, record, next, hand, hashing,
                   unread>>

(* The end of checkPieces, and of load. *)
Checked ==
    /\ phase = "check" /\ merged = totalPieces
    /\ phase' = "running"
    /\ Memory({i \in Pieces : sums[i] = "good"})
    /\ Pipeline
    /\ UNCHANGED <<files, flags>>

-----------------------------------------------------------------------------
(* RecordBlock, for a verified piece. *)

WritePiece(i) ==
    /\ phase = "running" /\ at = "idle" /\ i \notin pieceSet
    /\ at' = "write"
    /\ piece' = i
    /\ todo' = Chunks(layout, i * PieceLength, pieceLength(i))
    /\ UNCHANGED <<files, phase, flags, pieceSet, pipeline>>

WriteChunk ==
    /\ phase = "running" /\ at = "write" /\ todo # <<>>
    /\ good' = good \cup BytesOf(Head(todo))
    /\ todo' = Tail(todo)
    /\ unwritten' = IF Len(todo) = 1 THEN unwritten \ {piece} ELSE unwritten
    /\ UNCHANGED <<layout, resume, phase, flags, pieceSet, at, piece, pipeline>>

(* A file cannot be written: WritePiece returns, and RecordBlock drops its *)
(* error.                                                                  *)
WriteFails ==
    /\ phase = "running" /\ at = "write" /\ todo # <<>>
    /\ Faulty
    /\ unwritten' = unwritten \cup {piece}
    /\ todo' = <<>>
    /\ UNCHANGED <<layout, good, resume, phase, flags, pieceSet, at, piece,
                   pipeline>>

(* Mutant: the piece is claimed, and saved, before it is written. *)
MutClaim ==
    /\ phase = "running" /\ at = "write"
    /\ pieceSet' = pieceSet \cup {piece}
    /\ at' = "idle"
    /\ resume' = IF flags.quickResume THEN Bytes(pieceSet', totalPieces)
                 ELSE resume
    /\ UNCHANGED <<layout, good, unwritten, phase, flags, piece, todo, pipeline>>

(* pieceSet.Set; with QuickResume, WriteFile then truncates the file ... *)
Claim ==
    /\ phase = "running" /\ at = "write" /\ todo = <<>>
    /\ pieceSet' = pieceSet \cup {piece}
    /\ IF flags.quickResume
       THEN at' = "save" /\ resume' = <<>>
       ELSE at' = "idle" /\ UNCHANGED resume
    /\ UNCHANGED <<layout, good, unwritten, phase, flags, piece, todo, pipeline>>

(* ... and writes it. *)
Save ==
    /\ phase = "running" /\ at = "save"
    /\ resume' = Bytes(pieceSet, totalPieces)
    /\ at' = "idle"
    /\ UNCHANGED <<layout, good, unwritten, phase, flags, pieceSet, piece, todo,
                   pipeline>>

(* The process ends, by itself or not.  A write of the resume file that it *)
(* was in has got some of its bytes there.                                 *)
Crash ==
    /\ phase # "down"
    /\ phase' = "down"
    /\ resume' \in IF at = "save"
                   THEN {SubSeq(Bytes(pieceSet, totalPieces), 1, k) :
                         k \in 0 .. NumBytes(totalPieces)}
                   ELSE {resume}
    /\ flags' = [initialCheck |-> FALSE, quickResume |-> FALSE]
    /\ Memory({})
    /\ Pipeline
    /\ UNCHANGED <<layout, good, unwritten>>

Hashing == ReadPiece \/ (\E w \in Workers : Hand(w) \/ Hash(w)) \/ Merge

Recording == (\E i \in Pieces : WritePiece(i)) \/ WriteChunk
             \/ WriteFails \/ Claim \/ Save

-----------------------------------------------------------------------------
(* Whatever the program was killed in the middle of and whatever flags it  *)
(* ran with before, a session never claims a piece that is not right in    *)
(* the files: bytes are written before the bit is, and the bit before the  *)
(* file that records it, and a session does not start from a resume file   *)
(* that was cut short.  The only wrong claims are those of pieces whose    *)
(* write failed, an error that RecordBlock drops.                          *)
ResumeSound == pieceSet \subseteq Right \cup unwritten

(* A full check finds exactly the pieces that are right, except those it   *)
(* could not read, in whatever order readers and hashers finish.           *)
CheckExact ==
    [][phase = "check" /\ phase' = "running" => pieceSet' = Right \ unread]_resumeVars

(* The check ends: nobody waits for a worker, a result or the merger for   *)
(* ever, however small the channels.                                       *)
CheckEnds == phase = "check" ~> phase # "check"
=============================================================================
