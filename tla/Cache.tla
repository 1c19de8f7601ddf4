-------------------------------- MODULE Cache -------------------------------
(***************************************************************************)
(* The caches between a session and its files: RamCache (torrent/cache.go) *)
(* and HdCache (torrent/hdcache.go).  Pieces are kept in "boxes", in       *)
(* memory or in files of a temporary directory, up to a capacity that a    *)
(* provider shares out among all torrents each time one of them opens or   *)
(* closes its cache.                                                       *)
(*                                                                         *)
(* One cache is followed.  Its own session reads and writes it; another    *)
(* session, in its own goroutine and without any lock, resizes it and      *)
(* throws boxes out (rebalance, trim), one rebalance at a time.  Torrents  *)
(* are of equal size, so that each gets an equal share.  Where the two     *)
(* goroutines overlap, an update of the count or of a byte of boxExists    *)
(* may be lost.                                                            *)
(*                                                                         *)
(* The session reads pieces it has and writes pieces it lacks (RecordBlock *)
(* and sendRequest); the bytes of a piece are right or wrong as a whole.   *)
(***************************************************************************)
EXTENDS Integers, FiniteSets, Sequences

CONSTANTS
    NumPieces,   \* pieces of the torrent
    PieceSize,   \* length of a piece, in blocks that a peer may ask for
    LastSize,    \* length of the last one
    Capacity,    \* the provider's capacity, in pieces
    MaxOthers,   \* bound on the other torrents with a cache
    MaxFaults    \* bound on the kinds of fault in one behaviour

ASSUME CacheAssumption ==
    /\ NumPieces \in Nat \ {0} /\ PieceSize \in Nat \ {0}
    /\ LastSize \in 1 .. PieceSize
    /\ Capacity \in Nat \ {0} /\ MaxOthers \in Nat /\ MaxFaults \in Nat

Pieces == 0 .. NumPieces - 1
Size(i) == IF i = NumPieces - 1 THEN LastSize ELSE PieceSize

VARIABLES
    kind,      \* "ram" or "hd"
    held,      \* the session's pieceSet
    disk,      \* pieces that are right in the underlying file store
    box,       \* box[i]: "none", "right", "wrong", or "gone" for a bit of
               \* boxExists without its file
    recent,    \* the boxes by access time (atimes), oldest first
    usage,     \* actualUsage
    capacity,  \* what the provider allows this cache
    others,    \* other torrents with a cache
    at,        \* where the session is
    op,        \* its operation
    list,      \* list[g]: the boxes that goroutine g still has to look at in
               \* trim, and
    deficit,   \* deficit[g]: how many of them it removes
    rat,       \* where the rebalancing goroutine is
    result,    \* what the last read returned: "right" or "wrong"
    panic,     \* "no", or the place of an index out of range
    faults     \* what has happened so far: "race" (two goroutines in the
               \* cache), "box" (cache file), "store" (underlying store)

session == <<held, disk, op, at, result>>
vars == <<kind, held, disk, box, recent, usage, capacity, others, at, op,
          list, deficit, rat, result, panic, faults>>

Goroutines == {"session", "other"}
Places == {"idle", "look", "hit", "fetch", "trim", "evict", "closed"}
NoOp == [write |-> FALSE, piece |-> 0, off |-> 0, left |-> 0, data |-> "right"]

TypeOK ==
    /\ kind \in {"ram", "hd"}
    /\ held \subseteq Pieces /\ disk \subseteq Pieces
    /\ box \in [Pieces -> {"none", "right", "wrong", "gone"}]
    /\ recent \in Seq(Pieces)
    /\ usage \in Int
    /\ capacity \in Nat \ {0}
    /\ others \in 0 .. MaxOthers
    /\ at \in Places
    /\ op \in [write : BOOLEAN, piece : Nat, off : Nat, left : Nat,
               data : {"right", "wrong"}]
    /\ list \in [Goroutines -> Seq(Pieces)]
    /\ deficit \in [Goroutines -> Nat]
    /\ rat \in {"idle", "trim", "evict"}
    /\ result \in {"right", "wrong"}
    /\ panic \in {"no", "trim", "range"}
    /\ faults \subseteq {"race", "box", "store"}

-----------------------------------------------------------------------------
(* rebalance: the share of one of n torrents; something is better than     *)
(* nothing.                                                                *)
Share(n) == IF Capacity \div n = 0 THEN 1 ELSE Capacity \div n

Boxes == {i \in Pieces : box[i] # "none"}
cached(i) == box[i] # "none"

(* atimes[i] = time.Now() *)
Without(i) ==
    IF \E k \in 1 .. Len(recent) : recent[k] = i
    THEN LET k == CHOOSE k \in 1 .. Len(recent) : recent[k] = i
         IN  SubSeq(recent, 1, k - 1) \o SubSeq(recent, k + 1, Len(recent))
    ELSE recent
Touch(i) == Append(Without(i), i)

(* Both goroutines are where they write the count and boxExists. *)
overlap == at \in {"hit", "fetch", "evict"} /\ rat = "evict"

(* An update of actualUsage, which an overlapping one may undo. *)
Updates(new) == {new} \cup (IF overlap THEN {usage} ELSE {})

Init ==
    /\ kind \in {"ram", "hd"}
    /\ held \in SUBSET Pieces
    /\ disk = held
    /\ box = [i \in Pieces |-> "none"]
    /\ recent = <<>>
    /\ usage = 0
    /\ others = 0
    /\ capacity = Share(1)
    /\ at = "idle"
    /\ op = NoOp
    /\ list = [g \in Goroutines |-> <<>>]
    /\ deficit = [g \in Goroutines |-> 0]
    /\ rat = "idle"
    /\ result = "right"
    /\ panic = "no"
    /\ faults = {}

(* What is in memory is lost, ... *)
Forget == /\ box' = [i \in Pieces |-> "none"]
          /\ recent' = <<>>
          /\ usage' = 0
          /\ list' = [g \in Goroutines |-> <<>>]
          /\ deficit' = [g \in Goroutines |-> 0]

(* ... and the program gone, with the first panic of any goroutine. *)
Panic(place) ==
    /\ panic' = place
    /\ Forget
    /\ UNCHANGED <<kind, held, disk, capacity, others, at, op, rat, result>>

(* A fault of the kind f happens in this step. *)
Fault(f) == /\ faults' = faults \cup {f}
            /\ Cardinality(faults') <= MaxFaults

-----------------------------------------------------------------------------
(* Boxes. *)

(* Mutant: a box is counted twice. *)
MutaddBox(i, content) ==
    /\ box' = [box EXCEPT ![i] = content]
    /\ recent' = Touch(i)
    /\ usage' = usage + 2
    /\ UNCHANGED faults

(* addBox up to its trim.  HdCache counts the box before it has written it,*)
(* and keeps the count when the write fails, or the bit is lost to another *)
(* goroutine.                                                              *)
addBox(i, content) ==
    \/ /\ box' = [box EXCEPT ![i] = content]
       /\ recent' = Touch(i)
       /\ usage' \in Updates(usage + 1)
       /\ UNCHANGED faults
    \/ /\ kind = "hd"
       /\ usage' \in {usage} \cup Updates(usage + 1)
       /\ Fault("box") \/ (overlap /\ UNCHANGED faults)
       /\ UNCHANGED <<box, recent>>

(* removeBox.  HdCache counts a box it cannot remove as still there. *)
removeBox(i) ==
    /\ \/ /\ \/ box' = [box EXCEPT ![i] = "none"]
             \/ /\ kind = "hd" /\ cached(i) /\ overlap
                /\ box' = [box EXCEPT ![i] = "gone"]
          /\ usage' \in IF kind = "hd" /\ box[i] \in {"none", "gone"}
                       THEN {usage} ELSE Updates(usage - 1)
          /\ UNCHANGED faults
       \/ /\ kind = "hd"
          /\ box' = [box EXCEPT ![i] = "none"]
          /\ Fault("box")
          /\ UNCHANGED usage
    /\ recent' = IF box'[i] = "none" THEN Without(i) ELSE recent

(* Mutant: one box fewer is removed. *)
MuttrimStart(g) ==
    /\ usage > capacity
    /\ list' = [list EXCEPT ![g] = recent]
    /\ deficit' = [deficit EXCEPT ![g] = usage - capacity - 1]
    /\ UNCHANGED <<box, recent, usage, panic, faults>>

(* trim as run by goroutine g: up to the sorted list of boxes, ... *)
trimStart(g) ==
    /\ usage > capacity
    /\ list' = [list EXCEPT ![g] = recent]
    /\ deficit' = [deficit EXCEPT ![g] = usage - capacity]
    /\ UNCHANGED <<box, recent, usage, panic, faults>>

(* ... and one turn of its last loop. *)
trimNext(g) ==
    /\ deficit[g] > 0
    /\ list[g] # <<>>
    /\ removeBox(Head(list[g]))
    /\ list' = [list EXCEPT ![g] = Tail(@)]
    /\ deficit' = [deficit EXCEPT ![g] = @ - 1]
    /\ UNCHANGED panic

trimmed(g) == /\ list' = [list EXCEPT ![g] = <<>>]
              /\ deficit' = [deficit EXCEPT ![g] = 0]

-----------------------------------------------------------------------------
(* The session. *)

Shared == <<kind, capacity, others, rat>>
Alive == panic = "no"

(* Whoever enters the cache while the other is in it. *)
Enter(busy) == IF busy THEN Fault("race") ELSE UNCHANGED faults

(* sendRequest: ReadAt, for a piece that we have and a range of at most    *)
(* the nominal piece length, which may lie beyond the end of the last one. *)
ReadAt(i, b, n) ==
    /\ Alive /\ at = "idle" /\ i \in held
    /\ at' = "look"
    /\ op' = [write |-> FALSE, piece |-> i, off |-> b, left |-> n,
              data |-> "right"]
    /\ Enter(rat # "idle")
    /\ result' = "right"
    /\ UNCHANGED <<Shared, held, disk, box, recent, usage, list, deficit,
                   panic>>

(* op after k blocks of content were copied from its box *)
Copied(k, content) ==
    [op EXCEPT !.piece = @ + 1, !.off = 0, !.left = @ - k,
               !.data = IF content # "right" /\ k > 0 THEN "wrong" ELSE @]

(* How many blocks copy takes from the rest of a box. *)
Copy == IF Size(op.piece) - op.off < op.left THEN Size(op.piece) - op.off
        ELSE op.left

(* The next turn of ReadAt's loop, or its end. *)
Continue(o) == /\ op' = IF o.left = 0 THEN NoOp ELSE o
               /\ at' = IF o.left = 0 THEN "idle" ELSE "look"
               /\ result' = IF o.left = 0 THEN o.data ELSE result

(* Is the box there? *)
Look ==
    /\ Alive /\ at = "look"
    /\ op.piece \in Pieces
    /\ at' = IF cached(op.piece) THEN "hit" ELSE "fetch"
    /\ UNCHANGED <<Shared, held, disk, box, recent, usage, op, list, deficit,
                   result, panic, faults>>

(* It is: RamCache takes it from its table again, where it may be gone by  *)
(* now; a nil box gives no bytes, and the loop goes on with the next box.  *)
HitRam ==
    /\ Alive /\ at = "hit" /\ kind = "ram"
    /\ op.off <= IF cached(op.piece) THEN Size(op.piece) ELSE 0
    /\ recent' = IF cached(op.piece) THEN Touch(op.piece) ELSE recent
    /\ Continue(IF cached(op.piece) THEN Copied(Copy, box[op.piece])
                ELSE Copied(0, "right"))
    /\ UNCHANGED <<Shared, held, disk, box, usage, list, deficit, panic,
                   faults>>

(* HdCache reads from the file.  Beyond its end there are no bytes.        *)
HitHd ==
    /\ Alive /\ at = "hit" /\ kind = "hd"
    /\ box[op.piece] \in {"right", "wrong"}
    /\ recent' = Touch(op.piece)
    /\ Continue(Copied(IF op.off > Size(op.piece) THEN 0 ELSE Copy,
                       box[op.piece]))
    /\ UNCHANGED <<Shared, held, disk, box, usage, list, deficit, panic,
                   faults>>

(* Mutant: a box whose file is missing is not forgotten. *)
MutHitFails ==
    /\ Alive /\ at = "hit" /\ kind = "hd"
    /\ IF box[op.piece] \in {"none", "gone"} THEN UNCHANGED faults
       ELSE Fault("box")
    /\ at' = "look"
    /\ UNCHANGED <<Shared, held, disk, box, recent, usage, op, list, deficit,
                   result, panic>>

(* The file cannot be opened: it has been removed, or the file system has  *)
(* an error; or it cannot be read.  The box is forgotten and looked for    *)
(* again.                                                                  *)
HitFails ==
    /\ Alive /\ at = "hit" /\ kind = "hd"
    /\ IF box[op.piece] \in {"none", "gone"}
       THEN removeBox(op.piece)
       ELSE /\ Fault("box")
            /\ box' = [box EXCEPT ![op.piece] = "none"]
            /\ recent' = Without(op.piece)
            /\ usage' \in {usage, usage - 1}
    /\ at' = "look"
    /\ UNCHANGED <<Shared, held, disk, op, list, deficit, result, panic>>

(* Mutant: the piece after it is read. *)
MutFetch(content) ==
    /\ Alive /\ at = "fetch"
    /\ op.off <= Size(op.piece)
    /\ content = IF op.piece + 1 \in disk THEN "right" ELSE "wrong"
    /\ addBox(op.piece, content)
    /\ op' = Copied(Copy, content)
    /\ at' = "trim"
    /\ UNCHANGED <<Shared, held, disk, list, deficit, result, panic>>

(* It is not: the piece is read from the underlying store, whose errors    *)
(* are dropped, and put in a box.                                          *)
Fetch(content) ==
    /\ Alive /\ at = "fetch"
    /\ op.off <= Size(op.piece)
    /\ content = IF op.piece \in disk THEN "right" ELSE "wrong"
    /\ addBox(op.piece, content)
    /\ op' = Copied(Copy, content)
    /\ at' = "trim"
    /\ UNCHANGED <<Shared, held, disk, list, deficit, result, panic>>

FetchFails ==
    /\ Alive /\ at = "fetch"
    /\ op.off <= Size(op.piece)
    /\ box' = [box EXCEPT ![op.piece] = "wrong"]
    /\ recent' = Touch(op.piece)
    /\ usage' \in Updates(usage + 1)
    /\ Fault("store")
    /\ op' = Copied(Copy, "wrong")
    /\ at' = "trim"
    /\ UNCHANGED <<Shared, held, disk, list, deficit, result, panic>>

(* An index or an offset out of range: the box after the last one, or an   *)
(* offset behind the end of a box.                                         *)
OutOfRange ==
    /\ Alive
    /\ \/ at = "look" /\ op.piece \notin Pieces
       \/ at = "hit" /\ kind = "ram"
             /\ op.off > IF cached(op.piece) THEN Size(op.piece) ELSE 0
       \/ at = "fetch" /\ op.off > Size(op.piece)
    /\ Panic("range")
    /\ UNCHANGED faults

(* Mutant: the underlying store is written when the box is thrown out. *)
MutWritePiece(i) ==
    /\ Alive /\ at = "idle" /\ i \notin held
    /\ held' = held \cup {i}
    /\ addBox(i, "right")
    /\ op' = [NoOp EXCEPT !.piece = i]
    /\ at' = "trim"
    /\ UNCHANGED <<Shared, disk, list, deficit, result, panic>>

(* RecordBlock: WritePiece, up to the trim of addBox.  Nothing is done for *)
(* a piece that has a box.                                                 *)
WritePiece(i) ==
    /\ Alive /\ at = "idle" /\ i \notin held
    /\ IF cached(i)
       THEN /\ held' = held \cup {i}
            /\ UNCHANGED <<box, recent, usage, faults, op, at>>
       ELSE /\ IF rat = "idle"
               THEN addBox(i, "right")
               ELSE /\ box' = [box EXCEPT ![i] = "right"]
                    /\ recent' = Touch(i)
                    /\ usage' \in {usage, usage + 1}
                    /\ Fault("race")
            /\ op' = [NoOp EXCEPT !.write = TRUE, !.piece = i]
            /\ at' = "trim"
            /\ UNCHANGED held
    /\ UNCHANGED <<Shared, disk, list, deficit, result, panic>>

(* The session's own trim. *)
TrimStart ==
    /\ Alive /\ at = "trim"
    /\ trimStart("session")
    /\ at' = "evict"
    /\ UNCHANGED <<Shared, held, disk, op, result>>

Trim ==
    /\ Alive /\ at = "evict"
    /\ trimNext("session")
    /\ UNCHANGED <<Shared, session>>

(* After trim a read goes on, and a write goes to the underlying store;    *)
(* its error is returned, but RecordBlock drops it.                        *)
Trimmed ==
    /\ Alive
    /\ \/ at = "trim" /\ usage <= capacity
       \/ at = "evict" /\ deficit["session"] = 0
    /\ trimmed("session")
    /\ IF op.write
       THEN /\ \/ disk' = disk \cup {op.piece} /\ UNCHANGED faults
               \/ Fault("store") /\ UNCHANGED disk
            /\ held' = held \cup {op.piece}
            /\ op' = NoOp /\ at' = "idle"
            /\ UNCHANGED result
       ELSE Continue(op) /\ UNCHANGED <<held, disk, faults>>
    /\ UNCHANGED <<Shared, box, recent, usage, panic>>

(* Shutdown: Close.  A goroutine that rebalances at that moment may index  *)
(* what is nil by now, or iterate over a map that changes.                 *)
Close ==
    /\ Alive /\ at = "idle"
    /\ \/ /\ at' = "closed"
          /\ Forget
          /\ Enter(rat # "idle")
          /\ UNCHANGED <<Shared, held, disk, op, result, panic>>
       \/ /\ rat # "idle"
          /\ Panic("trim")
          /\ Fault("race")

-----------------------------------------------------------------------------
(* Another session. *)

(* NewCache or Close of another torrent: this cache gets its new share and *)
(* is trimmed, as long as it is registered.                                *)
Rebalance(n) ==
    /\ Alive /\ rat = "idle" /\ at # "closed"
    /\ n \in {others - 1, others + 1} \cap (0 .. MaxOthers)
    /\ others' = n
    /\ capacity' = Share(n + 1)
    /\ rat' = "trim"
    /\ Enter(at # "idle")
    /\ UNCHANGED <<kind, session, box, recent, usage, list, deficit, panic>>

OtherTrimStart ==
    /\ Alive /\ rat = "trim"
    /\ trimStart("other")
    /\ rat' = "evict"
    /\ UNCHANGED <<kind, capacity, others, session>>

OtherTrim ==
    /\ Alive /\ rat = "evict"
    /\ trimNext("other")
    /\ UNCHANGED <<Shared, session>>

OtherTrimmed ==
    /\ Alive
    /\ \/ rat = "trim" /\ usage <= capacity
       \/ rat = "evict" /\ deficit["other"] = 0
    /\ trimmed("other")
    /\ rat' = "idle"
    /\ UNCHANGED <<kind, capacity, others, session, box, recent, usage, panic,
                   faults>>

(* tATA[i] with fewer boxes than the count says. *)
TrimPanics ==
    /\ Alive
    /\ \/ at = "evict" /\ deficit["session"] > 0 /\ list["session"] = <<>>
       \/ rat = "evict" /\ deficit["other"] > 0 /\ list["other"] = <<>>
    /\ Panic("trim")
    /\ UNCHANGED faults

Next ==
    \/ \E i \in Pieces, b \in 0 .. PieceSize - 1, n \in 1 .. PieceSize :
          b + n <= PieceSize /\ ReadAt(i, b, n)
    \/ Look \/ HitRam \/ HitHd \/ HitFails \/ FetchFails \/ OutOfRange
    \/ \E content \in {"right", "wrong"} : Fetch(content)
    \/ \E i \in Pieces : WritePiece(i)
    \/ TrimStart \/ Trim \/ Trimmed \/ Close
    \/ \E n \in 0 .. MaxOthers : Rebalance(n)
    \/ OtherTrimStart \/ OtherTrim \/ OtherTrimmed
    \/ TrimPanics

Spec == Init /\ [][Next]_vars

-----------------------------------------------------------------------------
(* Nothing has happened that the data may suffer from.  HdCache outlives   *)
(* races and errors of its own files; RamCache has no second look at a box *)
(* that vanishes, and a failing file store is cached like any other.       *)
Trusted == "store" \notin faults /\ (kind = "hd" \/ "race" \notin faults)

(* A read returns what the file store holds, whatever was cached, evicted, *)
(* resized or lost before; and no box is wrong, so that no later read is.  *)
ReadsMatch ==
    Trusted => result = "right" /\ \A i \in Pieces : box[i] # "wrong"

(* Every piece the session claims is in the files and not in the cache     *)
(* only: WritePiece does nothing when there is a box, so boxes must never  *)
(* come to exist for pieces that we lack.                                  *)
WrittenThrough ==
    Trusted => /\ held \subseteq disk
               /\ \A i \in Pieces : cached(i) => i \in held \/ op.write

(* actualUsage counts the boxes and keeps to the capacity whenever nobody  *)
(* is in the cache, as long as no two goroutines were in it at once and    *)
(* the files of HdCache work.                                              *)
UsageExact ==
    at = "idle" /\ rat = "idle" /\ faults \cap {"race", "box"} = {} =>
        usage = Cardinality(Boxes) /\ usage <= capacity

(* trim runs out of boxes only after a race or an error of a cache file    *)
(* has spoilt the count; ReadAt runs out of range only when asked for      *)
(* blocks beyond the end of the torrent, or, in RamCache, after a race.    *)
PanicsExplained ==
    /\ panic = "trim" => faults \cap {"race", "box"} # {}
    /\ panic = "range" => \/ kind = "ram" /\ "race" \in faults
                          \/ op.piece = NumPieces
                          \/ op.off > Size(op.piece)

(* Goroutines that are in the cache go on. *)
Steps == Look \/ HitRam \/ HitHd \/ HitFails \/ FetchFails \/ OutOfRange
         \/ (\E content \in {"right", "wrong"} : Fetch(content))
         \/ TrimStart \/ Trim \/ Trimmed

FairSpec == /\ Spec
            /\ WF_vars(Steps \/ TrimPanics)
            /\ WF_vars(OtherTrimStart \/ OtherTrim \/ OtherTrimmed)

(* Every read ends, though HdCache starts over without progress each time  *)
(* a box turns out to be missing or unreadable, unless others open and     *)
(* close their caches for ever.                                            *)
ReadEnds == <>[](rat = "idle") => (at = "look" ~> at = "idle" \/ panic # "no")
=============================================================================
