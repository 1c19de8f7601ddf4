----------------------------- MODULE CacheProofs -----------------------------
(***************************************************************************)
(* Proofs about the caches, of either kind, for any number and size of     *)
(* pieces, any capacity, any number of other torrents and any number of    *)
(* faults: what is cached and read is what the files hold, what is claimed *)
(* is in the files, the count of boxes is exact, and what it takes for an  *)
(* index to be out of range.                                               *)
(***************************************************************************)
EXTENDS Cache, FiniteSetTheorems, SequenceTheorems, TLAPS

(* Nothing has spoilt the count of the boxes: no race, and no error of a   *)
(* cache file.                                                             *)
Clean == faults \cap {"race", "box"} = {}

Distinct(s) == \A k, l \in 1 .. Len(s) : s[k] = s[l] => k = l
Members(s) == {s[k] : k \in 1 .. Len(s)}

-----------------------------------------------------------------------------
(* The list of boxes by access time. *)

(* A box is taken out of the list. *)
LEMMA WithoutFacts ==
    ASSUME recent \in Seq(Pieces), NEW i
    PROVE  /\ Without(i) \in Seq(Pieces)
           /\ Distinct(recent) => /\ Distinct(Without(i))
                                  /\ Members(Without(i)) = Members(recent) \ {i}
<1> DEFINE n == Len(recent)
           In == \E k \in 1 .. n : recent[k] = i
<1>1. n \in Nat /\ \A k \in 1 .. n : recent[k] \in Pieces
  OBVIOUS
<1>2. CASE ~ In
  <2>1. Without(i) = recent
    BY <1>2 DEF Without
  <2>2. i \notin Members(recent)
    BY <1>2 DEF Members
  <2> QED BY <2>1, <2>2
<1>3. CASE In
  <2> DEFINE k == CHOOSE k \in 1 .. n : recent[k] = i
             t == SubSeq(recent, 1, k - 1) \o SubSeq(recent, k + 1, n)
  <2>1. k \in 1 .. n /\ recent[k] = i
    BY <1>3
  <2>2. Without(i) = t
    BY <1>3 DEF Without
  <2> HIDE DEF k
  <2>3. /\ SubSeq(recent, 1, k - 1) \in Seq(Pieces)
        /\ Len(SubSeq(recent, 1, k - 1)) = k - 1
        /\ \A l \in 1 .. k - 1 : SubSeq(recent, 1, k - 1)[l] = recent[l]
    BY <1>1, <2>1
  <2>4. /\ SubSeq(recent, k + 1, n) \in Seq(Pieces)
        /\ Len(SubSeq(recent, k + 1, n)) = n - k
        /\ \A l \in 1 .. n - k : SubSeq(recent, k + 1, n)[l] = recent[k + l]
    BY <1>1, <2>1
  <2>5. /\ t \in Seq(Pieces) /\ Len(t) = n - 1
        /\ \A l \in 1 .. n - 1 : t[l] = IF l < k THEN recent[l] ELSE recent[l + 1]
    <3> DEFINE a == SubSeq(recent, 1, k - 1)
               b == SubSeq(recent, k + 1, n)
    <3>1. /\ t \in Seq(Pieces) /\ Len(t) = Len(a) + Len(b)
          /\ \A l \in 1 .. Len(a) + Len(b) :
                t[l] = IF l <= Len(a) THEN a[l] ELSE b[l - Len(a)]
      BY <2>3, <2>4, ConcatProperties
    <3> HIDE DEF t, a, b
    <3>2. /\ Len(a) = k - 1 /\ Len(b) = n - k /\ k \in Int
          /\ \A l \in 1 .. k - 1 : a[l] = recent[l]
          /\ \A l \in 1 .. n - k : b[l] = recent[k + l]
      BY <2>1, <2>3, <2>4 DEF a, b
    <3>3. ASSUME NEW l \in 1 .. n - 1
          PROVE  t[l] = IF l < k THEN recent[l] ELSE recent[l + 1]
      <4>1. CASE l < k
        <5>1. l \in 1 .. k - 1 /\ l \in 1 .. Len(a) + Len(b)
          BY <1>1, <3>2, <4>1
        <5> QED BY <3>1, <3>2, <4>1, <5>1
      <4>2. CASE ~ (l < k)
        <5>1. /\ l - (k - 1) \in 1 .. n - k /\ ~ (l <= k - 1)
              /\ l \in 1 .. Len(a) + Len(b) /\ k + (l - (k - 1)) = l + 1
          BY <1>1, <3>2, <4>2
        <5> QED BY <3>1, <3>2, <4>2, <5>1
      <4> QED BY <4>1, <4>2
    <3> QED BY <1>1, <3>1, <3>2, <3>3
  <2> HIDE DEF t
  <2>6. ASSUME Distinct(recent)
        PROVE  Distinct(t) /\ Members(t) = Members(recent) \ {i}
    <3>1. \A l \in 1 .. n : recent[l] = i => l = k
      BY <2>1, <2>6 DEF Distinct
    <3>2. Distinct(t)
      <4> SUFFICES ASSUME NEW a \in 1 .. n - 1, NEW b \in 1 .. n - 1,
                          t[a] = t[b]
                   PROVE  a = b
        BY <2>5 DEF Distinct
      <4> DEFINE up(l) == IF l < k THEN l ELSE l + 1
      <4>1. /\ up(a) \in 1 .. n /\ up(b) \in 1 .. n
            /\ t[a] = recent[up(a)] /\ t[b] = recent[up(b)]
        BY <1>1, <2>1, <2>5
      <4>2. up(a) = up(b)
        BY <2>6, <4>1 DEF Distinct
      <4> QED BY <2>1, <4>2
    <3>3. Members(t) \subseteq Members(recent) \ {i}
      <4> SUFFICES ASSUME NEW l \in 1 .. n - 1
                   PROVE  t[l] \in Members(recent) \ {i}
        BY <2>5 DEF Members
      <4> DEFINE u == IF l < k THEN l ELSE l + 1
      <4>1. u \in 1 .. n /\ u # k /\ t[l] = recent[u]
        BY <1>1, <2>1, <2>5
      <4> QED BY <3>1, <4>1 DEF Members
    <3>4. Members(recent) \ {i} \subseteq Members(t)
      <4> SUFFICES ASSUME NEW l \in 1 .. n, recent[l] # i
                   PROVE  recent[l] \in Members(t)
        BY DEF Members
      <4> DEFINE u == IF l < k THEN l ELSE l - 1
      <4>1. l # k
        BY <2>1
      <4>2. u \in 1 .. n - 1 /\ t[u] = recent[l]
        BY <1>1, <2>1, <2>5, <4>1
      <4> QED BY <2>5, <4>2 DEF Members
    <3> QED BY <3>2, <3>3, <3>4
  <2> QED BY <2>2, <2>5, <2>6
<1> QED BY <1>2, <1>3

(* The oldest box is at the head of the list. *)
LEMMA WithoutHead ==
    ASSUME recent \in Seq(Pieces), Distinct(recent), recent # <<>>
    PROVE  Without(Head(recent)) = Tail(recent)
<1> DEFINE n == Len(recent)
           i == Head(recent)
<1>1. n \in Nat /\ 1 \in 1 .. n /\ i = recent[1]
  OBVIOUS
<1>2. \A k \in 1 .. n : recent[k] = i => k = 1
  BY <1>1 DEF Distinct
<1>3. (CHOOSE k \in 1 .. n : recent[k] = i) = 1
  BY <1>1, <1>2
<1>4. Without(i) = SubSeq(recent, 1, 1 - 1) \o SubSeq(recent, 1 + 1, n)
  BY <1>1, <1>3 DEF Without
<1> QED BY <1>4

(* A box is used, or put in. *)
LEMMA TouchFacts ==
    ASSUME recent \in Seq(Pieces), NEW i \in Pieces
    PROVE  /\ Touch(i) \in Seq(Pieces)
           /\ Distinct(recent) => /\ Distinct(Touch(i))
                                  /\ Members(Touch(i)) = Members(recent) \cup {i}
<1> DEFINE s == Without(i)
           t == Touch(i)
<1>1. s \in Seq(Pieces) /\ Len(s) \in Nat
  BY WithoutFacts
<1>2. /\ t \in Seq(Pieces) /\ Len(t) = Len(s) + 1
      /\ \A k \in 1 .. Len(s) : t[k] = s[k]
      /\ t[Len(s) + 1] = i
  BY <1>1 DEF Touch
<1> HIDE DEF t
<1>3. ASSUME Distinct(recent)
      PROVE  Distinct(t) /\ Members(t) = Members(recent) \cup {i}
  <2>1. Distinct(s) /\ Members(s) = Members(recent) \ {i}
    BY <1>3, WithoutFacts
  <2> HIDE DEF s
  <2>2. \A k \in 1 .. Len(t) : k \in 1 .. Len(s) \/ k = Len(s) + 1
    BY <1>1, <1>2
  <2>3. \A k \in 1 .. Len(s) : t[k] # i
    BY <1>2, <2>1 DEF Members
  <2>4. Distinct(t)
    BY <1>2, <2>1, <2>2, <2>3 DEF Distinct
  <2>5. \A k \in 1 .. Len(s) : k \in 1 .. Len(t)
    BY <1>1, <1>2
  <2>6. Len(s) + 1 \in 1 .. Len(t)
    BY <1>1, <1>2
  <2>7. Members(t) = Members(s) \cup {i}
    BY <1>2, <2>2, <2>5, <2>6 DEF Members
  <2> QED BY <2>1, <2>4, <2>7
<1> QED BY <1>2, <1>3 DEF t

-----------------------------------------------------------------------------
(* The inductive invariant. *)

Ops == [write : BOOLEAN, piece : Nat, off : Int, left : Int,
        data : {"right", "wrong"}]

(* RamCache has no files that could be in error, or gone. *)
Types ==
    /\ kind \in {"ram", "hd"}
    /\ held \subseteq Pieces
    /\ box \in [Pieces -> {"none", "right", "wrong", "gone"}]
    /\ recent \in Seq(Pieces)
    /\ usage \in Int /\ capacity \in Nat /\ others \in Nat
    /\ panic \in {"no", "trim", "range"}
    /\ at \in Places /\ rat \in {"idle", "trim", "evict"}
    /\ list \in [Goroutines -> Seq(Pieces)]
    /\ deficit \in [Goroutines -> Int]
    /\ op \in Ops
    /\ kind = "ram" => "box" \notin faults /\ \A i \in Pieces : box[i] # "gone"

(* Where the session is in its operation.                                  *)
Control ==
    /\ op.piece <= NumPieces
    /\ at \in {"hit", "fetch"} => op.piece \in Pieces
    /\ op.write => at \in {"trim", "evict"} /\ op.piece \in Pieces
    /\ panic # "no" => Boxes = {} /\ usage = 0

(* The count and the list are those of the boxes, ... *)
Exact == /\ Distinct(recent) /\ Members(recent) = Boxes
         /\ usage = Cardinality(Boxes)
         /\ \A i \in Pieces : box[i] # "gone"

(* ... as long as nothing has spoilt the count.  Then one goroutine at     *)
(* most is in the cache, and a trim that goes on has what it needs before  *)
(* it.                                                                     *)
Counted ==
    Clean /\ Alive =>
       /\ Exact
       /\ at \in {"idle", "closed"} \/ rat = "idle"
       /\ at = "hit" => cached(op.piece)
       /\ at = "fetch" => ~ cached(op.piece)
       /\ at = "evict" => /\ list["session"] = recent
                          /\ deficit["session"] = usage - capacity
       /\ rat = "evict" => /\ list["other"] = recent
                           /\ deficit["other"] = usage - capacity
       /\ rat = "idle" /\ at \notin {"trim", "evict"} => usage <= capacity

(* A read is of pieces that we have, until it leaves the torrent. *)
Reading ==
    Trusted /\ at \in {"look", "hit", "fetch", "trim", "evict"} /\ ~ op.write =>
       /\ at \in {"look", "hit", "fetch"} => op.left # 0
       /\ \/ op.piece = NumPieces
          \/ op.left = 0
          \/ /\ op.piece \in held /\ op.off \in Nat /\ op.left \in Nat
             /\ op.off + op.left <= PieceSize

(* A box for a piece that we lack is there only while it is written. *)
Data ==
    Trusted =>
       /\ op.data = "right" /\ result = "right"
       /\ held \subseteq disk
       /\ \A i \in Pieces : box[i] # "wrong"
       /\ \A i \in Pieces : cached(i) => i \in held \/ (op.write /\ op.piece = i)

IInv == Types /\ Control /\ Counted /\ Reading /\ Data /\ PanicsExplained

-----------------------------------------------------------------------------
(* Types. *)

(* Pieces are numbers. *)
LEMMA PiecesNat == Pieces \subseteq Nat /\ NumPieces \in Nat
BY CacheAssumption DEF Pieces

(* addBox keeps the types. *)
LEMMA AddTypes ==
    ASSUME Types, NEW i \in Pieces, NEW content \in {"right", "wrong"},
           addBox(i, content)
    PROVE  /\ box' \in [Pieces -> {"none", "right", "wrong", "gone"}]
           /\ recent' \in Seq(Pieces)
           /\ usage' \in Int
           /\ kind = "ram" => "box" \notin faults'
                              /\ \A j \in Pieces : box'[j] # "gone"
<1>1. /\ box \in [Pieces -> {"none", "right", "wrong", "gone"}]
      /\ recent \in Seq(Pieces) /\ usage \in Int
      /\ kind = "ram" => "box" \notin faults /\ \A j \in Pieces : box[j] # "gone"
  BY DEF Types
<1>2. CASE /\ box' = [box EXCEPT ![i] = content] /\ recent' = Touch(i)
           /\ usage' \in Updates(usage + 1) /\ UNCHANGED faults
  BY <1>1, <1>2, TouchFacts DEF Updates
<1>3. CASE /\ kind = "hd" /\ usage' \in {usage} \cup Updates(usage + 1)
           /\ UNCHANGED <<box, recent>>
  BY <1>1, <1>3 DEF Updates
<1> QED BY <1>2, <1>3 DEF addBox

(* removeBox makes no box, and no data. *)
LEMMA RemoveTypes ==
    ASSUME Types, NEW i \in Pieces, removeBox(i)
    PROVE  /\ box' \in [Pieces -> {"none", "right", "wrong", "gone"}]
           /\ recent' \in Seq(Pieces)
           /\ usage' \in Int
           /\ kind = "ram" => "box" \notin faults'
                              /\ \A j \in Pieces : box'[j] # "gone"
           /\ \A j \in Pieces : box'[j] = box[j] \/ box'[j] \in {"none", "gone"}
           /\ \A j \in Pieces : box'[j] # "none" => box[j] # "none"
<1>1. /\ box \in [Pieces -> {"none", "right", "wrong", "gone"}]
      /\ recent \in Seq(Pieces) /\ usage \in Int
      /\ kind = "ram" => "box" \notin faults /\ \A j \in Pieces : box[j] # "gone"
  BY DEF Types
<1>2. recent' \in Seq(Pieces)
  BY <1>1, WithoutFacts DEF removeBox
<1>3. usage' \in Int
  BY <1>1 DEF removeBox, Updates
<1>4. CASE box' = [box EXCEPT ![i] = "none"]
  <2>1. kind = "ram" => "box" \notin faults'
    BY <1>1 DEF removeBox
  <2> QED BY <1>1, <1>2, <1>3, <1>4, <2>1
<1>5. CASE kind = "hd" /\ cached(i) /\ box' = [box EXCEPT ![i] = "gone"]
  BY <1>1, <1>2, <1>3, <1>5 DEF cached
<1> QED BY <1>4, <1>5 DEF removeBox

(* A turn of the last loop of trim. *)
LEMMA TrimNextTypes ==
    ASSUME Types, NEW g \in Goroutines, trimNext(g)
    PROVE  /\ Head(list[g]) \in Pieces /\ removeBox(Head(list[g]))
           /\ list[g] # <<>>
           /\ list' \in [Goroutines -> Seq(Pieces)]
           /\ deficit' \in [Goroutines -> Int]
<1>1. /\ list[g] \in Seq(Pieces) /\ list[g] # <<>> /\ deficit[g] \in Int
      /\ list' = [list EXCEPT ![g] = Tail(list[g])]
      /\ deficit' = [deficit EXCEPT ![g] = deficit[g] - 1]
      /\ removeBox(Head(list[g]))
      /\ list \in [Goroutines -> Seq(Pieces)]
      /\ deficit \in [Goroutines -> Int]
  BY DEF Types, trimNext
<1>2. Head(list[g]) \in Pieces /\ Tail(list[g]) \in Seq(Pieces)
  BY <1>1
<1> QED BY <1>1, <1>2

(* The operation after a box was copied (Copied). *)
LEMMA OpTypes ==
    ASSUME Types, op.piece \in Pieces, NEW k \in Int, NEW content
    PROVE  /\ Copied(k, content) \in Ops /\ NoOp \in Ops
           /\ Copied(k, content).piece = op.piece + 1
           /\ Copied(k, content).off = 0
           /\ Copied(k, content).left = op.left - k
           /\ Copied(k, content).write = op.write
           /\ Copied(k, content).data =
                IF content # "right" /\ k > 0 THEN "wrong" ELSE op.data
           /\ Copy \in Int
           /\ op.off \in Int /\ op.left \in Int
<1>1. op \in Ops
  BY DEF Types
<1>2. Copy \in Int
  BY <1>1, CacheAssumption DEF Copy, Ops, Size
<1>3. /\ op.write \in BOOLEAN /\ op.piece \in Nat /\ op.off \in Int
      /\ op.left \in Int /\ op.data \in {"right", "wrong"}
  BY <1>1 DEF Ops
<1> DEFINE d == IF content # "right" /\ k > 0 THEN "wrong" ELSE op.data
<1>4. d \in {"right", "wrong"}
  BY <1>3
<1> HIDE DEF d
<1>5. Copied(k, content) = [write |-> op.write, piece |-> op.piece + 1,
                            off |-> 0, left |-> op.left - k, data |-> d]
  <2>1. op = [write |-> op.write, piece |-> op.piece, off |-> op.off,
              left |-> op.left, data |-> op.data]
    BY <1>1 DEF Ops
  <2>2. Copied(k, content) = [op EXCEPT !.piece = op.piece + 1, !.off = 0,
                                        !.left = op.left - k, !.data = d]
    BY DEF Copied, d
  <2> QED BY <2>1, <2>2
<1>6. op.piece + 1 \in Nat /\ op.left - k \in Int
  BY <1>3
<1>7. Copied(k, content) \in Ops
  BY <1>3, <1>4, <1>5, <1>6 DEF Ops
<1>8. NoOp \in Ops
  BY DEF NoOp, Ops
<1> QED BY <1>2, <1>3, <1>5, <1>7, <1>8 DEF d

(* Every step keeps the types. *)
LEMMA TypesNext ==
    ASSUME Types, Control, [Next]_vars
    PROVE  Types'
<1> USE DEF Shared, session
<1>1. ASSUME NEW i \in Pieces, NEW b \in 0 .. PieceSize - 1,
             NEW n \in 1 .. PieceSize, ReadAt(i, b, n)
      PROVE  Types'
  <2>1. op' \in Ops
    <3>1. i \in Nat /\ b \in Int /\ n \in Int
      BY PiecesNat
    <3> QED BY <1>1, <3>1 DEF ReadAt, Ops
  <2>2. kind = "ram" => "box" \notin faults'
    BY <1>1 DEF ReadAt, Enter, Fault, Types
  <2>3. at' \in Places
    BY <1>1 DEF ReadAt, Places
  <2> QED BY <1>1, <2>1, <2>2, <2>3 DEF ReadAt, Types
<1>2. CASE Look
  <2>1. at' \in Places
    BY <1>2 DEF Look, Places
  <2> QED BY <1>2, <2>1 DEF Look, Types
<1>3. ASSUME NEW o \in Ops, Continue(o) PROVE op' \in Ops /\ at' \in Places
  <2>1. NoOp \in Ops
    BY DEF NoOp, Ops
  <2> QED BY <1>3, <2>1 DEF Continue, Places
<1>4. CASE HitRam \/ HitHd
  <2>1. op.piece \in Pieces
    BY <1>4 DEF HitRam, HitHd, Control
  <2>2. op' \in Ops /\ at' \in Places
    <3>1. CASE HitRam
      <4>1. /\ Copied(Copy, box[op.piece]) \in Ops
            /\ Copied(0, "right") \in Ops
        BY <2>1, OpTypes
      <4> QED BY <1>3, <3>1, <4>1 DEF HitRam
    <3>2. CASE HitHd
      <4>1. /\ Copied(Copy, box[op.piece]) \in Ops
            /\ Copied(0, box[op.piece]) \in Ops
        BY <2>1, OpTypes
      <4> QED BY <1>3, <3>2, <4>1 DEF HitHd
    <3> QED BY <1>4, <3>1, <3>2
  <2>3. recent' \in Seq(Pieces)
    BY <1>4, <2>1, TouchFacts DEF HitRam, HitHd, Types
  <2>4. /\ UNCHANGED <<kind, held, box, usage, capacity, others, panic, rat,
                       list, deficit, faults>>
    BY <1>4 DEF HitRam, HitHd
  <2> QED BY <2>2, <2>3, <2>4 DEF Types
<1>5. CASE HitFails
  <2>1. op.piece \in Pieces
    BY <1>5 DEF HitFails, Control
  <2>2. /\ box' \in [Pieces -> {"none", "right", "wrong", "gone"}]
        /\ recent' \in Seq(Pieces)
        /\ usage' \in Int
    <3>1. CASE removeBox(op.piece)
      BY <2>1, <3>1, RemoveTypes
    <3>2. CASE /\ box' = [box EXCEPT ![op.piece] = "none"]
               /\ recent' = Without(op.piece)
               /\ usage' \in {usage, usage - 1}
      <4>1. /\ box \in [Pieces -> {"none", "right", "wrong", "gone"}]
            /\ recent \in Seq(Pieces) /\ usage \in Int
        BY DEF Types
      <4>2. Without(op.piece) \in Seq(Pieces)
        BY <4>1, WithoutFacts
      <4>3. usage' \in Int
        BY <3>2, <4>1
      <4>4. box' \in [Pieces -> {"none", "right", "wrong", "gone"}]
        BY <3>2, <4>1
      <4> QED BY <3>2, <4>2, <4>3, <4>4
    <3> QED BY <1>5, <3>1, <3>2 DEF HitFails
  <2>3. at' \in Places /\ kind' = "hd"
    BY <1>5 DEF HitFails, Places
  <2> QED BY <1>5, <2>2, <2>3 DEF HitFails, Types
<1>6. ASSUME NEW content \in {"right", "wrong"}, Fetch(content)
      PROVE  Types'
  <2>1. op.piece \in Pieces
    BY <1>6 DEF Fetch, Control
  <2>2. op' \in Ops
    <3>1. op' = Copied(Copy, content)
      BY <1>6 DEF Fetch
    <3> QED BY <2>1, <3>1, OpTypes
  <2>3. addBox(op.piece, content)
    BY <1>6 DEF Fetch
  <2>4. at' \in Places
    BY <1>6 DEF Fetch, Places
  <2>5. /\ box' \in [Pieces -> {"none", "right", "wrong", "gone"}]
        /\ recent' \in Seq(Pieces) /\ usage' \in Int
        /\ kind = "ram" => "box" \notin faults'
                           /\ \A j \in Pieces : box'[j] # "gone"
    BY <2>1, <2>3, AddTypes
  <2> QED BY <1>6, <2>2, <2>4, <2>5 DEF Fetch, Types
<1>7. CASE FetchFails
  <2>1. op.piece \in Pieces
    BY <1>7 DEF FetchFails, Control
  <2>2. op' \in Ops
    <3>1. op' = Copied(Copy, "wrong")
      BY <1>7 DEF FetchFails
    <3> QED BY <2>1, <3>1, OpTypes
  <2>3. /\ box' = [box EXCEPT ![op.piece] = "wrong"]
        /\ recent' = Touch(op.piece) /\ usage' \in Updates(usage + 1)
        /\ Fault("store")
    BY <1>7 DEF FetchFails
  <2>4. /\ box' \in [Pieces -> {"none", "right", "wrong", "gone"}]
        /\ recent' \in Seq(Pieces) /\ usage' \in Int
    BY <2>1, <2>3, TouchFacts DEF Types, Updates
  <2>5. kind = "ram" => "box" \notin faults'
                        /\ \A j \in Pieces : box'[j] # "gone"
    BY <2>1, <2>3 DEF Types, Fault
  <2>6. at' \in Places
    BY <1>7 DEF FetchFails, Places
  <2> QED BY <1>7, <2>2, <2>4, <2>5, <2>6 DEF FetchFails, Types
<1>8. ASSUME NEW place \in {"trim", "range"}, Panic(place),
             UNCHANGED faults \/ Fault("race")
      PROVE  Types'
  <2>1. /\ box' = [i \in Pieces |-> "none"] /\ recent' = <<>> /\ usage' = 0
        /\ list' = [g \in Goroutines |-> <<>>]
        /\ deficit' = [g \in Goroutines |-> 0]
        /\ panic' = place
        /\ UNCHANGED <<kind, held, capacity, others, at, op, rat>>
    BY <1>8 DEF Panic, Forget
  <2>2. kind = "ram" => "box" \notin faults'
    BY <1>8 DEF Types, Fault
  <2> QED BY <2>1, <2>2 DEF Types
<1>9. CASE OutOfRange \/ TrimPanics
  BY <1>8, <1>9 DEF OutOfRange, TrimPanics
<1>10. ASSUME NEW i \in Pieces, WritePiece(i) PROVE Types'
  <2>1. /\ box' \in [Pieces -> {"none", "right", "wrong", "gone"}]
        /\ recent' \in Seq(Pieces) /\ usage' \in Int
        /\ kind = "ram" => "box" \notin faults'
                           /\ \A j \in Pieces : box'[j] # "gone"
    <3>1. CASE UNCHANGED <<box, recent, usage, faults>>
      BY <3>1 DEF Types
    <3>2. CASE addBox(i, "right")
      BY <3>2, AddTypes
    <3>3. CASE /\ box' = [box EXCEPT ![i] = "right"] /\ recent' = Touch(i)
               /\ usage' \in {usage, usage + 1} /\ Fault("race")
      BY <3>3, TouchFacts DEF Types, Fault
    <3> QED BY <1>10, <3>1, <3>2, <3>3 DEF WritePiece
  <2>2. op' \in Ops /\ at' \in Places
    <3>1. [NoOp EXCEPT !.write = TRUE, !.piece = i] \in Ops
      <4>1. i \in Nat
        BY PiecesNat
      <4> DEFINE w == [NoOp EXCEPT !.write = TRUE]
      <4>2. NoOp \in Ops
        BY DEF NoOp, Ops
      <4>3. w \in Ops
        BY <4>2 DEF Ops
      <4>4. [NoOp EXCEPT !.write = TRUE, !.piece = i] = [w EXCEPT !.piece = i]
        OBVIOUS
      <4> HIDE DEF w
      <4> QED BY <4>1, <4>3, <4>4 DEF Ops
    <3> QED BY <1>10, <3>1 DEF WritePiece, Types, Places
  <2>3. held' \subseteq Pieces
    BY <1>10 DEF WritePiece, Types
  <2> QED BY <1>10, <2>1, <2>2, <2>3 DEF WritePiece, Types
<1>11. ASSUME NEW g \in Goroutines, trimStart(g)
       PROVE  /\ list' \in [Goroutines -> Seq(Pieces)]
              /\ deficit' \in [Goroutines -> Int]
  BY <1>11 DEF trimStart, Types
<1>12. CASE TrimStart \/ OtherTrimStart
  <2>1. "session" \in Goroutines /\ "other" \in Goroutines
    BY DEF Goroutines
  <2>2. /\ list' \in [Goroutines -> Seq(Pieces)]
        /\ deficit' \in [Goroutines -> Int]
    BY <1>11, <1>12, <2>1 DEF TrimStart, OtherTrimStart
  <2>3. at' \in Places /\ rat' \in {"idle", "trim", "evict"}
    BY <1>12 DEF TrimStart, OtherTrimStart, Types, Places
  <2>4. UNCHANGED <<kind, held, box, recent, usage, capacity, others, panic,
                    op, faults>>
    BY <1>12 DEF TrimStart, OtherTrimStart, trimStart
  <2> QED BY <2>2, <2>3, <2>4 DEF Types
<1>13. ASSUME NEW g \in Goroutines, trimNext(g),
              UNCHANGED <<kind, capacity, others, rat, held, op, at>>
       PROVE  Types'
  <2>1. /\ Head(list[g]) \in Pieces /\ removeBox(Head(list[g]))
        /\ list' \in [Goroutines -> Seq(Pieces)]
        /\ deficit' \in [Goroutines -> Int]
    BY <1>13, TrimNextTypes
  <2>2. /\ box' \in [Pieces -> {"none", "right", "wrong", "gone"}]
        /\ recent' \in Seq(Pieces) /\ usage' \in Int
        /\ kind = "ram" => "box" \notin faults'
                           /\ \A j \in Pieces : box'[j] # "gone"
    BY <2>1, RemoveTypes
  <2>3. panic' = panic
    BY <1>13 DEF trimNext
  <2> QED BY <1>13, <2>1, <2>2, <2>3 DEF Types
<1>14. CASE Trim \/ OtherTrim
  BY <1>13, <1>14 DEF Trim, OtherTrim, Goroutines
<1>20. ASSUME NEW g \in Goroutines, trimmed(g)
       PROVE  /\ list' \in [Goroutines -> Seq(Pieces)]
              /\ deficit' \in [Goroutines -> Int]
  <2>1. <<>> \in Seq(Pieces)
    BY EmptySeq
  <2>2. /\ list \in [Goroutines -> Seq(Pieces)]
        /\ deficit \in [Goroutines -> Int]
    BY DEF Types
  <2>3. /\ list' = [list EXCEPT ![g] = <<>>]
        /\ deficit' = [deficit EXCEPT ![g] = 0]
    BY <1>20 DEF trimmed
  <2> QED BY <2>1, <2>2, <2>3
<1>15. CASE Trimmed
  <2>1. /\ list' \in [Goroutines -> Seq(Pieces)]
        /\ deficit' \in [Goroutines -> Int]
    BY <1>15, <1>20 DEF Trimmed, Goroutines
  <2>2. op' \in Ops /\ at' \in Places /\ held' \subseteq Pieces
        /\ (kind = "ram" => "box" \notin faults')
    <3>1. CASE op.write
      <4>1. NoOp \in Ops
        BY DEF NoOp, Ops
      <4>2. op.piece \in Pieces
        BY <3>1 DEF Control
      <4>3. op' = NoOp /\ at' = "idle" /\ held' = held \cup {op.piece}
            /\ (UNCHANGED faults \/ Fault("store"))
        BY <1>15, <3>1 DEF Trimmed
      <4> QED BY <4>1, <4>2, <4>3 DEF Types, Places, Fault
    <3>2. CASE ~ op.write
      <4>1. Continue(op) /\ UNCHANGED <<held, faults>>
        BY <1>15, <3>2 DEF Trimmed
      <4> QED BY <1>3, <4>1 DEF Types
    <3> QED BY <3>1, <3>2
  <2> QED BY <1>15, <2>1, <2>2 DEF Trimmed, Types
<1>16. CASE Close
  <2>1. CASE /\ at' = "closed" /\ Forget /\ Enter(rat # "idle")
             /\ UNCHANGED <<Shared, held, op, panic>>
    <3>1. kind = "ram" => "box" \notin faults'
      BY <2>1 DEF Enter, Fault, Types
    <3> QED BY <2>1, <3>1 DEF Forget, Types, Places
  <2>2. CASE Panic("trim") /\ Fault("race")
    BY <1>8, <2>2
  <2> QED BY <1>16, <2>1, <2>2 DEF Close
<1>17. ASSUME NEW n \in 0 .. MaxOthers, Rebalance(n) PROVE Types'
  <2>1. n \in Nat /\ Share(n + 1) \in Nat
    BY CacheAssumption DEF Share
  <2>2. kind = "ram" => "box" \notin faults'
    BY <1>17 DEF Rebalance, Enter, Fault, Types
  <2> QED BY <1>17, <2>1, <2>2 DEF Rebalance, Types
<1>18. CASE OtherTrimmed
  <2>1. /\ list' \in [Goroutines -> Seq(Pieces)]
        /\ deficit' \in [Goroutines -> Int]
    BY <1>18, <1>20 DEF OtherTrimmed, Goroutines
  <2> QED BY <1>18, <2>1 DEF OtherTrimmed, Types
<1>19. CASE UNCHANGED vars
  BY <1>19 DEF vars, Types
<1> QED BY <1>1, <1>2, <1>4, <1>5, <1>6, <1>7, <1>9, <1>10, <1>12, <1>14,
           <1>15, <1>16, <1>17, <1>18, <1>19 DEF Next

-----------------------------------------------------------------------------
(* Where the session is. *)
LEMMA ControlNext ==
    ASSUME Types, Control, [Next]_vars
    PROVE  Control'
<1> USE DEF Shared, session
<1>0. /\ op.piece \in Nat /\ NumPieces \in Nat
      /\ \A i \in Pieces : i \in Nat /\ i < NumPieces /\ i + 1 <= NumPieces
  BY CacheAssumption DEF Types, Ops, Pieces
<1>n. NoOp.piece = 0 /\ NoOp.write = FALSE
  BY DEF NoOp
<1>b. ASSUME Alive, panic' = panic
      PROVE  (panic # "no" => Boxes = {} /\ usage = 0)'
  BY <1>b DEF Alive
<1>c. ASSUME NEW o, o.piece <= NumPieces, o.write = FALSE, Continue(o)
      PROVE  /\ op'.piece <= NumPieces /\ op'.write = FALSE
             /\ at' \in {"idle", "look"}
  BY <1>c, <1>0, <1>n DEF Continue
<1>1. ASSUME NEW i \in Pieces, NEW b \in 0 .. PieceSize - 1,
             NEW n \in 1 .. PieceSize, ReadAt(i, b, n)
      PROVE  Control'
  <2>1. op'.piece = i /\ op'.write = FALSE /\ at' = "look"
    BY <1>1 DEF ReadAt
  <2>2. Alive /\ panic' = panic
    BY <1>1 DEF ReadAt
  <2> QED BY <1>0, <1>b, <2>1, <2>2 DEF Control
<1>2. CASE Look
  <2>1. /\ op' = op /\ op.piece \in Pieces /\ at = "look" /\ Alive
        /\ panic' = panic /\ at' \in {"hit", "fetch"}
    BY <1>2 DEF Look
  <2> QED BY <1>b, <2>1 DEF Control
<1>3. CASE HitRam \/ HitHd
  <2>1. op.piece \in Pieces /\ op.write = FALSE
    BY <1>3 DEF HitRam, HitHd, Control, Types, Ops
  <2>2. ASSUME NEW k \in Int, NEW content
        PROVE  /\ Copied(k, content).piece <= NumPieces
               /\ Copied(k, content).write = FALSE
    BY <1>0, <2>1, OpTypes
  <2>3. Copy \in Int
    BY <2>1, OpTypes
  <2>4. \E k \in Int, content \in {"right", box[op.piece]} :
           Continue(Copied(k, content))
    <3>1. CASE HitRam
      BY <3>1, <2>3 DEF HitRam
    <3>2. CASE HitHd
      BY <3>2, <2>3 DEF HitHd
    <3> QED BY <1>3, <3>1, <3>2
  <2>5. op'.piece <= NumPieces /\ op'.write = FALSE /\ at' \in {"idle", "look"}
    BY <1>c, <2>2, <2>4
  <2>6. Alive /\ panic' = panic
    BY <1>3 DEF HitRam, HitHd
  <2> QED BY <1>b, <2>5, <2>6 DEF Control
<1>4. CASE HitFails
  <2>1. op' = op /\ at = "hit" /\ at' = "look" /\ Alive /\ panic' = panic
    BY <1>4 DEF HitFails
  <2> QED BY <1>b, <2>1 DEF Control
<1>5. ASSUME NEW content, at = "fetch", at' = "trim", Alive, panic' = panic,
             op' = Copied(Copy, content)
      PROVE  Control'
  <2>1. op.piece \in Pieces /\ op.write = FALSE
    BY <1>5 DEF Control, Types, Ops
  <2>2. op'.piece = op.piece + 1 /\ op'.write = FALSE
    BY <1>5, <2>1, OpTypes
  <2> QED BY <1>0, <1>5, <1>b, <2>1, <2>2 DEF Control
<1>6. CASE FetchFails \/ \E content \in {"right", "wrong"} : Fetch(content)
  BY <1>5, <1>6 DEF FetchFails, Fetch
<1>7. ASSUME NEW place, Panic(place)
      PROVE  Control'
  <2>1. /\ op' = op /\ at' = at /\ box' = [i \in Pieces |-> "none"]
        /\ usage' = 0
    BY <1>7 DEF Panic, Forget
  <2>2. Boxes' = {}
    BY <2>1 DEF Boxes
  <2> QED BY <2>1, <2>2 DEF Control
<1>8. CASE OutOfRange \/ TrimPanics
  BY <1>7, <1>8 DEF OutOfRange, TrimPanics
<1>9. ASSUME NEW i \in Pieces, WritePiece(i) PROVE Control'
  <2>1. /\ Alive /\ panic' = panic /\ at = "idle"
        /\ \/ op' = op /\ at' = at
           \/ op' = [NoOp EXCEPT !.write = TRUE, !.piece = i] /\ at' = "trim"
    BY <1>9 DEF WritePiece
  <2>2. [NoOp EXCEPT !.write = TRUE, !.piece = i].piece = i
    BY DEF NoOp
  <2>3. CASE op' = op /\ at' = at
    BY <1>b, <2>1, <2>3 DEF Control
  <2>4. CASE /\ op' = [NoOp EXCEPT !.write = TRUE, !.piece = i]
             /\ at' = "trim"
    <3>1. op'.piece = i
      BY <2>2, <2>4
    <3> QED BY <1>0, <1>b, <2>1, <2>4, <3>1 DEF Control
  <2> QED BY <2>1, <2>3, <2>4
<1>10. CASE TrimStart
  <2>1. Alive /\ panic' = panic /\ op' = op /\ at = "trim" /\ at' = "evict"
    BY <1>10 DEF TrimStart, trimStart
  <2> QED BY <1>b, <2>1 DEF Control
<1>11. CASE Trim \/ OtherTrim \/ OtherTrimStart \/ OtherTrimmed
            \/ \E n \in 0 .. MaxOthers : Rebalance(n)
  <2>1. Alive /\ panic' = panic /\ op' = op /\ at' = at
    BY <1>11 DEF Trim, OtherTrim, OtherTrimStart, OtherTrimmed, Rebalance,
                 trimStart, trimNext
  <2> QED BY <1>b, <2>1 DEF Control
<1>12. CASE Trimmed
  <2>1. Alive /\ panic' = panic
    BY <1>12 DEF Trimmed
  <2>2. CASE op.write
    BY <1>12, <1>0, <1>n, <1>b, <2>1, <2>2 DEF Trimmed, Control
  <2>3. CASE ~ op.write
    <3>1. Continue(op) /\ op.write = FALSE
      BY <1>12, <2>3 DEF Trimmed, Types, Ops
    <3>2. op'.piece <= NumPieces /\ op'.write = FALSE
          /\ at' \in {"idle", "look"}
      BY <1>c, <3>1 DEF Control
    <3> QED BY <1>b, <2>1, <3>2 DEF Control
  <2> QED BY <2>2, <2>3
<1>13. CASE Close
  <2>1. CASE /\ Alive /\ at = "idle" /\ at' = "closed"
             /\ UNCHANGED <<op, panic>>
    BY <1>b, <2>1 DEF Control
  <2>2. CASE Panic("trim")
    BY <1>7, <2>2
  <2> QED BY <1>13, <2>1, <2>2 DEF Close
<1>14. CASE UNCHANGED vars
  <2>1. Boxes' = Boxes
    BY <1>14 DEF vars, Boxes
  <2> QED BY <1>14, <2>1 DEF vars, Control
<1> QED BY <1>1, <1>2, <1>3, <1>4, <1>6, <1>8, <1>9, <1>10, <1>11, <1>12,
           <1>13, <1>14 DEF Next

-----------------------------------------------------------------------------
(* The count. *)
(* There are finitely many boxes. *)
LEMMA BoxesFinite == IsFiniteSet(Boxes)
<1>1. IsFiniteSet(Pieces)
  BY PiecesNat, FS_Interval DEF Pieces
<1> QED BY <1>1, FS_Subset DEF Boxes

(* A box is put in ... *)
LEMMA AddExact ==
    ASSUME Types, Exact, NEW i \in Pieces, NEW content \in {"right", "wrong"},
           ~ cached(i), box' = [box EXCEPT ![i] = content],
           recent' = Touch(i), usage' = usage + 1
    PROVE  Exact'
<1>1. box \in [Pieces -> {"none", "right", "wrong", "gone"}]
      /\ recent \in Seq(Pieces)
  BY DEF Types
<1>2. Boxes' = Boxes \cup {i} /\ i \notin Boxes
  BY <1>1 DEF Boxes, cached
<1>3. Cardinality(Boxes') = Cardinality(Boxes) + 1
  BY <1>2, BoxesFinite, FS_AddElement
<1>4. Distinct(recent') /\ Members(recent') = Boxes'
  BY <1>1, <1>2, TouchFacts DEF Exact
<1>5. \A j \in Pieces : box'[j] # "gone"
  BY <1>1 DEF Exact
<1> QED BY <1>3, <1>4, <1>5 DEF Exact

(* ... or thrown out. *)
LEMMA RemoveExact ==
    ASSUME Types, Exact, NEW i \in Pieces, cached(i), removeBox(i),
           ~ overlap, Clean'
    PROVE  Exact' /\ recent' = Without(i) /\ usage' = usage - 1
<1>1. box \in [Pieces -> {"none", "right", "wrong", "gone"}]
      /\ recent \in Seq(Pieces)
  BY DEF Types
<1>2. box[i] \notin {"none", "gone"}
  BY DEF cached, Exact
<1>3. ~ Fault("box")
  BY DEF Fault, Clean
<1>4. box' = [box EXCEPT ![i] = "none"] /\ usage' = usage - 1
  BY <1>2, <1>3 DEF removeBox, Updates
<1>5. recent' = Without(i)
  BY <1>1, <1>4 DEF removeBox
<1>6. Boxes' = Boxes \ {i} /\ i \in Boxes
  BY <1>1, <1>4 DEF Boxes, cached
<1>7. Cardinality(Boxes') = Cardinality(Boxes) - 1
  BY <1>6, BoxesFinite, FS_RemoveElement
<1>8. Distinct(recent') /\ Members(recent') = Boxes'
  BY <1>1, <1>5, <1>6, WithoutFacts DEF Exact
<1>9. \A j \in Pieces : box'[j] # "gone"
  BY <1>1, <1>4 DEF Exact
<1> QED BY <1>4, <1>5, <1>7, <1>8, <1>9 DEF Exact

(* A turn of trim's last loop removes the oldest box, the next on its list.*)
LEMMA TrimExact ==
    ASSUME Types, Exact, NEW g \in Goroutines, trimNext(g), ~ overlap, Clean',
           list[g] = recent, deficit[g] = usage - capacity
    PROVE  Exact' /\ list'[g] = recent' /\ deficit'[g] = usage' - capacity
<1>1. /\ recent \in Seq(Pieces) /\ recent # <<>> /\ usage \in Int
      /\ list \in [Goroutines -> Seq(Pieces)] /\ capacity \in Int
      /\ deficit \in [Goroutines -> Int]
      /\ list' = [list EXCEPT ![g] = Tail(recent)]
      /\ deficit' = [deficit EXCEPT ![g] = usage - capacity - 1]
      /\ removeBox(Head(recent))
  BY DEF Types, trimNext
<1>2. Head(recent) \in Members(recent) /\ Head(recent) \in Pieces
  <2>1. 1 \in 1 .. Len(recent) /\ Head(recent) = recent[1]
    BY <1>1
  <2> QED BY <1>1, <2>1 DEF Members
<1>3. cached(Head(recent))
  BY <1>2 DEF Exact, Boxes, cached
<1>4. Exact' /\ recent' = Without(Head(recent)) /\ usage' = usage - 1
  BY <1>1, <1>2, <1>3, RemoveExact
<1>5. recent' = Tail(recent)
  BY <1>1, <1>4, WithoutHead DEF Exact
<1>6. list'[g] = recent'
  BY <1>1, <1>5
<1>7. deficit'[g] = usage' - capacity
  BY <1>1, <1>4
<1> QED BY <1>4, <1>6, <1>7

(* What has happened stays so. *)
LEMMA FaultsGrow == ASSUME [Next]_vars PROVE faults \subseteq faults'
<1> USE DEF Fault
<1>1. ASSUME NEW i, NEW content, addBox(i, content) PROVE faults \subseteq faults'
  BY <1>1 DEF addBox
<1>2. ASSUME NEW i, removeBox(i) PROVE faults \subseteq faults'
  BY <1>2 DEF removeBox
<1>3. ASSUME NEW g, trimNext(g) PROVE faults \subseteq faults'
  BY <1>2, <1>3 DEF trimNext
<1>4. ASSUME NEW i \in Pieces, NEW b \in 0 .. PieceSize - 1,
             NEW n \in 1 .. PieceSize, ReadAt(i, b, n)
      PROVE  faults \subseteq faults'
  BY <1>4 DEF ReadAt, Enter
<1>5. CASE Look \/ HitRam \/ HitHd \/ OutOfRange \/ TrimStart \/ OtherTrimStart
           \/ OtherTrimmed \/ TrimPanics \/ UNCHANGED vars
  BY <1>5 DEF Look, HitRam, HitHd, OutOfRange, TrimStart, OtherTrimStart,
              OtherTrimmed, TrimPanics, vars, trimStart
<1>6. CASE HitFails
  BY <1>2, <1>6 DEF HitFails
<1>7. ASSUME NEW content \in {"right", "wrong"}, Fetch(content)
      PROVE  faults \subseteq faults'
  BY <1>1, <1>7 DEF Fetch
<1>8. ASSUME NEW i \in Pieces, WritePiece(i) PROVE faults \subseteq faults'
  BY <1>1, <1>8 DEF WritePiece
<1>9. CASE FetchFails \/ Trimmed \/ Close
  BY <1>9 DEF FetchFails, Trimmed, Close, Enter
<1>10. CASE Trim \/ OtherTrim
  BY <1>3, <1>10 DEF Trim, OtherTrim
<1>11. ASSUME NEW n \in 0 .. MaxOthers, Rebalance(n) PROVE faults \subseteq faults'
  BY <1>11 DEF Rebalance, Enter
<1> QED BY <1>4, <1>5, <1>6, <1>7, <1>8, <1>9, <1>10, <1>11 DEF Next

(* Whoever enters a cache with another goroutine in it spoils the count. *)
LEMMA CountedNext ==
    ASSUME Types, Control, Counted, [Next]_vars
    PROVE  Counted'
<1> DEFINE Goal == /\ Exact'
                   /\ at' \in {"idle", "closed"} \/ rat' = "idle"
                   /\ at' = "hit" => cached(op.piece)'
                   /\ at' = "fetch" => ~ cached(op.piece)'
                   /\ at' = "evict" => /\ list'["session"] = recent'
                                       /\ deficit'["session"] = usage' - capacity'
                   /\ rat' = "evict" => /\ list'["other"] = recent'
                                        /\ deficit'["other"] = usage' - capacity'
                   /\ rat' = "idle" /\ at' \notin {"trim", "evict"} =>
                         usage' <= capacity'
<1> SUFFICES ASSUME Clean', Alive' PROVE Goal
  BY DEF Counted
<1> USE DEF Shared, session
<1>c. Clean
  BY FaultsGrow DEF Clean
<1>f. ~ Fault("box") /\ ~ Fault("race")
  BY DEF Fault, Clean
<1>p. ASSUME NEW place \in {"trim", "range"}, Panic(place) PROVE FALSE
  BY <1>p DEF Panic, Alive
<1>t. /\ usage \in Int /\ capacity \in Nat /\ at \in Places
      /\ rat \in {"idle", "trim", "evict"}
      /\ list \in [Goroutines -> Seq(Pieces)]
      /\ deficit \in [Goroutines -> Int]
      /\ recent \in Seq(Pieces)
  BY DEF Types
<1>k. ASSUME Alive
      PROVE  /\ Exact
             /\ at \in {"idle", "closed"} \/ rat = "idle"
             /\ at = "hit" => cached(op.piece)
             /\ at = "fetch" => ~ cached(op.piece)
             /\ at = "evict" => /\ list["session"] = recent
                                /\ deficit["session"] = usage - capacity
             /\ rat = "evict" => /\ list["other"] = recent
                                 /\ deficit["other"] = usage - capacity
             /\ rat = "idle" /\ at \notin {"trim", "evict"} => usage <= capacity
  BY <1>c, <1>k DEF Counted
<1>e. ASSUME UNCHANGED <<box, recent, usage>>, Alive PROVE Exact'
  <2>1. Exact
    BY <1>e, <1>k
  <2>2. Boxes' = Boxes
    BY <1>e DEF Boxes
  <2> QED BY <1>e, <2>1, <2>2 DEF Exact
<1> HIDE DEF Goal
<1>1. ASSUME NEW i \in Pieces, NEW b \in 0 .. PieceSize - 1,
             NEW n \in 1 .. PieceSize, ReadAt(i, b, n)
      PROVE  Goal
  <2>1. Alive /\ at = "idle" /\ rat = "idle" /\ Exact'
    BY <1>1, <1>e, <1>f DEF ReadAt, Enter
  <2> QED BY <1>1, <1>k, <2>1 DEF ReadAt, Goal
<1>2. CASE Look
  <2>1. Alive /\ at = "look" /\ Exact'
    BY <1>2, <1>e DEF Look
  <2>2. rat = "idle"
    BY <1>k, <2>1
  <2>3. (cached(op.piece) <=> cached(op.piece)')
    BY <1>2 DEF Look, cached
  <2> QED BY <1>2, <1>k, <2>1, <2>2, <2>3 DEF Look, Goal
<1>3. CASE HitRam \/ HitHd
  <2>1. /\ Alive /\ at = "hit" /\ op.piece \in Pieces
        /\ UNCHANGED <<box, usage, rat, capacity>>
        /\ at' \in {"idle", "look"}
    BY <1>3 DEF HitRam, HitHd, Control, Continue
  <2>2. Exact /\ rat = "idle" /\ cached(op.piece) /\ usage <= capacity
    BY <1>k, <2>1
  <2>3. recent' = Touch(op.piece)
    BY <1>3, <2>2 DEF HitRam, HitHd
  <2>4. Boxes' = Boxes /\ op.piece \in Boxes
    BY <2>1, <2>2 DEF Boxes, cached
  <2>5. Distinct(recent') /\ Members(recent') = Boxes'
    <3>1. /\ recent \in Seq(Pieces) /\ Distinct(recent)
          /\ Members(recent) = Boxes
      BY <1>t, <2>2 DEF Exact
    <3>2. /\ Distinct(Touch(op.piece))
          /\ Members(Touch(op.piece)) = Members(recent) \cup {op.piece}
      BY <2>1, <3>1, TouchFacts
    <3> QED BY <2>3, <2>4, <3>1, <3>2
  <2>6. Exact'
    BY <2>1, <2>2, <2>4, <2>5 DEF Exact
  <2> QED BY <2>1, <2>2, <2>6 DEF Goal
<1>4. CASE HitFails
  <2>1. Alive /\ at = "hit" /\ op.piece \in Pieces
    BY <1>4 DEF HitFails, Control
  <2>2. box[op.piece] \notin {"none", "gone"}
    BY <1>k, <2>1 DEF Exact, cached
  <2> QED BY <1>4, <1>f, <2>2 DEF HitFails
<1>5. ASSUME NEW content \in {"right", "wrong"}, at = "fetch", at' = "trim",
             Alive, rat' = rat,
             \/ addBox(op.piece, content)
             \/ /\ box' = [box EXCEPT ![op.piece] = content]
                /\ recent' = Touch(op.piece) /\ usage' \in Updates(usage + 1)
      PROVE  Goal
  <2>1. op.piece \in Pieces /\ Exact /\ rat = "idle" /\ ~ cached(op.piece)
    BY <1>5, <1>k DEF Control
  <2>2. ~ overlap
    BY <2>1 DEF overlap
  <2>3. /\ box' = [box EXCEPT ![op.piece] = content]
        /\ recent' = Touch(op.piece) /\ usage' = usage + 1
    BY <1>5, <1>f, <2>2 DEF addBox, Updates
  <2>4. Exact'
    BY <2>1, <2>3, AddExact
  <2> QED BY <1>5, <2>1, <2>4 DEF Goal
<1>6. CASE FetchFails \/ \E content \in {"right", "wrong"} : Fetch(content)
  BY <1>5, <1>6 DEF FetchFails, Fetch
<1>7. CASE OutOfRange \/ TrimPanics
  BY <1>7, <1>p DEF OutOfRange, TrimPanics
<1>8. ASSUME NEW i \in Pieces, WritePiece(i) PROVE Goal
  <2>1. CASE cached(i)
    <3>1. /\ Alive /\ at = "idle" /\ Exact' /\ at' = at /\ rat' = rat
          /\ UNCHANGED <<recent, usage, capacity, list, deficit>>
      BY <1>8, <1>e, <2>1 DEF WritePiece
    <3> QED BY <1>k, <3>1 DEF Goal
  <2>2. CASE ~ cached(i)
    <3>1. /\ Alive /\ at = "idle" /\ rat = "idle" /\ addBox(i, "right")
          /\ at' = "trim" /\ rat' = rat
      BY <1>8, <1>f, <2>2 DEF WritePiece
    <3>2. Exact /\ ~ overlap
      BY <1>k, <3>1 DEF overlap
    <3>3. /\ box' = [box EXCEPT ![i] = "right"] /\ recent' = Touch(i)
          /\ usage' = usage + 1
      BY <1>f, <3>1, <3>2 DEF addBox, Updates
    <3>4. Exact'
      BY <2>2, <3>2, <3>3, AddExact
    <3> QED BY <3>1, <3>4 DEF Goal
  <2> QED BY <2>1, <2>2
<1>9. CASE TrimStart
  <2>1. /\ Alive /\ at = "trim" /\ at' = "evict" /\ rat' = rat
        /\ UNCHANGED <<box, recent, usage, capacity>>
        /\ list' = [list EXCEPT !["session"] = recent]
        /\ deficit' = [deficit EXCEPT !["session"] = usage - capacity]
    BY <1>9 DEF TrimStart, trimStart
  <2>2. Exact' /\ rat = "idle"
    BY <1>e, <1>k, <2>1
  <2>3. list'["session"] = recent /\ deficit'["session"] = usage - capacity
    BY <1>t, <2>1 DEF Goroutines
  <2> QED BY <2>1, <2>2, <2>3 DEF Goal
<1>10. CASE Trim
  <2>1. /\ Alive /\ at = "evict" /\ trimNext("session")
        /\ UNCHANGED <<at, rat, capacity>>
    BY <1>10 DEF Trim
  <2>2. /\ Exact /\ rat = "idle" /\ list["session"] = recent
        /\ deficit["session"] = usage - capacity
    BY <1>k, <2>1
  <2>3. ~ overlap /\ "session" \in Goroutines
    BY <2>2 DEF overlap, Goroutines
  <2>4. /\ Exact' /\ list'["session"] = recent'
        /\ deficit'["session"] = usage' - capacity
    BY <2>1, <2>2, <2>3, TrimExact
  <2> QED BY <2>1, <2>2, <2>4 DEF Goal
<1>11. CASE Trimmed
  <2>1. /\ Alive /\ UNCHANGED <<box, recent, usage, rat, capacity>>
        /\ \/ at = "trim" /\ usage <= capacity
           \/ at = "evict" /\ deficit["session"] = 0
        /\ at' \in {"idle", "look"}
    BY <1>11 DEF Trimmed, Continue
  <2>2. Exact' /\ rat = "idle" /\ usage <= capacity
    BY <1>e, <1>k, <1>t, <2>1
  <2> QED BY <2>1, <2>2 DEF Goal
<1>12. CASE Close
  <2>1. /\ Alive /\ at = "idle" /\ at' = "closed" /\ Forget
        /\ Enter(rat # "idle") /\ UNCHANGED <<rat, capacity>>
    BY <1>12, <1>p DEF Close
  <2>2. rat = "idle"
    BY <1>f, <2>1 DEF Enter
  <2>3. box' = [i \in Pieces |-> "none"] /\ recent' = <<>> /\ usage' = 0
    BY <2>1 DEF Forget
  <2>4. Boxes' = {}
    BY <2>3 DEF Boxes
  <2>5. Distinct(recent') /\ Members(recent') = {}
    BY <2>3 DEF Distinct, Members
  <2>6. Exact'
    BY <2>3, <2>4, <2>5, FS_EmptySet DEF Exact
  <2> QED BY <1>t, <2>1, <2>2, <2>3, <2>6 DEF Goal
<1>13. ASSUME NEW n \in 0 .. MaxOthers, Rebalance(n) PROVE Goal
  <2>1. Alive /\ at = "idle" /\ at' = at /\ rat' = "trim" /\ Exact'
    BY <1>13, <1>e, <1>f DEF Rebalance, Enter
  <2> QED BY <2>1 DEF Goal
<1>14. CASE OtherTrimStart
  <2>1. /\ Alive /\ rat = "trim" /\ rat' = "evict" /\ at' = at
        /\ UNCHANGED <<box, recent, usage, capacity>>
        /\ list' = [list EXCEPT !["other"] = recent]
        /\ deficit' = [deficit EXCEPT !["other"] = usage - capacity]
    BY <1>14 DEF OtherTrimStart, trimStart
  <2>2. Exact' /\ at \in {"idle", "closed"}
    BY <1>e, <1>k, <2>1
  <2>3. list'["other"] = recent /\ deficit'["other"] = usage - capacity
    BY <1>t, <2>1 DEF Goroutines
  <2> QED BY <2>1, <2>2, <2>3 DEF Goal
<1>15. CASE OtherTrim
  <2>1. /\ Alive /\ rat = "evict" /\ trimNext("other")
        /\ UNCHANGED <<at, rat, capacity>>
    BY <1>15 DEF OtherTrim
  <2>2. /\ Exact /\ at \in {"idle", "closed"} /\ list["other"] = recent
        /\ deficit["other"] = usage - capacity
    BY <1>k, <2>1
  <2>3. ~ overlap /\ "other" \in Goroutines
    BY <2>2 DEF overlap, Goroutines
  <2>4. /\ Exact' /\ list'["other"] = recent'
        /\ deficit'["other"] = usage' - capacity
    BY <2>1, <2>2, <2>3, TrimExact
  <2> QED BY <2>1, <2>2, <2>4 DEF Goal
<1>16. CASE OtherTrimmed
  <2>1. /\ Alive /\ UNCHANGED <<box, recent, usage, at, capacity, op>>
        /\ \/ rat = "trim" /\ usage <= capacity
           \/ rat = "evict" /\ deficit["other"] = 0
        /\ rat' = "idle"
    BY <1>16 DEF OtherTrimmed
  <2>2. Exact' /\ at \in {"idle", "closed"} /\ usage <= capacity
    BY <1>e, <1>k, <1>t, <2>1
  <2> QED BY <2>1, <2>2 DEF Goal
<1>17. CASE UNCHANGED vars
  <2>1. /\ Alive /\ UNCHANGED <<box, recent, usage, at, rat, capacity, op, list,
                                deficit>>
    BY <1>17 DEF vars, Alive
  <2>2. Exact' /\ (cached(op.piece)' <=> cached(op.piece))
    BY <1>e, <2>1 DEF cached
  <2> QED BY <1>k, <2>1, <2>2 DEF Goal
<1> QED
  BY <1>1, <1>2, <1>3, <1>4, <1>6, <1>7, <1>8, <1>9, <1>10, <1>11, <1>12,
     <1>13, <1>14, <1>15, <1>16, <1>17 DEF Next

-----------------------------------------------------------------------------
(* The data. *)

(* Trust, once lost, does not come back. *)
LEMMA TrustShrinks == ASSUME [Next]_vars, Trusted' PROVE Trusted
<1> USE DEF Shared, session
<1>1. kind' = kind
  BY DEF Next, vars, ReadAt, Look, HitRam, HitHd, HitFails, FetchFails,
         OutOfRange, Fetch, WritePiece, TrimStart, Trim, Trimmed, Close,
         Rebalance, OtherTrimStart, OtherTrim, OtherTrimmed, TrimPanics, Panic
<1>2. faults \subseteq faults'
  BY FaultsGrow
<1> QED BY <1>1, <1>2 DEF Trusted

(* In a RamCache that can be trusted no box vanishes under a reader. *)
LEMMA RamHit ==
    ASSUME Types, Counted, Alive, at = "hit", kind = "ram",
           "race" \notin faults
    PROVE  cached(op.piece)
BY DEF Types, Counted, Clean

(* After a first box the range that was asked for, or the torrent, ends.   *)
LEMMA OneBox ==
    ASSUME Types, op.piece \in Pieces, NEW content,
           op.off \in Nat, op.left \in Nat, op.off + op.left <= PieceSize
    PROVE  /\ Copied(Copy, content).piece = NumPieces
                 \/ Copied(Copy, content).left = 0
           /\ op.off > Size(op.piece) =>
                 Copied(0, content).piece = NumPieces
<1>1. /\ op.piece \in Int /\ NumPieces \in Int /\ PieceSize \in Int
      /\ LastSize \in Int
  BY PiecesNat, CacheAssumption DEF Pieces
<1>2. CASE op.piece = NumPieces - 1
  <2>1. op.piece + 1 = NumPieces
    BY <1>1, <1>2
  <2>2. Copied(Copy, content).piece = NumPieces
    BY <2>1, OpTypes
  <2>3. Copied(0, content).piece = NumPieces
    BY <2>1, OpTypes
  <2> QED BY <2>2, <2>3
<1>3. CASE op.piece # NumPieces - 1
  <2>1. Size(op.piece) = PieceSize
    BY <1>3 DEF Size
  <2>2. Copy = op.left /\ ~ (op.off > Size(op.piece))
    BY <1>1, <2>1 DEF Copy
  <2>3. Copied(Copy, content).left = op.left - Copy
    BY <2>2, OpTypes
  <2> QED BY <2>2, <2>3
<1> QED BY <1>2, <1>3

(* Where a read that can be trusted is when it looks at a piece. *)
LEMMA AtPiece ==
    ASSUME Types, Control, Reading, Trusted, at \in {"hit", "fetch"}
    PROVE  /\ op.piece \in Pieces /\ ~ op.write /\ op.piece \in held
           /\ op.off \in Nat /\ op.left \in Nat
           /\ op.off + op.left <= PieceSize
<1>1. op.piece \in Pieces /\ ~ op.write
  BY DEF Control
<1>2. op.piece # NumPieces
  BY <1>1, PiecesNat DEF Pieces
<1> QED BY <1>1, <1>2 DEF Reading

(* Every step leaves a read within the pieces that we have. *)
LEMMA ReadingNext ==
    ASSUME Types, Control, Counted, Reading, [Next]_vars
    PROVE  Reading'
<1> SUFFICES ASSUME Trusted' PROVE Reading'
  BY DEF Reading
<1> USE DEF Shared, session
<1>t. Trusted
  BY TrustShrinks
<1>1. ASSUME NEW i \in Pieces, NEW b \in 0 .. PieceSize - 1,
             NEW n \in 1 .. PieceSize, b + n <= PieceSize, ReadAt(i, b, n)
      PROVE  Reading'
  <2>1. /\ op' = [write |-> FALSE, piece |-> i, off |-> b, left |-> n,
                  data |-> "right"]
        /\ i \in held' /\ at' = "look"
    BY <1>1 DEF ReadAt
  <2>2. b \in Nat /\ n \in Nat /\ n # 0
    BY CacheAssumption
  <2> QED BY <1>1, <2>1, <2>2 DEF Reading
<1>2. CASE Look \/ HitFails
  <2>1. /\ op' = op /\ held' = held /\ at \in {"look", "hit"}
    BY <1>2 DEF Look, HitFails
  <2> QED BY <1>t, <2>1 DEF Reading
<1>3. ASSUME NEW o, Continue(o), o.piece = NumPieces \/ o.left = 0
      PROVE  Reading'
  <2>1. CASE o.left = 0
    BY <1>3, <2>1 DEF Continue, Reading
  <2>2. CASE o.left # 0
    BY <1>3, <2>2 DEF Continue, Reading
  <2> QED BY <2>1, <2>2
<1>4. CASE HitRam
  <2>1. cached(op.piece)
    BY <1>4, <1>t, RamHit DEF HitRam, Trusted
  <2>2. Continue(Copied(Copy, box[op.piece]))
    BY <1>4, <2>1 DEF HitRam
  <2>3. at = "hit"
    BY <1>4 DEF HitRam
  <2>4. \/ Copied(Copy, box[op.piece]).piece = NumPieces
        \/ Copied(Copy, box[op.piece]).left = 0
    BY <1>t, <2>3, AtPiece, OneBox
  <2> QED BY <1>3, <2>2, <2>4
<1>5. CASE HitHd
  <2>1. at = "hit"
    BY <1>5 DEF HitHd
  <2>2. /\ op.piece \in Pieces /\ op.off \in Nat /\ op.left \in Nat
        /\ op.off + op.left <= PieceSize
    BY <1>t, <2>1, AtPiece
  <2>3. CASE op.off > Size(op.piece)
    <3>1. Continue(Copied(0, box[op.piece]))
      BY <1>5, <2>3 DEF HitHd
    <3>2. Copied(0, box[op.piece]).piece = NumPieces
      BY <2>2, <2>3, OneBox
    <3> QED BY <1>3, <3>1, <3>2
  <2>4. CASE ~ (op.off > Size(op.piece))
    <3>1. Continue(Copied(Copy, box[op.piece]))
      BY <1>5, <2>4 DEF HitHd
    <3>2. \/ Copied(Copy, box[op.piece]).piece = NumPieces
          \/ Copied(Copy, box[op.piece]).left = 0
      BY <2>2, OneBox
    <3> QED BY <1>3, <3>1, <3>2
  <2> QED BY <2>3, <2>4
<1>6. ASSUME NEW content, at = "fetch", at' = "trim",
             op' = Copied(Copy, content)
      PROVE  Reading'
  <2>1. op'.piece = NumPieces \/ op'.left = 0
    BY <1>t, <1>6, AtPiece, OneBox
  <2> QED BY <1>6, <2>1 DEF Reading
<1>7. CASE FetchFails \/ \E content \in {"right", "wrong"} : Fetch(content)
  BY <1>6, <1>7 DEF FetchFails, Fetch
<1>8. CASE \/ OutOfRange \/ TrimPanics \/ TrimStart \/ Trim \/ OtherTrimStart
           \/ OtherTrim \/ OtherTrimmed \/ UNCHANGED vars
           \/ \E n \in 0 .. MaxOthers : Rebalance(n)
  <2>1. /\ op' = op /\ held' = held
        /\ at' = at \/ (at = "trim" /\ at' = "evict")
    BY <1>8 DEF OutOfRange, TrimPanics, TrimStart, Trim, OtherTrimStart,
                OtherTrim, OtherTrimmed, Rebalance, Panic, vars
  <2> QED BY <1>t, <2>1 DEF Reading
<1>9. ASSUME NEW i \in Pieces, WritePiece(i) PROVE Reading'
  <2>1. at' = "idle" \/ op' = [NoOp EXCEPT !.write = TRUE, !.piece = i]
    BY <1>9 DEF WritePiece
  <2>2. [NoOp EXCEPT !.write = TRUE, !.piece = i].write
    BY DEF NoOp
  <2>3. CASE at' = "idle"
    BY <2>3 DEF Reading
  <2>4. CASE op' = [NoOp EXCEPT !.write = TRUE, !.piece = i]
    <3>1. op'.write
      BY <2>2, <2>4
    <3> QED BY <3>1 DEF Reading
  <2> QED BY <2>1, <2>3, <2>4
<1>10. CASE Trimmed
  <2>1. CASE op.write
    BY <1>10, <2>1 DEF Trimmed, Reading
  <2>2. CASE ~ op.write
    <3>1. Continue(op) /\ held' = held /\ at \in {"trim", "evict"}
      BY <1>10, <2>2 DEF Trimmed
    <3>2. CASE op.left = 0
      BY <3>1, <3>2 DEF Continue, Reading
    <3>3. CASE op.left # 0
      <4>1. op' = op /\ at' = "look"
        BY <3>1, <3>3 DEF Continue
      <4> QED BY <1>t, <2>2, <3>1, <3>3, <4>1 DEF Reading
    <3> QED BY <3>2, <3>3
  <2> QED BY <2>1, <2>2
<1>11. CASE Close
  <2>1. at' \in {"idle", "closed"}
    BY <1>11 DEF Close, Panic
  <2> QED BY <2>1 DEF Reading
<1> QED BY <1>1, <1>2, <1>4, <1>5, <1>7, <1>8, <1>9, <1>10, <1>11 DEF Next

(* Every step leaves trusted data right, in the boxes, in the operation   *)
(* and in the files.                                                       *)
LEMMA DataNext ==
    ASSUME Types, Control, Counted, Reading, Data, [Next]_vars
    PROVE  Data'
<1> DEFINE Goal == /\ op'.data = "right" /\ result' = "right"
                   /\ held' \subseteq disk'
                   /\ \A i \in Pieces : box'[i] # "wrong"
                   /\ \A i \in Pieces : box'[i] # "none" =>
                         i \in held' \/ (op'.write /\ op'.piece = i)
<1> SUFFICES ASSUME Trusted' PROVE Goal
  BY DEF Data, cached
<1> HIDE DEF Goal
<1> USE DEF Shared, session
<1>t. Trusted
  BY TrustShrinks
<1>d. /\ op.data = "right" /\ result = "right" /\ held \subseteq disk
      /\ \A i \in Pieces : box[i] # "wrong"
      /\ \A i \in Pieces : box[i] # "none" =>
            i \in held \/ (op.write /\ op.piece = i)
      /\ box \in [Pieces -> {"none", "right", "wrong", "gone"}]
  BY <1>t DEF Data, cached, Types
<1>n. /\ NoOp.data = "right" /\ ~ NoOp.write
      /\ \A i : /\ [NoOp EXCEPT !.write = TRUE, !.piece = i].data = "right"
                /\ [NoOp EXCEPT !.write = TRUE, !.piece = i].write
                /\ [NoOp EXCEPT !.write = TRUE, !.piece = i].piece = i
  BY DEF NoOp
<1>f. ~ Fault("store")
  BY DEF Fault, Trusted
<1>r. ASSUME NEW i \in Pieces, removeBox(i)
      PROVE  /\ \A j \in Pieces : box'[j] # "wrong"
             /\ \A j \in Pieces : box'[j] # "none" => box[j] # "none"
  BY <1>d, <1>r, RemoveTypes
<1>1. ASSUME NEW i \in Pieces, NEW b \in 0 .. PieceSize - 1,
             NEW n \in 1 .. PieceSize, ReadAt(i, b, n)
      PROVE  Goal
  <2>1. /\ op'.data = "right" /\ ~ op.write /\ result' = "right"
        /\ UNCHANGED <<held, disk, box>>
    BY <1>1 DEF ReadAt, Control
  <2> QED BY <1>d, <2>1 DEF Goal
<1>2. CASE \/ Look \/ TrimStart \/ OtherTrimStart \/ OtherTrimmed
           \/ UNCHANGED vars \/ \E n \in 0 .. MaxOthers : Rebalance(n)
  <2>1. UNCHANGED <<op, result, held, disk, box>>
    BY <1>2 DEF Look, TrimStart, trimStart, OtherTrimStart, OtherTrimmed,
                vars, Rebalance
  <2> QED BY <1>d, <2>1 DEF Goal
<1>3. CASE Trim \/ OtherTrim
  <2>1. PICK g \in Goroutines : trimNext(g)
    BY <1>3 DEF Trim, OtherTrim, Goroutines
  <2>2. Head(list[g]) \in Pieces /\ removeBox(Head(list[g]))
    BY <2>1, TrimNextTypes
  <2>3. UNCHANGED <<op, result, held, disk>>
    BY <1>3 DEF Trim, OtherTrim
  <2> QED BY <1>d, <1>r, <2>2, <2>3 DEF Goal
<1>4. CASE HitFails
  <2>1. op.piece \in Pieces
    BY <1>4 DEF HitFails, Control
  <2>2. /\ \A j \in Pieces : box'[j] # "wrong"
        /\ \A j \in Pieces : box'[j] # "none" => box[j] # "none"
    <3>1. CASE removeBox(op.piece)
      BY <1>r, <2>1, <3>1
    <3>2. CASE box' = [box EXCEPT ![op.piece] = "none"]
      BY <1>d, <3>2
    <3> QED BY <1>4, <3>1, <3>2 DEF HitFails
  <2>3. UNCHANGED <<op, result, held, disk>>
    BY <1>4 DEF HitFails
  <2> QED BY <1>d, <2>2, <2>3 DEF Goal
<1>5. ASSUME NEW o, Continue(o), o.data = "right", ~ o.write,
             UNCHANGED <<held, disk, box>>, ~ op.write
      PROVE  Goal
  <2>1. op'.data = "right" /\ result' = "right"
    BY <1>5, <1>d, <1>n DEF Continue
  <2> QED BY <1>5, <1>d, <2>1 DEF Goal
<1>6. CASE HitRam \/ HitHd
  <2>1. /\ op.piece \in Pieces /\ ~ op.write /\ at = "hit" /\ Alive
        /\ UNCHANGED <<held, disk, box>>
    BY <1>6 DEF HitRam, HitHd, Control
  <2>2. box[op.piece] = "right"
    <3>1. CASE HitRam
      <4>1. cached(op.piece)
        BY <1>t, <2>1, <3>1, RamHit DEF HitRam, Trusted
      <4>2. box[op.piece] # "gone"
        BY <2>1, <3>1 DEF HitRam, Types
      <4> QED BY <1>d, <2>1, <4>1, <4>2 DEF cached
    <3>2. CASE HitHd
      BY <1>d, <2>1, <3>2 DEF HitHd
    <3> QED BY <1>6, <3>1, <3>2
  <2>3. \E k \in {0, Copy} : Continue(Copied(k, "right"))
    <3>1. CASE HitRam
      BY <2>2, <3>1 DEF HitRam, cached
    <3>2. CASE HitHd
      BY <2>2, <3>2 DEF HitHd
    <3> QED BY <1>6, <3>1, <3>2
  <2>4. ASSUME NEW k \in {0, Copy}
        PROVE  Copied(k, "right").data = "right" /\ ~ Copied(k, "right").write
    <3>1. Copy \in Int
      BY <2>1, OpTypes
    <3>2. k \in Int
      BY <3>1
    <3> QED BY <1>d, <2>1, <3>2, OpTypes
  <2> QED BY <1>5, <2>1, <2>3, <2>4
<1>7. CASE FetchFails
  BY <1>7, <1>f DEF FetchFails
<1>8. ASSUME NEW content \in {"right", "wrong"}, Fetch(content) PROVE Goal
  <2>1. /\ op.piece \in Pieces /\ ~ op.write /\ op.piece \in held
    BY <1>8, <1>t, AtPiece DEF Fetch
  <2>2. content = "right"
    BY <1>8, <1>d, <2>1 DEF Fetch
  <2>3. op'.data = "right"
    <3>1. op' = Copied(Copy, "right") /\ Copy \in Int
      BY <1>8, <2>1, <2>2, OpTypes DEF Fetch
    <3> QED BY <1>d, <2>1, <3>1, OpTypes
  <2>4. box' = [box EXCEPT ![op.piece] = "right"] \/ box' = box
    BY <1>8, <2>2 DEF Fetch, addBox
  <2>5. /\ \A i \in Pieces : box'[i] # "wrong"
        /\ \A i \in Pieces : box'[i] # "none" => box[i] # "none" \/ i = op.piece
    BY <1>d, <2>4
  <2>6. UNCHANGED <<result, held, disk>>
    BY <1>8 DEF Fetch
  <2> QED BY <1>d, <2>1, <2>3, <2>5, <2>6 DEF Goal
<1>9. ASSUME NEW place, Panic(place) PROVE Goal
  <2>1. /\ UNCHANGED <<op, result, held, disk>>
        /\ box' = [i \in Pieces |-> "none"]
    BY <1>9 DEF Panic, Forget
  <2> QED BY <1>d, <2>1 DEF Goal
<1>10. CASE OutOfRange \/ TrimPanics
  BY <1>9, <1>10 DEF OutOfRange, TrimPanics
<1>11. ASSUME NEW i \in Pieces, WritePiece(i) PROVE Goal
  <2>1. ~ op.write /\ i \notin held
    BY <1>11 DEF WritePiece, Control
  <2>2. ~ cached(i)
    BY <1>d, <2>1 DEF cached
  <2>3. /\ op' = [NoOp EXCEPT !.write = TRUE, !.piece = i]
        /\ UNCHANGED <<result, held, disk>>
        /\ box' = [box EXCEPT ![i] = "right"] \/ box' = box
    BY <1>11, <2>2 DEF WritePiece, addBox
  <2>4. op'.data = "right" /\ op'.write /\ op'.piece = i
    BY <1>n, <2>3
  <2>5. /\ \A j \in Pieces : box'[j] # "wrong"
        /\ \A j \in Pieces : box'[j] # "none" => box[j] # "none" \/ j = i
    BY <1>d, <2>3
  <2> QED BY <1>d, <2>1, <2>3, <2>4, <2>5 DEF Goal
<1>12. CASE Trimmed
  <2>1. CASE op.write
    <3>1. /\ disk' = disk \cup {op.piece} /\ held' = held \cup {op.piece}
          /\ op' = NoOp /\ UNCHANGED <<result, box>>
      BY <1>12, <1>f, <2>1 DEF Trimmed
    <3> QED BY <1>d, <1>n, <3>1 DEF Goal
  <2>2. CASE ~ op.write
    <3>1. Continue(op) /\ UNCHANGED <<held, disk, box>>
      BY <1>12, <2>2 DEF Trimmed
    <3> QED BY <1>5, <1>d, <2>2, <3>1
  <2> QED BY <2>1, <2>2
<1>13. CASE Close
  <2>1. CASE Forget /\ UNCHANGED <<held, disk, op, result>>
    <3>1. box' = [i \in Pieces |-> "none"]
      BY <2>1 DEF Forget
    <3> QED BY <1>d, <2>1, <3>1 DEF Goal
  <2>2. CASE Panic("trim")
    BY <1>9, <2>2
  <2> QED BY <1>13, <2>1, <2>2 DEF Close
<1> QED BY <1>1, <1>2, <1>3, <1>4, <1>6, <1>7, <1>8, <1>10, <1>11, <1>12,
           <1>13 DEF Next

-----------------------------------------------------------------------------
(* An index goes out of range for the reasons given only. *)
LEMMA PanicsNext ==
    ASSUME Types, Control, Counted, PanicsExplained, [Next]_vars
    PROVE  PanicsExplained'
<1> USE DEF Shared, session
<1>1. CASE Alive /\ panic' = panic
  BY <1>1 DEF Alive, PanicsExplained
<1>2. CASE UNCHANGED vars
  BY <1>2 DEF vars, PanicsExplained, Size
<1>3. CASE OutOfRange
  <2>1. panic' = "range" /\ UNCHANGED <<kind, op, faults>> /\ Alive
    BY <1>3 DEF OutOfRange, Panic
  <2>2. \/ kind = "ram" /\ "race" \in faults
        \/ op.piece = NumPieces
        \/ op.off > Size(op.piece)
    <3>1. CASE at = "look" /\ op.piece \notin Pieces
      <4>1. op.piece \in Nat /\ op.piece <= NumPieces /\ NumPieces \in Nat
        BY PiecesNat DEF Control, Types, Ops
      <4> QED BY <3>1, <4>1 DEF Pieces
    <3>2. CASE /\ at = "hit" /\ kind = "ram"
               /\ op.off > IF cached(op.piece) THEN Size(op.piece) ELSE 0
      BY <2>1, <3>2, RamHit
    <3>3. CASE at = "fetch" /\ op.off > Size(op.piece)
      BY <3>3
    <3> QED BY <1>3, <3>1, <3>2, <3>3 DEF OutOfRange
  <2> QED BY <2>1, <2>2 DEF PanicsExplained, Size
<1>4. CASE TrimPanics
  <2>1. /\ panic' = "trim" /\ faults' = faults /\ Alive
        /\ \/ at = "evict" /\ deficit["session"] > 0 /\ list["session"] = <<>>
           \/ rat = "evict" /\ deficit["other"] > 0 /\ list["other"] = <<>>
    BY <1>4 DEF TrimPanics, Panic
  <2>2. ASSUME Clean PROVE FALSE
    <3>1. recent = <<>> /\ usage - capacity > 0 /\ Exact
      BY <2>1, <2>2 DEF Counted
    <3>2. Boxes = {}
      BY <3>1 DEF Exact, Members
    <3>3. usage = 0
      BY <3>1, <3>2, FS_EmptySet DEF Exact
    <3> QED BY <3>1, <3>3 DEF Types
  <2> QED BY <2>1, <2>2 DEF PanicsExplained, Clean
<1>5. CASE Close
  <2>1. CASE Alive /\ panic' = panic
    BY <1>1, <2>1
  <2>2. CASE Panic("trim") /\ Fault("race")
    BY <2>2 DEF Panic, Fault, PanicsExplained
  <2> QED BY <1>5, <2>1, <2>2 DEF Close
<1>6. CASE \/ \E i \in Pieces, b \in 0 .. PieceSize - 1, n \in 1 .. PieceSize :
                 ReadAt(i, b, n)
           \/ Look \/ HitRam \/ HitHd \/ HitFails \/ FetchFails
           \/ \E content \in {"right", "wrong"} : Fetch(content)
           \/ \E i \in Pieces : WritePiece(i)
           \/ TrimStart \/ Trim \/ Trimmed
           \/ \E n \in 0 .. MaxOthers : Rebalance(n)
           \/ OtherTrimStart \/ OtherTrim \/ OtherTrimmed
  BY <1>1, <1>6 DEF ReadAt, Look, HitRam, HitHd, HitFails, FetchFails, Fetch,
       WritePiece, TrimStart, Trim, Trimmed, Rebalance, OtherTrimStart,
       OtherTrim, OtherTrimmed, trimStart, trimNext
<1> QED BY <1>2, <1>3, <1>4, <1>5, <1>6 DEF Next

-----------------------------------------------------------------------------
(* The invariant holds in an empty cache. *)
LEMMA InitOK == Init => IInv
<1> SUFFICES ASSUME Init PROVE IInv
  OBVIOUS
<1>1. /\ kind \in {"ram", "hd"} /\ held \subseteq Pieces /\ disk = held
      /\ box = [i \in Pieces |-> "none"] /\ recent = <<>> /\ usage = 0
      /\ others = 0 /\ capacity = Share(1) /\ at = "idle" /\ op = NoOp
      /\ list = [g \in Goroutines |-> <<>>]
      /\ deficit = [g \in Goroutines |-> 0]
      /\ rat = "idle" /\ result = "right" /\ panic = "no" /\ faults = {}
  BY DEF Init
<1>2. Share(1) \in Nat
  BY CacheAssumption DEF Share
<1>3. NoOp \in Ops /\ ~ NoOp.write /\ NoOp.piece = 0 /\ NoOp.data = "right"
  BY DEF NoOp, Ops
<1>4. Boxes = {}
  BY <1>1 DEF Boxes
<1>5. Types
  BY <1>1, <1>2, <1>3 DEF Types, Places
<1>6. Control
  BY <1>1, <1>3, <1>4, PiecesNat DEF Control
<1>7. Counted
  <2>1. Distinct(recent) /\ Members(recent) = {}
    BY <1>1 DEF Distinct, Members
  <2> QED BY <1>1, <1>2, <1>4, <2>1, FS_EmptySet DEF Counted, Exact
<1>8. Reading /\ PanicsExplained
  BY <1>1 DEF Reading, PanicsExplained
<1>9. Data
  BY <1>1, <1>3 DEF Data, cached
<1> QED BY <1>5, <1>6, <1>7, <1>8, <1>9 DEF IInv

(* The inductive invariant holds: the operation of the session is well     *)
(* formed, the count and the order of the boxes are exact while nobody     *)
(* races, and trusted data is right (RamCache and HdCache as a whole).     *)
THEOREM CacheInvariant == Spec => []IInv
<1>1. IInv /\ [Next]_vars => IInv'
  BY TypesNext, ControlNext, CountedNext, ReadingNext, DataNext, PanicsNext
     DEF IInv
<1> QED BY InitOK, <1>1, PTL DEF Spec

(* ReadAt returns what the file store holds, whatever was cached, thrown   *)
(* out or resized in between.                                              *)
THEOREM ReadsMatchHolds == Spec => []ReadsMatch
<1>1. IInv => ReadsMatch
  BY DEF IInv, Data, ReadsMatch
<1> QED BY CacheInvariant, <1>1, PTL

(* WritePiece has put every piece that the session claims into the files.  *)
THEOREM WrittenThroughHolds == Spec => []WrittenThrough
<1>1. IInv => WrittenThrough
  BY DEF IInv, Data, WrittenThrough
<1> QED BY CacheInvariant, <1>1, PTL

(* actualUsage is the number of boxes, within the capacity, whenever       *)
(* addBox, removeBox and trim are over.                                    *)
THEOREM UsageExactHolds == Spec => []UsageExact
<1>1. IInv => UsageExact
  <2> SUFFICES ASSUME IInv, at = "idle", rat = "idle", Clean
               PROVE  usage = Cardinality(Boxes) /\ usage <= capacity
    BY DEF UsageExact, Clean
  <2>1. CASE Alive
    BY <2>1 DEF IInv, Counted, Exact
  <2>2. CASE ~ Alive
    <3>1. Boxes = {} /\ usage = 0 /\ capacity \in Nat
      BY <2>2 DEF IInv, Control, Types, Alive
    <3> QED BY <3>1, FS_EmptySet
  <2> QED BY <2>1, <2>2
<1> QED BY CacheInvariant, <1>1, PTL

(* What it takes for trim and ReadAt to index out of range. *)
THEOREM PanicsExplainedHolds == Spec => []PanicsExplained
<1>1. IInv => PanicsExplained
  BY DEF IInv
<1> QED BY CacheInvariant, <1>1, PTL

-----------------------------------------------------------------------------
(* The rest of TypeOK. *)

Faults == {"race", "box", "store"}

(* What an operation has still to do, and what it has found. *)
OpOK == op.off \in Nat /\ op.left \in Nat /\ result \in {"right", "wrong"}

Shares == capacity \in Nat \ {0} /\ others \in 0 .. MaxOthers

(* After a copy a read goes on at the beginning of a piece, and what is    *)
(* left of it is not negative.                                             *)
LEMMA CopyFits ==
    ASSUME Types, OpOK, NEW content
    PROVE  /\ Copied(0, content).off = 0 /\ Copied(0, content).left = op.left
           /\ Copied(Copy, content).off = 0 /\ Copied(Copy, content).left \in Nat
<1>1. ASSUME NEW k \in Int
      PROVE  Copied(k, content).off = 0 /\ Copied(k, content).left = op.left - k
  BY DEF Copied, Types, Ops
<1>2. op.off \in Int /\ op.left \in Nat /\ Size(op.piece) \in Nat
  BY CacheAssumption DEF Size, OpOK
<1>3. Copy \in Int /\ Copy <= op.left
  BY <1>2 DEF Copy
<1> QED BY <1>1, <1>2, <1>3

(* Whatever goes wrong is one of the faults the model knows.               *)
LEMMA FaultsNext == ASSUME faults \subseteq Faults, [Next]_vars
                    PROVE  faults' \subseteq Faults
<1> USE DEF Fault, Faults, Shared
<1>1. ASSUME NEW i, NEW content, addBox(i, content) PROVE faults' \subseteq Faults
  BY <1>1 DEF addBox
<1>2. ASSUME NEW i, removeBox(i) PROVE faults' \subseteq Faults
  BY <1>2 DEF removeBox
<1>3. ASSUME NEW g, trimNext(g) PROVE faults' \subseteq Faults
  BY <1>2, <1>3 DEF trimNext
<1>4. ASSUME NEW busy, Enter(busy) PROVE faults' \subseteq Faults
  BY <1>4 DEF Enter
<1>5. CASE HitFails
  BY <1>2, <1>5 DEF HitFails
<1>6. ASSUME NEW content, Fetch(content) PROVE faults' \subseteq Faults
  BY <1>1, <1>6 DEF Fetch
<1>7. ASSUME NEW i, WritePiece(i) PROVE faults' \subseteq Faults
  BY <1>1, <1>7 DEF WritePiece
<1>8. CASE Close
  BY <1>4, <1>8 DEF Close
<1>9. CASE Trimmed
  BY <1>9 DEF Trimmed
<1>10. ASSUME NEW i, NEW b, NEW n, ReadAt(i, b, n) PROVE faults' \subseteq Faults
  BY <1>4, <1>10 DEF ReadAt
<1>11. ASSUME NEW n, Rebalance(n) PROVE faults' \subseteq Faults
  BY <1>4, <1>11 DEF Rebalance
<1>12. CASE Trim \/ OtherTrim
  BY <1>3, <1>12 DEF Trim, OtherTrim
<1>13. CASE \/ Look \/ HitRam \/ HitHd \/ FetchFails \/ OutOfRange \/ TrimStart
            \/ OtherTrimStart \/ OtherTrimmed \/ TrimPanics \/ UNCHANGED vars
  BY <1>13 DEF Look, HitRam, HitHd, FetchFails, OutOfRange, TrimStart, trimStart,
               OtherTrimStart, OtherTrimmed, TrimPanics, vars
<1> QED BY <1>5, <1>6, <1>7, <1>8, <1>9, <1>10, <1>11, <1>12, <1>13 DEF Next

(* Offset and remainder of the operation under way stay natural numbers.   *)
LEMMA OpNext == ASSUME Types, OpOK, [Next]_vars PROVE OpOK'
<1> USE DEF Shared, session
<1>1. ASSUME NEW o \in {op, Copied(Copy, box[op.piece]), Copied(0, "right"),
                        Copied(0, box[op.piece])}, Continue(o)
      PROVE  OpOK'
  <2>1. o.off \in Nat /\ o.left \in Nat
    BY CopyFits DEF OpOK
  <2>2. o.data \in {"right", "wrong"}
    BY DEF Copied, Types, Ops
  <2>3. NoOp.off = 0 /\ NoOp.left = 0
    BY DEF NoOp
  <2> QED BY <1>1, <2>1, <2>2, <2>3 DEF Continue, OpOK
<1>2. ASSUME NEW i \in Pieces, NEW b \in 0 .. PieceSize - 1,
             NEW n \in 1 .. PieceSize, ReadAt(i, b, n)
      PROVE  OpOK'
  <2>1. b \in Nat /\ n \in Nat
    BY CacheAssumption
  <2> QED BY <1>2, <2>1 DEF ReadAt, OpOK
<1>3. CASE HitRam \/ HitHd
  BY <1>1, <1>3 DEF HitRam, HitHd
<1>4. ASSUME NEW content, Fetch(content) PROVE OpOK'
  <2>1. op' = Copied(Copy, content) /\ result' = result
    BY <1>4 DEF Fetch
  <2> QED BY <2>1, CopyFits DEF OpOK
<1>5. CASE FetchFails
  <2>1. op' = Copied(Copy, "wrong") /\ result' = result
    BY <1>5 DEF FetchFails
  <2> QED BY <2>1, CopyFits DEF OpOK
<1>6. ASSUME NEW i \in Pieces, WritePiece(i) PROVE OpOK'
  <2>1. /\ result' = result
        /\ op' = op \/ op' = [NoOp EXCEPT !.write = TRUE, !.piece = i]
    BY <1>6 DEF WritePiece
  <2>2. ASSUME op' = [NoOp EXCEPT !.write = TRUE, !.piece = i]
        PROVE  op'.off = 0 /\ op'.left = 0
    BY <2>2 DEF NoOp
  <2>3. CASE op' = op
    BY <2>1, <2>3 DEF OpOK
  <2>4. CASE op'.off = 0 /\ op'.left = 0
    BY <2>1, <2>4 DEF OpOK
  <2> QED BY <2>1, <2>2, <2>3, <2>4
<1>7. CASE Trimmed
  <2>1. CASE op' = NoOp /\ UNCHANGED result
    BY <2>1 DEF OpOK, NoOp
  <2>2. CASE Continue(op)
    BY <1>1, <2>2
  <2> QED BY <1>7, <2>1, <2>2 DEF Trimmed
<1>8. UNCHANGED <<op, result>> => OpOK'
  BY DEF OpOK
<1>9. CASE \/ Look \/ HitFails \/ OutOfRange \/ TrimStart \/ Trim \/ Close
           \/ (\E n \in 0 .. MaxOthers : Rebalance(n))
           \/ OtherTrimStart \/ OtherTrim \/ OtherTrimmed \/ TrimPanics
           \/ UNCHANGED vars
  BY <1>8, <1>9 DEF Look, HitFails, OutOfRange, TrimStart, Trim, Close,
         Rebalance, OtherTrimStart, OtherTrim, OtherTrimmed, TrimPanics, Panic,
         vars
<1> QED BY <1>2, <1>3, <1>4, <1>5, <1>6, <1>7, <1>9 DEF Next

(* rebalance leaves every cache a share. *)
LEMMA SharesNext == ASSUME Shares, [Next]_vars PROVE Shares'
<1> USE DEF Shared, session
<1>1. ASSUME NEW n \in 0 .. MaxOthers, Rebalance(n) PROVE Shares'
  <2>1. n \in Nat /\ n + 1 \in Nat \ {0}
    BY CacheAssumption
  <2>2. Share(n + 1) \in Nat \ {0}
    BY <2>1, CacheAssumption DEF Share
  <2> QED BY <1>1, <2>2 DEF Rebalance, Shares
<1>2. UNCHANGED <<capacity, others>> => Shares'
  BY DEF Shares
<1>3. ASSUME NEW i, NEW b, NEW n, ReadAt(i, b, n) PROVE Shares'
  BY <1>2, <1>3 DEF ReadAt
<1>4. ASSUME NEW i, Fetch(i) \/ WritePiece(i) PROVE Shares'
  BY <1>2, <1>4 DEF Fetch, WritePiece
<1>5. CASE \/ Look \/ HitRam \/ HitHd \/ HitFails \/ FetchFails \/ OutOfRange
           \/ TrimStart \/ Trim \/ Trimmed \/ Close \/ OtherTrimStart
           \/ OtherTrim \/ OtherTrimmed \/ TrimPanics \/ UNCHANGED vars
  BY <1>2, <1>5 DEF Look, HitRam, HitHd, HitFails, FetchFails, OutOfRange,
         TrimStart, Trim, Trimmed, Close, OtherTrimStart, OtherTrim,
         OtherTrimmed, TrimPanics, Panic, vars
<1> QED BY <1>1, <1>3, <1>4, <1>5 DEF Next

(* trim counts down and stops at zero. *)
LEMMA DeficitNext ==
    ASSUME Types, deficit \in [Goroutines -> Nat], [Next]_vars
    PROVE  deficit' \in [Goroutines -> Nat]
<1> USE DEF Shared, session
<1>1. ASSUME NEW g \in Goroutines, trimStart(g)
      PROVE  deficit' \in [Goroutines -> Nat]
  <2>1. usage - capacity \in Nat
    BY <1>1 DEF trimStart, Types
  <2> QED BY <1>1, <2>1 DEF trimStart
<1>2. ASSUME NEW g \in Goroutines, trimNext(g) \/ trimmed(g)
      PROVE  deficit' \in [Goroutines -> Nat]
  BY <1>2 DEF trimNext, trimmed
<1>3. Forget => deficit' \in [Goroutines -> Nat]
  BY DEF Forget
<1>4. "session" \in Goroutines /\ "other" \in Goroutines
  BY DEF Goroutines
<1>5. ASSUME NEW i, NEW b, NEW n, ReadAt(i, b, n) PROVE UNCHANGED deficit
  BY <1>5 DEF ReadAt
<1>6. ASSUME NEW i, Fetch(i) \/ WritePiece(i) \/ Rebalance(i)
      PROVE  UNCHANGED deficit
  BY <1>6 DEF Fetch, WritePiece, Rebalance
<1>7. CASE \/ Look \/ HitRam \/ HitHd \/ HitFails \/ FetchFails
           \/ UNCHANGED vars
  BY <1>7 DEF Look, HitRam, HitHd, HitFails, FetchFails, vars
<1>8. CASE OutOfRange \/ TrimPanics \/ Close
  BY <1>3, <1>8 DEF OutOfRange, TrimPanics, Close, Panic
<1>9. CASE TrimStart \/ Trim \/ Trimmed
  BY <1>1, <1>2, <1>4, <1>9 DEF TrimStart, Trim, Trimmed
<1>10. CASE OtherTrimStart \/ OtherTrim \/ OtherTrimmed
  BY <1>1, <1>2, <1>4, <1>10 DEF OtherTrimStart, OtherTrim, OtherTrimmed
<1> QED BY <1>5, <1>6, <1>7, <1>8, <1>9, <1>10 DEF Next

(* Only pieces go to the underlying store. *)
LEMMA DiskNext ==
    ASSUME Types, Control, disk \subseteq Pieces, [Next]_vars
    PROVE  disk' \subseteq Pieces
<1> USE DEF Shared, session
<1>1. CASE Trimmed
  BY <1>1 DEF Trimmed, Control
<1>2. ASSUME NEW i, NEW b, NEW n, ReadAt(i, b, n) PROVE UNCHANGED disk
  BY <1>2 DEF ReadAt
<1>3. ASSUME NEW i, Fetch(i) \/ WritePiece(i) \/ Rebalance(i)
      PROVE  UNCHANGED disk
  BY <1>3 DEF Fetch, WritePiece, Rebalance
<1>4. CASE \/ Look \/ HitRam \/ HitHd \/ HitFails \/ FetchFails \/ OutOfRange
           \/ TrimStart \/ Trim \/ Close \/ OtherTrimStart
           \/ OtherTrim \/ OtherTrimmed \/ TrimPanics \/ UNCHANGED vars
  BY <1>4 DEF Look, HitRam, HitHd, HitFails, FetchFails, OutOfRange, TrimStart,
         Trim, Close, OtherTrimStart, OtherTrim, OtherTrimmed, TrimPanics,
         Panic, vars
<1> QED BY <1>1, <1>2, <1>3, <1>4 DEF Next

(* TypeOK.  In particular trim never counts below zero, and every torrent  *)
(* has a share of the capacity, however many there are.                    *)
THEOREM CacheTypes == Spec => []TypeOK
<1> DEFINE Rest == /\ faults \subseteq Faults /\ OpOK /\ Shares
                   /\ deficit \in [Goroutines -> Nat] /\ disk \subseteq Pieces
<1>1. Init => Rest
  <2> SUFFICES ASSUME Init PROVE Rest
    OBVIOUS
  <2>1. Share(1) \in Nat \ {0}
    BY CacheAssumption DEF Share
  <2> QED BY <2>1, CacheAssumption DEF Init, OpOK, NoOp, Shares, Faults
<1>2. IInv /\ Rest /\ [Next]_vars => Rest'
  BY FaultsNext, OpNext, SharesNext, DeficitNext, DiskNext DEF IInv
<1>3. IInv /\ Rest => TypeOK
  <2> SUFFICES ASSUME IInv, Rest PROVE TypeOK
    OBVIOUS
  <2>1. op \in [write : BOOLEAN, piece : Nat, off : Nat, left : Nat,
                data : {"right", "wrong"}]
    BY DEF IInv, Types, Ops, OpOK
  <2> QED BY <2>1 DEF IInv, Types, OpOK, Shares, Faults, TypeOK
<1> HIDE DEF Rest
<1> QED BY <1>1, <1>2, <1>3, CacheInvariant, PTL DEF Spec
=============================================================================
