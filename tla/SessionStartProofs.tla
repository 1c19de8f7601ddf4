------------------------- MODULE SessionStartProofs --------------------------
(***************************************************************************)
(* Proofs about the file store and about what a session claims to have.    *)
(*                                                                         *)
(* The file store accesses the right bytes, for every layout of files and  *)
(* every range: the binary search of find ends at a file that starts at or *)
(* before the offset, and the loop of ReadAt and WritePiece goes from      *)
(* there through exactly the bytes meant.  What the recursive functions of *)
(* FileStore compute is shown by least counterexamples: a set of numbers   *)
(* for which a claim fails, if it is not empty, has a least member, and    *)
(* that one is led to a contradiction.  A recursive definition is a        *)
(* CHOOSE, so that each function is first shown to exist.                  *)
(*                                                                         *)
(* The session claims right pieces only, whatever the process is killed in *)
(* the middle of; a full check finds exactly those, for any number of      *)
(* hashers and any capacity of the results channel; pieces are not         *)
(* forgotten while the session runs; and the piece maps of its peers fit.  *)
(* This holds for all layouts of the files, torrent sizes, piece lengths   *)
(* and numbers of bits in a byte of the resume file.                       *)
(*                                                                         *)
(* At the end: the type invariant, and that a check is never stuck and     *)
(* takes a bounded number of steps.                                        *)
(***************************************************************************)
EXTENDS SessionStart, FiniteSetTheorems, WellFoundedInduction, TLAPS

(* A set of natural numbers that is not empty has a least element. *)
LEMMA LeastElement ==
    ASSUME NEW S \in SUBSET Nat, S # {}
    PROVE  \E m \in S : \A k \in S : m <= k
<1>1. IsWellFoundedOn(OpToRel(<, Nat), Nat)
  BY NatLessThanWellFounded
<1>2. PICK m \in S : \A k \in S : ~ (<<k, m>> \in OpToRel(<, Nat))
  BY <1>1, WFMin
<1>3. \A k \in S : ~ (k < m)
  BY <1>2 DEF OpToRel
<1> QED BY <1>3

(* NewFileStore: each file begins where the one before it ends.            *)
LEMMA OffsetRec ==
    ASSUME NEW lens \in Seq(Nat)
    PROVE  /\ Offset(lens, 1) = 0
           /\ \A i \in 1 .. Len(lens) :
                 Offset(lens, i + 1) = Offset(lens, i) + lens[i]
<1> DEFINE n == Len(lens)
           Is(f, m) == f = [k \in 0 .. m |-> IF k = 0 THEN 0
                                              ELSE f[k - 1] + lens[k]]
           Bad == {m \in Nat : m <= n /\ ~ \E f : Is(f, m)}
<1>0. n \in Nat
  OBVIOUS
<1>1. Bad = {}
  <2> SUFFICES ASSUME Bad # {} PROVE FALSE
    OBVIOUS
  <2>1. PICK m \in Bad : \A k \in Bad : m <= k
    BY LeastElement
  <2>2. m # 0
    <3> DEFINE g == [k \in 0 .. 0 |-> 0]
    <3>1. Is(g, 0)
      OBVIOUS
    <3> QED BY <2>1, <3>1
  <2>3. PICK f : Is(f, m - 1)
    <3>1. m - 1 \in Nat /\ m - 1 <= n /\ ~ (m <= m - 1)
      BY <2>1, <2>2, <1>0
    <3>2. m - 1 \notin Bad
      BY <2>1, <3>1
    <3> HIDE DEF Is
    <3> QED BY <3>1, <3>2
  <2> DEFINE g == [k \in 0 .. m |-> IF k = m THEN f[m - 1] + lens[m] ELSE f[k]]
  <2>4. Is(g, m)
    BY <2>1, <2>2, <2>3
  <2> QED BY <2>1, <2>4
<1>2. PICK f : Is(f, n)
  BY <1>0, <1>1
<1> DEFINE sum == CHOOSE g : Is(g, n)
<1>3. Is(sum, n)
  BY <1>2
<1>4. \A i \in 1 .. n + 1 : Offset(lens, i) = sum[i - 1]
  BY DEF Offset
<1>5. sum[0] = 0 /\ \A i \in 1 .. n : sum[i] = sum[i - 1] + lens[i]
  <2> HIDE DEF sum
  <2> QED BY <1>0, <1>3
<1> HIDE DEF sum
<1>6. \A i \in 1 .. n : Offset(lens, i + 1) = sum[i] /\ Offset(lens, i) = sum[i - 1]
  BY <1>0, <1>4
<1>7. Offset(lens, 1) = sum[0]
  BY <1>0, <1>4
<1> QED BY <1>0, <1>5, <1>6, <1>7

(* Offsets are numbers, and grow. *)
LEMMA OffsetNat ==
    ASSUME NEW lens \in Seq(Nat)
    PROVE  /\ \A i \in 1 .. Len(lens) + 1 : Offset(lens, i) \in Nat
           /\ \A i, j \in 1 .. Len(lens) + 1 :
                 i <= j => Offset(lens, i) <= Offset(lens, j)
<1> DEFINE n == Len(lens)
           Bad == {m \in Nat : m <= n /\ Offset(lens, m + 1) \notin Nat}
<1>0. n \in Nat /\ \A i \in 1 .. n : lens[i] \in Nat
  OBVIOUS
<1>1. Bad = {}
  <2> SUFFICES ASSUME Bad # {} PROVE FALSE
    OBVIOUS
  <2>1. PICK m \in Bad : \A k \in Bad : m <= k
    BY LeastElement
  <2>2. m # 0
    BY <2>1, OffsetRec
  <2>3. m - 1 \in Nat /\ m - 1 <= n /\ ~ (m <= m - 1) /\ m \in 1 .. n
    BY <2>1, <2>2, <1>0
  <2>4. Offset(lens, m) \in Nat
    <3>1. (m - 1) + 1 = m
      BY <2>3
    <3>2. m - 1 \notin Bad
      <4> HIDE DEF Bad
      <4> QED BY <2>1, <2>3
    <3> QED BY <2>3, <3>1, <3>2
  <2>5. Offset(lens, m + 1) = Offset(lens, m) + lens[m]
    BY <2>3, OffsetRec
  <2> QED BY <2>1, <2>3, <2>4, <2>5, <1>0
<1>2. \A i \in 1 .. n + 1 : Offset(lens, i) \in Nat
  <2> TAKE i \in 1 .. n + 1
  <2>1. i - 1 \in Nat /\ i - 1 <= n /\ (i - 1) + 1 = i
    BY <1>0
  <2> QED BY <1>1, <2>1
<1>3. ASSUME NEW i \in 1 .. n + 1
      PROVE  \A j \in i .. n + 1 : Offset(lens, i) <= Offset(lens, j)
  <2> DEFINE Low == {j \in Nat : j \in i .. n + 1 /\ ~ (Offset(lens, i) <= Offset(lens, j))}
  <2> SUFFICES ASSUME Low # {} PROVE FALSE
    BY <1>0
  <2>1. PICK j \in Low : \A k \in Low : j <= k
    BY LeastElement
  <2>2. j # i
    BY <1>2, <2>1
  <2>3. j - 1 \in Nat /\ j - 1 \in i .. n + 1 /\ j - 1 \in 1 .. n /\ ~ (j <= j - 1)
    BY <2>1, <2>2, <1>0
  <2>4. Offset(lens, i) <= Offset(lens, j - 1)
    BY <2>1, <2>3
  <2>5. Offset(lens, j) = Offset(lens, j - 1) + lens[j - 1]
    <3>1. (j - 1) + 1 = j
      BY <2>3
    <3> QED BY <2>3, <3>1, OffsetRec
  <2> QED BY <1>2, <2>1, <2>3, <2>4, <2>5, <1>0
<1>4. \A i, j \in 1 .. n + 1 : i <= j => j \in i .. n + 1
  BY <1>0
<1> QED BY <1>2, <1>3, <1>4

-----------------------------------------------------------------------------
(* find: its bounds, and a step of its search by f. *)
Bounds(lens) == (0 .. Len(lens)) \X (0 .. Len(lens))

SearchStep(lens, off, f, b) ==
    IF b[1] >= b[2] - 1 THEN b[1]
    ELSE IF off < Offset(lens, (b[1] + b[2]) \div 2 + 1)
    THEN f[<<b[1], (b[1] + b[2]) \div 2>>]
    ELSE f[<<(b[1] + b[2]) \div 2, b[2]>>]

(* The probe lies strictly between the bounds. *)
LEMMA Probe ==
    ASSUME NEW low \in Nat, NEW high \in Nat, ~ (low >= high - 1)
    PROVE  /\ (low + high) \div 2 \in Nat
           /\ low < (low + high) \div 2
           /\ (low + high) \div 2 < high
OBVIOUS

(* The search is defined: its bounds come closer with every step. *)
LEMMA SearchExists ==
    ASSUME NEW lens \in Seq(Nat), NEW off \in Nat
    PROVE  \E f : f = [b \in Bounds(lens) |-> SearchStep(lens, off, f, b)]
<1> DEFINE n == Len(lens)
           Within(m) == {b \in Bounds(lens) : b[2] - b[1] <= m}
           Is(f, m) == f = [b \in Within(m) |-> SearchStep(lens, off, f, b)]
           Bad == {m \in Nat : ~ \E f : Is(f, m)}
<1>0. n \in Nat
  OBVIOUS
<1>1. Bad = {}
  <2> SUFFICES ASSUME Bad # {} PROVE FALSE
    OBVIOUS
  <2>1. PICK m \in Bad : \A k \in Bad : m <= k
    BY LeastElement
  <2>2. m # 0
    <3> DEFINE g == [b \in Within(0) |-> b[1]]
    <3>1. \A b \in Within(0) : SearchStep(lens, off, g, b) = b[1]
      BY DEF SearchStep, Bounds
    <3>2. Is(g, 0)
      BY <3>1
    <3> QED BY <2>1, <3>2
  <2>3. m - 1 \in Nat /\ ~ (m <= m - 1)
    BY <2>1, <2>2
  <2>4. PICK f : Is(f, m - 1)
    <3>2. m - 1 \notin Bad
      BY <2>1, <2>3
    <3> HIDE DEF Is
    <3> QED BY <2>3, <3>2
  <2> DEFINE g == [b \in Within(m) |-> SearchStep(lens, off, f, b)]
  <2>5. \A b \in Within(m - 1) : g[b] = f[b]
    <3> HIDE DEF Within
    <3>1. Within(m - 1) \subseteq Within(m)
      BY <2>3 DEF Within, Bounds
    <3> QED BY <2>4, <3>1
  <2>6. ASSUME NEW b \in Within(m)
        PROVE  SearchStep(lens, off, g, b) = SearchStep(lens, off, f, b)
    <3> DEFINE probe == (b[1] + b[2]) \div 2
    <3>1. /\ b[1] \in 0 .. n /\ b[2] \in 0 .. n /\ b[2] - b[1] <= m
          /\ b[1] \in Nat /\ b[2] \in Nat
      BY <1>0 DEF Bounds
    <3>2. CASE b[1] >= b[2] - 1
      BY <3>2 DEF SearchStep
    <3>3. CASE ~ (b[1] >= b[2] - 1)
      <4>1. probe \in Nat /\ b[1] < probe /\ probe < b[2]
        BY <3>1, <3>3, Probe
      <4> HIDE DEF probe
      <4>2. <<b[1], probe>> \in Within(m - 1) /\ <<probe, b[2]>> \in Within(m - 1)
        BY <3>1, <4>1, <2>3, <1>0 DEF Bounds
      <4> HIDE DEF g, Is, Within
      <4> QED BY <4>2, <2>5 DEF SearchStep, probe
    <3> QED BY <3>2, <3>3
  <2>7. Is(g, m)
    <3> HIDE DEF Within
    <3> QED BY <2>6
  <2> HIDE DEF Is
  <2> QED BY <2>1, <2>7
<1>2. PICK f : Is(f, n)
  <2> HIDE DEF Is
  <2> QED BY <1>0, <1>1
<1>3. Within(n) = Bounds(lens)
  BY <1>0 DEF Bounds
<1> HIDE DEF Within
<1> QED BY <1>2, <1>3

(* find ends at a file that starts at or before the offset. *)
LEMMA FindStarts ==
    ASSUME NEW lens \in Seq(Nat), NEW off \in Nat
    PROVE  /\ find(lens, off) \in 1 .. Len(lens) + 1
           /\ Offset(lens, find(lens, off)) <= off
<1> DEFINE n == Len(lens)
           f == CHOOSE g : g = [b \in Bounds(lens) |-> SearchStep(lens, off, g, b)]
           Bad == {m \in Nat : \E b \in Bounds(lens) :
                     /\ b[2] - b[1] <= m
                     /\ Offset(lens, b[1] + 1) <= off
                     /\ ~ (f[b] \in 0 .. n /\ Offset(lens, f[b] + 1) <= off)}
<1>0. n \in Nat
  OBVIOUS
<1>1. find(lens, off) = f[<<0, n>>] + 1
  BY DEF find, Bounds, SearchStep
<1>2. f = [b \in Bounds(lens) |-> SearchStep(lens, off, f, b)]
  BY SearchExists
<1> HIDE DEF f
<1>3. \A b \in Bounds(lens) : f[b] = SearchStep(lens, off, f, b)
  BY <1>2
<1>4. Bad = {}
  <2> SUFFICES ASSUME Bad # {} PROVE FALSE
    OBVIOUS
  <2>1. PICK m \in Bad : \A k \in Bad : m <= k
    BY LeastElement
  <2>2. PICK b \in Bounds(lens) :
           /\ b[2] - b[1] <= m
           /\ Offset(lens, b[1] + 1) <= off
           /\ ~ (f[b] \in 0 .. n /\ Offset(lens, f[b] + 1) <= off)
    BY <2>1
  <2>3. /\ b[1] \in 0 .. n /\ b[2] \in 0 .. n
        /\ b[1] \in Nat /\ b[2] \in Nat
    BY <1>0 DEF Bounds
  <2>4. ~ (b[1] >= b[2] - 1)
    BY <1>3, <2>2, <2>3 DEF SearchStep
  <2> DEFINE probe == (b[1] + b[2]) \div 2
  <2>5. probe \in Nat /\ b[1] < probe /\ probe < b[2]
    BY <2>3, <2>4, Probe
  <2>6. f[b] = IF off < Offset(lens, probe + 1) THEN f[<<b[1], probe>>]
               ELSE f[<<probe, b[2]>>]
    BY <1>3, <2>4 DEF SearchStep
  <2> HIDE DEF probe
  <2>7. m - 1 \in Nat /\ ~ (m <= m - 1) /\ Offset(lens, probe + 1) \in Nat
    <3>1. m \in Nat /\ m >= 2
      BY <2>1, <2>2, <2>3, <2>5
    <3>2. probe + 1 \in 1 .. Len(lens) + 1
      BY <2>3, <2>5, <1>0
    <3> QED BY <3>1, <3>2, OffsetNat
  <2>8. m - 1 \notin Bad
    BY <2>1, <2>7
  <2>9. /\ <<b[1], probe>> \in Bounds(lens)
        /\ <<probe, b[2]>> \in Bounds(lens)
        /\ probe - b[1] <= m - 1
        /\ b[2] - probe <= m - 1
    <3>1. m \in Nat /\ probe \in 0 .. Len(lens)
      BY <2>1, <2>3, <2>5, <1>0
    <3> HIDE DEF Bad
    <3>2. probe - b[1] <= m - 1 /\ b[2] - probe <= m - 1
      <4>1. b[2] - b[1] <= m
        BY <2>2
      <4>2. b[1] \in Nat /\ b[2] \in Nat
        BY <2>3
      <4> QED BY <2>5, <3>1, <4>1, <4>2
    <3> QED BY <2>3, <3>1, <3>2 DEF Bounds
  <2>10. CASE off < Offset(lens, probe + 1)
    BY <2>10, <2>2, <2>6, <2>7, <2>8, <2>9
  <2>11. CASE ~ (off < Offset(lens, probe + 1))
    <3> DEFINE d == <<probe, b[2]>>
    <3>1. d \in Bounds(lens) /\ d[2] - d[1] <= m - 1
      BY <2>9
    <3>2. Offset(lens, d[1] + 1) <= off
      BY <2>11, <2>7
    <3>3. f[b] = f[d]
      BY <2>11, <2>6
    <3> HIDE DEF d
    <3> QED BY <2>2, <2>7, <2>8, <3>1, <3>2, <3>3
  <2> QED BY <2>10, <2>11
<1>5. <<0, n>> \in Bounds(lens) /\ Offset(lens, 0 + 1) <= off /\ n - 0 <= n
  BY <1>0, OffsetRec DEF Bounds
<1>6. f[<<0, n>>] \in 0 .. n /\ Offset(lens, f[<<0, n>>] + 1) <= off
  BY <1>0, <1>4, <1>5
<1> QED BY <1>0, <1>1, <1>6

-----------------------------------------------------------------------------
(* The loop of ReadAt and WritePiece: its states, and a turn of it by f. *)
LoopStates(lens) == (1 .. Len(lens) + 1) \X Nat \X Nat

LoopStep(lens, f, s) ==
    LET i == s[1]  o == s[2]  left == s[3]
        itemOffset == o - Offset(lens, i)
        space == lens[i] - itemOffset
        chunk == IF space < left THEN space ELSE left
    IN  IF left = 0 \/ i > Len(lens) THEN <<>>
        ELSE IF itemOffset < lens[i]
        THEN <<[file |-> i, from |-> itemOffset, len |-> chunk]>>
             \o f[<<i + 1, o + chunk, left - chunk>>]
        ELSE f[<<i + 1, o, left>>]

(* The length of the chunk in a file of length len that begins at base. *)
ChunkOf(o, left, base, len) ==
    IF len - (o - base) < left THEN len - (o - base) ELSE left

(* A chunk is not empty, and ends with the request or with the file. *)
LEMMA ChunkLength ==
    ASSUME NEW o \in Nat, NEW left \in Nat, NEW base \in Nat, NEW len \in Nat,
           left # 0, o - base < len
    PROVE  /\ ChunkOf(o, left, base, len) \in Nat
           /\ ChunkOf(o, left, base, len) <= left
           /\ ChunkOf(o, left, base, len) # 0
           /\ o + ChunkOf(o, left, base, len) \in Nat
           /\ left - ChunkOf(o, left, base, len) \in Nat
           /\ base <= o =>
                 \/ /\ ChunkOf(o, left, base, len) = left
                    /\ o + ChunkOf(o, left, base, len) <= base + len
                 \/ o + ChunkOf(o, left, base, len) = base + len
<1> DEFINE space == len - (o - base)
<1>1. space \in Int /\ space > 0
  OBVIOUS
<1>2. CASE space < left
  BY <1>1, <1>2 DEF ChunkOf
<1>3. CASE ~ (space < left)
  BY <1>1, <1>3 DEF ChunkOf
<1> QED BY <1>2, <1>3

(* One turn of the loop, from file i at offset o with `left' to go: it     *)
(* ends, accesses a chunk, or goes on to the next file.                    *)
TurnEnds(lens, f, i, o, left) ==
    /\ left = 0 \/ i > Len(lens)
    /\ LoopStep(lens, f, <<i, o, left>>) = <<>>

TurnTakes(lens, f, i, o, left) ==
    /\ left # 0 /\ i \in 1 .. Len(lens)
    /\ o - Offset(lens, i) < lens[i]
    /\ \E chunk \in Nat :
          /\ chunk <= left
          /\ chunk # 0
          /\ Offset(lens, i) <= o =>
                \/ chunk = left /\ o + chunk <= Offset(lens, i + 1)
                \/ o + chunk = Offset(lens, i + 1)
          /\ LoopStep(lens, f, <<i, o, left>>)
              = <<[file |-> i, from |-> o - Offset(lens, i), len |-> chunk]>>
                \o f[<<i + 1, o + chunk, left - chunk>>]

TurnSkips(lens, f, i, o, left) ==
    /\ left # 0 /\ i \in 1 .. Len(lens)
    /\ o >= Offset(lens, i + 1)
    /\ LoopStep(lens, f, <<i, o, left>>) = f[<<i + 1, o, left>>]

(* There is no other way. *)
LEMMA LoopTurn ==
    ASSUME NEW lens \in Seq(Nat), NEW i \in 1 .. Len(lens) + 1,
           NEW o \in Nat, NEW left \in Nat, NEW f
    PROVE  \/ TurnEnds(lens, f, i, o, left)
           \/ TurnTakes(lens, f, i, o, left)
           \/ TurnSkips(lens, f, i, o, left)
<1> DEFINE itemOffset == o - Offset(lens, i)
           space == lens[i] - itemOffset
           chunk == IF space < left THEN space ELSE left
<1>0. Len(lens) \in Nat /\ i \in Nat /\ Offset(lens, i) \in Nat
  BY OffsetNat
<1>1. CASE left = 0 \/ i > Len(lens)
  BY <1>1 DEF LoopStep, TurnEnds
<1>2. CASE ~ (left = 0 \/ i > Len(lens))
  <2>1. i \in 1 .. Len(lens) /\ lens[i] \in Nat
    BY <1>0, <1>2
  <2>2. Offset(lens, i + 1) = Offset(lens, i) + lens[i]
    BY <2>1, OffsetRec
  <2>3. CASE itemOffset < lens[i]
    <3>1. /\ chunk \in Nat /\ chunk <= left /\ chunk # 0
          /\ Offset(lens, i) <= o =>
                \/ chunk = left /\ o + chunk <= Offset(lens, i + 1)
                \/ o + chunk = Offset(lens, i + 1)
      <4>1. /\ chunk \in Nat /\ chunk <= left /\ chunk # 0
            /\ Offset(lens, i) <= o =>
                  \/ chunk = left /\ o + chunk <= Offset(lens, i) + lens[i]
                  \/ o + chunk = Offset(lens, i) + lens[i]
        <5>1. /\ left # 0 /\ o - Offset(lens, i) < lens[i]
              /\ Offset(lens, i) \in Nat /\ lens[i] \in Nat
          BY <1>0, <1>2, <2>1, <2>3
        <5>2. chunk = ChunkOf(o, left, Offset(lens, i), lens[i])
          BY DEF ChunkOf
        <5> HIDE DEF chunk
        <5>3. chunk \in Nat /\ chunk <= left /\ chunk # 0
          BY <5>1, <5>2, ChunkLength
        <5>4. Offset(lens, i) <= o =>
                  \/ chunk = left /\ o + chunk <= Offset(lens, i) + lens[i]
                  \/ o + chunk = Offset(lens, i) + lens[i]
          <6>1. CASE space < left
            <7>1. chunk = space
              BY <6>1 DEF chunk
            <7>2. o + space = Offset(lens, i) + lens[i]
              BY <5>1
            <7> QED BY <7>1, <7>2
          <6>2. CASE ~ (space < left)
            <7>1. chunk = left
              BY <6>2 DEF chunk
            <7>2. o + left <= Offset(lens, i) + lens[i]
              BY <5>1, <6>2
            <7> QED BY <7>1, <7>2
          <6> QED BY <6>1, <6>2
        <5> QED BY <5>3, <5>4
      <4> HIDE DEF chunk
      <4> QED BY <2>2, <4>1
    <3>2. LoopStep(lens, f, <<i, o, left>>)
            = <<[file |-> i, from |-> itemOffset, len |-> chunk]>>
              \o f[<<i + 1, o + chunk, left - chunk>>]
      BY <1>2, <2>3 DEF LoopStep
    <3> HIDE DEF chunk
    <3> QED BY <1>2, <2>1, <2>3, <3>1, <3>2 DEF TurnTakes
  <2>4. CASE ~ (itemOffset < lens[i])
    <3>1. LoopStep(lens, f, <<i, o, left>>) = f[<<i + 1, o, left>>]
      BY <1>2, <2>4 DEF LoopStep
    <3>2. o >= Offset(lens, i + 1)
      BY <1>0, <2>1, <2>2, <2>4
    <3> QED BY <1>2, <2>1, <3>1, <3>2 DEF TurnSkips
  <2> QED BY <2>3, <2>4
<1> QED BY <1>1, <1>2

(* The loop is defined: every turn goes to the next file. *)
LEMMA LoopExists ==
    ASSUME NEW lens \in Seq(Nat)
    PROVE  \E f : f = [s \in LoopStates(lens) |-> LoopStep(lens, f, s)]
<1> DEFINE n == Len(lens)
           From(m) == {s \in LoopStates(lens) : s[1] + m >= n + 1}
           Is(f, m) == f = [s \in From(m) |-> LoopStep(lens, f, s)]
           Bad == {m \in Nat : ~ \E f : Is(f, m)}
<1>0. n \in Nat
  OBVIOUS
<1>1. Bad = {}
  <2> SUFFICES ASSUME Bad # {} PROVE FALSE
    OBVIOUS
  <2>1. PICK m \in Bad : \A k \in Bad : m <= k
    BY LeastElement
  <2>2. m # 0
    <3> DEFINE g == [s \in From(0) |-> <<>>]
    <3>1. ASSUME NEW s \in From(0) PROVE LoopStep(lens, g, s) = <<>>
      <4>1. s[1] > Len(lens)
        BY <1>0 DEF LoopStates
      <4> HIDE DEF g, From
      <4> QED BY <4>1 DEF LoopStep
    <3>2. Is(g, 0)
      BY <3>1
    <3> QED BY <2>1, <3>2
  <2>3. m \in Nat /\ m - 1 \in Nat /\ ~ (m <= m - 1)
    BY <2>1, <2>2
  <2>4. PICK f : Is(f, m - 1)
    <3>2. m - 1 \notin Bad
      BY <2>1, <2>3
    <3> HIDE DEF Is
    <3> QED BY <2>3, <3>2
  <2> DEFINE g == [s \in From(m) |-> LoopStep(lens, f, s)]
  <2>5. \A s \in From(m - 1) : g[s] = f[s]
    <3> HIDE DEF From
    <3>1. From(m - 1) \subseteq From(m)
      BY <2>3, <1>0 DEF From, LoopStates
    <3> QED BY <2>4, <3>1
  <2>6. ASSUME NEW s \in From(m)
        PROVE  LoopStep(lens, g, s) = LoopStep(lens, f, s)
    <3>1. PICK i \in 1 .. Len(lens) + 1, o \in Nat, left \in Nat :
             s = <<i, o, left>>
      BY DEF LoopStates
    <3>2. i + m >= n + 1
      BY <3>1
    <3>3. ASSUME i \in 1 .. n, NEW a \in Nat, NEW b \in Nat
          PROVE  g[<<i + 1, a, b>>] = f[<<i + 1, a, b>>]
      <4>1. <<i + 1, a, b>> \in LoopStates(lens)
        BY <1>0, <3>3 DEF LoopStates
      <4>2. (i + 1) + (m - 1) >= n + 1
        <5> HIDE DEF Bad
        <5> QED BY <1>0, <2>3, <3>2, <3>3
      <4>3. <<i + 1, a, b>> \in From(m - 1)
        <5> HIDE DEF g, Is, Bad
        <5> QED BY <4>1, <4>2
      <4> HIDE DEF g, From
      <4> QED BY <4>3, <2>5
    <3> DEFINE itemOffset == o - Offset(lens, i)
               space == lens[i] - itemOffset
               chunk == IF space < left THEN space ELSE left
    <3>4. Offset(lens, i) \in Nat
      BY OffsetNat
    <3>5. CASE left = 0 \/ i > Len(lens)
      BY <3>1, <3>5 DEF LoopStep
    <3>6. CASE ~ (left = 0 \/ i > Len(lens)) /\ itemOffset < lens[i]
      <4>1. i \in 1 .. n /\ lens[i] \in Nat
        BY <1>0, <3>6
      <4>2. o + chunk \in Nat /\ left - chunk \in Nat
        <5>1. chunk = ChunkOf(o, left, Offset(lens, i), lens[i])
          BY DEF ChunkOf
        <5>2. left # 0 /\ o - Offset(lens, i) < lens[i]
          BY <3>6
        <5> HIDE DEF chunk
        <5> QED BY <3>4, <4>1, <5>1, <5>2, ChunkLength
      <4>3. g[<<i + 1, o + chunk, left - chunk>>]
              = f[<<i + 1, o + chunk, left - chunk>>]
        BY <3>3, <4>1, <4>2
      <4> HIDE DEF g
      <4> QED BY <3>1, <3>6, <4>3 DEF LoopStep
    <3>7. CASE ~ (left = 0 \/ i > Len(lens)) /\ ~ (itemOffset < lens[i])
      <4>1. i \in 1 .. n
        BY <1>0, <3>7
      <4>2. g[<<i + 1, o, left>>] = f[<<i + 1, o, left>>]
        BY <3>3, <4>1
      <4> HIDE DEF g
      <4> QED BY <3>1, <3>7, <4>2 DEF LoopStep
    <3> QED BY <3>5, <3>6, <3>7
  <2>7. Is(g, m)
    <3> HIDE DEF From
    <3> QED BY <2>6
  <2> HIDE DEF Is
  <2> QED BY <2>1, <2>7
<1>2. PICK f : Is(f, n)
  <2> HIDE DEF Is
  <2> QED BY <1>0, <1>1
<1>3. From(n) = LoopStates(lens)
  BY <1>0 DEF LoopStates
<1> HIDE DEF From
<1> QED BY <1>2, <1>3

(* The bytes of an extent, one by one. *)
LEMMA ExtentMembers ==
    ASSUME NEW lens \in Seq(Nat), NEW off \in Nat, NEW n \in Nat,
           NEW g, NEW p
    PROVE  <<g, p>> \in Extent(lens, off, n) <=>
              /\ g \in 1 .. Len(lens) /\ p \in Nat /\ p < lens[g]
              /\ off <= Offset(lens, g) + p /\ Offset(lens, g) + p < off + n
<1>0. Len(lens) \in Nat /\ totalSize(lens) \in Nat
  BY OffsetNat DEF totalSize
<1>1. ASSUME g \in 1 .. Len(lens), p \in Nat, p < lens[g]
      PROVE  p \in 0 .. totalSize(lens) /\ Offset(lens, g) \in Nat
  <2>1. g + 1 \in 1 .. Len(lens) + 1 /\ g \in 1 .. Len(lens) + 1
        /\ Len(lens) + 1 \in 1 .. Len(lens) + 1 /\ g + 1 <= Len(lens) + 1
        /\ lens[g] \in Nat
    BY <1>0, <1>1
  <2>2. Offset(lens, g + 1) <= totalSize(lens)
    BY <2>1, OffsetNat DEF totalSize
  <2>3. Offset(lens, g + 1) = Offset(lens, g) + lens[g]
    BY <1>1, OffsetRec
  <2>4. Offset(lens, g) \in Nat
    BY <2>1, OffsetNat
  <2> QED BY <1>0, <1>1, <2>1, <2>2, <2>3, <2>4
<1>2. ASSUME <<g, p>> \in Extent(lens, off, n)
      PROVE  /\ g \in 1 .. Len(lens) /\ p \in Nat /\ p < lens[g]
             /\ off <= Offset(lens, g) + p /\ Offset(lens, g) + p < off + n
  <2>1. g \in 1 .. Len(lens) /\ p \in 0 .. totalSize(lens) /\ p < lens[g]
        /\ Offset(lens, g) + p \in off .. off + n - 1
    BY <1>2 DEF Extent
  <2>2. Offset(lens, g) \in Nat
    BY <1>0, <1>1, <2>1
  <2> QED BY <1>0, <2>1, <2>2
<1>3. ASSUME /\ g \in 1 .. Len(lens) /\ p \in Nat /\ p < lens[g]
             /\ off <= Offset(lens, g) + p /\ Offset(lens, g) + p < off + n
      PROVE  <<g, p>> \in Extent(lens, off, n)
  <2>1. p \in 0 .. totalSize(lens) /\ Offset(lens, g) \in Nat
    BY <1>1, <1>3
  <2>2. Offset(lens, g) + p \in off .. off + n - 1
    BY <1>3, <2>1
  <2> QED BY <1>3, <2>1, <2>2 DEF Extent
<1> QED BY <1>2, <1>3

(* Chunks, and the bytes that a sequence of them covers. *)
FileChunk == [file : Nat, from : Int, len : Nat]
Cover(chunks) == UNION {BytesOf(chunks[k]) : k \in DOMAIN chunks}

(* What a chunk and the chunks after it cover. *)
LEMMA CoverCons ==
    ASSUME NEW c \in FileChunk, NEW s \in Seq(FileChunk)
    PROVE  /\ <<c>> \o s \in Seq(FileChunk)
           /\ Cover(<<c>> \o s) = BytesOf(c) \cup Cover(s)
<1>1. /\ <<c>> \o s \in Seq(FileChunk)
      /\ Len(<<c>> \o s) = Len(s) + 1 /\ Len(s) \in Nat
      /\ (<<c>> \o s)[1] = c
      /\ \A k \in 1 .. Len(s) : (<<c>> \o s)[k + 1] = s[k]
  OBVIOUS
<1>2. /\ DOMAIN (<<c>> \o s) = 1 .. Len(s) + 1
      /\ DOMAIN s = 1 .. Len(s)
  BY <1>1
<1> DEFINE t == <<c>> \o s
<1> HIDE DEF t
<1>3. \A k \in DOMAIN s : k + 1 \in DOMAIN t /\ t[k + 1] = s[k]
  BY <1>1, <1>2 DEF t
<1>4. \A k \in DOMAIN t : k = 1 \/ (k - 1 \in DOMAIN s /\ t[k] = s[k - 1])
  BY <1>1, <1>2 DEF t
<1>5. t[1] = c /\ 1 \in DOMAIN t
  BY <1>1, <1>2 DEF t
<1>6. Cover(t) = BytesOf(c) \cup Cover(s)
  <2>1. Cover(t) \subseteq BytesOf(c) \cup Cover(s)
    BY <1>4, <1>5 DEF Cover
  <2>2. BytesOf(c) \cup Cover(s) \subseteq Cover(t)
    BY <1>3, <1>5 DEF Cover
  <2> QED BY <2>1, <2>2
<1> QED BY <1>1, <1>6 DEF t

(* The same, from the sequence. *)
LEMMA CoverHead ==
    ASSUME NEW s \in Seq(FileChunk), s # <<>>
    PROVE  /\ Tail(s) \in Seq(FileChunk)
           /\ Cover(s) = BytesOf(Head(s)) \cup Cover(Tail(s))
<1>1. /\ Tail(s) \in Seq(FileChunk) /\ Head(s) \in FileChunk
      /\ s = <<Head(s)>> \o Tail(s)
  OBVIOUS
<1> QED BY <1>1, CoverCons

(* The bytes of a chunk, one by one. *)
LEMMA BytesOfChunk ==
    ASSUME NEW i \in Nat, NEW from \in Int, NEW len \in Nat, NEW g, NEW p
    PROVE  <<g, p>> \in BytesOf([file |-> i, from |-> from, len |-> len]) <=>
              g = i /\ p \in Int /\ from <= p /\ p < from + len
<1> DEFINE c == [file |-> i, from |-> from, len |-> len]
<1>0. c.file = i /\ c.from = from /\ c.len = len
  OBVIOUS
<1> HIDE DEF c
<1>1. ASSUME <<g, p>> \in BytesOf(c)
      PROVE  g = i /\ p \in Int /\ from <= p /\ p < from + len
  BY <1>0, <1>1 DEF BytesOf
<1>2. ASSUME g = i, p \in Int, from <= p, p < from + len
      PROVE  <<g, p>> \in BytesOf(c)
  <2>1. p - from \in 0 .. c.len - 1 /\ p = c.from + (p - from)
    BY <1>0, <1>2
  <2> QED BY <1>0, <1>2, <2>1 DEF BytesOf
<1> QED BY <1>1, <1>2 DEF c

(* What is meant from file i on, when the loop puts a chunk in file i ...  *)
LEMMA ExtentSplit ==
    ASSUME NEW lens \in Seq(Nat), NEW i \in 1 .. Len(lens), NEW o \in Nat,
           NEW left \in Nat, NEW chunk \in Nat, chunk <= left,
           Offset(lens, i) <= o,
           \/ chunk = left /\ o + chunk <= Offset(lens, i + 1)
           \/ o + chunk = Offset(lens, i + 1),
           NEW g, NEW p
    PROVE  <<g, p>> \in Extent(lens, o, left) /\ g >= i <=>
              \/ <<g, p>> \in Extent(lens, o + chunk, left - chunk) /\ g >= i + 1
              \/ /\ g = i /\ p \in Int
                 /\ o - Offset(lens, i) <= p
                 /\ p < o - Offset(lens, i) + chunk
<1>0. /\ Len(lens) \in Nat /\ i \in Nat
      /\ i \in 1 .. Len(lens) + 1 /\ i + 1 \in 1 .. Len(lens) + 1
      /\ lens[i] \in Nat
  OBVIOUS
<1>1. /\ Offset(lens, i) \in Nat /\ Offset(lens, i + 1) \in Nat
      /\ Offset(lens, i + 1) = Offset(lens, i) + lens[i]
  BY <1>0, OffsetNat, OffsetRec
<1>2. ASSUME g \in 1 .. Len(lens), g >= i + 1
      PROVE  Offset(lens, g) \in Nat /\ Offset(lens, i + 1) <= Offset(lens, g)
  <2>1. g \in 1 .. Len(lens) + 1
    BY <1>0, <1>2
  <2> QED BY <1>0, <1>2, <2>1, OffsetNat
<1>3. o + chunk \in Nat /\ left - chunk \in Nat
  OBVIOUS
<1>4. CASE g \in 1 .. Len(lens) /\ g >= i + 1 /\ p \in Nat
  <2>1. ~ (g = i) /\ g >= i
    BY <1>0, <1>4
  <2>2. Offset(lens, g) + p < o + left
          <=> Offset(lens, g) + p < (o + chunk) + (left - chunk)
    BY <1>2, <1>4
  <2>3. Offset(lens, g) \in Nat /\ Offset(lens, i + 1) <= Offset(lens, g)
    BY <1>2, <1>4
  <2>4. o <= Offset(lens, g) + p /\ Offset(lens, g) + p < o + left
          <=> /\ o + chunk <= Offset(lens, g) + p
              /\ Offset(lens, g) + p < o + left
    <3> DEFINE x == Offset(lens, g) + p
               end == Offset(lens, i + 1)
    <3>1. x \in Nat /\ end \in Nat /\ end <= x
      <4>1. p \in Nat /\ Offset(lens, g) \in Nat /\ end \in Nat
        BY <1>1, <1>4, <2>3
      <4>2. end <= Offset(lens, g)
        BY <2>3
      <4> HIDE DEF end
      <4> QED BY <4>1, <4>2
    <3>2. \/ chunk = left /\ o + chunk <= end
          \/ o + chunk = end
      OBVIOUS
    <3> HIDE DEF x, end
    <3>3. o <= x /\ x < o + left <=> o + chunk <= x /\ x < o + left
      BY <3>1, <3>2
    <3> QED BY <3>3 DEF x
  <2> QED BY <1>3, <1>4, <2>1, <2>2, <2>4, ExtentMembers
<1>5. CASE g = i
  <2>1. ~ (g >= i + 1) /\ g >= i /\ g \in 1 .. Len(lens)
    BY <1>0, <1>5
  <2>2. <<g, p>> \in Extent(lens, o, left) <=>
              /\ p \in Nat /\ p < lens[i]
              /\ o <= Offset(lens, i) + p /\ Offset(lens, i) + p < o + left
    BY <1>5, <2>1, ExtentMembers
  <2>3. p \in Int => (/\ p \in Nat /\ p < lens[i]
              /\ o <= Offset(lens, i) + p /\ Offset(lens, i) + p < o + left
            <=> /\ o - Offset(lens, i) <= p
                /\ p < o - Offset(lens, i) + chunk)
    <3> DEFINE base == Offset(lens, i)
               len == lens[i]
    <3>1. base \in Nat /\ len \in Nat /\ base <= o
      BY <1>0, <1>1
    <3>2. \/ chunk = left /\ o + chunk <= base + len
          \/ o + chunk = base + len /\ chunk <= left
      BY <1>1
    <3> HIDE DEF base, len
    <3> SUFFICES ASSUME p \in Int
                 PROVE  (/\ p \in Nat /\ p < len
                         /\ o <= base + p /\ base + p < o + left)
                        <=> (o - base <= p /\ p < o - base + chunk)
      BY DEF base, len
    <3>3. CASE chunk = left /\ o + chunk <= base + len
      BY <3>1, <3>3
    <3>4. CASE o + chunk = base + len /\ chunk <= left
      BY <3>1, <3>4
    <3> QED BY <3>2, <3>3, <3>4
  <2> QED BY <1>5, <2>1, <2>2, <2>3
<1>6. CASE g # i /\ ~ (g \in 1 .. Len(lens) /\ g >= i + 1 /\ p \in Nat)
  <2>1. ASSUME <<g, p>> \in Extent(lens, o, left), g >= i PROVE FALSE
    <3>1. g \in 1 .. Len(lens) /\ p \in Nat
      BY <2>1, ExtentMembers
    <3>2. g >= i + 1
      BY <1>0, <1>6, <2>1, <3>1
    <3> QED BY <1>6, <3>1, <3>2
  <2>2. ASSUME <<g, p>> \in Extent(lens, o + chunk, left - chunk), g >= i + 1
        PROVE  FALSE
    <3>1. g \in 1 .. Len(lens) /\ p \in Nat
      BY <1>3, <2>2, ExtentMembers
    <3> QED BY <1>6, <2>2, <3>1
  <2> QED BY <1>6, <2>1, <2>2
<1> QED BY <1>4, <1>5, <1>6

(* ... and when file i ends before it. *)
LEMMA ExtentSkip ==
    ASSUME NEW lens \in Seq(Nat), NEW i \in 1 .. Len(lens), NEW o \in Nat,
           NEW left \in Nat, o >= Offset(lens, i + 1), NEW g, NEW p
    PROVE  <<g, p>> \in Extent(lens, o, left) /\ g >= i <=>
           <<g, p>> \in Extent(lens, o, left) /\ g >= i + 1
<1>0. /\ Len(lens) \in Nat /\ i \in Nat
      /\ i \in 1 .. Len(lens) + 1 /\ i + 1 \in 1 .. Len(lens) + 1
      /\ lens[i] \in Nat
  OBVIOUS
<1>1. /\ Offset(lens, i) \in Nat
      /\ Offset(lens, i + 1) = Offset(lens, i) + lens[i]
  BY <1>0, OffsetNat, OffsetRec
<1>2. ASSUME <<g, p>> \in Extent(lens, o, left)
      PROVE  g >= i <=> g >= i + 1
  <2>1. /\ g \in 1 .. Len(lens) /\ p \in Nat /\ p < lens[g]
        /\ o <= Offset(lens, g) + p
    BY <1>2, ExtentMembers
  <2>2. g # i
    BY <1>0, <1>1, <2>1
  <2> QED BY <1>0, <2>1, <2>2
<1> QED BY <1>2

(* The loop is right about what is meant from file i on. *)
LoopRight(lens, f, i, o, left) ==
    /\ f[<<i, o, left>>] \in Seq(FileChunk)
    /\ \A g, p : <<g, p>> \in Cover(f[<<i, o, left>>]) <=>
                 <<g, p>> \in Extent(lens, o, left) /\ g >= i

LoopPre(lens, i, o, left) ==
    left = 0 \/ i > Len(lens) \/ Offset(lens, i) <= o

(* One turn of the loop is right when the next ones are. *)
LEMMA LoopTurnExact ==
    ASSUME NEW lens \in Seq(Nat), NEW f,
           NEW i \in 1 .. Len(lens) + 1, NEW o \in Nat, NEW left \in Nat,
           f[<<i, o, left>>] = LoopStep(lens, f, <<i, o, left>>),
           LoopPre(lens, i, o, left),
           i \in 1 .. Len(lens) =>
              \A a, b \in Nat : LoopPre(lens, i + 1, a, b)
                                => LoopRight(lens, f, i + 1, a, b)
    PROVE  LoopRight(lens, f, i, o, left)
<1>0. Len(lens) \in Nat /\ i \in Nat /\ Offset(lens, i) \in Nat
  BY OffsetNat
<1>1. CASE TurnEnds(lens, f, i, o, left)
  <2>1. f[<<i, o, left>>] = <<>>
    BY <1>1 DEF TurnEnds
  <2>2. Cover(<<>>) = {} /\ <<>> \in Seq(FileChunk)
    BY DEF Cover
  <2>3. \A g, p : ~ (<<g, p>> \in Extent(lens, o, left) /\ g >= i)
    <3> SUFFICES ASSUME NEW g, NEW p, <<g, p>> \in Extent(lens, o, left),
                        g >= i
                 PROVE  FALSE
      OBVIOUS
    <3>1. /\ g \in 1 .. Len(lens) /\ p \in Nat
          /\ o <= Offset(lens, g) + p /\ Offset(lens, g) + p < o + left
      BY ExtentMembers
    <3>2. g \in 1 .. Len(lens) + 1
      BY <1>0, <3>1
    <3>3. Offset(lens, g) + p \in Nat
      BY <3>1, <3>2, OffsetNat
    <3>4. left = 0
      BY <1>0, <1>1, <3>1 DEF TurnEnds
    <3> QED BY <3>1, <3>3, <3>4
  <2> QED BY <2>1, <2>2, <2>3 DEF LoopRight
<1>2. CASE TurnTakes(lens, f, i, o, left)
  <2>1. Offset(lens, i) <= o
    <3>1. ~ (left = 0) /\ ~ (i > Len(lens))
      BY <1>0, <1>2 DEF TurnTakes
    <3> QED BY <3>1 DEF LoopPre
  <2>2. PICK chunk \in Nat :
           /\ chunk <= left
           /\ \/ chunk = left /\ o + chunk <= Offset(lens, i + 1)
              \/ o + chunk = Offset(lens, i + 1)
           /\ LoopStep(lens, f, <<i, o, left>>)
                = <<[file |-> i, from |-> o - Offset(lens, i),
                     len |-> chunk]>>
                  \o f[<<i + 1, o + chunk, left - chunk>>]
    BY <1>2, <2>1 DEF TurnTakes
  <2> DEFINE c == [file |-> i, from |-> o - Offset(lens, i), len |-> chunk]
             rest == f[<<i + 1, o + chunk, left - chunk>>]
  <2>3. LoopRight(lens, f, i + 1, o + chunk, left - chunk)
    <3>1. o + chunk \in Nat /\ left - chunk \in Nat
      <4>1. chunk <= left
        BY <2>2
      <4> QED BY <4>1
    <3>2. LoopPre(lens, i + 1, o + chunk, left - chunk)
      <4>1. CASE chunk = left
        BY <4>1 DEF LoopPre
      <4>2. CASE o + chunk = Offset(lens, i + 1)
        <5>1. Offset(lens, i + 1) <= o + chunk
          BY <4>2, <3>1
        <5> QED BY <5>1 DEF LoopPre
      <4> QED BY <2>2, <4>1, <4>2
    <3> QED BY <1>2, <3>1, <3>2 DEF TurnTakes
  <2>4. c \in FileChunk /\ rest \in Seq(FileChunk)
    BY <1>0, <2>3 DEF FileChunk, LoopRight
  <2>5. f[<<i, o, left>>] = <<c>> \o rest
    BY <2>2
  <2> HIDE DEF c, rest
  <2>6. /\ f[<<i, o, left>>] \in Seq(FileChunk)
        /\ Cover(f[<<i, o, left>>]) = BytesOf(c) \cup Cover(rest)
    BY <2>4, <2>5, CoverCons
  <2>7. ASSUME NEW g, NEW p
        PROVE  <<g, p>> \in Cover(f[<<i, o, left>>]) <=>
               <<g, p>> \in Extent(lens, o, left) /\ g >= i
    <3>1. <<g, p>> \in BytesOf(c) <=>
             /\ g = i /\ p \in Int
             /\ o - Offset(lens, i) <= p
             /\ p < o - Offset(lens, i) + chunk
      <4>1. o - Offset(lens, i) \in Int
        BY <1>0
      <4> QED BY <1>0, <4>1, BytesOfChunk DEF c
    <3>2. <<g, p>> \in Cover(rest) <=>
             <<g, p>> \in Extent(lens, o + chunk, left - chunk) /\ g >= i + 1
      BY <2>3 DEF LoopRight, rest
    <3>3. <<g, p>> \in Extent(lens, o, left) /\ g >= i <=>
            \/ <<g, p>> \in Extent(lens, o + chunk, left - chunk) /\ g >= i + 1
            \/ /\ g = i /\ p \in Int
               /\ o - Offset(lens, i) <= p
               /\ p < o - Offset(lens, i) + chunk
      BY <1>2, <2>1, <2>2, ExtentSplit DEF TurnTakes
    <3> QED BY <2>6, <3>1, <3>2, <3>3
  <2> QED BY <2>6, <2>7 DEF LoopRight
<1>3. CASE TurnSkips(lens, f, i, o, left)
  <2>1. i + 1 \in 1 .. Len(lens) + 1
    BY <1>0, <1>3 DEF TurnSkips
  <2>2. Offset(lens, i + 1) <= o
    BY <1>3, <2>1, OffsetNat DEF TurnSkips
  <2>3. LoopRight(lens, f, i + 1, o, left)
    BY <1>3, <2>2 DEF LoopPre, TurnSkips
  <2>4. f[<<i, o, left>>] = f[<<i + 1, o, left>>]
    BY <1>3 DEF TurnSkips
  <2>5. \A g, p : <<g, p>> \in Extent(lens, o, left) /\ g >= i <=>
                  <<g, p>> \in Extent(lens, o, left) /\ g >= i + 1
    BY <1>3, ExtentSkip DEF TurnSkips
  <2> QED BY <2>3, <2>4, <2>5 DEF LoopRight
<1> QED BY <1>1, <1>2, <1>3, LoopTurn

(* The loop touches exactly the bytes meant, from file i on. *)
LEMMA LoopExact ==
    ASSUME NEW lens \in Seq(Nat), NEW f,
           \A s \in LoopStates(lens) : f[s] = LoopStep(lens, f, s)
    PROVE  \A i \in 1 .. Len(lens) + 1 : \A o, left \in Nat :
              LoopPre(lens, i, o, left) => LoopRight(lens, f, i, o, left)
<1> DEFINE n == Len(lens)
           All(i) == \A o, left \in Nat :
              LoopPre(lens, i, o, left) => LoopRight(lens, f, i, o, left)
           Bad == {m \in Nat : m <= n /\ ~ All((n + 1) - m)}
<1>0. n \in Nat
  OBVIOUS
<1>1. Bad = {}
  <2> SUFFICES ASSUME Bad # {} PROVE FALSE
    OBVIOUS
  <2>1. PICK m \in Bad : \A k \in Bad : m <= k
    BY LeastElement
  <2> DEFINE i == (n + 1) - m
  <2>2. m \in Nat /\ m <= n /\ ~ All(i)
    BY <2>1
  <2> HIDE DEF All
  <2>3. i \in 1 .. n + 1
    BY <1>0, <2>2
  <2>4. ASSUME i \in 1 .. n PROVE All(i + 1)
    <3>1. /\ m - 1 \in Nat /\ ~ (m <= m - 1) /\ m - 1 <= n
          /\ (n + 1) - (m - 1) = i + 1
      BY <1>0, <2>2, <2>4
    <3>2. m - 1 \notin Bad
      <4> HIDE DEF Bad
      <4> QED BY <2>1, <3>1
    <3> QED BY <3>1, <3>2
  <2> HIDE DEF i
  <2>5. ASSUME NEW o \in Nat, NEW left \in Nat, LoopPre(lens, i, o, left)
        PROVE  LoopRight(lens, f, i, o, left)
    <3>1. f[<<i, o, left>>] = LoopStep(lens, f, <<i, o, left>>)
      <4>1. <<i, o, left>> \in LoopStates(lens)
        BY <2>3 DEF LoopStates
      <4> QED BY <4>1
    <3>2. i \in 1 .. Len(lens) =>
              \A a, b \in Nat : LoopPre(lens, i + 1, a, b)
                                => LoopRight(lens, f, i + 1, a, b)
      BY <2>4 DEF All
    <3> QED BY <2>3, <2>5, <3>1, <3>2, LoopTurnExact
  <2>6. All(i)
    BY <2>5 DEF All
  <2> QED BY <2>2, <2>6 DEF i
<1>2. ASSUME NEW i \in 1 .. n + 1
      PROVE  All(i)
  <2>1. /\ (n + 1) - i \in Nat /\ (n + 1) - i <= n
        /\ (n + 1) - ((n + 1) - i) = i
    BY <1>0
  <2> HIDE DEF All
  <2> QED BY <1>1, <2>1
<1> QED BY <1>2

-----------------------------------------------------------------------------
(* ReadAt and WritePiece access exactly the bytes they were asked for, and *)
(* none beyond the end of the store, whatever the files.                   *)
THEOREM ChunksAreExtent ==
    ASSUME NEW lens \in Seq(Nat), NEW off \in Nat, NEW n \in Nat
    PROVE  /\ Chunks(lens, off, n) \in Seq(FileChunk)
           /\ Cover(Chunks(lens, off, n)) = Extent(lens, off, n)
<1> DEFINE f == CHOOSE g : g = [s \in LoopStates(lens) |-> LoopStep(lens, g, s)]
           first == find(lens, off)
<1>0. Len(lens) \in Nat
  OBVIOUS
<1>1. Chunks(lens, off, n) = f[<<first, off, n>>]
  BY DEF Chunks, LoopStates, LoopStep
<1>2. f = [s \in LoopStates(lens) |-> LoopStep(lens, f, s)]
  BY LoopExists
<1> HIDE DEF f
<1>3. \A s \in LoopStates(lens) : f[s] = LoopStep(lens, f, s)
  BY <1>2
<1>4. first \in 1 .. Len(lens) + 1 /\ Offset(lens, first) <= off
  BY FindStarts
<1> HIDE DEF first
<1>5. /\ f[<<first, off, n>>] \in Seq(FileChunk)
      /\ \A g, p : <<g, p>> \in Cover(f[<<first, off, n>>]) <=>
                   <<g, p>> \in Extent(lens, off, n) /\ g >= first
  <2>1. LoopPre(lens, first, off, n)
    BY <1>4 DEF LoopPre
  <2>2. LoopRight(lens, f, first, off, n)
    BY <1>3, <1>4, <2>1, LoopExact
  <2> QED BY <2>2 DEF LoopRight
<1>6. ASSUME NEW g, NEW p, <<g, p>> \in Extent(lens, off, n) PROVE g >= first
  <2> SUFFICES ASSUME g < first PROVE FALSE
    <3>1. g \in 1 .. Len(lens)
      BY <1>6, ExtentMembers
    <3> QED BY <1>0, <1>4, <3>1
  <2>1. /\ g \in 1 .. Len(lens) /\ p \in Nat /\ p < lens[g]
        /\ off <= Offset(lens, g) + p
    BY <1>6, ExtentMembers
  <2>2. /\ g \in 1 .. Len(lens) + 1 /\ g + 1 \in 1 .. Len(lens) + 1
        /\ g + 1 <= first /\ lens[g] \in Nat
    BY <1>0, <1>4, <2>1
  <2>3. Offset(lens, g + 1) <= Offset(lens, first)
    BY <1>4, <2>2, OffsetNat
  <2>4. Offset(lens, g + 1) = Offset(lens, g) + lens[g]
    BY <2>1, OffsetRec
  <2>5. Offset(lens, g) \in Nat /\ Offset(lens, first) \in Nat
    BY <1>4, <2>2, OffsetNat
  <2> QED BY <1>4, <2>1, <2>2, <2>3, <2>4, <2>5
<1>7. \A g, p : <<g, p>> \in Cover(f[<<first, off, n>>]) <=>
                <<g, p>> \in Extent(lens, off, n)
  BY <1>5, <1>6
<1>8. ASSUME NEW x \in Cover(f[<<first, off, n>>]) PROVE \E g, p : x = <<g, p>>
  BY DEF Cover, BytesOf
<1>9. ASSUME NEW x \in Extent(lens, off, n) PROVE \E g, p : x = <<g, p>>
  BY DEF Extent
<1>10. Cover(f[<<first, off, n>>]) = Extent(lens, off, n)
  <2> HIDE DEF Cover
  <2>1. Cover(f[<<first, off, n>>]) \subseteq Extent(lens, off, n)
    BY <1>7, <1>8
  <2>2. Extent(lens, off, n) \subseteq Cover(f[<<first, off, n>>])
    BY <1>7, <1>9
  <2> QED BY <2>1, <2>2
<1> QED BY <1>1, <1>5, <1>10

-----------------------------------------------------------------------------
(* Quotient and remainder. *)
LEMMA DivMod ==
    ASSUME NEW i \in Nat, NEW b \in Nat \ {0}
    PROVE  /\ i \div b \in Nat /\ i % b \in 0 .. b - 1
           /\ (i \div b) * b + (i % b) = i
OBVIOUS

(* The n bits of a bitset have room in its NumBytes(n) bytes: NewBitset    *)
(* rounds up.                                                              *)
LEMMA BytesHold ==
    ASSUME NEW n \in Nat, NEW i \in 0 .. n - 1
    PROVE  i \div ByteSize + 1 \in 1 .. NumBytes(n)
<1>1. ByteSize \in Nat \ {0}
  BY BitsetAssumption
<1> DEFINE q == i \div ByteSize
           m == (n + ByteSize - 1) \div ByteSize
<1>2. q \in Nat /\ q * ByteSize <= i
  BY <1>1, DivMod
<1>3. m \in Nat /\ n <= m * ByteSize
  <2>1. n + ByteSize - 1 \in Nat
    BY <1>1
  <2>2. /\ m \in Nat /\ (n + ByteSize - 1) % ByteSize \in 0 .. ByteSize - 1
        /\ m * ByteSize + ((n + ByteSize - 1) % ByteSize) = n + ByteSize - 1
    BY <1>1, <2>1, DivMod
  <2> DEFINE k == m * ByteSize
             r == (n + ByteSize - 1) % ByteSize
  <2>3. k \in Int
    BY <1>1, <2>2
  <2>4. r \in 0 .. ByteSize - 1 /\ k + r = n + ByteSize - 1
    BY <2>2
  <2> HIDE DEF k, r
  <2>5. n <= k
    BY <1>1, <2>3, <2>4
  <2> QED BY <2>2, <2>5 DEF k
<1> HIDE DEF q, m
<1>4. q < m
  <2> SUFFICES ASSUME m <= q PROVE FALSE
    BY <1>2, <1>3
  <2>1. m * ByteSize <= q * ByteSize
    BY <1>1, <1>2, <1>3
  <2> QED BY <1>1, <1>2, <1>3, <2>1
<1> QED BY <1>2, <1>3, <1>4 DEF NumBytes, q, m

(* A bitset that is read back from its bytes is the one that was written:  *)
(* Bytes and NewBitsetFromBytes agree, the last byte included.             *)
LEMMA ReadBack ==
    ASSUME NEW n \in Nat, NEW S \in SUBSET (0 .. n - 1)
    PROVE  /\ FromBytes(n, Bytes(S, n)) = S
           /\ NumBytes(n) \in Nat
           /\ Len(Bytes(S, n)) = NumBytes(n)
           /\ Bytes(S, n) \in Seq(SUBSET (0 .. ByteSize - 1))
<1>1. ByteSize \in Nat \ {0}
  BY BitsetAssumption
<1>2. NumBytes(n) \in Nat
  BY <1>1, DivMod DEF NumBytes
<1>3. ASSUME NEW i \in 0 .. n - 1
      PROVE  IsSet(Bytes(S, n), i) <=> i \in S
  <2>1. i \div ByteSize + 1 \in 1 .. NumBytes(n)
    BY BytesHold
  <2>2. /\ i \div ByteSize \in Nat /\ i % ByteSize \in 0 .. ByteSize - 1
        /\ (i \div ByteSize) * ByteSize + (i % ByteSize) = i
    <3>1. i \in Nat
      OBVIOUS
    <3> QED BY <1>1, <3>1, DivMod
  <2>3. Bytes(S, n)[i \div ByteSize + 1] =
          {k \in 0 .. ByteSize - 1 :
             ((i \div ByteSize + 1) - 1) * ByteSize + k \in S}
    BY <2>1 DEF Bytes
  <2>4. (i \div ByteSize + 1) - 1 = i \div ByteSize
    BY <2>2
  <2> QED BY <2>2, <2>3, <2>4 DEF IsSet
<1>4. FromBytes(n, Bytes(S, n)) = S
  BY <1>3 DEF FromBytes
<1>5. /\ Bytes(S, n) \in Seq(SUBSET (0 .. ByteSize - 1))
      /\ Len(Bytes(S, n)) = NumBytes(n)
  BY <1>2 DEF Bytes
<1> QED BY <1>2, <1>4, <1>5

(* The bytes of piece i, by the reference. *)
PieceExtent(i) == Extent(layout, i * PieceLength, pieceLength(i))

(* What the rest needs of the types. *)
Types ==
    /\ layout \in Layouts
    /\ unwritten \in SUBSET Pieces
    /\ pieceSet \in SUBSET Pieces
    /\ unread \in SUBSET Pieces
    /\ todo \in Seq(FileChunk)
    /\ results \in Seq(Chunk)
    /\ hand \in Chunk \cup {None}
    /\ hashing \in [Workers -> Chunk \cup {None}]
    /\ sums \in [Pieces -> {"none", "good", "bad"}]
    /\ next \in Nat

(* RecordBlock: what is not right of the piece that is being written is    *)
(* still to be written, or its write has failed.                           *)
Recorded ==
    at = "write" =>
       /\ piece \in Pieces
       /\ \/ PieceExtent(piece) \subseteq good \cup Cover(todo)
          \/ todo = <<>> /\ piece \in unwritten

(* The resume file, when it is one that load accepts, claims right pieces  *)
(* only.                                                                   *)
ResumeRight ==
    resume # None /\ Valid(totalPieces, resume)
        => FromBytes(totalPieces, resume) \subseteq Right \cup unwritten

(* A chunk of computeSums is about a piece that was read, and says of it   *)
(* what is the case: its hash is right unless it could not be read.        *)
Fits(c) == c.i < next /\ (c.ok <=> c.i \in Right \ unread)

(* checkPieces: so does every chunk on its way through the pipeline, and   *)
(* every sum that has been merged.                                         *)
Hashed ==
    phase = "check" =>
       /\ \A i \in unread : i < next
       /\ hand # None => Fits(hand)
       /\ \A w \in Workers : hashing[w] # None => Fits(hashing[w])
       /\ \A k \in 1 .. Len(results) : Fits(results[k])
       /\ \A i \in Pieces : sums[i] # "none" =>
             i < next /\ (sums[i] = "good" <=> i \in Right \ unread)

(* The inductive invariant of what Resume describes. *)
RInv == Types /\ Recorded /\ ResumeSound /\ ResumeRight /\ Hashed

(* Numbers and lengths of pieces are natural numbers. *)
LEMMA PiecesNat ==
    ASSUME layout \in Layouts
    PROVE  /\ layout \in Seq(Nat)
           /\ TotalSize \in Nat /\ totalPieces \in Nat
           /\ \A i \in Pieces : i * PieceLength \in Nat /\ pieceLength(i) \in Nat
<1>1. layout \in Seq(Nat) /\ TotalSize = totalSize(layout)
      /\ PieceLength \in Nat \ {0}
  BY ResumeAssumption
<1>2. TotalSize \in Nat
  <2>1. Len(layout) + 1 \in 1 .. Len(layout) + 1
    BY <1>1
  <2> QED BY <1>1, <2>1, OffsetNat DEF totalSize
<1>3. TotalSize \div PieceLength \in Nat /\ TotalSize % PieceLength \in Nat
  BY <1>1, <1>2
<1>4. totalPieces \in Nat /\ lastPieceLength \in Nat
  BY <1>1, <1>3 DEF totalPieces, lastPieceLength
<1>5. ASSUME NEW i \in Pieces
      PROVE  i * PieceLength \in Nat /\ pieceLength(i) \in Nat
  <2>1. i \in Nat
    BY <1>4 DEF Pieces
  <2> QED BY <1>1, <1>4, <2>1 DEF pieceLength
<1> QED BY <1>1, <1>2, <1>4, <1>5

(* ReadAt fills the buffer of a piece with its bytes, and WritePiece       *)
(* writes them: this is where the file store's loop comes in.              *)
LEMMA PieceBytes ==
    ASSUME layout \in Layouts, NEW i \in Pieces
    PROVE  /\ ReadAt(i) = PieceExtent(i)
           /\ Chunks(layout, i * PieceLength, pieceLength(i)) \in Seq(FileChunk)
           /\ Cover(Chunks(layout, i * PieceLength, pieceLength(i))) = PieceExtent(i)
<1>1. /\ layout \in Seq(Nat)
      /\ i * PieceLength \in Nat /\ pieceLength(i) \in Nat
  BY PiecesNat
<1>2. /\ Chunks(layout, i * PieceLength, pieceLength(i)) \in Seq(FileChunk)
      /\ Cover(Chunks(layout, i * PieceLength, pieceLength(i))) = PieceExtent(i)
  BY <1>1, ChunksAreExtent DEF PieceExtent
<1>3. ReadAt(i) = Cover(Chunks(layout, i * PieceLength, pieceLength(i)))
  BY DEF ReadAt, Cover
<1> QED BY <1>2, <1>3

(* Bytes of the files that are right stay so, and a piece is right when    *)
(* all of its bytes are.                                                   *)
LEMMA RightGrows ==
    ASSUME layout' = layout, good \subseteq good'
    PROVE  Right \subseteq Right'
BY DEF Right, Pieces, totalPieces, pieceLength, lastPieceLength

(* If the files stay as they are, so do the right pieces. *)
LEMMA RightSame ==
    ASSUME layout' = layout, good' = good
    PROVE  Right' = Right
BY DEF Right, Pieces, totalPieces, pieceLength, lastPieceLength

(* A piece is right when all bytes of its range are. *)
LEMMA RightExtent ==
    ASSUME NEW i \in Pieces
    PROVE  /\ i \in Right <=> PieceExtent(i) \subseteq good
           /\ layout' = layout => PieceExtent(i)' = PieceExtent(i)
BY DEF Right, PieceExtent, Pieces, totalPieces, pieceLength, lastPieceLength

(* The pipeline is empty where a session begins or ends. *)
LEMMA PipelineOK ==
    ASSUME Pipeline
    PROVE  /\ unread' \in SUBSET Pieces
           /\ results' \in Seq(Chunk)
           /\ hand' \in Chunk \cup {None}
           /\ hashing' \in [Workers -> Chunk \cup {None}]
           /\ sums' \in [Pieces -> {"none", "good", "bad"}]
           /\ next' \in Nat
           /\ Hashed'
<1>1. /\ unread' = {} /\ results' = <<>> /\ hand' = None
      /\ hashing' = [w \in Workers |-> None]
      /\ sums' = [i \in Pieces |-> "none"]
      /\ next' = 0
  BY DEF Pipeline
<1>2. /\ \A w \in Workers : hashing'[w] = None
      /\ \A i \in Pieces : sums'[i] = "none"
      /\ Len(results') = 0
  BY <1>1
<1>3. Hashed'
  BY <1>1, <1>2 DEF Hashed, Pieces, totalPieces
<1> QED BY <1>1, <1>3

(* load, whatever the flags. *)
LEMMA LoadOK ==
    ASSUME RInv, NEW f, load(f)
    PROVE  RInv'
<1>1. /\ UNCHANGED <<layout, good, unwritten, resume>>
      /\ at' = "idle" /\ todo' = <<>>
      /\ Pipeline
      /\ pieceSet' = IF ~ f.initialCheck /\ f.quickResume /\ resume # None
                     THEN FromBytes(totalPieces, resume) ELSE {}
  BY DEF load, Memory, files
<1>2. Right' = Right
  BY <1>1, RightSame
<1>3. pieceSet' \in SUBSET Pieces /\ pieceSet' \subseteq Right \cup unwritten
  <2>1. CASE ~ f.initialCheck /\ f.quickResume /\ resume # None
    <3>1. Valid(totalPieces, resume)
      BY <2>1 DEF load, Malformed
    <3>2. pieceSet' \subseteq Right \cup unwritten
      BY <1>1, <2>1, <3>1 DEF RInv, ResumeRight
    <3>3. FromBytes(totalPieces, resume) \subseteq Pieces
      BY DEF FromBytes, Pieces
    <3> QED BY <1>1, <2>1, <3>2, <3>3
  <2>2. CASE ~ (~ f.initialCheck /\ f.quickResume /\ resume # None)
    BY <1>1, <2>2
  <2> QED BY <2>1, <2>2
<1>4. Types' /\ Hashed'
  BY <1>1, <1>3, PipelineOK DEF RInv, Types, Pieces, totalPieces
<1>5. Recorded' /\ ResumeSound'
  BY <1>1, <1>2, <1>3 DEF Recorded, ResumeSound
<1>6. ResumeRight'
  BY <1>1, <1>2 DEF RInv, ResumeRight, totalPieces
<1> QED BY <1>4, <1>5, <1>6 DEF RInv

(* A step that leaves the files, the memory and the record alone. *)
LEMMA FilesSame ==
    ASSUME RInv, UNCHANGED <<files, pieceSet, record>>
    PROVE  Recorded' /\ ResumeSound' /\ ResumeRight' /\ Right' = Right
<1>1. UNCHANGED <<layout, good, unwritten, resume, pieceSet, at, piece, todo>>
  BY DEF files, record
<1>2. Right' = Right
  BY <1>1, RightSame
<1>3. Recorded'
  BY <1>1, RightExtent DEF RInv, Recorded, Cover, Pieces, totalPieces
<1>4. ResumeSound'
  BY <1>1, <1>2 DEF RInv, ResumeSound
<1>5. ResumeRight'
  BY <1>1, <1>2 DEF RInv, ResumeRight, totalPieces
<1> QED BY <1>2, <1>3, <1>4, <1>5

(* The readers, the hashers and the merger. *)
LEMMA ReadPieceOK ==
    ASSUME RInv, ReadPiece
    PROVE  RInv'
<1>1. /\ phase = "check" /\ phase' = "check" /\ hand = None
      /\ next \in Pieces
      /\ \/ /\ hand' = [i |-> next, ok |-> ReadAt(next) \subseteq good]
            /\ UNCHANGED unread
         \/ /\ hand' = [i |-> next, ok |-> FALSE]
            /\ unread' = unread \cup {next}
      /\ next' = next + 1
      /\ UNCHANGED <<files, pieceSet, record, hashing, results, sums>>
  <2>1. next \in Nat /\ next < totalPieces /\ totalPieces \in Nat
    BY PiecesNat DEF ReadPiece, RInv, Types
  <2> QED BY <2>1 DEF ReadPiece, Pieces
<1>2. /\ Recorded' /\ ResumeSound' /\ ResumeRight' /\ Right' = Right
      /\ Pieces' = Pieces
  BY <1>1, FilesSame DEF Pieces, totalPieces
<1>3. hand' \in Chunk /\ Types'
  <2>1. hand' \in Chunk
    <3>1. CASE hand' = [i |-> next, ok |-> ReadAt(next) \subseteq good]
      <4>1. (ReadAt(next) \subseteq good) \in BOOLEAN
        OBVIOUS
      <4> QED BY <1>1, <3>1, <4>1, Zenon DEF Chunk
    <3>2. CASE hand' = [i |-> next, ok |-> FALSE]
      BY <1>1, <3>2 DEF Chunk
    <3> QED BY <1>1, <3>1, <3>2
  <2>2. Chunk' = Chunk
    BY <1>2 DEF Chunk
  <2>3. next' \in Nat /\ unread' \in SUBSET Pieces
    <3>1. /\ next' = next + 1 /\ next \in Pieces
          /\ unread' = unread \/ unread' = unread \cup {next}
      BY <1>1
    <3>2. next \in Nat /\ unread \in SUBSET Pieces
      BY DEF RInv, Types
    <3>3. next' \in Nat
      BY <3>1, <3>2
    <3>4. unread' \in SUBSET Pieces
      <4>1. CASE unread' = unread
        BY <3>2, <4>1
      <4>2. CASE unread' = unread \cup {next}
        BY <3>1, <3>2, <4>2, Zenon
      <4> QED BY <3>1, <4>1, <4>2
    <3> QED BY <3>3, <3>4
  <2>4. UNCHANGED <<layout, unwritten, pieceSet, todo, results, hashing, sums>>
    BY <1>1 DEF files, record
  <2> QED BY <1>2, <2>1, <2>2, <2>3, <2>4 DEF RInv, Types
<1>4. next \in Nat /\ \A i \in unread : i \in Nat /\ i < next
  BY <1>1, PiecesNat DEF RInv, Types, Hashed, Pieces
<1>5. next \notin unread
  BY <1>4
<1>6. hand'.i = next /\ (hand'.ok <=> next \in Right \ unread')
  <2>1. ReadAt(next) \subseteq good <=> next \in Right
    <3>1. layout \in Layouts
      BY DEF RInv, Types
    <3> QED BY <1>1, <3>1, PieceBytes, RightExtent
  <2>2. CASE /\ hand' = [i |-> next, ok |-> ReadAt(next) \subseteq good]
             /\ UNCHANGED unread
    BY <1>5, <2>1, <2>2
  <2>3. CASE /\ hand' = [i |-> next, ok |-> FALSE]
             /\ unread' = unread \cup {next}
    BY <2>3
  <2> QED BY <1>1, <2>2, <2>3
<1>7. ASSUME NEW c \in Chunk, Fits(c)
      PROVE  Fits(c)'
  <2>1. c.i \in Nat /\ c.i < next
    BY <1>7, PiecesNat DEF Chunk, Pieces, Fits, RInv, Types
  <2>2. c.i # next /\ c.i < next + 1
    BY <1>4, <2>1
  <2>3. c.i \in Right \ unread <=> c.i \in Right' \ unread'
    BY <1>1, <1>2, <2>2
  <2> QED BY <1>1, <1>7, <2>2, <2>3 DEF Fits
<1>8. Fits(hand)'
  BY <1>1, <1>2, <1>4, <1>6 DEF Fits
<1>9. Hashed'
  <2>1. \A i \in unread' : i < next'
    BY <1>1, <1>4
  <2>2. \A w \in Workers : hashing'[w] # None => Fits(hashing[w])'
    <3>1. \A w \in Workers : hashing[w] \in Chunk \cup {None}
      BY DEF RInv, Types
    <3> QED BY <1>1, <1>7, <3>1 DEF RInv, Hashed
  <2>3. \A k \in 1 .. Len(results') : Fits(results[k])'
    <3>1. \A k \in 1 .. Len(results) : results[k] \in Chunk
      BY DEF RInv, Types
    <3> QED BY <1>1, <1>7, <3>1 DEF RInv, Hashed
  <2>4. ASSUME NEW i \in Pieces, sums'[i] # "none"
        PROVE  i < next' /\ (sums'[i] = "good" <=> i \in Right' \ unread')
    <3>1. i \in Nat /\ i < next /\ (sums[i] = "good" <=> i \in Right \ unread)
      BY <1>1, <2>4, PiecesNat DEF RInv, Types, Hashed, Pieces
    <3>2. i # next /\ i < next + 1
      BY <1>4, <3>1
    <3> QED BY <1>1, <1>2, <3>1, <3>2
  <2> QED BY <1>1, <1>2, <1>8, <2>1, <2>2, <2>3, <2>4 DEF Hashed
<1> QED BY <1>2, <1>3, <1>9 DEF RInv

(* What is known of a chunk does not depend on where it is. *)
LEMMA PipelineSame ==
    ASSUME RInv, phase = "check", phase' = "check",
           UNCHANGED <<files, pieceSet, record, next, unread>>
    PROVE  /\ Recorded' /\ ResumeSound' /\ ResumeRight' /\ Right' = Right
           /\ Pieces' = Pieces /\ Chunk' = Chunk
           /\ UNCHANGED <<layout, unwritten, pieceSet, todo, next, unread>>
           /\ \A i \in unread' : i < next'
<1>1. Recorded' /\ ResumeSound' /\ ResumeRight' /\ Right' = Right
  BY FilesSame
<1>2. Pieces' = Pieces /\ Chunk' = Chunk
  BY DEF Pieces, totalPieces, Chunk
<1> QED BY <1>1, <1>2 DEF files, record, RInv, Hashed

(* A chunk that is handed to a worker stays what it is. *)
LEMMA HandOK ==
    ASSUME RInv, NEW w \in Workers, Hand(w)
    PROVE  RInv'
<1>1. /\ phase = "check" /\ phase' = "check" /\ hand # None
      /\ hashing' = [hashing EXCEPT ![w] = hand] /\ hand' = None
      /\ UNCHANGED <<files, pieceSet, record, next, results, sums, unread>>
  BY DEF Hand
<1>2. /\ Recorded' /\ ResumeSound' /\ ResumeRight' /\ Right' = Right
      /\ Pieces' = Pieces /\ Chunk' = Chunk
      /\ UNCHANGED <<layout, unwritten, pieceSet, todo, next, unread>>
      /\ \A i \in unread' : i < next'
  BY <1>1, PipelineSame
<1>3. Types'
  BY <1>1, <1>2 DEF RInv, Types
<1>4. /\ Fits(hand)
      /\ \A v \in Workers : hashing[v] # None => Fits(hashing[v])
      /\ \A k \in 1 .. Len(results) : Fits(results[k])
      /\ \A i \in Pieces : sums[i] # "none" =>
            i < next /\ (sums[i] = "good" <=> i \in Right \ unread)
  BY <1>1 DEF RInv, Hashed
<1>5. \A v \in Workers : hashing'[v] # None => Fits(hashing'[v])
  BY <1>1, <1>4 DEF RInv, Types
<1>6. Hashed'
  BY <1>1, <1>2, <1>4, <1>5 DEF Hashed, Fits
<1> QED BY <1>2, <1>3, <1>6 DEF RInv

(* The result of hashPiece goes to the end of the results channel. *)
LEMMA HashOK ==
    ASSUME RInv, NEW w \in Workers, Hash(w)
    PROVE  RInv'
<1>1. /\ phase = "check" /\ phase' = "check" /\ hashing[w] # None
      /\ results' = Append(results, hashing[w])
      /\ hashing' = [hashing EXCEPT ![w] = None]
      /\ UNCHANGED <<files, pieceSet, record, next, hand, sums, unread>>
  BY DEF Hash
<1>2. /\ Recorded' /\ ResumeSound' /\ ResumeRight' /\ Right' = Right
      /\ Pieces' = Pieces /\ Chunk' = Chunk
      /\ UNCHANGED <<layout, unwritten, pieceSet, todo, next, unread>>
      /\ \A i \in unread' : i < next'
  BY <1>1, PipelineSame
<1>3. hashing[w] \in Chunk /\ results \in Seq(Chunk)
  BY <1>1 DEF RInv, Types
<1>4. Types'
  BY <1>1, <1>2, <1>3 DEF RInv, Types
<1>5. /\ hand # None => Fits(hand)
      /\ \A v \in Workers : hashing[v] # None => Fits(hashing[v])
      /\ \A k \in 1 .. Len(results) : Fits(results[k])
      /\ \A i \in Pieces : sums[i] # "none" =>
            i < next /\ (sums[i] = "good" <=> i \in Right \ unread)
  BY <1>1 DEF RInv, Hashed
<1>6. \A v \in Workers : hashing'[v] # None => Fits(hashing'[v])
  BY <1>1, <1>5 DEF RInv, Types
<1>7. \A k \in 1 .. Len(results') : Fits(results'[k])
  <2>1. /\ Len(results') = Len(results) + 1 /\ Len(results) \in Nat
        /\ \A k \in 1 .. Len(results) : results'[k] = results[k]
        /\ results'[Len(results) + 1] = hashing[w]
    BY <1>1, <1>3
  <2> QED BY <1>1, <1>5, <2>1
<1>8. Hashed'
  BY <1>1, <1>2, <1>5, <1>6, <1>7 DEF Hashed, Fits
<1> QED BY <1>2, <1>4, <1>8 DEF RInv

(* The oldest result is merged, under the index that it carries. *)
LEMMA MergeOK ==
    ASSUME RInv, Merge
    PROVE  RInv'
<1> DEFINE c == Head(results)
<1>1. /\ phase = "check" /\ phase' = "check" /\ results # <<>>
      /\ sums' = [sums EXCEPT ![c.i] = IF c.ok THEN "good" ELSE "bad"]
      /\ results' = Tail(results)
      /\ UNCHANGED <<files, pieceSet, record, next, hand, hashing, unread>>
  BY DEF Merge
<1>2. /\ Recorded' /\ ResumeSound' /\ ResumeRight' /\ Right' = Right
      /\ Pieces' = Pieces /\ Chunk' = Chunk
      /\ UNCHANGED <<layout, unwritten, pieceSet, todo, next, unread>>
      /\ \A i \in unread' : i < next'
  BY <1>1, PipelineSame
<1>3. /\ results \in Seq(Chunk) /\ Tail(results) \in Seq(Chunk)
      /\ Len(results) \in Nat \ {0}
      /\ Len(results') = Len(results) - 1
      /\ \A k \in 1 .. Len(results') : results'[k] = results[k + 1]
      /\ c = results[1]
  BY <1>1 DEF RInv, Types
<1>4. c \in Chunk /\ c.i \in Pieces /\ c.ok \in BOOLEAN
  <2>1. c \in Chunk
    BY <1>3
  <2> HIDE DEF c
  <2> QED BY <2>1 DEF Chunk
<1>5. /\ hand # None => Fits(hand)
      /\ \A v \in Workers : hashing[v] # None => Fits(hashing[v])
      /\ \A k \in 1 .. Len(results) : Fits(results[k])
      /\ \A i \in Pieces : sums[i] # "none" =>
            i < next /\ (sums[i] = "good" <=> i \in Right \ unread)
  BY <1>1 DEF RInv, Hashed
<1>6. Fits(c)
  BY <1>3, <1>5
<1> HIDE DEF c
<1>7. Types'
  <2>1. (IF c.ok THEN "good" ELSE "bad") \in {"none", "good", "bad"}
    OBVIOUS
  <2> QED BY <1>1, <1>2, <1>3, <1>4, <2>1 DEF RInv, Types
<1>8. \A k \in 1 .. Len(results') : Fits(results'[k])
  BY <1>3, <1>5
<1>9. ASSUME NEW i \in Pieces, sums'[i] # "none"
      PROVE  i < next /\ (sums'[i] = "good" <=> i \in Right \ unread)
  <2>1. CASE i = c.i
    <3>1. sums'[i] = IF c.ok THEN "good" ELSE "bad"
      BY <1>1, <1>4, <2>1 DEF RInv, Types
    <3> QED BY <1>6, <2>1, <3>1 DEF Fits
  <2>2. CASE i # c.i
    <3>1. sums'[i] = sums[i]
      BY <1>1, <2>2 DEF RInv, Types
    <3> QED BY <1>5, <1>9, <3>1
  <2> QED BY <2>1, <2>2
<1>10. Hashed'
  BY <1>1, <1>2, <1>5, <1>8, <1>9 DEF Hashed, Fits
<1> QED BY <1>2, <1>7, <1>10 DEF RInv

(* When as many sums are there as pieces, all are. *)
LEMMA AllMerged ==
    ASSUME RInv, merged = totalPieces
    PROVE  \A i \in Pieces : sums[i] # "none"
<1>1. totalPieces \in Nat
  BY PiecesNat DEF RInv, Types
<1>2. IsFiniteSet(Pieces) /\ Cardinality(Pieces) = totalPieces
  <2>1. 0 \in Int /\ totalPieces - 1 \in Int
    BY <1>1
  <2>2. /\ IsFiniteSet(0 .. totalPieces - 1)
        /\ Cardinality(0 .. totalPieces - 1) =
             IF 0 > totalPieces - 1 THEN 0 ELSE (totalPieces - 1) - 0 + 1
    BY <2>1, FS_Interval
  <2> QED BY <1>1, <2>2 DEF Pieces
<1> DEFINE S == {i \in Pieces : sums[i] # "none"}
<1>3. S \in SUBSET Pieces /\ Cardinality(S) = totalPieces
  BY DEF merged
<1>4. S = Pieces
  <2> HIDE DEF S
  <2> QED BY <1>2, <1>3, FS_Subset
<1> QED BY <1>4

(* The end of checkPieces: what is claimed is what was found right. *)
LEMMA CheckedOK ==
    ASSUME RInv, Checked
    PROVE  RInv' /\ pieceSet' = Right \ unread
<1>1. /\ phase = "check" /\ phase' = "running"
      /\ pieceSet' = {i \in Pieces : sums[i] = "good"}
      /\ at' = "idle" /\ todo' = <<>>
      /\ Pipeline
      /\ UNCHANGED <<layout, good, unwritten, resume>>
  BY DEF Checked, Memory, files
<1>2. \A i \in Pieces : sums[i] = "good" <=> i \in Right \ unread
  BY <1>1, AllMerged DEF Checked, RInv, Hashed
<1>3. pieceSet' = Right \ unread
  <2>1. Right \subseteq Pieces
    BY DEF Right
  <2> QED BY <1>1, <1>2, <2>1
<1>4. Right' = Right
  BY <1>1, RightSame
<1>5. Types' /\ Hashed'
  BY <1>1, PipelineOK DEF RInv, Types, Pieces, totalPieces
<1>6. Recorded' /\ ResumeSound'
  BY <1>1, <1>3, <1>4 DEF Recorded, ResumeSound
<1>7. ResumeRight'
  BY <1>1, <1>4 DEF RInv, ResumeRight, totalPieces
<1> QED BY <1>3, <1>5, <1>6, <1>7 DEF RInv

(* RecordBlock leaves the pipeline alone. *)
LEMMA RunningSame ==
    ASSUME RInv, phase' = "running", UNCHANGED <<layout, pipeline>>,
           unwritten' \in SUBSET Pieces, pieceSet' \in SUBSET Pieces,
           todo' \in Seq(FileChunk)
    PROVE  Types' /\ Hashed' /\ Pieces' = Pieces /\ totalPieces' = totalPieces
<1>1. Pieces' = Pieces /\ totalPieces' = totalPieces /\ Chunk' = Chunk
  BY DEF Pieces, totalPieces, Chunk
<1>2. UNCHANGED <<next, hand, hashing, results, sums, unread>>
  BY DEF pipeline
<1> QED BY <1>1, <1>2 DEF Types, RInv, Hashed

(* All of a piece is still to be written when WritePiece begins. *)
LEMMA WritePieceOK ==
    ASSUME RInv, NEW i \in Pieces, WritePiece(i)
    PROVE  RInv'
<1>1. /\ phase' = "running" /\ at' = "write" /\ piece' = i
      /\ todo' = Chunks(layout, i * PieceLength, pieceLength(i))
      /\ UNCHANGED <<layout, good, unwritten, resume, pieceSet, pipeline>>
  BY DEF WritePiece, files
<1>2. layout \in Layouts /\ unwritten \in SUBSET Pieces /\ pieceSet \in SUBSET Pieces
  BY DEF RInv, Types
<1>3. todo' \in Seq(FileChunk) /\ Cover(todo') = PieceExtent(i)
  BY <1>1, <1>2, PieceBytes
<1>4. Types' /\ Hashed' /\ Pieces' = Pieces /\ totalPieces' = totalPieces
  BY <1>1, <1>2, <1>3, RunningSame
<1>5. Right' = Right
  BY <1>1, RightSame
<1>6. PieceExtent(piece)' = PieceExtent(i)
  BY <1>1 DEF PieceExtent, pieceLength, totalPieces, lastPieceLength
<1>7. Recorded'
  <2>1. Cover(todo)' = Cover(todo')
    BY DEF Cover
  <2> QED BY <1>1, <1>3, <1>4, <1>6, <2>1 DEF Recorded
<1>8. ResumeSound' /\ ResumeRight'
  BY <1>1, <1>4, <1>5 DEF RInv, ResumeSound, ResumeRight
<1> QED BY <1>4, <1>7, <1>8 DEF RInv

(* A chunk more is in the files; the last one makes the piece right. *)
LEMMA WriteChunkOK ==
    ASSUME RInv, WriteChunk
    PROVE  RInv'
<1>1. /\ phase' = "running" /\ at = "write" /\ at' = "write" /\ todo # <<>>
      /\ good' = good \cup BytesOf(Head(todo))
      /\ todo' = Tail(todo)
      /\ unwritten' = IF Len(todo) = 1 THEN unwritten \ {piece} ELSE unwritten
      /\ UNCHANGED <<layout, resume, pieceSet, piece, pipeline>>
  BY DEF WriteChunk
<1>2. /\ layout \in Layouts /\ unwritten \in SUBSET Pieces
      /\ pieceSet \in SUBSET Pieces /\ todo \in Seq(FileChunk)
  BY DEF RInv, Types
<1>3. /\ todo' \in Seq(FileChunk)
      /\ Cover(todo) = BytesOf(Head(todo)) \cup Cover(todo')
  BY <1>1, <1>2, CoverHead
<1>4. unwritten' \in SUBSET Pieces
  BY <1>1, <1>2
<1>5. Types' /\ Hashed' /\ Pieces' = Pieces /\ totalPieces' = totalPieces
  BY <1>1, <1>2, <1>3, <1>4, RunningSame
<1>6. piece \in Pieces /\ PieceExtent(piece) \subseteq good' \cup Cover(todo')
  <2>1. piece \in Pieces /\ PieceExtent(piece) \subseteq good \cup Cover(todo)
    BY <1>1 DEF RInv, Recorded
  <2> QED BY <1>1, <1>3, <2>1
<1>7. PieceExtent(piece)' = PieceExtent(piece) /\ Cover(todo)' = Cover(todo')
  BY <1>1, <1>6, RightExtent DEF PieceExtent, pieceLength, totalPieces,
     lastPieceLength, Cover
<1>8. Recorded'
  BY <1>1, <1>5, <1>6, <1>7 DEF Recorded
<1>9. Right \subseteq Right'
  BY <1>1, RightGrows
<1>10. Right \cup unwritten \subseteq Right' \cup unwritten'
  <2>1. CASE Len(todo) = 1
    <3>1. todo' = <<>>
      BY <1>1, <1>2, <2>1
    <3>2. Cover(todo') = {}
      BY <3>1 DEF Cover
    <3>3. piece \in Right'
      BY <1>1, <1>6, <3>2 DEF Right, PieceExtent, Pieces, totalPieces,
         pieceLength, lastPieceLength
    <3> QED BY <1>1, <1>9, <2>1, <3>3
  <2>2. CASE Len(todo) # 1
    BY <1>1, <1>9, <2>2
  <2> QED BY <2>1, <2>2
<1>11. ResumeSound' /\ ResumeRight'
  <2>1. ResumeSound'
    BY <1>1, <1>10 DEF RInv, ResumeSound
  <2>2. ResumeRight'
    BY <1>1, <1>5, <1>10 DEF RInv, ResumeRight
  <2> QED BY <2>1, <2>2
<1> QED BY <1>5, <1>8, <1>11 DEF RInv

(* A piece whose write failed may be claimed all the same. *)
LEMMA WriteFailsOK ==
    ASSUME RInv, WriteFails
    PROVE  RInv'
<1>1. /\ phase' = "running" /\ at = "write" /\ at' = "write"
      /\ unwritten' = unwritten \cup {piece} /\ todo' = <<>>
      /\ UNCHANGED <<layout, good, resume, pieceSet, piece, pipeline>>
  BY DEF WriteFails
<1>2. piece \in Pieces
  BY <1>1 DEF RInv, Recorded
<1>3. unwritten' \in SUBSET Pieces /\ pieceSet' \in SUBSET Pieces
      /\ todo' \in Seq(FileChunk)
  BY <1>1, <1>2 DEF RInv, Types
<1>4. Types' /\ Hashed' /\ Pieces' = Pieces /\ totalPieces' = totalPieces
  BY <1>1, <1>3, RunningSame
<1>5. Recorded'
  BY <1>1, <1>2, <1>4 DEF Recorded
<1>6. Right' = Right
  BY <1>1, RightSame
<1>7. ResumeSound' /\ ResumeRight'
  BY <1>1, <1>4, <1>6 DEF RInv, ResumeSound, ResumeRight
<1> QED BY <1>4, <1>5, <1>7 DEF RInv

(* An empty file is no resume file, unless there are no pieces. *)
LEMMA EmptyResume ==
    ASSUME layout \in Layouts, Valid(totalPieces, <<>>)
    PROVE  FromBytes(totalPieces, <<>>) = {}
<1>1. totalPieces \in Nat /\ ByteSize \in Nat \ {0}
  BY PiecesNat, BitsetAssumption
<1>2. NumBytes(totalPieces) = 0
  BY DEF Valid
<1>3. totalPieces = 0
  <2> SUFFICES ASSUME totalPieces # 0 PROVE FALSE
    OBVIOUS
  <2>1. 0 \in 0 .. totalPieces - 1
    BY <1>1
  <2>2. 0 \div ByteSize + 1 \in 1 .. NumBytes(totalPieces)
    BY <1>1, <2>1, BytesHold
  <2> QED BY <1>2, <2>2
<1> QED BY <1>3 DEF FromBytes

(* The bit is set when the whole piece is right, or when its write failed. *)
LEMMA ClaimOK ==
    ASSUME RInv, Claim
    PROVE  RInv'
<1>1. /\ phase' = "running" /\ at = "write" /\ at' # "write" /\ todo = <<>>
      /\ pieceSet' = pieceSet \cup {piece}
      /\ resume' = <<>> \/ resume' = resume
      /\ UNCHANGED <<layout, good, unwritten, todo, pipeline>>
  BY DEF Claim
<1>2. /\ layout \in Layouts /\ unwritten \in SUBSET Pieces
      /\ pieceSet \in SUBSET Pieces /\ todo \in Seq(FileChunk)
  BY DEF RInv, Types
<1>3. piece \in Pieces /\ piece \in Right \cup unwritten
  <2>1. Cover(todo) = {}
    BY <1>1 DEF Cover
  <2>2. piece \in Pieces /\ (PieceExtent(piece) \subseteq good
                             \/ piece \in unwritten)
    BY <1>1, <2>1 DEF RInv, Recorded
  <2> QED BY <2>2, RightExtent
<1>4. Types' /\ Hashed' /\ Pieces' = Pieces /\ totalPieces' = totalPieces
  BY <1>1, <1>2, <1>3, RunningSame
<1>5. Recorded'
  BY <1>1 DEF Recorded
<1>6. Right' = Right
  BY <1>1, RightSame
<1>7. ResumeSound'
  BY <1>1, <1>3, <1>6 DEF RInv, ResumeSound
<1>8. ResumeRight'
  <2>1. CASE resume' = resume
    BY <1>1, <1>4, <1>6, <2>1 DEF RInv, ResumeRight
  <2>2. CASE resume' = <<>>
    BY <1>2, <1>4, <2>2, EmptyResume DEF ResumeRight
  <2> QED BY <1>1, <2>1, <2>2
<1> QED BY <1>4, <1>5, <1>7, <1>8 DEF RInv

(* The bytes of pieceSet, whole or cut short, are a sound resume file. *)
LEMMA SavedRight ==
    ASSUME RInv, NEW k \in 0 .. NumBytes(totalPieces),
           Valid(totalPieces, SubSeq(Bytes(pieceSet, totalPieces), 1, k))
    PROVE  FromBytes(totalPieces, SubSeq(Bytes(pieceSet, totalPieces), 1, k))
             = pieceSet
<1> DEFINE b == Bytes(pieceSet, totalPieces)
<1>1. totalPieces \in Nat /\ pieceSet \in SUBSET (0 .. totalPieces - 1)
  BY PiecesNat DEF RInv, Types, Pieces
<1>2. /\ FromBytes(totalPieces, b) = pieceSet
      /\ NumBytes(totalPieces) \in Nat
      /\ Len(b) = NumBytes(totalPieces)
      /\ b \in Seq(SUBSET (0 .. ByteSize - 1))
  BY <1>1, ReadBack
<1> HIDE DEF b
<1>3. Len(SubSeq(b, 1, k)) = k
  BY <1>2
<1>4. k = Len(b)
  BY <1>2, <1>3 DEF Valid, b
<1>5. SubSeq(b, 1, k) = b
  BY <1>2, <1>4
<1> QED BY <1>2, <1>5 DEF b

(* The resume file is written when pieceSet has its new bit. *)
LEMMA SaveOK ==
    ASSUME RInv, Save
    PROVE  RInv'
<1>1. /\ phase' = "running" /\ at' # "write"
      /\ resume' = Bytes(pieceSet, totalPieces)
      /\ UNCHANGED <<layout, good, unwritten, pieceSet, todo, pipeline>>
  BY DEF Save
<1>2. /\ unwritten' \in SUBSET Pieces /\ pieceSet' \in SUBSET Pieces
      /\ todo' \in Seq(FileChunk)
  BY <1>1 DEF RInv, Types
<1>3. Types' /\ Hashed' /\ Pieces' = Pieces /\ totalPieces' = totalPieces
  BY <1>1, <1>2, RunningSame
<1>4. Right' = Right
  BY <1>1, RightSame
<1>5. Recorded' /\ ResumeSound'
  BY <1>1, <1>4 DEF RInv, Recorded, ResumeSound
<1>6. FromBytes(totalPieces, Bytes(pieceSet, totalPieces)) = pieceSet
  <2>1. totalPieces \in Nat /\ pieceSet \in SUBSET (0 .. totalPieces - 1)
    BY PiecesNat DEF RInv, Types, Pieces
  <2> QED BY <2>1, ReadBack
<1>7. ResumeRight'
  BY <1>1, <1>3, <1>4, <1>6 DEF RInv, ResumeRight, ResumeSound
<1> QED BY <1>3, <1>5, <1>7 DEF RInv

(* Whatever part of the resume file was written when the process ended,    *)
(* load refuses it or it is all of it.                                     *)
LEMMA CrashOK ==
    ASSUME RInv, Crash
    PROVE  RInv'
<1>1. /\ \/ resume' = resume
         \/ \E k \in 0 .. NumBytes(totalPieces) :
              resume' = SubSeq(Bytes(pieceSet, totalPieces), 1, k)
      /\ pieceSet' = {} /\ at' = "idle" /\ todo' = <<>>
      /\ Pipeline
      /\ UNCHANGED <<layout, good, unwritten>>
  BY DEF Crash, Memory
<1>2. Right' = Right /\ totalPieces' = totalPieces
  BY <1>1, RightSame DEF totalPieces
<1>3. Types' /\ Hashed'
  BY <1>1, PipelineOK DEF RInv, Types, Pieces, totalPieces
<1>4. Recorded' /\ ResumeSound'
  BY <1>1 DEF Recorded, ResumeSound
<1>5. ResumeRight'
  <2>1. CASE resume' = resume
    BY <1>1, <1>2, <2>1 DEF RInv, ResumeRight
  <2>2. ASSUME NEW k \in 0 .. NumBytes(totalPieces),
               resume' = SubSeq(Bytes(pieceSet, totalPieces), 1, k)
        PROVE  ResumeRight'
    <3>1. Valid(totalPieces, resume') => FromBytes(totalPieces, resume') = pieceSet
      BY <2>2, SavedRight
    <3> QED BY <1>1, <1>2, <3>1 DEF RInv, ResumeRight, ResumeSound
  <2> QED BY <1>1, <2>1, <2>2
<1> QED BY <1>3, <1>4, <1>5 DEF RInv

(* A step of RecordBlock. *)
LEMMA RecordingOK ==
    ASSUME RInv, Recording
    PROVE  RInv'
BY WritePieceOK, WriteChunkOK, WriteFailsOK, ClaimOK, SaveOK DEF Recording

(* A step of computeSums or of the merger. *)
LEMMA HashingOK ==
    ASSUME RInv, Hashing
    PROVE  RInv'
BY ReadPieceOK, HandOK, HashOK, MergeOK DEF Hashing

(* The session waits, or serves peers. *)
LEMMA PauseOK ==
    ASSUME RInv, UNCHANGED <<files, pieceSet, record, pipeline>>,
           phase' = "check" => phase = "check"
    PROVE  RInv'
<1>1. Recorded' /\ ResumeSound' /\ ResumeRight' /\ Right' = Right
  BY FilesSame
<1>2. UNCHANGED <<layout, unwritten, pieceSet, todo, next, hand, hashing,
                  results, sums, unread>>
  BY DEF files, record, pipeline
<1>3. Pieces' = Pieces /\ Chunk' = Chunk
  BY DEF Pieces, totalPieces, Chunk
<1>4. Types'
  BY <1>2, <1>3 DEF RInv, Types
<1>5. Hashed'
  <2>1. CASE phase' = "check"
    <3>1. phase = "check"
      BY <2>1
    <3> QED BY <1>1, <1>2, <1>3, <2>1, <3>1 DEF RInv, Hashed, Fits
  <2>2. CASE phase' # "check"
    BY <2>2 DEF Hashed
  <2> QED BY <2>1, <2>2
<1> QED BY <1>1, <1>4, <1>5 DEF RInv

(* A new installation has no resume file and claims nothing. *)
LEMMA InitRInv == ResumeInit => RInv
<1> SUFFICES ASSUME ResumeInit PROVE RInv
  OBVIOUS
<1>1. /\ layout \in Layouts /\ unwritten = {} /\ pieceSet = {} /\ unread = {}
      /\ todo = <<>> /\ results = <<>> /\ hand = None /\ next = 0
      /\ hashing = [w \in Workers |-> None]
      /\ sums = [i \in Pieces |-> "none"]
      /\ at = "idle" /\ resume = None /\ phase = "down"
  BY DEF ResumeInit
<1>2. Types
  BY <1>1 DEF Types
<1>3. Recorded /\ ResumeSound /\ ResumeRight /\ Hashed
  BY <1>1 DEF Recorded, ResumeSound, ResumeRight, Hashed
<1> QED BY <1>2, <1>3 DEF RInv

-----------------------------------------------------------------------------
(* The peers' piece maps: a session that is down has no peers, and one     *)
(* that has its torrent gives new peers maps of its length.                *)
MInv ==
    /\ bits \in [Peers -> {None, 0, totalPieces}]
    /\ phase = "down" => \A p \in Peers : bits[p] = None
    /\ total \in {0, totalPieces}
    /\ phase \in {"check", "running"} => total = totalPieces
    /\ MapsFit

IInv == RInv /\ MInv

(* load enlarges the maps of the peers it finds. *)
LEMMA EnlargeOK ==
    ASSUME Enlarge, phase' = "running", total' = totalPieces
    PROVE  MInv'
<1>1. totalPieces' = totalPieces
  BY DEF totalPieces
<1> QED BY <1>1 DEF MInv, MapsFit, Enlarge

(* Every step of the program keeps the invariant. *)
LEMMA NextIInv == IInv /\ [Next]_vars => IInv'
<1> SUFFICES ASSUME IInv, [Next]_vars PROVE IInv'
  OBVIOUS
<1> USE DEF IInv
<1>0. totalPieces' = totalPieces
  BY DEF totalPieces
<1>1. ASSUME NEW f \in Flags, StartFile(f) PROVE IInv'
  <2>1. phase = "down" /\ total' = totalPieces /\ bits' = bits
    BY <1>1 DEF StartFile, Start
  <2>2. RInv' /\ phase' # "down"
    <3>1. CASE load(f)
      BY <3>1, LoadOK DEF load
    <3>2. CASE /\ phase' = "refused"
               /\ UNCHANGED <<files, pieceSet, record, pipeline>>
      BY <3>2, PauseOK
    <3> QED BY <1>1, <3>1, <3>2 DEF StartFile, Start
  <2>3. MInv'
    BY <1>0, <2>1, <2>2 DEF MInv, MapsFit
  <2> QED BY <2>2, <2>3
<1>2. ASSUME NEW f \in Flags, StartMagnet(f) PROVE IInv'
  <2>1. /\ phase' = "magnet"
        /\ UNCHANGED <<files, pieceSet, record, pipeline, metaVars>>
    BY <1>2 DEF StartMagnet
  <2>2. RInv'
    BY <2>1, PauseOK
  <2>3. MInv'
    BY <1>0, <2>1 DEF MInv, MapsFit, metaVars
  <2> QED BY <2>2, <2>3
<1>3. ASSUME UNCHANGED resumeVars PROVE RInv'
  BY <1>3, PauseOK DEF resumeVars
<1>4. ASSUME NEW p \in Peers, addPeerImp(p) PROVE IInv'
  <2>1. /\ Serving /\ UNCHANGED resumeVars
        /\ bits' = [bits EXCEPT ![p] = total] /\ total' = total
    BY <1>4 DEF addPeerImp
  <2>2. phase' = phase /\ phase \in {"magnet", "running"}
    BY <2>1 DEF Serving, resumeVars
  <2>3. bits' \in [Peers -> {None, 0, totalPieces}] /\ MapsFit'
    <3>1. CASE phase = "running"
      BY <1>0, <2>1, <2>2, <3>1 DEF MInv, MapsFit
    <3>2. CASE phase = "magnet"
      BY <1>0, <2>1, <2>2, <3>2 DEF MInv, MapsFit
    <3> QED BY <2>2, <3>1, <3>2
  <2>4. MInv'
    BY <1>0, <2>1, <2>2, <2>3 DEF MInv
  <2> QED BY <1>3, <2>1, <2>4
<1>5. ASSUME NEW p \in Peers, ClosePeer(p) PROVE IInv'
  <2>1. /\ UNCHANGED resumeVars
        /\ bits' = [bits EXCEPT ![p] = None] /\ total' = total
    BY <1>5 DEF ClosePeer
  <2>2. phase' = phase
    BY <2>1 DEF resumeVars
  <2> QED BY <1>0, <1>3, <2>1, <2>2 DEF MInv, MapsFit
<1>6. ASSUME UNCHANGED <<resumeVars, bits, total>> PROVE IInv'
  BY <1>0, <1>3, <1>6 DEF MInv, MapsFit, resumeVars
<1>7. ASSUME NEW p \in Peers, Handshake(p) PROVE IInv'
  BY <1>6, <1>7 DEF Handshake
<1>8. ASSUME NEW p \in Peers, Data(p) PROVE IInv'
  <2>1. \/ UNCHANGED <<resumeVars, bits, total>>
        \/ reload
    BY <1>8 DEF Data
  <2>2. CASE reload
    <3>1. total' = totalPieces
      BY <2>2 DEF reload
    <3>2. CASE load(flags) /\ (IF phase' = "running" THEN Enlarge
                               ELSE UNCHANGED bits)
      <4>1. RInv' /\ phase' \in {"check", "running"}
        BY <3>2, LoadOK DEF load
      <4>2. CASE phase' = "running"
        BY <3>1, <3>2, <4>1, <4>2, EnlargeOK
      <4>3. CASE phase' = "check"
        <5>1. bits' = bits
          BY <3>2, <4>3
        <5>2. MInv'
          BY <1>0, <3>1, <4>3, <5>1 DEF MInv, MapsFit
        <5> QED BY <4>1, <5>2
      <4> QED BY <4>1, <4>2, <4>3
    <3>3. CASE UNCHANGED <<resumeVars, bits>>
      <4>1. phase' = phase
        BY <3>3 DEF resumeVars
      <4> QED BY <1>0, <1>3, <3>1, <3>3, <4>1 DEF MInv, MapsFit
    <3> QED BY <2>2, <3>2, <3>3 DEF reload
  <2> QED BY <1>6, <2>1, <2>2
<1>9. ASSUME NEW p \in Peers, Reject(p) PROVE IInv'
  BY <1>6, <1>9 DEF Reject
<1>10. CASE Hashing /\ UNCHANGED metaVars
  <2>1. phase = "check" /\ phase' = "check"
    BY <1>10 DEF Hashing, ReadPiece, Hand, Hash, Merge
  <2>2. MInv'
    BY <1>0, <1>10, <2>1 DEF MInv, MapsFit, metaVars
  <2> QED BY <1>10, <2>2, HashingOK
<1>11. CASE LoadChecked
  <2>1. /\ Checked /\ Enlarge /\ phase = "check" /\ phase' = "running"
        /\ total' = total
    BY <1>11 DEF LoadChecked, Checked
  <2>2. MInv'
    BY <2>1, EnlargeOK DEF MInv
  <2> QED BY <2>1, <2>2, CheckedOK
<1>12. CASE Recording /\ UNCHANGED metaVars
  <2>1. phase = "running" /\ phase' = "running"
    BY <1>12 DEF Recording, WritePiece, WriteChunk, WriteFails, Claim, Save
  <2>2. MInv'
    BY <1>0, <1>12, <2>1 DEF MInv, MapsFit, metaVars
  <2> QED BY <1>12, <2>2, RecordingOK
<1>13. CASE CrashAll
  <2>1. /\ Crash /\ phase' = "down" /\ total' = 0
        /\ bits' = [p \in Peers |-> None]
    BY <1>13 DEF CrashAll, Crash
  <2>2. MInv'
    BY <1>0, <2>1 DEF MInv, MapsFit
  <2> QED BY <2>1, <2>2, CrashOK
<1>14. CASE UNCHANGED vars
  BY <1>6, <1>14 DEF vars, metaVars
<1> QED BY <1>1, <1>2, <1>4, <1>5, <1>7, <1>8, <1>9, <1>10, <1>11, <1>12,
           <1>13, <1>14 DEF Next

(* It holds before the program is first started. *)
LEMMA InitIInv == Init => IInv
<1> SUFFICES ASSUME Init PROVE IInv
  OBVIOUS
<1>1. /\ ResumeInit /\ phase = "down" /\ total = 0
      /\ bits = [p \in Peers |-> None]
  BY DEF Init, ResumeInit
<1>2. MInv
  BY <1>1 DEF MInv, MapsFit
<1> QED BY <1>1, <1>2, InitRInv DEF IInv

(* ResumeSound: whatever RecordBlock and load were killed in the middle    *)
(* of, and whatever flags the program ran with, a session claims no piece  *)
(* that is not right in the files, except one whose write failed.          *)
THEOREM ResumeSoundHolds == Spec => []ResumeSound
<1>1. IInv => ResumeSound
  BY DEF IInv, RInv
<1> QED BY <1>1, InitIInv, NextIInv, PTL DEF Spec

(* MapsFit: when a session runs, the piece map of every peer is as long as *)
(* the torrent, those of the peers included that came before the metadata. *)
THEOREM MapsFitHolds == Spec => []MapsFit
<1>1. IInv => MapsFit
  BY DEF IInv, MInv
<1> QED BY <1>1, InitIInv, NextIInv, PTL DEF Spec

(* CheckExact: however reader, hashing goroutines and merger interleave,   *)
(* checkPieces finds exactly the right pieces, those that it could not     *)
(* read excepted. The step that ends a check is LoadChecked.               *)
THEOREM CheckExactHolds == Spec => CheckExact
<1>1. IInv /\ [Next]_vars =>
        [phase = "check" /\ phase' = "running" => pieceSet' = Right \ unread]_resumeVars
  <2> SUFFICES ASSUME IInv, [Next]_vars, phase = "check", phase' = "running"
               PROVE  pieceSet' = Right \ unread
    OBVIOUS
  <2>1. Checked
    <3>1. ~ UNCHANGED phase
      OBVIOUS
    <3>2. ~ UNCHANGED resumeVars
      BY <3>1 DEF resumeVars
    <3>3. \A f \in Flags : ~ StartFile(f) /\ ~ StartMagnet(f)
      BY DEF StartFile, Start, StartMagnet
    <3>4. \A p \in Peers : /\ ~ addPeerImp(p) /\ ~ ClosePeer(p)
                           /\ ~ Handshake(p) /\ ~ Data(p) /\ ~ Reject(p)
      BY <3>2 DEF addPeerImp, ClosePeer, Handshake, Data, Reject, Serving
    <3>5. ~ Hashing
      BY <3>1 DEF Hashing, ReadPiece, Hand, Hash, Merge
    <3>6. ~ Recording
      BY DEF Recording, WritePiece, WriteChunk, WriteFails, Claim, Save
    <3>7. ~ CrashAll
      BY DEF CrashAll, Crash
    <3>8. ~ UNCHANGED vars
      BY <3>2 DEF vars
    <3> QED BY <3>3, <3>4, <3>5, <3>6, <3>7, <3>8 DEF Next, LoadChecked
  <2> QED BY <2>1, CheckedOK DEF IInv
<1> QED BY <1>1, InitIInv, NextIInv, PTL DEF Spec, CheckExact

(* NeverForgets: while a session runs pieces stay in pieceSet, and no      *)
(* answer to a request for metadata makes it load again.                   *)
THEOREM NeverForgetsHolds == Spec => NeverForgets
<1>1. [Next]_vars =>
        [phase = "running" /\ phase' \in {"check", "running"} =>
           phase' = "running" /\ pieceSet \subseteq pieceSet']_vars
  <2> SUFFICES ASSUME [Next]_vars, phase = "running",
                      phase' \in {"check", "running"}
               PROVE  phase' = "running" /\ pieceSet \subseteq pieceSet'
    OBVIOUS
  <2>1. ASSUME UNCHANGED resumeVars
        PROVE  phase' = "running" /\ pieceSet \subseteq pieceSet'
    BY <2>1 DEF resumeVars
  <2>2. \A f \in Flags : ~ StartFile(f) /\ ~ StartMagnet(f)
    BY DEF StartFile, Start, StartMagnet
  <2>3. ASSUME NEW p \in Peers, \/ addPeerImp(p) \/ ClosePeer(p)
                                \/ Handshake(p) \/ Data(p) \/ Reject(p)
        PROVE  UNCHANGED resumeVars
    BY <2>3 DEF addPeerImp, ClosePeer, Handshake, Data, Reject
  <2>4. ~ Hashing /\ ~ LoadChecked /\ ~ CrashAll
    BY DEF Hashing, ReadPiece, Hand, Hash, Merge, LoadChecked, Checked,
       CrashAll, Crash
  <2>5. ASSUME Recording
        PROVE  phase' = "running" /\ pieceSet \subseteq pieceSet'
    BY <2>5 DEF Recording, WritePiece, WriteChunk, WriteFails, Claim, Save
  <2>6. UNCHANGED vars => UNCHANGED resumeVars
    BY DEF vars
  <2> QED BY <2>1, <2>2, <2>3, <2>4, <2>5, <2>6 DEF Next
<1> QED BY <1>1, PTL DEF Spec, NeverForgets

-----------------------------------------------------------------------------
(* The rest of TypeOK. *)

(* All bytes of the torrent. *)
All == Extent(layout, 0, TotalSize)

(* The bytes of a piece are among them. *)
LEMMA PieceInAll ==
    ASSUME layout \in Layouts, NEW i \in Pieces
    PROVE  PieceExtent(i) \subseteq All
<1>1. /\ layout \in Seq(Nat) /\ TotalSize \in Nat
      /\ i * PieceLength \in Nat /\ pieceLength(i) \in Nat
      /\ TotalSize = totalSize(layout)
  BY PiecesNat, ResumeAssumption
<1>2. PieceExtent(i) \subseteq (1 .. Len(layout)) \X (0 .. totalSize(layout))
  BY DEF PieceExtent, Extent
<1>3. ASSUME NEW g, NEW p, <<g, p>> \in PieceExtent(i)
      PROVE  <<g, p>> \in All
  <2>1. g \in 1 .. Len(layout) /\ p \in Nat /\ p < layout[g]
    BY <1>1, <1>3, ExtentMembers DEF PieceExtent
  <2>2. /\ g \in 1 .. Len(layout) + 1 /\ g + 1 \in 1 .. Len(layout) + 1
        /\ Len(layout) + 1 \in 1 .. Len(layout) + 1 /\ g + 1 <= Len(layout) + 1
        /\ layout[g] \in Nat
    BY <1>1, <2>1
  <2>3. /\ Offset(layout, g) \in Nat
        /\ Offset(layout, g + 1) = Offset(layout, g) + layout[g]
        /\ Offset(layout, g + 1) <= TotalSize
    BY <1>1, <2>1, <2>2, OffsetNat, OffsetRec DEF totalSize
  <2>4. 0 <= Offset(layout, g) + p /\ Offset(layout, g) + p < 0 + TotalSize
    BY <1>1, <2>1, <2>2, <2>3
  <2> QED BY <1>1, <2>1, <2>4, ExtentMembers DEF All
<1> QED BY <1>2, <1>3

(* What Resume keeps besides. *)
ROther ==
    /\ good \subseteq All
    /\ Cover(todo) \subseteq All
    /\ resume = None \/ Len(resume) <= NumBytes(totalPieces)
    /\ flags \in [initialCheck : BOOLEAN, quickResume : BOOLEAN]
    /\ at \in {"idle", "write", "save"}
    /\ piece \in Pieces \cup {0}
    /\ next \in 0 .. totalPieces
    /\ Len(results) <= ResultsCap

(* Nothing that ROther speaks of changes, except what is begun anew. *)
LEMMA RestartOther ==
    ASSUME RInv, ROther, UNCHANGED <<layout, good>>, Pipeline,
           at' = "idle", piece' = 0, todo' = <<>>,
           resume' = None \/ Len(resume') <= NumBytes(totalPieces),
           flags' \in [initialCheck : BOOLEAN, quickResume : BOOLEAN]
    PROVE  ROther'
<1>1. /\ All' = All /\ totalPieces' = totalPieces
      /\ totalPieces \in Nat /\ ResultsCap \in Nat
  BY PiecesNat, ResumeAssumption DEF All, totalPieces, RInv, Types
<1>2. next' = 0 /\ results' = <<>> /\ Cover(todo') = {} /\ Len(<<>>) = 0
  BY DEF Pipeline, Cover
<1>3. Cover(todo)' = Cover(todo')
  BY DEF Cover
<1> QED BY <1>1, <1>2, <1>3 DEF ROther

(* The step of a reader, a hasher or the merger. *)
LEMMA HashingOther ==
    ASSUME RInv, ROther, Hashing
    PROVE  ROther'
<1>1. /\ totalPieces' = totalPieces /\ All' = All /\ Pieces' = Pieces
      /\ totalPieces \in Nat /\ ResultsCap \in Nat
  <2>1. layout' = layout
    BY DEF Hashing, ReadPiece, Hand, Hash, Merge, files
  <2> QED BY <2>1, PiecesNat, ResumeAssumption
          DEF All, totalPieces, RInv, Types, Pieces
<1>2. UNCHANGED <<good, todo, resume, flags, at, piece>>
  BY DEF Hashing, ReadPiece, Hand, Hash, Merge, files, record
<1>3. next' \in 0 .. totalPieces /\ Len(results') <= ResultsCap
  <2>1. results \in Seq(Chunk) /\ next \in 0 .. totalPieces
    BY DEF RInv, Types, ROther
  <2>2. CASE ReadPiece
    BY <1>1, <2>1, <2>2 DEF ReadPiece, ROther
  <2>3. ASSUME NEW w \in Workers, Hand(w)
        PROVE  next' \in 0 .. totalPieces /\ Len(results') <= ResultsCap
    BY <2>3 DEF Hand, ROther
  <2>4. ASSUME NEW w \in Workers, Hash(w)
        PROVE  next' \in 0 .. totalPieces /\ Len(results') <= ResultsCap
    <3>1. /\ Len(results) < ResultsCap /\ next' = next
          /\ results' = Append(results, hashing[w]) /\ Len(results) \in Nat
      BY <2>1, <2>4 DEF Hash
    <3>2. Len(results') = Len(results) + 1
      BY <2>1, <3>1
    <3> QED BY <1>1, <2>1, <3>1, <3>2
  <2>5. CASE Merge
    <3>1. results # <<>> /\ results' = Tail(results) /\ next' = next
      BY <2>5 DEF Merge
    <3>2. Len(results') = Len(results) - 1 /\ Len(results) \in Nat
      BY <2>1, <3>1
    <3> QED BY <1>1, <2>1, <3>1, <3>2 DEF ROther
  <2> QED BY <2>2, <2>3, <2>4, <2>5 DEF Hashing
<1>4. Cover(todo)' = Cover(todo)
  BY <1>2 DEF Cover
<1> QED BY <1>1, <1>2, <1>3, <1>4 DEF ROther

(* The step of RecordBlock: what it writes belongs to the torrent. *)
LEMMA RecordingOther ==
    ASSUME RInv, ROther, Recording
    PROVE  ROther'
<1>1. /\ totalPieces' = totalPieces /\ All' = All /\ Pieces' = Pieces
      /\ totalPieces \in Nat /\ layout \in Layouts
  <2>1. layout' = layout
    BY DEF Recording, WritePiece, WriteChunk, WriteFails, Claim, Save, files
  <2> QED BY <2>1, PiecesNat DEF All, totalPieces, RInv, Types, Pieces
<1>2. UNCHANGED <<flags, next, results>>
  BY DEF Recording, WritePiece, WriteChunk, WriteFails, Claim, Save, pipeline
<1>3. Cover(todo)' = Cover(todo')
  BY DEF Cover
<1>4. Cover(<<>>) = {}
  BY DEF Cover
<1>5. NumBytes(totalPieces) \in Nat
  BY <1>1, ReadBack
<1>6. ASSUME NEW i \in Pieces, WritePiece(i) PROVE ROther'
  <2>1. /\ at' = "write" /\ piece' = i /\ UNCHANGED <<good, resume>>
        /\ todo' = Chunks(layout, i * PieceLength, pieceLength(i))
    BY <1>6 DEF WritePiece, files
  <2>2. Cover(todo') \subseteq All
    BY <1>1, <2>1, PieceBytes, PieceInAll
  <2> QED BY <1>1, <1>2, <1>3, <2>1, <2>2 DEF ROther
<1>7. CASE WriteChunk
  <2>1. /\ todo # <<>> /\ todo' = Tail(todo)
        /\ good' = good \cup BytesOf(Head(todo))
        /\ UNCHANGED <<resume, at, piece>>
    BY <1>7 DEF WriteChunk
  <2>2. Cover(todo) = BytesOf(Head(todo)) \cup Cover(todo')
    BY <2>1, CoverHead DEF RInv, Types
  <2> QED BY <1>1, <1>2, <1>3, <2>1, <2>2 DEF ROther
<1>8. CASE WriteFails
  BY <1>1, <1>2, <1>3, <1>4, <1>8 DEF WriteFails, ROther
<1>9. CASE Claim
  <2>1. /\ UNCHANGED <<good, todo, piece>> /\ at' \in {"idle", "save"}
        /\ resume' = resume \/ resume' = <<>>
    BY <1>9 DEF Claim
  <2>2. Len(<<>>) <= NumBytes(totalPieces)
    BY <1>5
  <2> QED BY <1>1, <1>2, <1>3, <2>1, <2>2 DEF ROther
<1>10. CASE Save
  <2>1. /\ UNCHANGED <<good, todo, piece>> /\ at' = "idle"
        /\ resume' = Bytes(pieceSet, totalPieces)
    BY <1>10 DEF Save
  <2>2. Len(resume') <= NumBytes(totalPieces)
    <3>1. pieceSet \in SUBSET (0 .. totalPieces - 1)
      BY DEF RInv, Types, Pieces
    <3> QED BY <1>1, <1>5, <2>1, <3>1, ReadBack
  <2> QED BY <1>1, <1>2, <1>3, <2>1, <2>2 DEF ROther
<1> QED BY <1>6, <1>7, <1>8, <1>9, <1>10 DEF Recording

(* What is left of the resume file is no longer than it. *)
LEMMA CrashOther ==
    ASSUME RInv, ROther, Crash
    PROVE  ROther'
<1>1. /\ UNCHANGED <<layout, good>> /\ Pipeline
      /\ at' = "idle" /\ piece' = 0 /\ todo' = <<>>
      /\ flags' = [initialCheck |-> FALSE, quickResume |-> FALSE]
  BY DEF Crash, Memory
<1>2. resume' = None \/ Len(resume') <= NumBytes(totalPieces)
  <2>1. CASE resume' = resume
    BY <2>1 DEF ROther
  <2>2. ASSUME NEW k \in 0 .. NumBytes(totalPieces),
               resume' = SubSeq(Bytes(pieceSet, totalPieces), 1, k)
        PROVE  Len(resume') <= NumBytes(totalPieces)
    <3>1. /\ totalPieces \in Nat
          /\ pieceSet \in SUBSET (0 .. totalPieces - 1)
      BY PiecesNat DEF RInv, Types, Pieces
    <3>2. /\ Len(Bytes(pieceSet, totalPieces)) = NumBytes(totalPieces)
          /\ NumBytes(totalPieces) \in Nat
          /\ Bytes(pieceSet, totalPieces) \in Seq(SUBSET (0 .. ByteSize - 1))
      BY <3>1, ReadBack
    <3>3. Len(resume') = k
      BY <2>2, <3>2
    <3> QED BY <3>2, <3>3
  <2> QED BY <2>1, <2>2 DEF Crash
<1> QED BY <1>1, <1>2, RestartOther

-----------------------------------------------------------------------------
(* Metadata. *)

(* DoMetadata asks for pieces of the metadata that it lacks, and for       *)
(* nothing else: the n-th request is for the least piece that has n of the *)
(* missing ones up to it.                                                  *)
LEMMA MissingOK ==
    ASSUME length \in Nat, NEW set \in SUBSET (0 .. length - 1)
    PROVE  Missing(set) \in Seq((0 .. length - 1) \ set)
<1> DEFINE U == 0 .. length - 1
           below(k) == {i \in U : i \notin set /\ i <= k}
           m == length - Cardinality(set)
           Nth(n, k) == k \notin set /\ Cardinality(below(k)) = n
<1>1. IsFiniteSet(U) /\ Cardinality(U) = length
  <2>1. length - 1 \in Int /\ 0 \in Int
    OBVIOUS
  <2> QED BY <2>1, FS_Interval
<1>2. /\ IsFiniteSet(set) /\ Cardinality(set) \in Nat
      /\ Cardinality(set) <= length
  BY <1>1, FS_Subset, FS_CardinalityType
<1>3. \A k : IsFiniteSet(below(k)) /\ Cardinality(below(k)) \in Nat
  <2>1. \A k : below(k) \in SUBSET U
    OBVIOUS
  <2> QED BY <1>1, <2>1, FS_Subset, FS_CardinalityType
<1>4. ASSUME NEW n \in 1 .. m PROVE \E k \in U : Nth(n, k)
  <2> DEFINE K == {k \in U : Cardinality(below(k)) >= n}
  <2>1. length - 1 \in K
    <3>1. length >= 1
      BY <1>2
    <3>2. below(length - 1) = U \ set
      OBVIOUS
    <3>3. U \cap set = set
      OBVIOUS
    <3>4. Cardinality(U \ set) = m
      <4> HIDE DEF U
      <4>1. Cardinality(U \ set) = Cardinality(U) - Cardinality(U \cap set)
        BY <1>1, FS_Difference
      <4> QED BY <1>1, <3>3, <4>1
    <3>5. Cardinality(below(length - 1)) >= n
      <4>1. Cardinality(below(length - 1)) = m
        BY <3>2, <3>4
      <4> HIDE DEF below
      <4> QED BY <1>2, <4>1
    <3> QED BY <3>1, <3>5
  <2>2. PICK k \in K : \A j \in K : k <= j
    <3>1. K \in SUBSET Nat
      OBVIOUS
    <3> HIDE DEF K
    <3> QED BY <2>1, <3>1, LeastElement
  <2>3. CASE k = 0
    <3>1. below(k) # {}
      <4>1. Cardinality({}) = 0
        BY FS_EmptySet
      <4> QED BY <2>2, <4>1
    <3>2. below(k) = {0} /\ 0 \notin set
      BY <2>3, <3>1
    <3>3. Cardinality({0}) = 1
      BY FS_Singleton
    <3>4. n = 1
      BY <2>2, <3>2, <3>3
    <3> QED BY <2>2, <2>3, <3>2, <3>3, <3>4
  <2>4. CASE k # 0
    <3>1. k - 1 \in U /\ ~ (k <= k - 1)
      BY <2>2, <2>4
    <3>2. Cardinality(below(k - 1)) < n
      <4>1. k - 1 \notin K
        BY <2>2, <3>1
      <4>2. Cardinality(below(k - 1)) \in Nat
        BY <1>3
      <4> HIDE DEF below
      <4> QED BY <3>1, <4>1, <4>2
    <3>3. k \notin set
      <4> SUFFICES ASSUME k \in set PROVE FALSE
        OBVIOUS
      <4>1. below(k) = below(k - 1)
        BY <2>2, <2>4
      <4>2. Cardinality(below(k)) >= n /\ Cardinality(below(k - 1)) \in Nat
        BY <1>3, <2>2
      <4> HIDE DEF below
      <4> QED BY <3>2, <4>1, <4>2
    <3>4. below(k) = below(k - 1) \cup {k} /\ k \notin below(k - 1)
      BY <2>2, <2>4, <3>3
    <3>5. Cardinality(below(k)) = Cardinality(below(k - 1)) + 1
      <4>1. IsFiniteSet(below(k - 1))
        BY <1>3
      <4> HIDE DEF below
      <4> QED BY <3>4, <4>1, FS_AddElement
    <3>6. Cardinality(below(k)) = n
      <4>1. /\ Cardinality(below(k)) >= n /\ Cardinality(below(k)) \in Nat
            /\ Cardinality(below(k - 1)) \in Nat
        BY <1>3, <2>2
      <4> HIDE DEF below
      <4> QED BY <3>2, <3>5, <4>1
    <3> QED BY <2>2, <3>3, <3>6
  <2> QED BY <2>3, <2>4
<1> DEFINE f == [n \in 1 .. m |-> CHOOSE k \in U : Nth(n, k)]
<1>5. Missing(set) = f
  BY DEF Missing
<1>6. \A n \in 1 .. m : (CHOOSE k \in U : Nth(n, k)) \in U \ set
  <2> SUFFICES ASSUME NEW n \in 1 .. m
               PROVE  (CHOOSE k \in U : Nth(n, k)) \in U \ set
    OBVIOUS
  <2>1. \E k \in U : Nth(n, k)
    BY <1>4
  <2>2. LET k == CHOOSE k \in U : Nth(n, k) IN k \in U /\ Nth(n, k)
    <3> HIDE DEF U, Nth
    <3> QED BY <2>1
  <2> QED BY <2>2
<1>7. m \in Nat /\ f \in [1 .. m -> U \ set]
  <2>1. m \in Nat
    BY <1>2
  <2> HIDE DEF Nth, U, m
  <2> QED BY <1>6, <2>1
<1> HIDE DEF f, m, U
<1>8. f \in Seq(U \ set)
  BY <1>7
<1> QED BY <1>5, <1>8 DEF U

MetaIndices == 0 .. MetaPieces - 1

(* The exchange of metadata: requests are within the length that the peer  *)
(* has told, and there are none before a transfer has begun.               *)
XInv ==
    /\ phase \in {"down", "magnet", "check", "running", "refused"}
    /\ transferring \in BOOLEAN /\ failed \in BOOLEAN
    /\ source \in Peers \cup {None}
    /\ length \in {0, MetaPieces} /\ got \subseteq 0 .. length - 1
    /\ asked \in [Peers -> Seq(MetaIndices)]
    /\ ~ transferring => \A p \in Peers : asked[p] = <<>>
    /\ \A p \in Full : asked[p] # <<>> => length = MetaPieces

(* A sequence is also one over a larger set. *)
LEMMA SeqWider ==
    ASSUME NEW A, NEW B, A \subseteq B, NEW s \in Seq(A)
    PROVE  s \in Seq(B)
<1>1. /\ Len(s) \in Nat /\ s \in [1 .. Len(s) -> A]
  OBVIOUS
<1>2. s \in [1 .. Len(s) -> B]
  BY <1>1
<1> QED BY <1>1, <1>2

(* An answer, and the requests that it gives rise to. *)
LEMMA DataX ==
    ASSUME XInv, NEW p \in Full, Data(p)
    PROVE  XInv'
<1>0. /\ Full \subseteq Peers /\ MetaPieces \in Nat \ {0}
  BY SessionStartAssumption
<1>1. /\ asked[p] \in Seq(MetaIndices) /\ asked[p] # <<>>
      /\ length = MetaPieces /\ transferring
  BY <1>0 DEF XInv, Data
<1>2. Head(asked[p]) \in MetaIndices /\ Tail(asked[p]) \in Seq(MetaIndices)
  BY <1>1
<1>3. UNCHANGED <<transferring, source, length>>
  BY DEF Data
<1>4. failed' \in BOOLEAN
  BY DEF Data, XInv
<1>5. phase' \in {"down", "magnet", "check", "running", "refused"}
  <2>1. phase' = phase \/ phase' \in {"check", "running"}
    BY DEF Data, reload, load, resumeVars
  <2> QED BY <2>1 DEF XInv
<1>6. got' \subseteq 0 .. length - 1 /\ \E s \in Seq(MetaIndices) :
                                          asked' = [asked EXCEPT ![p] = s]
  <2>1. CASE phase = "running"
    <3>1. asked' = [asked EXCEPT ![p] = Tail(asked[p])] /\ got' = got
      BY <2>1 DEF Data
    <3> QED BY <1>2, <3>1 DEF XInv
  <2>2. CASE phase = "magnet"
    <3>1. /\ got' = got \cup {Head(asked[p])}
          /\ asked' = [asked EXCEPT ![p] = Tail(asked[p]) \o Missing(got')]
      BY <2>2 DEF Data
    <3>2. got' \in SUBSET (0 .. length - 1)
      BY <1>1, <1>2, <3>1 DEF XInv, MetaIndices
    <3>3. Missing(got') \in Seq((0 .. length - 1) \ got')
      <4>1. length \in Nat
        BY <1>0, <1>1
      <4> QED BY <3>2, <4>1, MissingOK
    <3>4. Missing(got') \in Seq(MetaIndices)
      <4>1. (0 .. length - 1) \ got' \subseteq MetaIndices
        BY <1>1 DEF MetaIndices
      <4> QED BY <3>3, <4>1, SeqWider
    <3>5. Tail(asked[p]) \o Missing(got') \in Seq(MetaIndices)
      BY <1>2, <3>4
    <3> QED BY <3>1, <3>2, <3>5
  <2> QED BY <2>1, <2>2 DEF Data, Serving
<1>7. PICK s \in Seq(MetaIndices) : asked' = [asked EXCEPT ![p] = s]
  BY <1>6
<1>8. asked' \in [Peers -> Seq(MetaIndices)]
  BY <1>7 DEF XInv
<1> QED BY <1>0, <1>1, <1>3, <1>4, <1>5, <1>6, <1>8 DEF XInv, MetaIndices

(* Every step of the program keeps the rest. *)
LEMMA NextOther ==
    ASSUME IInv, ROther, XInv, [Next]_vars
    PROVE  ROther' /\ XInv'
<1>0. /\ Full \subseteq Peers /\ MetaPieces \in Nat \ {0}
      /\ MetaIndices' = MetaIndices
  BY SessionStartAssumption DEF MetaIndices
<1>1. ASSUME UNCHANGED <<files, record, pipeline>>,
             flags' \in [initialCheck : BOOLEAN, quickResume : BOOLEAN]
      PROVE  ROther'
  <2>1. UNCHANGED <<layout, good, resume, at, piece, todo, next, results>>
    BY <1>1 DEF files, record, pipeline
  <2> QED BY <1>1, <2>1 DEF ROther, All, Cover, Pieces, totalPieces
<1>2. ASSUME NEW f, load(f),
             flags' \in [initialCheck : BOOLEAN, quickResume : BOOLEAN]
      PROVE  ROther' /\ phase' \in {"check", "running"}
  <2>1. /\ UNCHANGED <<layout, good, resume>> /\ Pipeline
        /\ at' = "idle" /\ piece' = 0 /\ todo' = <<>>
    BY <1>2 DEF load, Memory, files
  <2>2. resume' = None \/ Len(resume') <= NumBytes(totalPieces)
    BY <2>1 DEF ROther
  <2>3. ROther'
    BY <1>2, <2>1, <2>2, RestartOther DEF IInv
  <2> QED BY <1>2, <2>3 DEF load
<1>3. ASSUME UNCHANGED resumeVars PROVE ROther'
  BY <1>1, <1>3 DEF resumeVars, ROther
<1>4. ASSUME NEW f \in Flags, StartFile(f) PROVE ROther' /\ XInv'
  <2>1. Start(f) /\ UNCHANGED <<asked, exchange>>
    BY <1>4 DEF StartFile
  <2>2. flags' \in [initialCheck : BOOLEAN, quickResume : BOOLEAN]
    BY <2>1 DEF Start, Flags
  <2>3. ROther' /\ phase' \in {"check", "running", "refused"}
    <3>1. CASE load(f)
      BY <1>2, <2>2, <3>1
    <3>2. CASE /\ phase' = "refused"
               /\ UNCHANGED <<files, pieceSet, record, pipeline>>
      BY <1>1, <2>2, <3>2
    <3> QED BY <2>1, <3>1, <3>2 DEF Start
  <2> QED BY <1>0, <2>1, <2>3 DEF XInv, exchange
<1>5. ASSUME NEW f \in Flags, StartMagnet(f) PROVE ROther' /\ XInv'
  <2>1. /\ phase' = "magnet" /\ flags' = f
        /\ UNCHANGED <<files, record, pipeline, metaVars>>
    BY <1>5 DEF StartMagnet
  <2>2. ROther'
    BY <1>1, <2>1 DEF Flags
  <2> QED BY <1>0, <2>1, <2>2 DEF XInv, metaVars
<1>6. ASSUME NEW p \in Peers, addPeerImp(p) PROVE ROther' /\ XInv'
  <2>1. UNCHANGED <<resumeVars, asked, exchange>>
    BY <1>6 DEF addPeerImp
  <2> QED BY <1>0, <1>3, <2>1 DEF XInv, exchange, resumeVars
<1>7. ASSUME NEW p \in Peers, ClosePeer(p) PROVE ROther' /\ XInv'
  <2>1. /\ UNCHANGED <<resumeVars, transferring, got, length, failed>>
        /\ asked' = [asked EXCEPT ![p] = <<>>]
        /\ source' \in {source, None}
    BY <1>7 DEF ClosePeer
  <2>2. phase' = phase
    BY <2>1 DEF resumeVars
  <2> QED BY <1>0, <1>3, <2>1, <2>2 DEF XInv
<1>8. ASSUME NEW p \in Peers, Handshake(p) PROVE ROther' /\ XInv'
  <2>1. /\ ~ transferring /\ transferring' = TRUE /\ source' = p
        /\ length' = IF p \in Full THEN MetaPieces ELSE length
        /\ got' = IF p \in Full THEN {} ELSE got
        /\ asked' = [asked EXCEPT ![p] = Append(@, 0)]
        /\ UNCHANGED <<resumeVars, failed>>
    BY <1>8 DEF Handshake
  <2>2. asked[p] = <<>> /\ 0 \in MetaIndices
    BY <1>0, <2>1 DEF XInv, MetaIndices
  <2>3. asked' = [asked EXCEPT ![p] = <<0>>]
    BY <2>1, <2>2
  <2>4. <<0>> \in Seq(MetaIndices)
    BY <2>2
  <2>5. asked' \in [Peers -> Seq(MetaIndices)]
    BY <2>3, <2>4 DEF XInv
  <2>6. \A q \in Full : asked'[q] # <<>> => length' = MetaPieces
    BY <1>0, <2>1, <2>3 DEF XInv
  <2>7. phase' = phase
    BY <2>1 DEF resumeVars
  <2>8. length' \in {0, MetaPieces} /\ got' \subseteq 0 .. length' - 1
    BY <2>1 DEF XInv
  <2> QED BY <1>0, <1>3, <2>1, <2>5, <2>6, <2>7, <2>8 DEF XInv
<1>9. ASSUME NEW p \in Peers, Data(p) PROVE ROther' /\ XInv'
  <2>1. p \in Full
    BY <1>9 DEF Data
  <2>2. UNCHANGED resumeVars \/ (load(flags) /\ flags' = flags)
    BY <1>9 DEF Data, reload
  <2>3. ROther'
    <3>1. flags \in [initialCheck : BOOLEAN, quickResume : BOOLEAN]
      BY DEF ROther
    <3> QED BY <1>2, <1>3, <2>2, <3>1
  <2> QED BY <1>9, <2>1, <2>3, DataX
<1>10. ASSUME NEW p \in Peers, Reject(p) PROVE ROther' /\ XInv'
  <2>1. /\ asked[p] # <<>> /\ asked' = [asked EXCEPT ![p] = Tail(@)]
        /\ failed' = TRUE /\ p \in Full
        /\ UNCHANGED <<resumeVars, transferring, source, got, length>>
    BY <1>10 DEF Reject
  <2>2. Tail(asked[p]) \in Seq(MetaIndices) /\ phase' = phase
    BY <2>1 DEF XInv, resumeVars
  <2>3. asked' \in [Peers -> Seq(MetaIndices)]
    BY <2>1, <2>2 DEF XInv
  <2>4. transferring /\ length = MetaPieces
    BY <2>1 DEF XInv
  <2> QED BY <1>0, <1>3, <2>1, <2>2, <2>3, <2>4 DEF XInv
<1>11. CASE Hashing /\ UNCHANGED metaVars
  <2>1. phase' = phase
    BY <1>11 DEF Hashing, ReadPiece, Hand, Hash, Merge
  <2> QED BY <1>0, <1>11, <2>1, HashingOther DEF XInv, metaVars, IInv
<1>12. CASE LoadChecked
  <2>1. /\ UNCHANGED <<layout, good, resume, flags>> /\ Pipeline
        /\ at' = "idle" /\ piece' = 0 /\ todo' = <<>> /\ phase' = "running"
        /\ UNCHANGED <<asked, exchange>>
    BY <1>12 DEF LoadChecked, Checked, Memory, files
  <2>2. /\ resume' = None \/ Len(resume') <= NumBytes(totalPieces)
        /\ flags' \in [initialCheck : BOOLEAN, quickResume : BOOLEAN]
    BY <2>1 DEF ROther
  <2>3. ROther'
    BY <2>1, <2>2, RestartOther DEF IInv
  <2> QED BY <1>0, <2>1, <2>3 DEF XInv, exchange
<1>13. CASE Recording /\ UNCHANGED metaVars
  <2>1. phase' = phase
    BY <1>13 DEF Recording, WritePiece, WriteChunk, WriteFails, Claim, Save
  <2> QED BY <1>0, <1>13, <2>1, RecordingOther DEF XInv, metaVars, IInv
<1>14. CASE CrashAll
  <2>1. /\ Crash /\ phase' = "down"
        /\ transferring' = FALSE /\ source' = None
        /\ got' = {} /\ length' = 0
        /\ asked' = [p \in Peers |-> <<>>]
        /\ failed' = FALSE
    BY <1>14 DEF CrashAll, Crash
  <2>2. ROther'
    BY <2>1, CrashOther DEF IInv
  <2>3. /\ asked' \in [Peers -> Seq(MetaIndices)]
        /\ \A p \in Peers : asked'[p] = <<>>
    BY <2>1
  <2> QED BY <1>0, <2>1, <2>2, <2>3 DEF XInv
<1>15. CASE UNCHANGED vars
  BY <1>0, <1>3, <1>15 DEF vars, metaVars, resumeVars, XInv
<1> QED BY <1>4, <1>5, <1>6, <1>7, <1>8, <1>9, <1>10, <1>11, <1>12, <1>13,
           <1>14, <1>15 DEF Next

(* Nothing is written, read or asked for at the beginning. *)
LEMMA InitOther == Init => ROther /\ XInv
<1> SUFFICES ASSUME Init PROVE ROther /\ XInv
  OBVIOUS
<1>1. /\ layout \in Layouts /\ resume = None /\ at = "idle" /\ piece = 0
      /\ todo = <<>> /\ next = 0 /\ results = <<>> /\ phase = "down"
      /\ flags = [initialCheck |-> FALSE, quickResume |-> FALSE]
  BY DEF Init, ResumeInit
<1>2. PICK S \in SUBSET Pieces : good = UNION {PieceExtent(i) : i \in S}
  BY DEF Init, ResumeInit, PieceExtent
<1>3. good \subseteq All
  BY <1>1, <1>2, PieceInAll
<1>4. Cover(todo) = {} /\ Len(results) = 0
  BY <1>1 DEF Cover
<1>5. totalPieces \in Nat /\ ResultsCap \in Nat
  BY <1>1, PiecesNat, ResumeAssumption
<1>6. ROther
  BY <1>1, <1>3, <1>4, <1>5 DEF ROther
<1>7. XInv
  <2>1. /\ transferring = FALSE /\ source = None /\ failed = FALSE
        /\ got = {} /\ length = 0 /\ asked = [p \in Peers |-> <<>>]
        /\ Full \subseteq Peers
    BY SessionStartAssumption DEF Init
  <2>2. /\ asked \in [Peers -> Seq(MetaIndices)]
        /\ \A p \in Peers : asked[p] = <<>>
    BY <2>1
  <2> QED BY <1>1, <2>1, <2>2 DEF XInv
<1> QED BY <1>6, <1>7

(* TypeOK: bytes are written within the torrent only, a session that is    *)
(* killed leaves no more of a resume file than it was writing, and with    *)
(* honest peers only pieces of the metadata that exist are asked for and   *)
(* kept.                                                                   *)
THEOREM SessionTypes == Spec => []TypeOK
<1>1. IInv /\ ROther /\ XInv => TypeOK
  <2> SUFFICES ASSUME IInv, ROther, XInv PROVE TypeOK
    OBVIOUS
  <2>1. ResumeTypeOK
    BY DEF IInv, RInv, Types, ROther, All, ResumeTypeOK
  <2>2. \A p \in Peers : \A k \in DOMAIN asked[p] : asked[p][k] < MetaPieces
    <3> SUFFICES ASSUME NEW p \in Peers, NEW k \in DOMAIN asked[p]
                 PROVE  asked[p][k] < MetaPieces
      OBVIOUS
    <3>1. asked[p] \in Seq(MetaIndices) /\ MetaPieces \in Nat
      BY SessionStartAssumption DEF XInv
    <3>2. asked[p][k] \in MetaIndices
      BY <3>1
    <3> QED BY <3>1, <3>2 DEF MetaIndices
  <2> QED BY <2>1, <2>2 DEF IInv, MInv, XInv, TypeOK
<1> QED BY <1>1, InitIInv, NextIInv, InitOther, NextOther, PTL DEF Spec

-----------------------------------------------------------------------------
(* What makes a check end. *)

(* A chunk on its way: in the reader's hand, with a hasher, or in the      *)
(* results channel.                                                        *)
Underway(i) ==
    \/ hand # None /\ hand.i = i
    \/ \E w \in Workers : hashing[w] # None /\ hashing[w].i = i
    \/ \E k \in 1 .. Len(results) : results[k].i = i

Busy == {w \in Workers : hashing[w] # None}

(* No chunk is lost: a piece that was read is merged or on its way.        *)
Conserved ==
    /\ IsFiniteSet(Busy)
    /\ phase = "check" =>
          \A i \in Pieces : i < next => sums[i] # "none" \/ Underway(i)

(* Somebody can go on, by the guards of the goroutines: the reader, one    *)
(* who hands over a chunk, a hasher, the merger, or the end of the check.  *)
CheckGoesOn ==
    phase = "check" =>
       \/ hand = None /\ next < totalPieces
       \/ hand # None /\ \E w \in Workers : hashing[w] = None
       \/ (\E w \in Workers : hashing[w] # None) /\ Len(results) < ResultsCap
       \/ results # <<>>
       \/ merged = totalPieces

(* The steps that are left for the chunks of a check. *)
StepsLeft == 4 * (totalPieces - next) + (IF hand = None THEN 0 ELSE 3)
             + 2 * Cardinality(Busy) + Len(results)

(* A hasher takes a chunk, or gets rid of one. *)
LEMMA BusyChanges ==
    ASSUME Types, IsFiniteSet(Busy), NEW w \in Workers, NEW c \in Chunk \cup {None},
           hashing' = [hashing EXCEPT ![w] = c]
    PROVE  /\ IsFiniteSet(Busy') /\ Cardinality(Busy) \in Nat
           /\ hashing[w] = None /\ c # None =>
                 Cardinality(Busy') = Cardinality(Busy) + 1
           /\ hashing[w] # None /\ c = None =>
                 Cardinality(Busy') = Cardinality(Busy) - 1
<1>1. Busy' = IF c = None THEN Busy \ {w} ELSE Busy \cup {w}
  BY DEF Types, Busy
<1>2. w \in Busy <=> hashing[w] # None
  BY DEF Busy
<1>3. Cardinality(Busy) \in Nat
  BY FS_CardinalityType
<1>4. /\ IsFiniteSet(Busy \ {w}) /\ IsFiniteSet(Busy \cup {w})
      /\ w \in Busy => Cardinality(Busy \ {w}) = Cardinality(Busy) - 1
      /\ w \notin Busy => Cardinality(Busy \cup {w}) = Cardinality(Busy) + 1
  BY FS_AddElement, FS_RemoveElement
<1> QED BY <1>1, <1>2, <1>3, <1>4

(* Each step of the pipeline takes one chunk one place further. *)
LEMMA HashingShrinks ==
    ASSUME Types, ROther, Conserved, Hashing
    PROVE  /\ Conserved'
           /\ StepsLeft \in Nat /\ StepsLeft' \in Nat /\ StepsLeft' < StepsLeft
<1>0. /\ totalPieces' = totalPieces /\ Pieces' = Pieces
      /\ totalPieces \in Nat /\ ResultsCap \in Nat
      /\ None \notin Chunk
      /\ phase = "check" /\ phase' = "check"
  <2>1. layout' = layout
    BY DEF Hashing, ReadPiece, Hand, Hash, Merge, files
  <2>2. totalPieces' = totalPieces /\ Pieces' = Pieces
    BY <2>1 DEF totalPieces, Pieces
  <2>3. totalPieces \in Nat /\ ResultsCap \in Nat
    BY PiecesNat, ResumeAssumption DEF Types
  <2>4. None \notin Chunk
    <3>1. Pieces \subseteq Nat
      BY <2>3 DEF Pieces
    <3>2. Chunk \subseteq [i : Nat, ok : BOOLEAN]
      BY <3>1 DEF Chunk
    <3> QED BY <3>2, ResumeAssumption
  <2>5. phase = "check" /\ phase' = "check"
    BY DEF Hashing, ReadPiece, Hand, Hash, Merge
  <2> QED BY <2>2, <2>3, <2>4, <2>5
<1>1. /\ next \in 0 .. totalPieces /\ results \in Seq(Chunk)
      /\ Len(results) \in Nat /\ IsFiniteSet(Busy) /\ Cardinality(Busy) \in Nat
      /\ hand \in Chunk \cup {None}
      /\ hashing \in [Workers -> Chunk \cup {None}]
      /\ sums \in [Pieces -> {"none", "good", "bad"}]
  BY FS_CardinalityType DEF ROther, Types, Conserved
<1> DEFINE Shrinks == StepsLeft \in Nat /\ StepsLeft' \in Nat /\ StepsLeft' < StepsLeft
           Places(i) == sums'[i] # "none" \/ Underway(i)'
<1>2. CASE ReadPiece
  <2>1. /\ hand = None /\ next < totalPieces /\ next' = next + 1
        /\ hand' # None /\ hand'.i = next
        /\ UNCHANGED <<hashing, results, sums>>
    <3>1. /\ hand' \in {[i |-> next, ok |-> ReadAt(next) \subseteq good],
                        [i |-> next, ok |-> FALSE]}
          /\ hand = None /\ next < totalPieces /\ next' = next + 1
          /\ UNCHANGED <<hashing, results, sums>>
      BY <1>2 DEF ReadPiece
    <3>2. next \in Pieces
      BY <1>0, <1>1, <3>1 DEF Pieces
    <3>3. hand' \in Chunk /\ hand'.i = next
      <4>1. PICK b \in BOOLEAN : hand' = [i |-> next, ok |-> b]
        BY <3>1
      <4> QED BY <3>2, <4>1 DEF Chunk
    <3> QED BY <1>0, <3>1, <3>3
  <2>2. Busy' = Busy
    BY <2>1 DEF Busy
  <2>3. Shrinks
    BY <1>0, <1>1, <2>1, <2>2 DEF StepsLeft
  <2>4. ASSUME NEW i \in Pieces, i < next' PROVE Places(i)
    <3>1. CASE i = next
      BY <2>1, <3>1 DEF Underway
    <3>2. CASE i # next
      <4>1. i < next /\ i \in Nat
        BY <1>0, <1>1, <2>1, <2>4, <3>2 DEF Pieces
      <4>2. sums[i] # "none" \/ Underway(i)
        BY <1>0, <4>1 DEF Conserved
      <4> QED BY <2>1, <4>2 DEF Underway
    <3> QED BY <3>1, <3>2
  <2> QED BY <1>0, <1>1, <2>2, <2>3, <2>4 DEF Conserved
<1>3. ASSUME NEW w \in Workers, Hand(w) PROVE Conserved' /\ Shrinks
  <2>1. /\ hand # None /\ hand' = None /\ hashing[w] = None
        /\ hashing' = [hashing EXCEPT ![w] = hand]
        /\ UNCHANGED <<next, results, sums>>
    BY <1>3 DEF Hand
  <2>2. /\ IsFiniteSet(Busy') /\ Cardinality(Busy') = Cardinality(Busy) + 1
    BY <1>1, <2>1, BusyChanges
  <2>3. Shrinks
    BY <1>0, <1>1, <2>1, <2>2 DEF StepsLeft
  <2>4. ASSUME NEW i \in Pieces, i < next' PROVE Places(i)
    <3>1. sums[i] # "none" \/ Underway(i)
      BY <1>0, <2>1, <2>4 DEF Conserved
    <3>2. hashing'[w] = hand /\ \A v \in Workers : v # w => hashing'[v] = hashing[v]
      BY <1>1, <2>1
    <3> QED BY <2>1, <3>1, <3>2 DEF Underway
  <2> QED BY <1>0, <2>2, <2>3, <2>4 DEF Conserved
<1>4. ASSUME NEW w \in Workers, Hash(w) PROVE Conserved' /\ Shrinks
  <2>1. /\ hashing[w] # None /\ hashing' = [hashing EXCEPT ![w] = None]
        /\ results' = Append(results, hashing[w])
        /\ UNCHANGED <<next, hand, sums>>
    BY <1>4 DEF Hash
  <2>2. /\ IsFiniteSet(Busy') /\ Cardinality(Busy') = Cardinality(Busy) - 1
        /\ Cardinality(Busy') \in Nat
    BY <1>1, <2>1, BusyChanges, FS_CardinalityType
  <2>3. /\ Len(results') = Len(results) + 1
        /\ results'[Len(results) + 1] = hashing[w]
        /\ \A k \in 1 .. Len(results) : results'[k] = results[k]
    <3>1. hashing[w] \in Chunk
      BY <1>1, <2>1
    <3> QED BY <1>1, <2>1, <3>1
  <2>4. Shrinks
    <3> DEFINE h == IF hand = None THEN 0 ELSE 3
               r == 4 * (totalPieces - next)
    <3>1. /\ h \in Nat /\ r \in Nat
      BY <1>0, <1>1
    <3>2. /\ StepsLeft = r + h + 2 * Cardinality(Busy) + Len(results)
          /\ StepsLeft' = r + h + 2 * Cardinality(Busy') + Len(results')
      BY <1>0, <2>1 DEF StepsLeft
    <3>3. \A x, y, b, c \in Nat :
             /\ x + y + 2 * b + c \in Nat
             /\ b - 1 \in Nat =>
                   x + y + 2 * (b - 1) + (c + 1) < x + y + 2 * b + c
      OBVIOUS
    <3> HIDE DEF h, r
    <3>4. StepsLeft \in Nat /\ StepsLeft' \in Nat
      <4>1. Len(results') \in Nat
        BY <1>1, <2>3
      <4> QED BY <1>1, <2>2, <3>1, <3>2, <3>3, <4>1
    <3>5. StepsLeft' = r + h + 2 * (Cardinality(Busy) - 1) + (Len(results) + 1)
      BY <2>2, <2>3, <3>2
    <3>6. StepsLeft' < StepsLeft
      <4>1. Cardinality(Busy) - 1 \in Nat
        BY <2>2
      <4>2. r + h + 2 * (Cardinality(Busy) - 1) + (Len(results) + 1)
               < r + h + 2 * Cardinality(Busy) + Len(results)
        BY <1>1, <3>1, <3>3, <4>1
      <4> QED BY <3>2, <3>5, <4>2
    <3> QED BY <3>4, <3>6
  <2>5. ASSUME NEW i \in Pieces, i < next' PROVE Places(i)
    <3>1. sums[i] # "none" \/ Underway(i)
      BY <1>0, <2>1, <2>5 DEF Conserved
    <3>2. \A v \in Workers : v # w => hashing'[v] = hashing[v]
      BY <1>1, <2>1
    <3>3. /\ Len(results) + 1 \in 1 .. Len(results')
          /\ \A k \in 1 .. Len(results) : k \in 1 .. Len(results')
      BY <1>1, <2>3
    <3>4. CASE sums[i] # "none" \/ (hand # None /\ hand.i = i)
      BY <2>1, <3>4 DEF Underway
    <3>5. ASSUME NEW v \in Workers, hashing[v] # None /\ hashing[v].i = i
          PROVE  Places(i)
      BY <2>3, <3>2, <3>3, <3>5 DEF Underway
    <3>6. ASSUME NEW k \in 1 .. Len(results), results[k].i = i
          PROVE  Places(i)
      <4>1. k \in 1 .. Len(results') /\ results'[k].i = i
        BY <2>3, <3>3, <3>6
      <4> QED BY <4>1 DEF Underway
    <3> QED BY <3>1, <3>4, <3>5, <3>6 DEF Underway
  <2> QED BY <1>0, <2>2, <2>4, <2>5 DEF Conserved
<1>5. CASE Merge
  <2>1. /\ results # <<>> /\ results' = Tail(results)
        /\ sums' = [sums EXCEPT ![Head(results).i] = IF Head(results).ok
                                                    THEN "good" ELSE "bad"]
        /\ UNCHANGED <<next, hand, hashing>>
    BY <1>5 DEF Merge
  <2>2. /\ Len(results) = Len(results') + 1 /\ Len(results') \in Nat
        /\ Head(results) = results[1]
        /\ \A k \in 1 .. Len(results') : results'[k] = results[k + 1]
    BY <1>1, <2>1
  <2>3. Busy' = Busy
    BY <2>1 DEF Busy
  <2>4. Shrinks
    BY <1>0, <1>1, <2>1, <2>2, <2>3 DEF StepsLeft
  <2>5. ASSUME NEW i \in Pieces, i < next' PROVE Places(i)
    <3>1. sums[i] # "none" \/ Underway(i)
      BY <1>0, <2>1, <2>5 DEF Conserved
    <3>2. sums[i] # "none" => sums'[i] # "none"
      BY <1>1, <2>1
    <3>3. CASE hand # None /\ hand.i = i
      BY <2>1, <3>3 DEF Underway
    <3>4. ASSUME NEW v \in Workers, hashing[v] # None /\ hashing[v].i = i
          PROVE  Places(i)
      BY <2>1, <3>4 DEF Underway
    <3>5. ASSUME NEW k \in 1 .. Len(results), results[k].i = i
          PROVE  Places(i)
      <4>1. CASE k = 1
        <5>1. Head(results).i = i
          BY <2>2, <3>5, <4>1
        <5>2. sums'[i] # "none"
          BY <1>1, <2>1, <5>1
        <5> QED BY <5>2
      <4>2. CASE k # 1
        <5>1. k - 1 \in 1 .. Len(results') /\ (k - 1) + 1 = k
          BY <2>2, <4>2
        <5>2. results'[k - 1].i = i
          BY <2>2, <3>5, <5>1
        <5> QED BY <5>1, <5>2 DEF Underway
      <4> QED BY <4>1, <4>2
    <3> QED BY <3>1, <3>2, <3>3, <3>4, <3>5 DEF Underway
  <2> QED BY <1>0, <1>1, <2>3, <2>4, <2>5 DEF Conserved
<1> QED BY <1>2, <1>3, <1>4, <1>5 DEF Hashing

(* Every other step empties the pipeline or leaves it as it is, and only   *)
(* load begins a check.                                                    *)
LEMMA NextConserved ==
    ASSUME IInv, ROther, Conserved, [Next]_vars
    PROVE  Conserved'
<1>1. ASSUME Pipeline PROVE Conserved'
  <2>1. next' = 0 /\ hashing' = [w \in Workers |-> None]
    BY <1>1 DEF Pipeline
  <2>2. Busy' = {}
    BY <2>1 DEF Busy
  <2>3. \A i \in Pieces' : ~ (i < next')
    BY <2>1 DEF Pieces
  <2> QED BY <2>2, <2>3, FS_EmptySet DEF Conserved
<1>2. ASSUME UNCHANGED pipeline, phase' # "check" \/ phase' = phase
      PROVE  Conserved'
  <2>1. UNCHANGED <<next, hand, hashing, results, sums>> /\ Pieces' = Pieces
    BY <1>2 DEF pipeline, Pieces, totalPieces
  <2>2. Busy' = Busy
    BY <2>1 DEF Busy
  <2>3. \A i : Underway(i)' <=> Underway(i)
    BY <2>1 DEF Underway
  <2> QED BY <1>2, <2>1, <2>2, <2>3 DEF Conserved
<1>3. CASE Hashing /\ UNCHANGED metaVars
  BY <1>3, HashingShrinks DEF IInv, RInv
<1>4. ASSUME UNCHANGED resumeVars PROVE Conserved'
  BY <1>2, <1>4 DEF resumeVars
<1>5. ASSUME NEW f \in Flags, StartFile(f) \/ StartMagnet(f) PROVE Conserved'
  BY <1>1, <1>2, <1>5 DEF StartFile, StartMagnet, Start, load
<1>6. ASSUME NEW p \in Peers, Data(p) PROVE Conserved'
  BY <1>1, <1>4, <1>6 DEF Data, reload, load
<1>7. ASSUME NEW p \in Peers,
             addPeerImp(p) \/ ClosePeer(p) \/ Handshake(p) \/ Reject(p)
      PROVE  Conserved'
  BY <1>4, <1>7 DEF addPeerImp, ClosePeer, Handshake, Reject
<1>8. CASE LoadChecked \/ CrashAll
  BY <1>1, <1>8 DEF LoadChecked, Checked, CrashAll, Crash
<1>9. CASE Recording /\ UNCHANGED metaVars
  BY <1>2, <1>9 DEF Recording, WritePiece, WriteChunk, WriteFails, Claim, Save
<1>10. CASE UNCHANGED vars
  BY <1>4, <1>10 DEF vars
<1> QED BY <1>3, <1>5, <1>6, <1>7, <1>8, <1>9, <1>10 DEF Next

(* Nothing is in the pipeline before the program is started. *)
LEMMA ConservedHolds == Spec => [](IInv /\ ROther /\ Conserved)
<1>1. Init => Conserved
  <2> SUFFICES ASSUME Init PROVE Conserved
    OBVIOUS
  <2>1. phase = "down" /\ hashing = [w \in Workers |-> None]
    BY DEF Init, ResumeInit
  <2>2. Busy = {}
    BY <2>1 DEF Busy
  <2> QED BY <2>1, <2>2, FS_EmptySet DEF Conserved
<1> QED BY <1>1, InitIInv, NextIInv, InitOther, NextOther, NextConserved, PTL
        DEF Spec

(* checkPieces is never stuck, however many hashers there are and however  *)
(* small the results channel is: until every piece is merged, the reader,  *)
(* a hasher or the merger can go on.                                       *)
THEOREM CheckGoesOnHolds == Spec => []CheckGoesOn
<1>1. IInv /\ ROther /\ Conserved => CheckGoesOn
  <2> SUFFICES ASSUME IInv, ROther, Conserved, phase = "check",
                      hand # None \/ ~ (next < totalPieces),
                      hand = None \/ \A w \in Workers : hashing[w] # None,
                      \/ \A w \in Workers : hashing[w] = None
                      \/ ~ (Len(results) < ResultsCap),
                      results = <<>>
               PROVE  merged = totalPieces
    BY DEF CheckGoesOn
  <2>1. /\ Len(results) = 0 /\ ResultsCap \in Nat \ {0} /\ Workers # {}
        /\ totalPieces \in Nat /\ next \in 0 .. totalPieces
    BY ResumeAssumption, PiecesNat DEF ROther, IInv, RInv, Types
  <2>2. \A w \in Workers : hashing[w] = None
    BY <2>1
  <2>3. hand = None /\ next = totalPieces
    BY <2>1, <2>2
  <2>4. \A i \in Pieces : i < next /\ ~ Underway(i)
    BY <2>1, <2>2, <2>3 DEF Underway, Pieces
  <2>5. {i \in Pieces : sums[i] # "none"} = Pieces
    BY <2>4 DEF Conserved
  <2>6. Cardinality(Pieces) = totalPieces
    <3>1. 0 \in Int /\ totalPieces - 1 \in Int
      BY <2>1
    <3> QED BY <2>1, <3>1, FS_Interval DEF Pieces
  <2> QED BY <2>5, <2>6 DEF merged
<1> QED BY <1>1, ConservedHolds, PTL

(* A check takes a bounded number of steps, at most four for each piece:   *)
(* with CheckGoesOn this is what CheckEnds rests on besides fairness.      *)
THEOREM CheckShrinksHolds ==
    Spec => [][Hashing => /\ StepsLeft \in Nat /\ StepsLeft' \in Nat
                          /\ StepsLeft' < StepsLeft]_vars
<1>1. IInv /\ ROther /\ Conserved /\ [Next]_vars =>
        [Hashing => /\ StepsLeft \in Nat /\ StepsLeft' \in Nat
                    /\ StepsLeft' < StepsLeft]_vars
  BY HashingShrinks DEF IInv, RInv
<1> QED BY <1>1, ConservedHolds, PTL DEF Spec
-----------------------------------------------------------------------------
(* What a running session adds to its claims. *)

(* The piece that is being written is not claimed yet. *)
NotClaimed == at = "write" => piece \notin pieceSet

(* RecordBlock begins with that, and load, checkPieces and a crash leave   *)
(* no piece half recorded.                                                 *)
LEMMA NextNotClaimed ==
    ASSUME NotClaimed, [Next]_vars
    PROVE  NotClaimed'
<1> USE DEF NotClaimed
<1>1. ASSUME UNCHANGED resumeVars PROVE NotClaimed'
  BY <1>1 DEF resumeVars, record
<1>2. ASSUME NEW f \in Flags, StartFile(f) PROVE NotClaimed'
  <2>1. CASE load(f)
    BY <2>1 DEF load, Memory
  <2>2. CASE ~ load(f)
    BY <1>2, <2>2 DEF StartFile, Start, record
  <2> QED BY <2>1, <2>2
<1>3. ASSUME NEW f \in Flags, StartMagnet(f) PROVE NotClaimed'
  BY <1>3 DEF StartMagnet, record
<1>4. ASSUME NEW p \in Peers, Data(p) PROVE NotClaimed'
  BY <1>1, <1>4 DEF Data, reload, load, Memory
<1>5. ASSUME NEW p \in Peers,
             addPeerImp(p) \/ ClosePeer(p) \/ Handshake(p) \/ Reject(p)
      PROVE  NotClaimed'
  BY <1>1, <1>5 DEF addPeerImp, ClosePeer, Handshake, Reject
<1>6. CASE Hashing
  BY <1>6 DEF Hashing, ReadPiece, Hand, Hash, Merge, record
<1>7. CASE LoadChecked \/ CrashAll
  BY <1>7 DEF LoadChecked, Checked, CrashAll, Crash, Memory
<1>8. CASE Recording
  BY <1>8 DEF Recording, WritePiece, WriteChunk, WriteFails, Claim, Save
<1>9. CASE UNCHANGED vars
  BY <1>1, <1>9 DEF vars
<1> QED BY <1>2, <1>3, <1>4, <1>5, <1>6, <1>7, <1>8, <1>9 DEF Next

(* A running session acquires pieces as PieceStore says: one at a time,    *)
(* each once, and after all of its bytes were written to the files, unless *)
(* a write failed, which RecordBlock ignores.                              *)
THEOREM ClaimsWritten ==
    Spec => [][phase = "running" /\ phase' = "running" /\ pieceSet' # pieceSet =>
                  \E k \in Right \cup unwritten :
                      k \notin pieceSet /\ pieceSet' = pieceSet \cup {k}]_vars
<1>1. Init => NotClaimed
  BY DEF Init, ResumeInit, NotClaimed
<1>2. IInv /\ NotClaimed /\ [Next]_vars =>
        [phase = "running" /\ phase' = "running" /\ pieceSet' # pieceSet =>
                  \E k \in Right \cup unwritten :
                      k \notin pieceSet /\ pieceSet' = pieceSet \cup {k}]_vars
  <2> SUFFICES ASSUME IInv, NotClaimed, [Next]_vars, phase = "running",
                      phase' = "running", pieceSet' # pieceSet
               PROVE  \E k \in Right \cup unwritten :
                          k \notin pieceSet /\ pieceSet' = pieceSet \cup {k}
    OBVIOUS
  <2>1. ~ UNCHANGED resumeVars
    BY DEF resumeVars
  <2>2. Recording
    <3>1. \A f \in Flags : ~ StartFile(f) /\ ~ StartMagnet(f)
      BY DEF StartFile, Start, StartMagnet
    <3>2. \A p \in Peers : /\ ~ addPeerImp(p) /\ ~ ClosePeer(p)
                           /\ ~ Handshake(p) /\ ~ Data(p) /\ ~ Reject(p)
      BY <2>1 DEF addPeerImp, ClosePeer, Handshake, Data, Reject
    <3>3. ~ Hashing /\ ~ LoadChecked /\ ~ CrashAll
      BY DEF Hashing, ReadPiece, Hand, Hash, Merge, LoadChecked, Checked,
         CrashAll, Crash
    <3>4. ~ UNCHANGED vars
      BY <2>1 DEF vars
    <3> QED BY <3>1, <3>2, <3>3, <3>4 DEF Next
  <2>3. Claim
    BY <2>2 DEF Recording, WritePiece, WriteChunk, WriteFails, Save
  <2>4. /\ at = "write" /\ todo = <<>> /\ pieceSet' = pieceSet \cup {piece}
    BY <2>3 DEF Claim
  <2>5. piece \in Right \cup unwritten
    <3>1. Cover(todo) = {}
      BY <2>4 DEF Cover
    <3>2. /\ piece \in Pieces
          /\ PieceExtent(piece) \subseteq good \/ piece \in unwritten
      BY <2>4, <3>1 DEF IInv, RInv, Recorded
    <3> QED BY <3>2 DEF Right, PieceExtent
  <2> QED BY <2>4, <2>5 DEF NotClaimed
<1> QED BY <1>1, <1>2, InitIInv, NextIInv, NextNotClaimed, PTL DEF Spec
=============================================================================
