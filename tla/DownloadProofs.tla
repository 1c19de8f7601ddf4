--------------------------- MODULE DownloadProofs ---------------------------
(***************************************************************************)
(* Proofs that the invariants of Download hold for every torrent layout,   *)
(* every set of connections and every choice of the limits.                *)
(***************************************************************************)
EXTENDS Download, FiniteSetTheorems, WellFoundedInduction, TLAPS

(* A plan for peer at hand, whose pieces are h, that RequestBlock may be   *)
(* given when we hold the pieces in held.                                  *)
PlanOK(h, held, d) ==
    /\ d \in [active : SUBSET Pieces, count : [Block -> Int],
              reqs : SUBSET Block, interested : BOOLEAN]
    /\ \A x \in Block : d.count[x] >= -1
    /\ d.active \cap held = {}
    /\ \A k \in d.active : ~isComplete(k, d.count)
    /\ Cardinality(d.active) <= MaxActivePieces
    /\ ~(h \subseteq held) => d.interested

(* NoRequestLeak, and its counterpart before a connection is added. *)
IdleUnrequested ==
    \A c \in Conns : reader[c] \in {"off", "done"} => ourRequests[c] = {}

(* The inductive invariant.  InterestSound rests on ActiveWanted, and so   *)
(* does Accounting; PieceSetVerified depends on the file store.            *)
IInv ==
    /\ TypeOK
    /\ Accounting
    /\ ActiveWanted
    /\ InterestSound
    /\ IdleUnrequested
    /\ StoreMayFail \/ PieceSetVerified

-----------------------------------------------------------------------------
(* load()'s arithmetic: there is a last piece, and it is not empty. *)
LEMMA Layout ==
    /\ totalPieces \in Nat \ {0}
    /\ lastPieceLength \in 1 .. PieceLength
<1> DEFINE q == TotalSize \div PieceLength
           r == TotalSize % PieceLength
<1>1. /\ q \in Int /\ r \in 0 .. PieceLength - 1
      /\ TotalSize = PieceLength * q + r
  BY SizeAssumption, SMTT(20)
<1>2. q \in Nat
  <2>1. SUFFICES ASSUME q <= -1 PROVE FALSE
    BY <1>1
  <2>2. PieceLength * q <= -PieceLength
    BY <1>1, <2>1, SizeAssumption, SMTT(20)
  <2> QED BY <1>1, <2>2, SizeAssumption
<1>3. r = 0 => q # 0
  BY <1>1, SizeAssumption
<1> HIDE DEF q, r
<1> QED BY <1>1, <1>2, <1>3, SizeAssumption DEF totalPieces, lastPieceLength, q, r

(* Sets of pieces are finite. *)
LEMMA FinitePieces ==
    ASSUME NEW S \in SUBSET Pieces
    PROVE  IsFiniteSet(S) /\ Cardinality(S) \in 0 .. totalPieces
<1>1. IsFiniteSet(Pieces) /\ Cardinality(Pieces) = totalPieces
  BY Layout, FS_Interval DEF Pieces
<1> QED BY <1>1, Layout, FS_Subset, FS_CardinalityType

(* A non-empty set of naturals has a least element. *)
LEMMA NatMin ==
    ASSUME NEW T \in SUBSET Nat, T # {}
    PROVE  \E m \in T : \A n \in T : m <= n
<1> DEFINE R == OpToRel(<, Nat)
<1>1. R = {ss \in Nat \X Nat : ss[1] < ss[2]}
  BY Zenon DEF OpToRel
<1>2. IsWellFoundedOn(R, Nat)
  BY NatLessThanWellFounded, Zenon
<1> HIDE DEF R
<1>3. PICK m \in T : \A n \in T : <<n, m>> \notin R
  BY <1>2, WFMin
<1>4. \A n \in T : ~(n < m)
  BY <1>1, <1>3
<1> QED BY <1>4

(* The endgame finds a block in every piece that is not complete. *)
LEMMA EndgameFindsBlock ==
    ASSUME NEW k \in Pieces, NEW count \in [Block -> Int],
           \A x \in Block : count[x] >= -1,
           ~isComplete(k, count)
    PROVE  LeastRequested(k, count) # {}
<1> DEFINE B == {x \in BlocksOf(k) : count[x] >= 0}
           C == {count[x] : x \in B}
<1>1. B # {} /\ B \subseteq Block
  BY DEF isComplete, BlocksOf
<1>2. C # {} /\ C \subseteq Nat
  BY <1>1
<1>3. PICK m \in C : \A n \in C : m <= n
  BY <1>2, NatMin
<1> DEFINE I == {x[2] : x \in {y \in B : count[y] = m}}
<1>4. I # {} /\ I \subseteq Nat
  BY <1>1 DEF Block
<1>5. PICK i \in I : \A j \in I : i <= j
  BY <1>4, NatMin
<1>6. PICK x \in B : count[x] = m /\ x[2] = i
  BY <1>5
<1>7. ASSUME NEW y \in BlocksOf(k), count[y] >= 0
      PROVE  count[x] <= count[y] /\ (y[2] < x[2] => count[x] < count[y])
  <2>1. y \in B /\ count[y] \in C /\ m <= count[y]
    BY <1>3, <1>7
  <2>2. count[y] = m => i <= y[2]
    BY <1>5, <2>1
  <2>3. count[y] \in Int /\ m \in Int /\ i \in Nat /\ y[2] \in Nat
    BY <1>2, <1>4, <1>7 DEF BlocksOf, Block
  <2> QED BY <1>6, <2>1, <2>2, <2>3
<1> QED BY <1>6, <1>7 DEF LeastRequested

-----------------------------------------------------------------------------
(* Asking for a block that is not recorded keeps a plan in order, if its   *)
(* piece is wanted and active or there is room for another piece.          *)
LEMMA AskOK ==
    ASSUME NEW h, NEW held, NEW d, PlanOK(h, held, d),
           NEW x \in Block, d.count[x] >= 0,
           x[1] \notin held,
           Cardinality(d.active \cup {x[1]}) <= MaxActivePieces
    PROVE  PlanOK(h, held, Ask(d, x))
<1> DEFINE e == Ask(d, x)
<1>1. d \in [active : SUBSET Pieces, count : [Block -> Int],
             reqs : SUBSET Block, interested : BOOLEAN]
  BY DEF PlanOK
<1>2. /\ e.active = d.active \cup {x[1]}
      /\ e.count = [d.count EXCEPT ![x] = @ + 1]
      /\ e.interested = d.interested
  BY DEF Ask
<1>3. x[1] \in Pieces
  BY DEF Block
<1>4. e \in [active : SUBSET Pieces, count : [Block -> Int],
             reqs : SUBSET Block, interested : BOOLEAN]
  BY <1>1, <1>3 DEF Ask
<1> HIDE DEF e
<1>5. \A y \in Block : /\ e.count[y] >= -1
                       /\ d.count[y] # -1 => e.count[y] # -1
                       /\ e.count[x] # -1
  BY <1>1, <1>2 DEF PlanOK
<1>6. ASSUME NEW k \in e.active PROVE ~isComplete(k, e.count)
  <2>1. CASE k \in d.active
    <3>1. PICK y \in BlocksOf(k) : d.count[y] # -1
      BY <2>1 DEF PlanOK, isComplete
    <3> QED BY <3>1, <1>5 DEF isComplete, BlocksOf
  <2>2. CASE k = x[1]
    BY <2>2, <1>5 DEF isComplete, BlocksOf
  <2> QED BY <1>2, <2>1, <2>2
<1> QED BY <1>2, <1>4, <1>5, <1>6 DEF PlanOK, e

(* The same for a block of a piece that is active already. *)
LEMMA AskActiveOK ==
    ASSUME NEW h, NEW held, NEW d, PlanOK(h, held, d),
           NEW x \in Block, d.count[x] >= 0, x[1] \in d.active
    PROVE  PlanOK(h, held, Ask(d, x))
<1>1. d.active = d.active \cup {x[1]}
  OBVIOUS
<1>2. x[1] \notin held /\ Cardinality(d.active \cup {x[1]}) <= MaxActivePieces
  BY <1>1 DEF PlanOK
<1> QED BY <1>2, AskOK

(* RequestBlock keeps a plan in order; in particular it gives up interest  *)
(* only in a peer that has nothing we lack.                                *)
LEMMA RequestBlockOK ==
    ASSUME NEW h \in SUBSET Pieces, NEW held, NEW d, PlanOK(h, held, d),
           NEW e \in RequestBlock(h, held, d)
    PROVE  PlanOK(h, held, e)
<1> DEFINE normal  == UNION {FirstFree(k, d.count) : k \in d.active \cap h}
           fresh   == Unclaimed(h, held, d)
           doubled == UNION {LeastRequested(k, d.count) : k \in d.active \cap h}
<1>1. d \in [active : SUBSET Pieces, count : [Block -> Int],
             reqs : SUBSET Block, interested : BOOLEAN]
  BY DEF PlanOK
<1>2. \A x \in normal \cup doubled :
         x \in Block /\ d.count[x] >= 0 /\ x[1] \in d.active
  BY <1>1 DEF FirstFree, LeastRequested, BlocksOf
<1>3. CASE normal # {}
  BY <1>2, <1>3, AskActiveOK DEF RequestBlock
<1>4. CASE normal = {} /\ Cardinality(d.active) >= MaxActivePieces
  BY <1>4 DEF RequestBlock
<1>5. CASE normal = {} /\ ~(Cardinality(d.active) >= MaxActivePieces)
           /\ fresh # {}
  <2>0. PICK k \in fresh : \E x \in FirstFree(k, d.count) :
           e = Ask(d, x)
    BY <1>5 DEF RequestBlock
  <2>1. PICK x \in FirstFree(k, d.count) :
           e = Ask(d, x)
    BY <2>0
  <2>2. x \in Block /\ x[1] = k /\ d.count[x] = 0
    BY <2>1 DEF FirstFree, BlocksOf
  <2>3. k \in Pieces /\ k \notin held /\ k \notin d.active
    BY <2>1 DEF Unclaimed
  <2>4. Cardinality(d.active \cup {k}) <= MaxActivePieces
    BY <1>1, <1>5, <2>3, FinitePieces, FS_AddElement, SizeAssumption
  <2> QED BY <2>1, <2>2, <2>3, <2>4, AskOK
<1>6. CASE normal = {} /\ ~(Cardinality(d.active) >= MaxActivePieces)
           /\ fresh = {} /\ doubled # {}
  BY <1>2, <1>6, AskActiveOK DEF RequestBlock
<1>7. CASE normal = {} /\ ~(Cardinality(d.active) >= MaxActivePieces)
           /\ fresh = {} /\ doubled = {}
  <2>1. e = [d EXCEPT !.interested = FALSE]
    BY <1>7 DEF RequestBlock
  <2>2. d.active \cap h = {}
    <3>1. SUFFICES ASSUME NEW k \in d.active \cap h PROVE FALSE
      OBVIOUS
    <3>2. LeastRequested(k, d.count) # {}
      BY <1>1, EndgameFindsBlock DEF PlanOK
    <3> QED BY <3>2, <1>7
  <2>3. h \subseteq held
    BY <2>2, <1>7 DEF Unclaimed
  <2> QED BY <1>1, <2>1, <2>3 DEF PlanOK
<1> QED BY <1>3, <1>4, <1>5, <1>6, <1>7

-----------------------------------------------------------------------------
(* Preservation, one lemma per kind of step. *)

LEMMA InitIInv == Init => IInv
<1> SUFFICES ASSUME Init PROVE IInv
  OBVIOUS
<1> USE DEF Init
<1>1. Cardinality(pieceSet) \in Int /\ pieceSet \subseteq Pieces
  BY FinitePieces
<1>2. Cardinality(active) = 0
  BY FS_EmptySet
<1>3. left \in Int
  BY <1>1, Layout, SizeAssumption DEF Left
<1>4. TypeOK
  <2>1. /\ amInterested \in [Conns -> BOOLEAN]
        /\ peerChoking \in [Conns -> BOOLEAN]
        /\ canBitfield \in [Conns -> BOOLEAN]
        /\ panicked \in BOOLEAN
    BY Zenon
  <2>2. /\ downloaderCount \in [Block -> Int]
        /\ \A x \in Block : downloaderCount[x] >= -1
    OBVIOUS
  <2>3. /\ reader \in [Conns -> {"off", "reading", "holding", "done"}]
        /\ writer \in [Conns -> {"off", "running", "done"}]
        /\ have \in [Conns -> SUBSET Pieces]
        /\ ourRequests \in [Conns -> SUBSET Block]
    OBVIOUS
  <2>4. goodPieces \in Int
    BY <1>1
  <2> QED BY <1>1, <1>3, <2>1, <2>2, <2>3, <2>4 DEF TypeOK
<1>5. Accounting
  BY DEF Accounting
<1>6. ActiveWanted
  BY <1>2, SizeAssumption DEF ActiveWanted
<1>7. InterestSound /\ IdleUnrequested /\ PieceSetVerified
  BY DEF InterestSound, IdleUnrequested, PieceSetVerified
<1> QED BY <1>4, <1>5, <1>6, <1>7 DEF IInv

(* Steps that leave pieces and blocks alone and only ever drop requests    *)
(* and raise counts from nowhere preserve what is said of blocks.          *)
LEMMA LoweredOK ==
    ASSUME IInv, active' = active, pieceSet' = pieceSet,
           downloaderCount' \in [Block -> Int],
           \A x \in Block : /\ downloaderCount'[x] >= -1
                            /\ downloaderCount'[x] = -1 => downloaderCount[x] = -1
    PROVE  ActiveWanted'
<1>1. ASSUME NEW k \in active PROVE ~isComplete(k, downloaderCount)'
  BY <1>1 DEF IInv, ActiveWanted, isComplete, BlocksOf
<1> QED BY <1>1 DEF IInv, ActiveWanted

(* removeRequests lowers counts, never to the mark of a recorded block. *)
LEMMA RemoveRequestsOK ==
    ASSUME TypeOK, NEW S
    PROVE  /\ RemoveRequests(S) \in [Block -> Int]
           /\ \A x \in Block :
                /\ RemoveRequests(S)[x] >= -1
                /\ RemoveRequests(S)[x] = -1 => downloaderCount[x] = -1
BY DEF TypeOK, RemoveRequests

(* ClosePeer, whichever handler calls it. *)
LEMMA ClosePeerOK ==
    ASSUME IInv, NEW c \in Conns, ClosePeer(c),
           UNCHANGED <<pieceVars, active, goodBlocks, have, amInterested,
                       peerChoking, canBitfield>>,
           noBitset' \in SUBSET Conns, noBitset \subseteq noBitset',
           writer' \in [Conns -> {"off", "running", "done"}],
           reader' \in [Conns -> {"off", "reading", "holding", "done"}],
           \A p \in Conns : p # c => reader'[p] = reader[p],
           panicked' \in BOOLEAN
    PROVE  IInv'
<1>1. TypeOK /\ TypeOK'
  BY RemoveRequestsOK DEF IInv, TypeOK, ClosePeer, pieceVars, Unfiled
<1>2. ActiveWanted'
  BY <1>1, RemoveRequestsOK, LoweredOK DEF TypeOK, ClosePeer, pieceVars
<1>3. Accounting' /\ (StoreMayFail \/ PieceSetVerified')
  BY DEF IInv, Accounting, PieceSetVerified, pieceVars
<1>4. InterestSound'
  BY DEF IInv, InterestSound, pieceVars
<1>5. IdleUnrequested'
  BY <1>1 DEF IInv, IdleUnrequested, ClosePeer, TypeOK
<1> QED BY <1>1, <1>2, <1>3, <1>4, <1>5 DEF IInv

(* Steps that touch neither pieces, blocks, interest nor requests. *)
LEMMA QuietOK ==
    ASSUME IInv,
           UNCHANGED <<pieceVars, blockVars, have, noBitset, amInterested,
                       peerChoking, ourRequests>>,
           peers' \in SUBSET Conns, open' \in SUBSET Conns,
           reader' \in [Conns -> {"off", "reading", "holding", "done"}],
           writer' \in [Conns -> {"off", "running", "done"}],
           canBitfield' \in [Conns -> BOOLEAN],
           panicked' \in BOOLEAN,
           \A c \in Conns : reader'[c] \in {"off", "done"} =>
                               reader[c] \in {"off", "done"}
    PROVE  IInv'
<1> USE DEF pieceVars, blockVars
<1>1. TypeOK'
  BY DEF IInv, TypeOK
<1>2. ActiveWanted'
  BY DEF IInv, ActiveWanted, isComplete
<1>3. Accounting' /\ (StoreMayFail \/ PieceSetVerified')
  BY DEF IInv, Accounting, PieceSetVerified
<1>4. InterestSound' /\ IdleUnrequested'
  BY DEF IInv, InterestSound, IdleUnrequested
<1> QED BY <1>1, <1>2, <1>3, <1>4 DEF IInv

(* The keep-alive tick closes peers and lowers counts, down to zero. *)
LEMMA KeepAliveTickOK ==
    ASSUME IInv, NEW gone \in SUBSET peers, NEW late \in SUBSET Outstanding,
           KeepAliveTick(gone, late)
    PROVE  IInv'
<1> USE DEF KeepAliveTick, pieceVars, talkVars
<1>1. ASSUME NEW x \in Block
      PROVE  Cardinality({r \in late : r[2] = x}) \in Nat
  <2>0. IsFiniteSet(Pieces) /\ IsFiniteSet(0 .. PieceLength - 1)
    BY FinitePieces, FS_Interval, SizeAssumption
  <2>1. IsFiniteSet(Pieces \X (0 .. PieceLength - 1))
    BY <2>0, FS_Product
  <2>2. IsFiniteSet(Block)
    BY <2>1, FS_Subset DEF Block
  <2>3. IsFiniteSet(peers)
    BY PeerAssumption, FS_Subset DEF IInv, TypeOK
  <2>4. IsFiniteSet(peers \X Block)
    BY <2>2, <2>3, FS_Product
  <2>5. {r \in late : r[2] = x} \in SUBSET (peers \X Block)
    BY DEF Outstanding
  <2> QED BY <2>4, <2>5, FS_Subset, FS_CardinalityType
<1>2. /\ downloaderCount' \in [Block -> Int]
      /\ \A x \in Block : /\ downloaderCount'[x] >= -1
                          /\ downloaderCount'[x] = -1 => downloaderCount[x] = -1
  BY <1>1 DEF IInv, TypeOK, Lowered
<1>3. TypeOK'
  BY <1>2 DEF IInv, TypeOK
<1>4. ActiveWanted'
  BY <1>2, LoweredOK
<1>5. Accounting' /\ (StoreMayFail \/ PieceSetVerified')
  BY DEF IInv, Accounting, PieceSetVerified
<1>6. InterestSound' /\ IdleUnrequested'
  BY DEF IInv, InterestSound, IdleUnrequested
<1> QED BY <1>3, <1>4, <1>5, <1>6 DEF IInv

(* HAVE and BITFIELD: what the peer has and our interest change together. *)
LEMMA AnnounceOK ==
    ASSUME IInv, NEW c \in Conns, NEW h \in SUBSET Pieces,
           Receive(c),
           have' = [have EXCEPT ![c] = h],
           amInterested' \in [Conns -> BOOLEAN],
           \A p \in Conns : p # c => amInterested'[p] = amInterested[p],
           ~(h \subseteq pieceSet) => amInterested'[c],
           noBitset' \in SUBSET Conns,
           \A p \in Conns : p # c => (p \in noBitset' <=> p \in noBitset),
           canBitfield' \in [Conns -> BOOLEAN],
           UNCHANGED <<pieceVars, blockVars, connVars, peerChoking,
                       ourRequests, panicked>>
    PROVE  IInv'
<1> USE DEF Receive, pieceVars, blockVars, connVars
<1>1. TypeOK'
  BY DEF IInv, TypeOK
<1>2. ActiveWanted'
  BY DEF IInv, ActiveWanted, isComplete
<1>3. Accounting' /\ (StoreMayFail \/ PieceSetVerified')
  BY DEF IInv, Accounting, PieceSetVerified
<1>4. InterestSound'
  <2> SUFFICES ASSUME NEW p \in Conns, p \notin noBitset',
                      ~(have'[p] \subseteq pieceSet)
               PROVE  amInterested'[p]
    BY DEF InterestSound
  <2>1. CASE p = c
    BY <2>1 DEF IInv, TypeOK
  <2>2. CASE p # c
    BY <2>2 DEF IInv, TypeOK, InterestSound
  <2> QED BY <2>1, <2>2
<1>5. IdleUnrequested'
  BY DEF IInv, IdleUnrequested, TypeOK
<1> QED BY <1>1, <1>2, <1>3, <1>4, <1>5 DEF IInv

(* A plan in order leaves the invariant's claims on blocks and interest    *)
(* in order once it is adopted.                                            *)
LEMMA AdoptOK ==
    ASSUME IInv, NEW c \in Conns, c \notin noBitset, Receive(c),
           NEW e, PlanOK(have[c], pieceSet', e),
           NEW reqs \in [Conns -> SUBSET Block],
           \A p \in Conns : reqs[p] \subseteq ourRequests[p],
           Adopt(c, reqs, e),
           pieceSet \subseteq pieceSet',
           UNCHANGED <<have, noBitset>>
    PROVE  /\ active' \in SUBSET Pieces
           /\ downloaderCount' \in [Block -> Int]
           /\ \A x \in Block : downloaderCount'[x] >= -1
           /\ ourRequests' \in [Conns -> SUBSET Block]
           /\ amInterested' \in [Conns -> BOOLEAN]
           /\ ActiveWanted' /\ InterestSound' /\ IdleUnrequested'
<1>1. e \in [active : SUBSET Pieces, count : [Block -> Int],
             reqs : SUBSET Block, interested : BOOLEAN]
  BY DEF PlanOK
<1>2. /\ active' \in SUBSET Pieces
      /\ downloaderCount' \in [Block -> Int]
      /\ \A x \in Block : downloaderCount'[x] >= -1
      /\ ourRequests' \in [Conns -> SUBSET Block]
  BY <1>1 DEF Adopt, PlanOK
<1>3. amInterested' \in [Conns -> BOOLEAN]
  BY <1>1 DEF Adopt, IInv, TypeOK
<1>4. ActiveWanted'
  BY DEF Adopt, PlanOK, ActiveWanted, isComplete
<1>5. InterestSound'
  <2> SUFFICES ASSUME NEW p \in Conns, p \notin noBitset,
                      ~(have[p] \subseteq pieceSet')
               PROVE  amInterested'[p]
    BY DEF InterestSound
  <2>1. CASE p = c
    BY <2>1 DEF Adopt, PlanOK, IInv, TypeOK
  <2>2. CASE p # c
    BY <2>2 DEF Adopt, IInv, TypeOK, InterestSound
  <2> QED BY <2>1, <2>2
<1>6. IdleUnrequested'
  <2> SUFFICES ASSUME NEW p \in Conns, reader'[p] \in {"off", "done"}
               PROVE  ourRequests'[p] = {}
    BY DEF IdleUnrequested
  <2>1. p # c /\ reader[p] \in {"off", "done"}
    BY DEF Receive, IInv, TypeOK
  <2>2. ourRequests[p] = {}
    BY <2>1 DEF IInv, IdleUnrequested
  <2> QED BY <2>1, <2>2 DEF Adopt
<1> QED BY <1>2, <1>3, <1>4, <1>5, <1>6

(* UNCHOKE. *)
LEMMA UnchokeOK ==
    ASSUME IInv, NEW c \in Conns, Unchoke(c)
    PROVE  IInv'
<1> DEFINE d == [active |-> active, count |-> downloaderCount,
                 reqs |-> ourRequests[c], interested |-> amInterested[c]]
<1> USE DEF pieceVars, connVars
<1>1. PICK e \in RequestBlocks(have[c], pieceSet, d) : Adopt(c, ourRequests, e)
  BY DEF Unchoke
<1>2. have[c] \in SUBSET Pieces
  BY DEF IInv, TypeOK
<1>3. PlanOK(have[c], pieceSet, d)
  <2>1. d \in [active : SUBSET Pieces, count : [Block -> Int],
               reqs : SUBSET Block, interested : BOOLEAN]
    BY DEF IInv, TypeOK
  <2> QED BY <2>1 DEF PlanOK, IInv, TypeOK, ActiveWanted, InterestSound, Unchoke
<1> HIDE DEF d
<1>4. PlanOK(have[c], pieceSet, e)
  <2>1. PICK f \in RequestBlock(have[c], pieceSet, d) :
           e \in RequestBlock(have[c], pieceSet, f)
    BY <1>1 DEF RequestBlocks
  <2>2. PlanOK(have[c], pieceSet, f)
    BY <1>2, <1>3, RequestBlockOK
  <2> QED BY <1>2, <2>1, <2>2, RequestBlockOK
<1>5. /\ active' \in SUBSET Pieces
      /\ downloaderCount' \in [Block -> Int]
      /\ \A x \in Block : downloaderCount'[x] >= -1
      /\ ourRequests' \in [Conns -> SUBSET Block]
      /\ amInterested' \in [Conns -> BOOLEAN]
      /\ ActiveWanted' /\ InterestSound' /\ IdleUnrequested'
  <2>1. /\ c \notin noBitset /\ Receive(c) /\ UNCHANGED <<have, noBitset>>
        /\ pieceSet' = pieceSet
        /\ ourRequests \in [Conns -> SUBSET Block]
    BY DEF Unchoke, IInv, TypeOK
  <2> QED BY <1>1, <1>4, <2>1, AdoptOK
<1>6. TypeOK'
  BY <1>5 DEF Unchoke, Receive, IInv, TypeOK
<1>7. Accounting' /\ (StoreMayFail \/ PieceSetVerified')
  BY DEF Unchoke, IInv, Accounting, PieceSetVerified
<1> QED BY <1>5, <1>6, <1>7 DEF IInv

(* The plan RequestBlock is given after a block is recorded. *)
LEMMA RecordedOK ==
    ASSUME IInv, NEW c \in Conns, c \notin noBitset,
           NEW x \in Block, x[1] \in active, NEW r \in RequestsAfter(c, x)
    PROVE  LET d(a, n) == [active |-> a, count |-> n, reqs |-> r[c],
                           interested |-> amInterested[c]]
               k == x[1]
           IN  /\ r \in [Conns -> SUBSET Block]
               /\ \A p \in Conns : r[p] \subseteq ourRequests[p]
               /\ ~isComplete(k, Recorded(x)) =>
                     PlanOK(have[c], pieceSet, d(active, Recorded(x)))
               /\ PlanOK(have[c], pieceSet,
                         d(active \ {k}, Dropped(k, Recorded(x))))
               /\ PlanOK(have[c], pieceSet \cup {k},
                         d(active \ {k}, Dropped(k, Recorded(x))))
<1> DEFINE k == x[1]
           rec == Recorded(x)
           drop == Dropped(k, rec)
<1>1. /\ r \in [Conns -> SUBSET Block]
      /\ \A p \in Conns : r[p] \subseteq ourRequests[p]
  BY DEF IInv, TypeOK, RequestsAfter
<1>2. /\ rec \in [Block -> Int] /\ \A y \in Block : rec[y] >= -1
      /\ \A y \in Block : y[1] # k => rec[y] = downloaderCount[y]
  BY DEF IInv, TypeOK, Recorded
<1> HIDE DEF rec
<1>3. /\ drop \in [Block -> Int] /\ \A y \in Block : drop[y] >= -1
      /\ \A y \in Block : y[1] # k => drop[y] = downloaderCount[y]
  BY <1>2 DEF Dropped
<1> HIDE DEF drop
<1>4. ASSUME NEW j \in active, j # k
      PROVE  ~isComplete(j, rec) /\ ~isComplete(j, drop)
  <2>1. PICK y \in BlocksOf(j) : downloaderCount[y] # -1
    BY DEF IInv, ActiveWanted, isComplete
  <2> QED BY <1>2, <1>3, <1>4, <2>1 DEF isComplete, BlocksOf
<1>5. /\ active \in SUBSET Pieces /\ k \in Pieces
      /\ amInterested[c] \in BOOLEAN
      /\ active \cap pieceSet = {}
      /\ Cardinality(active) <= MaxActivePieces
      /\ ~(have[c] \subseteq pieceSet) => amInterested[c]
  BY DEF IInv, TypeOK, ActiveWanted, InterestSound
<1>6. Cardinality(active \ {k}) <= MaxActivePieces
  BY <1>5, FinitePieces, FS_RemoveElement, SizeAssumption
<1>7. ASSUME ~isComplete(k, rec)
      PROVE  PlanOK(have[c], pieceSet,
                    [active |-> active, count |-> rec, reqs |-> r[c],
                     interested |-> amInterested[c]])
  BY <1>1, <1>2, <1>4, <1>5, <1>7 DEF PlanOK
<1>8. /\ PlanOK(have[c], pieceSet,
                [active |-> active \ {k}, count |-> drop, reqs |-> r[c],
                 interested |-> amInterested[c]])
      /\ PlanOK(have[c], pieceSet \cup {k},
                [active |-> active \ {k}, count |-> drop, reqs |-> r[c],
                 interested |-> amInterested[c]])
  BY <1>1, <1>3, <1>4, <1>5, <1>6 DEF PlanOK
<1> QED BY <1>1, <1>7, <1>8 DEF rec, drop

(* A verified piece moves Session.Left and goodPieces along. *)
LEMMA AcquireOK ==
    ASSUME IInv, NEW k \in active,
           pieceSet' = pieceSet \cup {k},
           goodPieces' = goodPieces + 1,
           left' = left - pieceLength(k)
    PROVE  Accounting' /\ goodPieces' \in Int /\ left' \in Int
<1>1. /\ k \in Pieces /\ k \notin pieceSet /\ pieceSet \in SUBSET Pieces
      /\ goodPieces \in Int /\ left \in Int
  BY DEF IInv, TypeOK, ActiveWanted
<1>2. Cardinality(pieceSet') = Cardinality(pieceSet) + 1
  BY <1>1, FinitePieces, FS_AddElement
<1>3. goodPieces' = Cardinality(pieceSet')
  BY <1>2 DEF IInv, Accounting
<1>4. (totalPieces - (goodPieces + 1)) * PieceLength
        = (totalPieces - goodPieces) * PieceLength - PieceLength
  BY <1>1, Layout, SizeAssumption, SMTT(30)
<1>5. left = Left(pieceSet, goodPieces)
  BY DEF IInv, Accounting
<1>6. (totalPieces - goodPieces) * PieceLength \in Int
  BY <1>1, Layout, SizeAssumption
<1>7. left' = Left(pieceSet', goodPieces')
  <2>1. CASE k = totalPieces - 1
    BY <1>1, <1>4, <1>5, <1>6, <2>1, Layout, SizeAssumption
       DEF Left, pieceLength
  <2>2. CASE k # totalPieces - 1
    <3>1. pieceLength(k) = PieceLength
      BY <1>1, <2>2, Layout DEF pieceLength, Pieces
    <3> QED BY <1>1, <1>4, <1>5, <1>6, <2>2, <3>1, Layout, SizeAssumption
            DEF Left
  <2> QED BY <2>1, <2>2
<1>8. left' \in Int
  BY <1>1, Layout, SizeAssumption DEF pieceLength
<1> QED BY <1>1, <1>3, <1>7, <1>8 DEF Accounting

(* PIECE: what its three outcomes share, once RequestBlock has been given  *)
(* a plan in order and the pieces are accounted for.                       *)
LEMMA PieceCommon ==
    ASSUME IInv, NEW c \in Conns, NEW x \in Block, Piece(c, x),
           NEW d, PlanOK(have[c], pieceSet', d),
           NEW e \in RequestBlock(have[c], pieceSet', d),
           NEW r \in RequestsAfter(c, x), Adopt(c, r, e),
           pieceSet' \in SUBSET Pieces, pieceSet \subseteq pieceSet',
           Accounting', goodPieces' \in Int, left' \in Int,
           stored' \in SUBSET Pieces, StoreMayFail \/ PieceSetVerified',
           goodBlocks' \in SUBSET Block, open' \in SUBSET Conns
    PROVE  IInv'
<1>1. /\ c \notin noBitset /\ Receive(c) /\ UNCHANGED <<have, noBitset>>
      /\ x[1] \in active
      /\ have[c] \in SUBSET Pieces
  BY DEF Piece, IInv, TypeOK
<1>2. PlanOK(have[c], pieceSet', e)
  BY <1>1, RequestBlockOK
<1>3. /\ r \in [Conns -> SUBSET Block]
      /\ \A p \in Conns : r[p] \subseteq ourRequests[p]
  BY DEF IInv, TypeOK, RequestsAfter
<1>4. /\ active' \in SUBSET Pieces
      /\ downloaderCount' \in [Block -> Int]
      /\ \A y \in Block : downloaderCount'[y] >= -1
      /\ ourRequests' \in [Conns -> SUBSET Block]
      /\ amInterested' \in [Conns -> BOOLEAN]
      /\ ActiveWanted' /\ InterestSound' /\ IdleUnrequested'
  BY <1>1, <1>2, <1>3, AdoptOK
<1>5. /\ peers' = peers /\ writer' = writer /\ peerChoking' = peerChoking
      /\ panicked' = panicked
      /\ canBitfield' \in [Conns -> BOOLEAN]
      /\ reader' \in [Conns -> {"off", "reading", "holding", "done"}]
  BY DEF Piece, Receive, IInv, TypeOK
<1>6. TypeOK'
  BY <1>1, <1>4, <1>5 DEF IInv, TypeOK
<1> QED BY <1>4, <1>6 DEF IInv

LEMMA PieceOK ==
    ASSUME IInv, NEW c \in Conns, NEW x \in Block, Piece(c, x)
    PROVE  IInv'
<1>1. PICK good \in Contents(c, x), r \in RequestsAfter(c, x) :
         \/ PieceUnfinished(c, x, good, r)
         \/ PieceBad(c, x, good, r)
         \/ PieceGood(c, x, good, r)
  BY DEF Piece
<1> DEFINE k == x[1]
           plan(a, n) == [active |-> a, count |-> n, reqs |-> r[c],
                          interested |-> amInterested[c]]
<1>2. k \in active /\ c \notin noBitset /\ k \in Pieces
  BY DEF Piece, IInv, TypeOK
<1>3. good \in SUBSET Block
  BY <1>1 DEF Contents, BlocksOf, IInv, TypeOK
<1>4. /\ pieceSet \in SUBSET Pieces /\ stored \in SUBSET Pieces
      /\ open \in SUBSET Conns /\ goodBlocks \in SUBSET Block
      /\ goodPieces \in Int /\ left \in Int
      /\ Accounting /\ (StoreMayFail \/ PieceSetVerified)
  BY DEF IInv, TypeOK
<1>5. /\ ~isComplete(k, Recorded(x)) =>
            PlanOK(have[c], pieceSet, plan(active, Recorded(x)))
      /\ PlanOK(have[c], pieceSet, plan(active \ {k}, Dropped(k, Recorded(x))))
      /\ PlanOK(have[c], pieceSet \cup {k},
                plan(active \ {k}, Dropped(k, Recorded(x))))
  BY <1>2, RecordedOK
<1>6. ASSUME UNCHANGED pieceVars
      PROVE  Accounting' /\ (StoreMayFail \/ PieceSetVerified')
  BY <1>4, <1>6 DEF pieceVars, Accounting, PieceSetVerified
<1>7. CASE PieceUnfinished(c, x, good, r)
  <2>1. PICK e \in RequestBlock(have[c], pieceSet, plan(active, Recorded(x))) :
           Adopt(c, r, e)
    BY <1>7 DEF PieceUnfinished
  <2>2. UNCHANGED <<pieceVars, open>> /\ goodBlocks' = good
        /\ ~isComplete(k, Recorded(x))
    BY <1>7 DEF PieceUnfinished
  <2> HIDE DEF plan, k
  <2> QED BY <1>3, <1>4, <1>5, <1>6, <2>1, <2>2, PieceCommon DEF pieceVars
<1>8. CASE PieceBad(c, x, good, r)
  <2>1. PICK e \in RequestBlock(have[c], pieceSet,
                      plan(active \ {k}, Dropped(k, Recorded(x)))) :
           Adopt(c, r, e)
    BY <1>8 DEF PieceBad
  <2>2. UNCHANGED pieceVars /\ open' \in SUBSET Conns
        /\ goodBlocks' \in SUBSET Block
    BY <1>4, <1>8 DEF PieceBad
  <2> HIDE DEF plan, k
  <2> QED BY <1>4, <1>5, <1>6, <2>1, <2>2, PieceCommon DEF pieceVars
<1>9. CASE PieceGood(c, x, good, r)
  <2>1. PICK e \in RequestBlock(have[c], pieceSet \cup {k},
                      plan(active \ {k}, Dropped(k, Recorded(x)))) :
           Adopt(c, r, e)
    BY <1>9 DEF PieceGood
  <2>2. /\ pieceSet' = pieceSet \cup {k}
        /\ goodPieces' = goodPieces + 1
        /\ left' = left - pieceLength(k)
        /\ open' = open
        /\ goodBlocks' \in SUBSET Block
    BY <1>4, <1>9 DEF PieceGood
  <2>3. Accounting' /\ goodPieces' \in Int /\ left' \in Int
    BY <1>2, <2>2, AcquireOK
  <2>4. /\ stored' \in SUBSET Pieces
        /\ StoreMayFail \/ stored' = stored \cup {k}
    BY <1>2, <1>4, <1>9, PeerAssumption DEF PieceGood, Written, checkPiece
  <2>5. StoreMayFail \/ PieceSetVerified'
    BY <1>4, <2>2, <2>4 DEF PieceSetVerified
  <2> HIDE DEF plan, k
  <2>6. /\ pieceSet' \in SUBSET Pieces /\ pieceSet \subseteq pieceSet'
        /\ open' \in SUBSET Conns
    BY <1>2, <1>4, <2>2
  <2> QED BY <1>5, <2>1, <2>2, <2>3, <2>4, <2>5, <2>6, PieceCommon
<1> QED BY <1>1, <1>7, <1>8, <1>9

-----------------------------------------------------------------------------
(* Every step of the session preserves the inductive invariant. *)
LEMMA NextIInv == IInv /\ [Next]_vars => IInv'
<1> SUFFICES ASSUME IInv, [Next]_vars PROVE IInv'
  OBVIOUS
<1> USE DEF pieceVars, blockVars, connVars, talkVars
<1>1. ASSUME NEW c \in Conns, AddPeer(c) PROVE IInv'
  BY <1>1, QuietOK DEF AddPeer, Unfiled, IInv, TypeOK
<1>2. ASSUME NEW c \in Conns, ReaderRead(c) PROVE IInv'
  BY <1>2, QuietOK DEF ReaderRead, IInv, TypeOK
<1>3. ASSUME NEW c \in Conns, ReaderExit(c) PROVE IInv'
  BY <1>3, ClosePeerOK DEF ReaderExit, IInv, TypeOK
<1>4. ASSUME NEW c \in Conns, WriterExit(c) PROVE IInv'
  BY <1>4, ClosePeerOK DEF WriterExit, IInv, TypeOK
<1>5. ASSUME NEW c \in Conns, Choke(c) PROVE IInv'
  <2>1. TypeOK /\ TypeOK'
    BY <1>5, RemoveRequestsOK DEF Choke, Receive, IInv, TypeOK
  <2>2. ActiveWanted'
    BY <1>5, <2>1, RemoveRequestsOK, LoweredOK DEF Choke, TypeOK
  <2>3. Accounting' /\ (StoreMayFail \/ PieceSetVerified')
    BY <1>5 DEF Choke, IInv, Accounting, PieceSetVerified
  <2>4. InterestSound' /\ IdleUnrequested'
    BY <1>5 DEF Choke, Receive, IInv, TypeOK, InterestSound, IdleUnrequested
  <2> QED BY <2>1, <2>2, <2>3, <2>4 DEF IInv
<1>6. ASSUME NEW c \in Conns, Unchoke(c) PROVE IInv'
  BY <1>6, UnchokeOK
<1>7. ASSUME NEW c \in Conns, NEW k \in Pieces, Have(c, k) PROVE IInv'
  <2>1. /\ have[c] \cup {k} \in SUBSET Pieces
        /\ have' = [have EXCEPT ![c] = have[c] \cup {k}]
        /\ Receive(c)
    BY <1>7 DEF Have, IInv, TypeOK
  <2>2. amInterested' \in [Conns -> BOOLEAN]
    BY <1>7 DEF Have, IInv, TypeOK
  <2>3. ~(have[c] \cup {k} \subseteq pieceSet) => amInterested'[c]
    BY <1>7 DEF Have, IInv, TypeOK, InterestSound
  <2>4. /\ \A p \in Conns : p # c => amInterested'[p] = amInterested[p]
        /\ noBitset' = noBitset
        /\ noBitset' \in SUBSET Conns
        /\ canBitfield' \in [Conns -> BOOLEAN]
        /\ UNCHANGED <<pieceVars, blockVars, connVars, peerChoking,
                       ourRequests, panicked>>
    BY <1>7 DEF Have, IInv, TypeOK
  <2> QED BY <2>1, <2>2, <2>3, <2>4, AnnounceOK
<1>8. ASSUME NEW c \in Conns, NEW h \in SUBSET Pieces, Bitfield(c, h)
      PROVE  IInv'
  <2>1. /\ have' = [have EXCEPT ![c] = h]
        /\ Receive(c)
        /\ amInterested' \in [Conns -> BOOLEAN]
        /\ ~(h \subseteq pieceSet) => amInterested'[c]
    BY <1>8 DEF Bitfield, IInv, TypeOK
  <2>2. /\ \A p \in Conns : p # c => amInterested'[p] = amInterested[p]
        /\ noBitset' \in SUBSET Conns
        /\ \A p \in Conns : p # c => (p \in noBitset' <=> p \in noBitset)
        /\ canBitfield' \in [Conns -> BOOLEAN]
        /\ UNCHANGED <<pieceVars, blockVars, connVars, peerChoking,
                       ourRequests, panicked>>
    BY <1>8 DEF Bitfield, IInv, TypeOK
  <2> QED BY <2>1, <2>2, AnnounceOK
<1>9. ASSUME NEW c \in Conns, InvalidBitfield(c) PROVE IInv'
  BY <1>9, ClosePeerOK DEF InvalidBitfield, Receive, IInv, TypeOK
<1>10. ASSUME NEW c \in Conns, BadMessage(c) PROVE IInv'
  BY <1>10, ClosePeerOK DEF BadMessage, Receive, IInv, TypeOK
<1>11. ASSUME NEW c \in Conns, NEW resets \in BOOLEAN, OtherMessage(c, resets)
       PROVE  IInv'
  BY <1>11, QuietOK DEF OtherMessage, Receive, IInv, TypeOK
<1>12. ASSUME NEW c \in Conns, Panic(c) PROVE IInv'
  BY <1>12, QuietOK DEF Panic, Receive, IInv, TypeOK
<1>13. ASSUME NEW c \in Conns, NEW x \in Block, Piece(c, x) PROVE IInv'
  BY <1>13, PieceOK
<1>14. ASSUME NEW c \in Conns, NEW x \in Block, PieceHeld(c, x) PROVE IInv'
  BY <1>14, QuietOK DEF PieceHeld, Receive, IInv, TypeOK
<1>15. ASSUME NEW c \in Conns, NEW x \in Block, PieceUnexpected(c, x)
       PROVE  IInv'
  BY <1>15, ClosePeerOK DEF PieceUnexpected, Receive, IInv, TypeOK
<1>16. ASSUME NEW gone \in SUBSET peers, NEW late \in SUBSET Outstanding,
              KeepAliveTick(gone, late)
       PROVE  IInv'
  BY <1>16, KeepAliveTickOK
<1>17. CASE UNCHANGED vars
  BY <1>17, QuietOK DEF vars, IInv, TypeOK
<1> QED BY <1>1, <1>2, <1>3, <1>4, <1>5, <1>6, <1>7, <1>8, <1>9, <1>10, <1>11,
           <1>12, <1>13, <1>14, <1>15, <1>16, <1>17 DEF Next, Message

(* The inductive invariant holds in every reachable state. *)
THEOREM Invariance == Spec => []IInv
BY InitIInv, NextIInv, PTL DEF Spec

(* TypeOK: every variable of the session keeps its type. *)
THEOREM TypeCorrect == Spec => []TypeOK
<1>1. IInv => TypeOK
  BY DEF IInv
<1> QED BY <1>1, Invariance, PTL

(* Accounting: goodPieces and Session.Left follow ts.pieceSet, for every   *)
(* piece length and torrent size load() accepts.                           *)
THEOREM AccountingHolds == Spec => []Accounting
<1>1. IInv => Accounting
  BY DEF IInv
<1> QED BY <1>1, Invariance, PTL

(* The bytes of a set of pieces, in closed form. *)
Bytes(S) == Cardinality(S) * PieceLength
            - (IF totalPieces - 1 \in S THEN PieceLength - lastPieceLength ELSE 0)

(* A piece more is its length more. *)
LEMMA BytesStep ==
    ASSUME NEW S \in SUBSET Pieces, NEW k \in S
    PROVE  /\ Bytes(S) = pieceLength(k) + Bytes(S \ {k})
           /\ Bytes({}) = 0
<1>1. /\ IsFiniteSet(S) /\ Cardinality(S) \in Nat
      /\ Cardinality(S \ {k}) = Cardinality(S) - 1
  BY FinitePieces, Layout, FS_RemoveElement
<1> DEFINE c == Cardinality(S)
<1>2. c * PieceLength = (c - 1) * PieceLength + PieceLength
      /\ (c - 1) * PieceLength \in Int /\ c * PieceLength \in Int
  BY <1>1, SizeAssumption, SMTT(30)
<1>3. pieceLength(k) = IF k = totalPieces - 1 THEN lastPieceLength ELSE PieceLength
  BY Layout DEF pieceLength, Pieces
<1>4. PieceLength \in Int /\ lastPieceLength \in Int /\ totalPieces \in Int
  BY Layout, SizeAssumption
<1> HIDE DEF c
<1>5. Bytes(S) = pieceLength(k) + Bytes(S \ {k})
  <2>1. Bytes(S) = c * PieceLength
            - (IF totalPieces - 1 \in S THEN PieceLength - lastPieceLength ELSE 0)
    BY DEF Bytes, c
  <2>2. Bytes(S \ {k}) = (c - 1) * PieceLength
            - (IF totalPieces - 1 \in S \ {k}
               THEN PieceLength - lastPieceLength ELSE 0)
    BY <1>1 DEF Bytes, c
  <2> DEFINE a == c * PieceLength
             b == (c - 1) * PieceLength
  <2>3. a = b + PieceLength /\ a \in Int /\ b \in Int
    BY <1>2
  <2> HIDE DEF a, b
  <2>4. CASE k = totalPieces - 1
    BY <1>3, <1>4, <2>1, <2>2, <2>3, <2>4 DEF a, b
  <2>5. CASE k # totalPieces - 1
    BY <1>3, <1>4, <2>1, <2>2, <2>3, <2>5 DEF a, b
  <2> QED BY <2>4, <2>5
<1>6. Bytes({}) = 0
  BY <1>4, FS_EmptySet DEF Bytes
<1> QED BY <1>5, <1>6

(* Adding up the lengths of a set of pieces gives their bytes, in any      *)
(* order: a smallest subset for which it does not would have a smaller one.*)
LEMMA SumIsBytes ==
    ASSUME NEW S \in SUBSET Pieces
    PROVE  MapThenSumSet(pieceLength, S) = Bytes(S)
<1> DEFINE pick(s) == CHOOSE x \in s : TRUE
           Is(f) == f = [s \in SUBSET S |->
                            IF s = {} THEN 0
                            ELSE pieceLength(pick(s)) + f[s \ {pick(s)}]]
           iter == CHOOSE f : Is(f)
           Bad == {n \in Nat : \E s \in SUBSET S : /\ Cardinality(s) = n
                                                   /\ iter[s] # Bytes(s)}
<1>1. MapThenSumSet(pieceLength, S) = iter[S]
  BY DEF MapThenSumSet, MapThenFoldSet
<1>2. ASSUME NEW s \in SUBSET S, s # {}
      PROVE  /\ pick(s) \in s /\ s \ {pick(s)} \in SUBSET S
             /\ Bytes(s) = pieceLength(pick(s)) + Bytes(s \ {pick(s)})
             /\ Cardinality(s) \in Nat /\ Cardinality(s \ {pick(s)}) \in Nat
             /\ Cardinality(s \ {pick(s)}) < Cardinality(s)
  <2>1. pick(s) \in s
    BY <1>2
  <2> HIDE DEF pick
  <2>2. s \in SUBSET Pieces
    OBVIOUS
  <2>3. /\ IsFiniteSet(s) /\ Cardinality(s) \in Nat
        /\ Cardinality(s \ {pick(s)}) = Cardinality(s) - 1
        /\ Cardinality(s \ {pick(s)}) \in Nat
    BY <2>1, <2>2, FinitePieces, Layout, FS_RemoveElement, FS_CardinalityType
  <2> QED BY <2>1, <2>2, <2>3, BytesStep
<1>3. Bytes({}) = 0
  BY Layout, SizeAssumption, FS_EmptySet DEF Bytes
<1> HIDE DEF pick
<1>4. Is([s \in SUBSET S |-> Bytes(s)])
  BY <1>2, <1>3
<1>5. Is(iter)
  <2> HIDE DEF Is
  <2> QED BY <1>4
<1> HIDE DEF iter
<1>6. \A s \in SUBSET S : iter[s] = IF s = {} THEN 0
                          ELSE pieceLength(pick(s)) + iter[s \ {pick(s)}]
  BY <1>5
<1>7. Bad = {}
  <2> SUFFICES ASSUME Bad # {} PROVE FALSE
    OBVIOUS
  <2>1. PICK n \in Bad : \A m \in Bad : n <= m
    BY NatMin
  <2>2. PICK s \in SUBSET S : Cardinality(s) = n /\ iter[s] # Bytes(s)
    BY <2>1
  <2>3. s # {}
    BY <1>3, <1>6, <2>2
  <2> DEFINE r == s \ {pick(s)}
  <2>4. Cardinality(r) \in Nat /\ ~ (n <= Cardinality(r)) /\ r \in SUBSET S
    BY <1>2, <2>2, <2>3
  <2>5. iter[r] = Bytes(r)
    BY <2>1, <2>4
  <2> QED BY <1>2, <1>6, <2>2, <2>3, <2>5
<1>8. Cardinality(S) \in Nat
  BY FinitePieces, Layout
<1> QED BY <1>1, <1>7, <1>8

(* Session.Left, computed by load in closed form and decreased by          *)
(* RecordBlock, is the sum of the lengths of the pieces we lack.           *)
THEOREM LeftIsMissingBytesHolds == Spec => []LeftIsMissingBytes
<1>1. IInv => LeftIsMissingBytes
  <2> SUFFICES ASSUME IInv PROVE LeftIsMissingBytes
    OBVIOUS
  <2> DEFINE M == Pieces \ pieceSet
             bad == totalPieces - goodPieces
  <2>1. pieceSet \in SUBSET Pieces /\ goodPieces = Cardinality(pieceSet)
        /\ left = Left(pieceSet, goodPieces)
    BY DEF IInv, TypeOK, Accounting
  <2>2. Cardinality(M) = bad /\ bad \in Int
    <3>1. IsFiniteSet(Pieces) /\ Cardinality(Pieces) = totalPieces
      BY Layout, FS_Interval DEF Pieces
    <3>2. pieceSet \cap Pieces = pieceSet /\ Pieces \cap pieceSet = pieceSet
      BY <2>1
    <3>3. Cardinality(pieceSet) \in Int
      BY <2>1, FinitePieces, Layout
    <3>4. Cardinality(M) = totalPieces - Cardinality(Pieces \cap pieceSet)
      BY <3>1, FS_Difference
    <3> QED BY <2>1, <3>2, <3>3, <3>4, Layout
  <2>3. totalPieces - 1 \in M <=> totalPieces - 1 \notin pieceSet
    BY Layout DEF Pieces
  <2>4. /\ PieceLength \in Int /\ lastPieceLength \in Int
        /\ bad * PieceLength \in Int
    BY <2>2, Layout, SizeAssumption
  <2> HIDE DEF bad, M
  <2>5. Left(pieceSet, goodPieces) = IF totalPieces - 1 \in pieceSet
            THEN bad * PieceLength
            ELSE bad * PieceLength - PieceLength + lastPieceLength
    BY DEF Left, bad
  <2>6. Bytes(M) = Left(pieceSet, goodPieces)
    BY <2>2, <2>3, <2>4, <2>5 DEF Bytes
  <2>7. MapThenSumSet(pieceLength, M) = Bytes(M)
    BY SumIsBytes DEF M
  <2> QED BY <2>1, <2>6, <2>7 DEF LeftIsMissingBytes, M
<1> QED BY <1>1, Invariance, PTL

(* ActiveWanted: RequestBlock and RecordBlock keep ts.activePieces free of *)
(* pieces we have and of complete ones, and within ts.maxActivePieces.     *)
THEOREM ActiveWantedHolds == Spec => []ActiveWanted
<1>1. IInv => ActiveWanted
  BY DEF IInv
<1> QED BY <1>1, Invariance, PTL

(* InterestSound: the session never loses interest in a peer that has a    *)
(* piece it lacks.                                                         *)
THEOREM InterestSoundHolds == Spec => []InterestSound
<1>1. IInv => InterestSound
  BY DEF IInv
<1> QED BY <1>1, Invariance, PTL

(* NoRequestLeak: no request outlives the reader of its connection. *)
THEOREM NoRequestLeakHolds == Spec => []NoRequestLeak
<1>1. IInv => NoRequestLeak
  BY DEF IInv, IdleUnrequested, NoRequestLeak
<1> QED BY <1>1, Invariance, PTL

(* PieceSetVerified: as long as writes to the file store succeed, every    *)
(* piece the session claims is there, whatever its peers send.             *)
THEOREM PieceSetVerifiedHolds ==
    ASSUME ~StoreMayFail
    PROVE  Spec => []PieceSetVerified
<1>1. IInv => PieceSetVerified
  BY DEF IInv
<1> QED BY <1>1, Invariance, PTL

(* Session.Left, as load() computes it, is never negative. *)
LEMMA LeftNat ==
    ASSUME NEW S \in SUBSET Pieces
    PROVE  Left(S, Cardinality(S)) \in Nat
<1> DEFINE n == Cardinality(S)
           bad == totalPieces - n
<1>1. n \in 0 .. totalPieces
  BY FinitePieces
<1>2. bad \in Nat
  BY <1>1, Layout
<1>3. CASE totalPieces - 1 \in S
  <2>1. bad * PieceLength \in Nat
    BY <1>2, SizeAssumption
  <2> QED BY <1>3, <2>1 DEF Left
<1>4. CASE totalPieces - 1 \notin S
  <2>1. IsFiniteSet(Pieces) /\ Cardinality(Pieces) = totalPieces
    BY Layout, FS_Interval DEF Pieces
  <2>2. totalPieces - 1 \in Pieces
    BY Layout DEF Pieces
  <2>3. bad >= 1
    BY <1>1, <1>2, <1>4, <2>1, <2>2, FS_Subset, Layout
  <2> HIDE DEF bad
  <2>4. bad * PieceLength = (bad - 1) * PieceLength + PieceLength
    BY <1>2, SizeAssumption, SMTT(30)
  <2>5. (bad - 1) * PieceLength \in Nat
    BY <1>2, <2>3, SizeAssumption
  <2>6. bad * PieceLength - PieceLength + lastPieceLength \in Nat
    BY <2>4, <2>5, Layout, SizeAssumption
  <2> QED BY <1>4, <2>6 DEF Left, bad
<1> QED BY <1>3, <1>4

(* RefinesPieceStore: the session with its peers, blocks and requests is   *)
(* an implementation of PieceStore, as long as writes succeed.             *)
THEOREM Refinement ==
    ASSUME ~StoreMayFail
    PROVE  Spec => RefinesPieceStore
<1>1. Init => Store!Init
  <2> SUFFICES ASSUME Init PROVE Store!Init
    OBVIOUS
  <2>1. /\ pieceSet \in SUBSET Pieces
        /\ pieceSet \subseteq stored
        /\ goodPieces = Cardinality(pieceSet)
        /\ left = Left(pieceSet, Cardinality(pieceSet))
    BY DEF Init
  <2>2. left \in Nat
    BY <2>1, LeftNat
  <2>3. Store!Cardinality(pieceSet) = Cardinality(pieceSet)
    BY Zenon DEF Store!Cardinality, Cardinality, Store!IsFiniteSet, IsFiniteSet
  <2> QED BY <2>1, <2>2, <2>3 DEF Store!Init
<1>2. IInv /\ IInv' /\ [Next]_vars =>
         [\E k \in Pieces : Store!Acquire(k)]_Store!vars
  <2> SUFFICES ASSUME IInv, IInv', [Next]_vars,
                      ~UNCHANGED <<pieceSet, goodPieces, left, stored>>
               PROVE  \E k \in Pieces : Store!Acquire(k)
    BY DEF Store!vars
  <2>1. PICK c \in Conns, x \in Block : Piece(c, x)
    BY DEF Next, Message, vars, pieceVars, AddPeer, ReaderRead, ReaderExit,
           WriterExit, Choke, Unchoke, Have, Bitfield, InvalidBitfield,
           BadMessage, OtherMessage, Panic, PieceHeld, PieceUnexpected,
           KeepAliveTick
  <2>2. PICK good, r : PieceGood(c, x, good, r)
    BY <2>1 DEF Piece, PieceUnfinished, PieceBad, pieceVars
  <2>3. x[1] \in Pieces /\ x[1] \in active /\ x[1] \notin pieceSet
    BY <2>1 DEF Piece, IInv, TypeOK, ActiveWanted
  <2>4. /\ pieceSet' = pieceSet \cup {x[1]}
        /\ goodPieces' = goodPieces + 1
        /\ left' = left - pieceLength(x[1])
        /\ stored' = stored \cup {x[1]}
    BY <2>2 DEF PieceGood, Written, checkPiece
  <2>5. left' \in Nat
    <3>1. pieceSet' \in SUBSET Pieces
      BY DEF IInv, TypeOK
    <3>2. left' = Left(pieceSet', Cardinality(pieceSet'))
      BY DEF IInv, Accounting
    <3> QED BY <3>1, <3>2, LeftNat
  <2>6. pieceLength(x[1]) <= left
    BY <2>4, <2>5, Layout, SizeAssumption DEF pieceLength, IInv, TypeOK
  <2> QED BY <2>3, <2>4, <2>6 DEF Store!Acquire
<1> QED BY <1>1, <1>2, Invariance, PTL DEF Spec, RefinesPieceStore, Store!Spec
=============================================================================
