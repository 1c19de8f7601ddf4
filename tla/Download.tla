------------------------------ MODULE Download ------------------------------
(***************************************************************************)
(* The download half of a TorrentSession (torrent/torrent.go): which       *)
(* blocks are asked of which peer, how arriving blocks become verified     *)
(* pieces, and how peers come and go meanwhile.                            *)
(*                                                                         *)
(* DoTorrent is one goroutine, so each message it takes from a channel is  *)
(* handled atomically: one action per handler.  The goroutines it races    *)
(* with are the peerReader and the peerWriter of each connection.  A       *)
(* reader hands over one message at a time, and the message it holds when  *)
(* its connection is closed is still handled afterwards.                   *)
(*                                                                         *)
(* A block is a pair <<piece, index>>.  The bytes of a block are reduced   *)
(* to whether they are the right ones.                                     *)
(***************************************************************************)
EXTENDS Integers, FiniteSets, FiniteSetsExt

CONSTANTS
    Conns,            \* connections (peerState values); each is used once
    Addr, ID,         \* remote address and peer id of a connection
    Honest,           \* connections whose remote end keeps to the protocol
    Reliable,         \* honest ones to a seed that stays up and serves us
    PieceLength,      \* M.Info.PieceLength
    TotalSize,        \* ts.totalSize
    BlockLength,      \* STANDARD_BLOCK_LENGTH
    MaxActivePieces,  \* ts.maxActivePieces
    MaxNumPeers,      \* MAX_NUM_PEERS
    MaxRequestCount,  \* bound on repeated requests, for model checking
    StoreMayFail      \* whether fileStore.WritePiece may return an error

ASSUME SizeAssumption ==
    /\ PieceLength \in Nat \ {0}
    /\ TotalSize \in Nat \ {0}
    /\ BlockLength \in Nat \ {0}
    /\ MaxActivePieces \in Nat \ {0}
    /\ MaxNumPeers \in Nat \ {0}
    /\ MaxRequestCount \in Nat \ {0}

ASSUME PeerAssumption ==
    /\ IsFiniteSet(Conns)
    /\ Honest \subseteq Conns
    /\ Reliable \subseteq Honest
    /\ StoreMayFail \in BOOLEAN

-----------------------------------------------------------------------------
(* The layout of the torrent, as load() computes it.                       *)

totalPieces ==
    IF TotalSize % PieceLength = 0 THEN TotalSize \div PieceLength
                                   ELSE TotalSize \div PieceLength + 1

lastPieceLength ==
    IF TotalSize % PieceLength = 0 THEN PieceLength
                                   ELSE TotalSize % PieceLength

(* Mutant: the last piece is taken for a full one. *)
MutPieceLength(k) == PieceLength

pieceLength(k) == IF k < totalPieces - 1 THEN PieceLength ELSE lastPieceLength

pieceCount(k) == (pieceLength(k) + BlockLength - 1) \div BlockLength

Pieces == 0 .. totalPieces - 1

Block == {x \in Pieces \X (0 .. PieceLength - 1) : x[2] < pieceCount(x[1])}

BlocksOf(k) == {x \in Block : x[1] = k}

(* Mutant: the short last piece is counted in full. *)
MutLeft(held, good) == (totalPieces - good) * PieceLength

(* Session.Left as load() computes it for `held' pieces, `good' of them.   *)
Left(held, good) ==
    LET bad == totalPieces - good
    IN  IF totalPieces - 1 \in held
        THEN bad * PieceLength
        ELSE bad * PieceLength - PieceLength + lastPieceLength

-----------------------------------------------------------------------------

VARIABLES
    pieceSet,         \* ts.pieceSet: the pieces we have
    goodPieces,       \* ts.goodPieces
    left,             \* ts.Session.Left
    stored,           \* pieces whose bytes in the file store are right
    active,           \* the keys of ts.activePieces
    downloaderCount,  \* ActivePiece.downloaderCount, 0 where not active
    goodBlocks,       \* blocks that are right in their ActivePiece.buffer
    peers,            \* the values of ts.peers, a map keyed by address
    open,             \* connections whose socket we have not closed
    reader,           \* what the peerReader of a connection does
    writer,           \* what the peerWriter of a connection does
    have,             \* p.have
    noBitset,         \* connections whose p.have is nil
    amInterested,     \* p.am_interested
    peerChoking,      \* p.peer_choking
    canBitfield,      \* p.can_receive_bitfield
    ourRequests,      \* the keys of p.our_requests
    panicked          \* the process has died of a nil p.have

pieceVars == <<pieceSet, goodPieces, left, stored>>
blockVars == <<active, downloaderCount, goodBlocks>>
connVars  == <<peers, open, writer>>
talkVars  == <<have, noBitset, amInterested, peerChoking, canBitfield>>
vars == <<pieceVars, blockVars, connVars, reader, talkVars, ourRequests,
          panicked>>

TypeOK ==
    /\ pieceSet \subseteq Pieces
    /\ goodPieces \in Int
    /\ left \in Int
    /\ stored \subseteq Pieces
    /\ active \subseteq Pieces
    /\ downloaderCount \in [Block -> Int]
    /\ \A x \in Block : downloaderCount[x] >= -1
    /\ goodBlocks \subseteq Block
    /\ peers \subseteq Conns
    /\ open \subseteq Conns
    /\ reader \in [Conns -> {"off", "reading", "holding", "done"}]
    /\ writer \in [Conns -> {"off", "running", "done"}]
    /\ have \in [Conns -> SUBSET Pieces]
    /\ noBitset \subseteq Conns
    /\ amInterested \in [Conns -> BOOLEAN]
    /\ peerChoking \in [Conns -> BOOLEAN]
    /\ canBitfield \in [Conns -> BOOLEAN]
    /\ ourRequests \in [Conns -> SUBSET Block]
    /\ panicked \in BOOLEAN

(***************************************************************************)
(* load() has run.  The pieces we start with are those checkPieces found   *)
(* right (InitialCheck), those an earlier session recorded as it verified  *)
(* them (QuickResume), or none, over whatever the files hold.              *)
(***************************************************************************)
Init ==
    /\ stored \in SUBSET Pieces
    /\ pieceSet \in SUBSET stored
    /\ goodPieces = Cardinality(pieceSet)
    /\ left = Left(pieceSet, goodPieces)
    /\ active = {}
    /\ downloaderCount = [x \in Block |-> 0]
    /\ goodBlocks = {}
    /\ peers = {}
    /\ open = {}
    /\ reader = [c \in Conns |-> "off"]
    /\ writer = [c \in Conns |-> "off"]
    /\ have = [c \in Conns |-> {}]
    /\ noBitset = {}
    /\ amInterested = [c \in Conns |-> FALSE]
    /\ peerChoking = [c \in Conns |-> TRUE]
    /\ canBitfield = [c \in Conns |-> TRUE]
    /\ ourRequests = [c \in Conns |-> {}]
    /\ panicked = FALSE

-----------------------------------------------------------------------------
(* Choosing the next block to ask of a peer.  The choice is a set, because *)
(* Go's map iteration order and ChoosePiece's random start are arbitrary.  *)
(* A plan d holds what the choice may change: the active pieces, the       *)
(* counts, and the requests to and the interest in the peer at hand.       *)

(* chooseBlockToDownloadNormal: the first block nobody downloads. *)
FirstFree(k, count) ==
    {x \in BlocksOf(k) :
        /\ count[x] = 0
        /\ \A y \in BlocksOf(k) : y[2] < x[2] => count[y] # 0}

(* Mutant: the endgame doubles up on a block once, but not twice. *)
MutLeastRequested(k, count) == {x \in BlocksOf(k) : count[x] = 1}

(* chooseBlockToDownloadEndgame: the first of the least requested blocks. *)
LeastRequested(k, count) ==
    {x \in BlocksOf(k) :
        /\ count[x] >= 0
        /\ \A y \in BlocksOf(k) :
              count[y] >= 0 => /\ count[x] <= count[y]
                               /\ y[2] < x[2] => count[x] < count[y]}

(* The chosen block is counted and requested: requestBlockImp(.., true).   *)
(* Its piece gets an ActivePiece if it has none yet.                       *)
Ask(d, x) ==
    [active     |-> d.active \cup {x[1]},
     count      |-> [d.count EXCEPT ![x] = @ + 1],
     reqs       |-> d.reqs \cup {x},
     interested |-> d.interested]

(* Mutants: checkRange forgets that we may have the piece, or stops short. *)
MutUnclaimedHeld(h, held, d) == h \ d.active
MutUnclaimedShort(h, held, d) == h \ (held \cup d.active \cup {totalPieces - 1})

(* ChoosePiece: a piece the peer has, we lack, and nobody is working on. *)
Unclaimed(h, held, d) == h \ (held \cup d.active)

RequestBlock(h, held, d) ==
    LET normal  == UNION {FirstFree(k, d.count) : k \in d.active \cap h}
        fresh   == Unclaimed(h, held, d)
        doubled == UNION {LeastRequested(k, d.count) : k \in d.active \cap h}
    IN  IF normal # {} THEN {Ask(d, x) : x \in normal}
        ELSE IF Cardinality(d.active) >= MaxActivePieces THEN {d}
        ELSE IF fresh # {}
             THEN {Ask(d, x) :
                     x \in UNION {FirstFree(k, d.count) : k \in fresh}}
        ELSE IF doubled # {} THEN {Ask(d, x) : x \in doubled}
        ELSE {[d EXCEPT !.interested = FALSE]}

(* The UNCHOKE handler asks for MAX_OUR_REQUESTS = 2 blocks in a row. *)
RequestBlocks(h, held, d) ==
    UNION {RequestBlock(h, held, e) : e \in RequestBlock(h, held, d)}

(* A plan takes effect. *)
Adopt(c, reqs, e) ==
    /\ active' = e.active
    /\ downloaderCount' = e.count
    /\ ourRequests' = [reqs EXCEPT ![c] = e.reqs]
    /\ amInterested' = [amInterested EXCEPT ![c] = e.interested]

(* A bound for model checking: no message leads to further requests while  *)
(* a block is requested MaxRequestCount times, except as a reliable seed   *)
(* unchokes us (once) and as it answers an outstanding request.            *)
Room == \A x \in Block : downloaderCount[x] < MaxRequestCount

-----------------------------------------------------------------------------
(* removeRequest for each block in S, at most once each. *)
RemoveRequests(S) ==
    [x \in Block |-> IF x \in S /\ downloaderCount[x] > 0
                     THEN downloaderCount[x] - 1 ELSE downloaderCount[x]]

(* Mutant: the entry is left behind. *)
MutUnfiled(c) == peers

(* delete(ts.peers, peer.address): whoever is filed under that address. *)
Unfiled(c) == {p \in peers : Addr[p] # Addr[c]}

(* Mutant: the counts go down but p.our_requests is kept. *)
MutClosePeer(c) ==
    /\ downloaderCount' = RemoveRequests(ourRequests[c])
    /\ open' = open \ {c}
    /\ peers' = Unfiled(c)
    /\ UNCHANGED ourRequests

ClosePeer(c) ==
    /\ downloaderCount' = RemoveRequests(ourRequests[c])
    /\ ourRequests' = [ourRequests EXCEPT ![c] = {}]
    /\ open' = open \ {c}
    /\ peers' = Unfiled(c)

(* A connection whose handshake succeeded reaches addPeerImp: a peer id or *)
(* an address may be in use already, or there may be enough peers.         *)
AddPeer(c) ==
    /\ ~panicked
    /\ reader[c] = "off"
    /\ IF \/ \E p \in peers : ID[p] = ID[c]
          \/ Cardinality(peers) >= MaxNumPeers
       THEN /\ reader' = [reader EXCEPT ![c] = "done"]
            /\ writer' = [writer EXCEPT ![c] = "done"]
            /\ UNCHANGED <<peers, open>>
       ELSE /\ peers' = Unfiled(c) \cup {c}
            /\ open' = open \cup {c}
            /\ reader' = [reader EXCEPT ![c] = "reading"]
            /\ writer' = [writer EXCEPT ![c] = "running"]
    /\ UNCHANGED <<pieceVars, blockVars, talkVars, ourRequests, panicked>>

(* peerReader gets a whole message off the socket and offers it on         *)
(* peerMessageChan, which is not buffered.                                 *)
ReaderRead(c) ==
    /\ ~panicked
    /\ reader[c] = "reading"
    /\ c \in open
    /\ reader' = [reader EXCEPT ![c] = "holding"]
    /\ UNCHANGED <<pieceVars, blockVars, connVars, talkVars, ourRequests,
                   panicked>>

(* peerReader's read fails, since we closed the socket or the remote end   *)
(* did; DoMessage takes its final nil message and DoTorrent closes p.      *)
ReaderExit(c) ==
    /\ ~panicked
    /\ reader[c] = "reading"
    /\ c \in open => c \notin Reliable
    /\ reader' = [reader EXCEPT ![c] = "done"]
    /\ ClosePeer(c)
    /\ UNCHANGED <<pieceVars, active, goodBlocks, writer, talkVars, panicked>>

(* peerWriter fails to write to the socket and says so with a nil message. *)
WriterExit(c) ==
    /\ ~panicked
    /\ writer[c] = "running"
    /\ c \in open => c \notin Reliable
    /\ writer' = [writer EXCEPT ![c] = "done"]
    /\ ClosePeer(c)
    /\ UNCHANGED <<pieceVars, active, goodBlocks, reader, talkVars, panicked>>

-----------------------------------------------------------------------------
(* generalMessage: DoTorrent takes the message the reader of c holds.      *)

(* Meanwhile the reader goes on, and may get hold of the next message      *)
(* before the handler closes the connection.                               *)
Receive(c) ==
    /\ ~panicked
    /\ reader[c] = "holding"
    /\ \E r \in IF c \in open THEN {"reading", "holding"} ELSE {"reading"} :
          reader' = [reader EXCEPT ![c] = r]

Choke(c) ==
    /\ Receive(c)
    /\ c \notin Reliable
    /\ peerChoking' = [peerChoking EXCEPT ![c] = TRUE]
    /\ downloaderCount' = RemoveRequests(ourRequests[c])
    /\ ourRequests' = [ourRequests EXCEPT ![c] = {}]
    /\ canBitfield' = [canBitfield EXCEPT ![c] = FALSE]
    /\ UNCHANGED <<pieceVars, active, goodBlocks, connVars, have, noBitset,
                   amInterested, panicked>>

(* A reliable seed unchokes once we said we are interested. *)
Unchoke(c) ==
    /\ Receive(c)
    /\ c \notin noBitset
    /\ IF c \in Reliable THEN peerChoking[c] /\ amInterested[c] ELSE Room
    /\ peerChoking' = [peerChoking EXCEPT ![c] = FALSE]
    /\ \E e \in RequestBlocks(have[c], pieceSet,
                    [active |-> active, count |-> downloaderCount,
                     reqs |-> ourRequests[c], interested |-> amInterested[c]]) :
          Adopt(c, ourRequests, e)
    /\ canBitfield' = [canBitfield EXCEPT ![c] = FALSE]
    /\ UNCHANGED <<pieceVars, goodBlocks, connVars, have, noBitset, panicked>>

Have(c, k) ==
    /\ Receive(c)
    /\ c \notin noBitset \cup Reliable
    /\ have' = [have EXCEPT ![c] = @ \cup {k}]
    /\ amInterested' = [amInterested EXCEPT ![c] = @ \/ k \notin pieceSet]
    /\ canBitfield' = [canBitfield EXCEPT ![c] = FALSE]
    /\ UNCHANGED <<pieceVars, blockVars, connVars, noBitset, peerChoking,
                   ourRequests, panicked>>

(* A well-formed bitfield in its place; checkInteresting follows. *)
Bitfield(c, h) ==
    /\ Receive(c)
    /\ canBitfield[c]
    /\ c \in Reliable => h = Pieces
    /\ have' = [have EXCEPT ![c] = h]
    /\ noBitset' = noBitset \ {c}
    /\ amInterested' = [amInterested EXCEPT ![c] = ~(h \subseteq pieceSet)]
    /\ canBitfield' = [canBitfield EXCEPT ![c] = FALSE]
    /\ UNCHANGED <<pieceVars, blockVars, connVars, peerChoking, ourRequests,
                   panicked>>

(* NewBitsetFromBytes returns nil: p.have is lost before p is closed. *)
InvalidBitfield(c) ==
    /\ Receive(c)
    /\ c \notin Honest
    /\ canBitfield[c]
    /\ noBitset' = noBitset \cup {c}
    /\ ClosePeer(c)
    /\ UNCHANGED <<pieceVars, active, goodBlocks, writer, have, amInterested,
                   peerChoking, canBitfield, panicked>>

(* A late bitfield, an unknown id, a wrong length, a HAVE or PIECE out of  *)
(* range, or a REQUEST for what we lack: generalMessage returns an error.  *)
BadMessage(c) ==
    /\ Receive(c)
    /\ c \notin Honest
    /\ ClosePeer(c)
    /\ UNCHANGED <<pieceVars, active, goodBlocks, writer, talkVars, panicked>>

(* A message that leaves the download alone: a keep-alive, an EXTENSION,   *)
(* or a served REQUEST (which returns before can_receive_bitfield is       *)
(* reset), and INTERESTED, NOT_INTERESTED, CANCEL or PORT (which do not).  *)
OtherMessage(c, resets) ==
    /\ Receive(c)
    /\ c \in Reliable => ~resets
    /\ canBitfield' = [canBitfield EXCEPT ![c] = @ /\ ~resets]
    /\ UNCHANGED <<pieceVars, blockVars, connVars, have, noBitset,
                   amInterested, peerChoking, ourRequests, panicked>>

(* A PIECE message may start within PieceLength but beyond the buffer of   *)
(* the short last piece; the checks before copy() do not catch that.       *)
BeyondBuffer(c) ==
    /\ c \notin Honest
    /\ totalPieces - 1 \in active
    /\ \E begin \in 0 .. PieceLength - 1 :
          \/ begin > lastPieceLength
          \/ begin \div BlockLength >= pieceCount(totalPieces - 1)

(* UNCHOKE, HAVE, REQUEST, PIECE and CANCEL dereference p.have, and PIECE  *)
(* slices the buffer and indexes downloaderCount.                          *)
Panic(c) ==
    /\ Receive(c)
    /\ c \in noBitset \/ BeyondBuffer(c)
    /\ panicked' = TRUE
    /\ UNCHANGED <<pieceVars, blockVars, connVars, talkVars, ourRequests>>

-----------------------------------------------------------------------------
(* The PIECE message.                                                      *)

(* An honest peer answers requests, so after its bitfield; the answer to   *)
(* a repeated or cancelled one may arrive after the block was recorded, or *)
(* even after its piece was dropped for a bad block of somebody else's.    *)
MaySend(c, x) ==
    c \in Honest => /\ ~canBitfield[c]
                    /\ \/ x \in ourRequests[c]
                       \/ downloaderCount[x] = -1
                       \/ x[1] \in pieceSet
                       \/ Honest # Conns /\ ~peerChoking[c] /\ x[1] \in have[c]

(* What copy(v.buffer[begin:], message[9:]) may leave of the piece: a      *)
(* message that starts in block x overwrites nothing before x.             *)
Contents(c, x) ==
    IF c \in Honest
    THEN {goodBlocks \cup {x}}
    ELSE {(goodBlocks \ BlocksOf(x[1])) \cup s :
            s \in {s \in SUBSET BlocksOf(x[1]) :
                     \A y \in BlocksOf(x[1]) :
                        y[2] < x[2] => (y \in s <=> y \in goodBlocks)}}

(* RecordBlock forgets the request, and when the block was requested more  *)
(* than once, cancels it at every other registered peer.  Requests are     *)
(* found by the offset: a message that starts inside the block, as an      *)
(* honest one never does, finds none.                                      *)
RequestsAfter(c, x) ==
    {[p \in Conns |->
        IF p = c \/ (p \in peers /\ downloaderCount[x] > 1)
        THEN ourRequests[p] \ {x} ELSE ourRequests[p]]}
    \cup IF c \in Honest \/ BlockLength = 1 THEN {} ELSE {ourRequests}

(* recordBlock. *)
Recorded(x) == [downloaderCount EXCEPT ![x] = -1]

(* ActivePiece.isComplete *)
isComplete(k, count) == \A x \in BlocksOf(k) : count[x] = -1

(* Mutant: one right block vouches for the piece. *)
MutCheckPiece(k, good) == BlocksOf(k) \cap good # {}

(* checkPiece: the SHA-1 of the buffer is the one in the metainfo. *)
checkPiece(k, good) == BlocksOf(k) \subseteq good

(* delete(ts.activePieces, piece) *)
Dropped(k, count) == [x \in Block |-> IF x[1] = k THEN 0 ELSE count[x]]

(* The rest of RecordBlock when the piece is still short of a block. *)
PieceUnfinished(c, x, good, reqs) ==
    /\ ~isComplete(x[1], Recorded(x))
    /\ goodBlocks' = good
    /\ \E e \in RequestBlock(have[c], pieceSet,
                    [active |-> active, count |-> Recorded(x),
                     reqs |-> reqs[c],
                     interested |-> amInterested[c]]) :
          Adopt(c, reqs, e)
    /\ UNCHANGED <<pieceVars, open>>

(* checkPiece says no: the peer that sent the last block is hung up on,    *)
(* but stays registered until its reader exits, and is asked once more.    *)
PieceBad(c, x, good, reqs) ==
    /\ isComplete(x[1], Recorded(x))
    /\ ~checkPiece(x[1], good)
    /\ open' = open \ {c}
    /\ goodBlocks' = goodBlocks \ BlocksOf(x[1])
    /\ \E e \in RequestBlock(have[c], pieceSet,
                    [active |-> active \ {x[1]},
                     count |-> Dropped(x[1], Recorded(x)),
                     reqs |-> reqs[c],
                     interested |-> amInterested[c]]) :
          Adopt(c, reqs, e)
    /\ UNCHANGED pieceVars

(* fileStore.WritePiece puts the buffer, right or wrong, in the files. *)
Written(k, good) ==
    {IF BlocksOf(k) \subseteq good THEN stored \cup {k} ELSE stored \ {k}}
        \cup IF StoreMayFail THEN {stored} ELSE {}

(* checkPiece says yes; the result of WritePiece is ignored. *)
PieceGood(c, x, good, reqs) ==
    /\ isComplete(x[1], Recorded(x))
    /\ checkPiece(x[1], good)
    /\ stored' \in Written(x[1], good)
    /\ left' = left - pieceLength(x[1])
    /\ pieceSet' = pieceSet \cup {x[1]}
    /\ goodPieces' = goodPieces + 1
    /\ goodBlocks' = goodBlocks \ BlocksOf(x[1])
    /\ \E e \in RequestBlock(have[c], pieceSet \cup {x[1]},
                    [active |-> active \ {x[1]},
                     count |-> Dropped(x[1], Recorded(x)),
                     reqs |-> reqs[c],
                     interested |-> amInterested[c]]) :
          Adopt(c, reqs, e)
    /\ UNCHANGED open

Piece(c, x) ==
    /\ Receive(c)
    /\ c \notin noBitset
    /\ MaySend(c, x)
    /\ x[1] \in active
    /\ (c \in Reliable /\ x \in ourRequests[c]) \/ Room
    /\ \E good \in Contents(c, x), reqs \in RequestsAfter(c, x) :
          \/ PieceUnfinished(c, x, good, reqs)
          \/ PieceBad(c, x, good, reqs)
          \/ PieceGood(c, x, good, reqs)
    /\ canBitfield' = [canBitfield EXCEPT ![c] = FALSE]
    /\ UNCHANGED <<peers, writer, have, noBitset, peerChoking, panicked>>

(* "We already have that piece, keep going": no bookkeeping, no request. *)
PieceHeld(c, x) ==
    /\ Receive(c)
    /\ c \notin noBitset
    /\ MaySend(c, x)
    /\ x[1] \in pieceSet
    /\ canBitfield' = [canBitfield EXCEPT ![c] = FALSE]
    /\ UNCHANGED <<pieceVars, blockVars, connVars, have, noBitset,
                   amInterested, peerChoking, ourRequests, panicked>>

(* "Received piece data we weren't expecting": the peer is closed. *)
PieceUnexpected(c, x) ==
    /\ Receive(c)
    /\ c \notin noBitset
    /\ MaySend(c, x)
    /\ x[1] \notin pieceSet \cup active
    /\ ClosePeer(c)
    /\ UNCHANGED <<pieceVars, active, goodBlocks, writer, talkVars, panicked>>

-----------------------------------------------------------------------------
(***************************************************************************)
(* The keep-alive tick of DoTorrent: registered peers in `gone' were       *)
(* silent for three minutes and are closed; requests in `late' are older   *)
(* than 30 seconds, so doCheckRequests lowers their counts but leaves them *)
(* in our_requests.                                                        *)
(***************************************************************************)
Outstanding == {r \in peers \X Block : r[2] \in ourRequests[r[1]]}

Lowered(late) ==
    [x \in Block |->
        LET n == downloaderCount[x]
            m == Cardinality({r \in late : r[2] = x})
        IN  IF n <= 0 THEN n ELSE IF n >= m THEN n - m ELSE 0]

KeepAliveTick(gone, late) ==
    /\ ~panicked
    /\ gone \cap Reliable = {}
    /\ \A r \in Outstanding : r[1] \in gone => r \in late
    /\ downloaderCount' = Lowered(late)
    /\ ourRequests' = [c \in Conns |-> IF c \in gone THEN {}
                                                     ELSE ourRequests[c]]
    /\ open' = open \ gone
    /\ peers' = peers \ gone
    /\ UNCHANGED <<pieceVars, active, goodBlocks, writer, reader, talkVars,
                   panicked>>

-----------------------------------------------------------------------------

Message(c) ==
    \/ Choke(c)
    \/ Unchoke(c)
    \/ \E k \in Pieces : Have(c, k)
    \/ \E h \in SUBSET Pieces : Bitfield(c, h)
    \/ InvalidBitfield(c)
    \/ BadMessage(c)
    \/ \E resets \in BOOLEAN : OtherMessage(c, resets)
    \/ Panic(c)
    \/ \E x \in Block : Piece(c, x)
    \/ \E x \in Block : PieceHeld(c, x)
    \/ \E x \in Block : PieceUnexpected(c, x)

Next ==
    \/ \E c \in Conns : \/ AddPeer(c)
                        \/ ReaderRead(c)
                        \/ ReaderExit(c)
                        \/ WriterExit(c)
                        \/ Message(c)
    \/ \E gone \in SUBSET peers, late \in SUBSET Outstanding :
          KeepAliveTick(gone, late)

Spec == Init /\ [][Next]_vars

(***************************************************************************)
(* Fairness.  DoTorrent's select serves every ready channel again and      *)
(* again, so a held message is handled and a read from a closed socket     *)
(* fails.  A reliable seed connects, sends its bitfield, unchokes us when  *)
(* we are interested and answers every request that stands long enough.    *)
(***************************************************************************)
ServeRequest(c) == \E x \in ourRequests[c] : Piece(c, x)

Fairness ==
    /\ \A c \in Conns : /\ WF_vars(Message(c))
                        /\ WF_vars(c \notin open /\ ReaderExit(c))
    /\ \A c \in Reliable : /\ WF_vars(AddPeer(c))
                           /\ WF_vars(ReaderRead(c))
                           /\ SF_vars(Bitfield(c, Pieces))
                           /\ SF_vars(Unchoke(c))
                           /\ SF_vars(ServeRequest(c))

FairSpec == Spec /\ Fairness

-----------------------------------------------------------------------------
(* What makes the download correct.                                        *)

(* Every piece ts.pieceSet claims, and that we therefore offer to other    *)
(* peers and seed, is right in the file store: RecordBlock sets the bit    *)
(* only after checkPiece accepted the assembled buffer, whoever sent what. *)
PieceSetVerified == pieceSet \subseteq stored

(* The counters reported to the tracker and compared with totalPieces to   *)
(* decide that we are seeding follow the piece set: Session.Left, which is *)
(* a uint64 that RecordBlock only ever subtracts from, stays what load()   *)
(* would compute, so it can neither drift nor wrap below zero.             *)
Accounting ==
    /\ goodPieces = Cardinality(pieceSet)
    /\ left = Left(pieceSet, goodPieces)

(* Session.Left is the number of bytes in the pieces we lack, with the     *)
(* short last piece counted at its own length: load() computes it in       *)
(* closed form and RecordBlock subtracts the lengths of the buffers.       *)
LeftIsMissingBytes == left = MapThenSumSet(pieceLength, Pieces \ pieceSet)

(* A piece being assembled is one we still lack, is missing some block,    *)
(* and the buffers stay within the memory limit: a complete piece never    *)
(* lingers in ts.activePieces (RequestBlock could then find no block in    *)
(* it) and a piece we have is never fetched again.                         *)
ActiveWanted ==
    /\ active \cap pieceSet = {}
    /\ \A k \in active : ~isComplete(k, downloaderCount)
    /\ Cardinality(active) <= MaxActivePieces

(* We are interested in every peer that has something we lack: HAVE and    *)
(* BITFIELD announce interest, and RequestBlock withdraws it only when     *)
(* neither an unclaimed piece nor an endgame block is left at that peer.   *)
(* Were it withdrawn early the peer would never unchoke us again.          *)
InterestSound ==
    \A c \in Conns :
        c \notin noBitset /\ ~(have[c] \subseteq pieceSet) => amInterested[c]

(* Once the reader of a connection is gone nothing is counted as requested *)
(* from it, although messages it held when the connection was closed may   *)
(* have made RequestBlock ask it for more blocks after that.               *)
NoRequestLeak == \A c \in Conns : reader[c] = "done" => ourRequests[c] = {}

(* The session implements PieceStore: blocks from any number of peers, bad *)
(* data, repeated requests and closed connections never make it record a   *)
(* piece twice, two at once, or one that is not in the file store, nor     *)
(* take more from Session.Left than is there.                              *)
Store == INSTANCE PieceStore WITH Len <- pieceLength, held <- pieceSet,
                                  good <- goodPieces
RefinesPieceStore == Store!Spec

(* A connection we hung up on, be it in RecordBlock after a bad piece      *)
(* (where it stays registered) or in ClosePeer (after which its reader may *)
(* still hand over a message that makes requests), is in the end           *)
(* unregistered with nothing counted as requested from it.                 *)
ClosedPeersCleanedUp ==
    \A c \in Conns :
        (reader[c] \in {"reading", "holding"} /\ c \notin open) ~>
            \/ panicked
            \/ reader[c] = "done" /\ c \notin peers /\ ourRequests[c] = {}

(* A single honest seed is enough: whatever we start with, the pipeline of *)
(* two requests, the active-piece limit and the endgame never let the      *)
(* download stop before every piece is there.                              *)
DownloadCompletes == <>(pieceSet = Pieces)
=============================================================================
