------------------------------ MODULE Serving -------------------------------
(***************************************************************************)
(* The upload half of a session (torrent/torrent.go, torrent/peer.go): who *)
(* may ask, what is sent, and the way of a message from sendMessage over   *)
(* the queue of queueingWriter and peerWriter to the peer.  Whom to unchoke*)
(* is decided by Choking, of which this module is a composition with the   *)
(* connections' queues.                                                    *)
(*                                                                         *)
(* DoTorrent handles one message or tick at a time; the writer of each     *)
(* connection drains its queue at its own pace, so that what a peer knows  *)
(* lags behind what the session has decided.  What a message says about    *)
(* the download (interest of ours, requests, blocks) is left to Download,  *)
(* and the amounts uploaded are left out.                                  *)
(***************************************************************************)
EXTENDS Integers, FiniteSets, Sequences

CONSTANTS
    Conns,                   \* connections (peerState values), used once each
    Extended,                \* those whose header announces extensions
    Pieces,                  \* pieces of the torrent
    MaxQueue,                \* bound on the messages waiting for one writer
    HighBandwidthSlots,      \* HIGH_BANDWIDTH_SLOTS
    OptimisticUnchokeCount,  \* OPTIMISTIC_UNCHOKE_COUNT
    MaxRate,                 \* see Choking; rates play no part here
    None                     \* no optimistic unchoke yet

ASSUME ServingAssumption ==
    /\ IsFiniteSet(Conns) /\ None \notin Conns
    /\ Extended \subseteq Conns
    /\ MaxQueue \in Nat \ {0}
    /\ HighBandwidthSlots \in Nat
    /\ OptimisticUnchokeCount \in Nat \ {0}
    /\ MaxRate \in Nat

VARIABLES
    peers, interested, unchoked, rate, optimist, counter,  \* see Choking
    held,      \* ts.pieceSet
    theirs,    \* theirs[c]: p.have, what the peer said it has
    greeted,   \* connections an EXTENSION message has come from
    open,      \* connections whose socket is open at both ends
    used,      \* connections that exist or existed
    queue,     \* queue[c]: what queueingWriter holds for peerWriter
    view,      \* view[c]: whether the peer knows itself to be unchoked
    known      \* known[c]: the pieces the peer knows we have

choking == <<peers, interested, unchoked, rate, optimist, counter>>
wires == <<open, used, queue, view, known>>
vars == <<peers, interested, unchoked, rate, optimist, counter, held, theirs,
          greeted, open, used, queue, view, known>>

Policy == INSTANCE Choking

Kinds == {"choke", "unchoke", "have", "bitfield", "piece", "extension",
          "keepalive"}
Messages == [kind : Kinds, pieces : SUBSET Pieces]
Message(k, S) == [kind |-> k, pieces |-> S]

TypeOK ==
    /\ Policy!TypeOK
    /\ held \subseteq Pieces
    /\ theirs \in [Conns -> SUBSET Pieces]
    /\ greeted \subseteq Conns
    /\ open \subseteq used
    /\ used \subseteq Conns
    /\ queue \in [Conns -> Seq(Messages)]
    /\ view \in [Conns -> BOOLEAN]
    /\ known \in [Conns -> SUBSET Pieces]

Init ==
    /\ Policy!Init
    /\ held \in SUBSET Pieces
    /\ theirs = [c \in Conns |-> {}]
    /\ greeted = {}
    /\ open = {}
    /\ used = {}
    /\ queue = [c \in Conns |-> <<>>]
    /\ view = [c \in Conns |-> FALSE]
    /\ known = [c \in Conns |-> {}]

-----------------------------------------------------------------------------
(* sendMessage: queueingWriter takes the message at any time, behind those *)
(* that wait.  The bound replaces memory.                                  *)
Room == \A c \in open : Len(queue[c]) < MaxQueue

(* Mutant: what is urgent overtakes what waits. *)
MutSend(to) ==
    [c \in Conns |->
        IF c \notin open \/ to[c] = <<>> THEN queue[c]
        ELSE IF to[c][1].kind = "choke" THEN to[c] \o queue[c]
        ELSE queue[c] \o to[c]]

(* The queues after the messages to[c] were sent to each c. *)
Send(to) == [c \in Conns |-> IF c \in open THEN queue[c] \o to[c] ELSE queue[c]]

(* m for the peers in S, nothing for the others *)
ToAll(S, m) == [c \in Conns |-> IF c \in S THEN <<m>> ELSE <<>>]

(* SetChoke, for each peer the policy decided on: a message if it changed. *)
SetChoke(before, after) ==
    [c \in Conns |-> IF c \in after \ before THEN <<Message("unchoke", {})>>
                     ELSE IF c \in before \ after THEN <<Message("choke", {})>>
                     ELSE <<>>]

(* ts.peers without c, its socket closed, and what waited for it dropped.  *)
ClosePeer(c) ==
    /\ Policy!ClosePeer(c)
    /\ open' = open \ {c}
    /\ queue' = [queue EXCEPT ![c] = <<>>]
    /\ UNCHANGED <<held, theirs, greeted, used, view, known>>

-----------------------------------------------------------------------------
(* DoTorrent. *)

(* The first message to a new peer. *)
Welcome(c) == IF c \in Extended THEN <<Message("extension", {})>>
              ELSE <<Message("bitfield", held)>>

addPeerImp(c) ==
    /\ c \notin used
    /\ Policy!AddPeer(c)
    /\ used' = used \cup {c}
    /\ open' = open \cup {c}
    /\ queue' = [queue EXCEPT ![c] = Welcome(c)]
    /\ UNCHANGED <<held, theirs, greeted, view, known>>

(* Time-outs, the nil messages of reader and writer, and messages that     *)
(* generalMessage refuses: among others a REQUEST or CANCEL for a piece    *)
(* that we lack or a range that the piece has not, or one that the file    *)
(* store fails to read.                                                    *)
Refused(c) == c \in peers /\ ClosePeer(c)

(* INTERESTED, NOT_INTERESTED and the 10-second tick run the choke policy. *)
Choke ==
    /\ queue' = Send(SetChoke(unchoked, unchoked'))
    /\ UNCHANGED <<held, theirs, greeted, open, used, view, known>>

Interested(c) == Room /\ c \in peers /\ Policy!Interested(c) /\ Choke

NotInterested(c) == Room /\ c \in peers /\ Policy!NotInterested(c) /\ Choke

Tick(o) == Room /\ Policy!Tick(o) /\ Choke

(* HAVE from the peer, or BITFIELD, which is taken only before any HAVE. *)
Have(c, S) ==
    /\ c \in peers
    /\ theirs' = [theirs EXCEPT ![c] = @ \cup S]
    /\ UNCHANGED <<choking, held, greeted, wires>>

(* EXTENSION from the peer, handshake or not: each is answered with our    *)
(* bitfield.                                                               *)
Extension(c) ==
    /\ Room
    /\ c \in peers
    /\ greeted' = greeted \cup {c}
    /\ queue' = Send(ToAll({c}, Message("bitfield", held)))
    /\ UNCHANGED <<choking, held, theirs, open, used, view, known>>

(* Mutant: who has once been unchoked is served. *)
MutRequest(c, i) ==
    /\ Room
    /\ c \in peers
    /\ i \in held
    /\ queue' = Send(ToAll({d \in {c} : view[d]}, Message("piece", {i})))
    /\ UNCHANGED <<choking, held, theirs, greeted, open, used, view, known>>

(* REQUEST for a piece we have: sendRequest answers at once, and a choked  *)
(* peer not at all.                                                        *)
Request(c, i) ==
    /\ Room
    /\ c \in peers
    /\ i \in held
    /\ queue' = Send(ToAll({c} \cap unchoked, Message("piece", {i})))
    /\ UNCHANGED <<choking, held, theirs, greeted, open, used, view, known>>

(* CANCEL for a piece we have: no request ever waits in peer_requests, so  *)
(* there is nothing to cancel, though the answer may still be queued.      *)
Cancel(c, i) == c \in peers /\ i \in held /\ UNCHANGED vars

(* Mutant: only unchoked peers are told. *)
MutAcquire(i) ==
    /\ Room
    /\ i \notin held
    /\ held' = held \cup {i}
    /\ queue' = Send(ToAll({c \in unchoked : i \notin theirs[c]},
                           Message("have", {i})))
    /\ UNCHANGED <<choking, theirs, greeted, open, used, view, known>>

(* The end of RecordBlock: HAVE for every peer that lacks the new piece.   *)
Acquire(i) ==
    /\ Room
    /\ i \notin held
    /\ held' = held \cup {i}
    /\ queue' = Send(ToAll({c \in peers : i \notin theirs[c]},
                           Message("have", {i})))
    /\ UNCHANGED <<choking, theirs, greeted, open, used, view, known>>

(* keepAliveChan, every 60 seconds. *)
KeepAlive ==
    /\ Room
    /\ queue' = Send(ToAll(peers, Message("keepalive", {})))
    /\ UNCHANGED <<choking, held, theirs, greeted, open, used, view, known>>

-----------------------------------------------------------------------------
(* The writer of a connection. *)

(* What the peer knows after it has read m. *)
ViewAfter(v, m) == IF m.kind = "unchoke" THEN TRUE
                   ELSE IF m.kind = "choke" THEN FALSE ELSE v

KnownAfter(k, m) == IF m.kind \in {"have", "bitfield"} THEN k \cup m.pieces
                    ELSE k

(* peerWriter: one message to the socket.  A keep-alive is left out when   *)
(* something was written lately, which makes no difference to the peer.    *)
Write(c) ==
    /\ c \in open
    /\ queue[c] # <<>>
    /\ view' = [view EXCEPT ![c] = ViewAfter(@, Head(queue[c]))]
    /\ known' = [known EXCEPT ![c] = KnownAfter(@, Head(queue[c]))]
    /\ queue' = [queue EXCEPT ![c] = Tail(@)]
    /\ UNCHANGED <<choking, held, theirs, greeted, open, used>>

(* The peer goes away: a write or a read fails, and everything that waits  *)
(* is lost.  The session learns of it later, by a nil message (Refused).   *)
Disconnect(c) ==
    /\ c \in open
    /\ open' = open \ {c}
    /\ queue' = [queue EXCEPT ![c] = <<>>]
    /\ UNCHANGED <<choking, held, theirs, greeted, used, view, known>>

Slots == Conns \cup {None}

Next ==
    \/ \E c \in Conns :
          \/ addPeerImp(c) \/ Refused(c)
          \/ Interested(c) \/ NotInterested(c) \/ Extension(c)
          \/ Write(c) \/ Disconnect(c)
          \/ \E S \in SUBSET Pieces : Have(c, S)
          \/ \E i \in Pieces : Request(c, i) \/ Cancel(c, i)
    \/ \E i \in Pieces : Acquire(i)
    \/ \E o \in Slots : Tick(o)
    \/ KeepAlive

Spec == Init /\ [][Next]_vars

-----------------------------------------------------------------------------
(* What the peer's view will be when it has read the first n messages that *)
(* wait for it.                                                            *)
Switches(c, n) ==
    {i \in 1 .. n : queue[c][i].kind \in {"choke", "unchoke"}}

ViewAt(c, n) ==
    IF Switches(c, n) = {} THEN view[c]
    ELSE LET last == CHOOSE i \in Switches(c, n) :
                        \A j \in Switches(c, n) : j <= i
         IN  queue[c][last].kind = "unchoke"

(* No block reaches a peer between a CHOKE and the next UNCHOKE: REQUEST   *)
(* is judged by am_choking when it is handled, the answer is written long  *)
(* after, and the policy may have changed its mind several times meanwhile.*)
NoPieceWhileChoked ==
    \A c \in open : \A i \in 1 .. Len(queue[c]) :
        queue[c][i].kind = "piece" => ViewAt(c, i)

(* A peer that reads what waits for it knows whether it is choked: the     *)
(* last word on the way is what the session decided, also for peers that   *)
(* the policy passed over because they were not interested.                *)
ViewsConverge ==
    \A c \in open \cap peers : ViewAt(c, Len(queue[c])) = (c \in unchoked)

(* The pieces that messages on the way tell the peer of. *)
Underway(c) ==
    UNION {queue[c][i].pieces : i \in {j \in 1 .. Len(queue[c]) :
                                queue[c][j].kind \in {"have", "bitfield"}}}

(* Nobody is told of a piece that we lack, and a peer that speaks no       *)
(* extension protocol, or has spoken it, is told of every piece that it    *)
(* lacks itself: by the bitfield of that moment (SendBitfield copies it)   *)
(* or by HAVE afterwards, with no gap in between.                          *)
Informed ==
    \A c \in open \cap peers :
        /\ known[c] \cup Underway(c) \subseteq held
        /\ c \notin Extended \/ c \in greeted =>
              held \ theirs[c] \subseteq known[c] \cup Underway(c)
=============================================================================
