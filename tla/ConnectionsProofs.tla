------------------------- MODULE ConnectionsProofs --------------------------
(***************************************************************************)
(* Proofs about TorrentLoop and Connections: RunTorrents keeps to MaxActive*)
(* and never waits for room in createChan, for any number of files;        *)
(* connections and announcements leave RunTorrents to do what TorrentLoop  *)
(* says, so that this carries over to them; the table of peers is sound    *)
(* for any number of connections, and torrents are announced just as long  *)
(* as they run.                                                            *)
(***************************************************************************)
EXTENDS Connections, FiniteSetTheorems, TLAPS

(* While the main loop is about to refill createChan, the place in the     *)
(* pipeline of the torrent it replaces is still free.                      *)
Load == Cardinality(InFlight) + (IF main = "refill" THEN 1 ELSE 0)

IInv == TypeOK /\ Load <= MaxActive

-----------------------------------------------------------------------------
(* TorrentLoop. *)

(* Sets of files are finite. *)
LEMMA FiniteFiles ==
    ASSUME NEW S \in SUBSET Files
    PROVE  IsFiniteSet(S) /\ Cardinality(S) \in Nat
<1>1. IsFiniteSet(Files)
  BY LoopAssumption, FS_Interval DEF Files
<1> QED BY <1>1, FS_Subset, FS_CardinalityType

(* A file that moves within the pipeline leaves the load as it is. *)
LEMMA MoveWithin ==
    ASSUME IInv, NEW f \in Files,
           NEW from \in Stage \ {"queued", "finished", "dropped"},
           NEW to \in Stage \ {"queued", "finished", "dropped"},
           Moves(f, from, to)
    PROVE  InFlight' = InFlight /\ stage' \in [Files -> Stage]
  BY DEF IInv, TypeOK, Moves, InFlight, At

(* A file that is over makes room for another. *)
LEMMA MoveOut ==
    ASSUME IInv, NEW f \in Files,
           NEW from \in Stage \ {"queued", "finished", "dropped"},
           NEW to \in {"finished", "dropped"},
           Moves(f, from, to)
    PROVE  /\ Cardinality(InFlight') = Cardinality(InFlight) - 1
           /\ Cardinality(InFlight) \in Nat
           /\ stage' \in [Files -> Stage]
<1>1. f \in InFlight /\ InFlight' = InFlight \ {f} /\ InFlight \in SUBSET Files
  BY DEF IInv, TypeOK, Moves, InFlight, At
<1>2. stage' \in [Files -> Stage]
  BY DEF IInv, TypeOK, Moves, Stage
<1>3. Cardinality(InFlight') = Cardinality(InFlight) - 1
  BY <1>1, FiniteFiles, FS_RemoveElement
<1> QED BY <1>1, <1>2, <1>3, FiniteFiles

(* A file that leaves the queue takes up the room. *)
LEMMA MoveIn ==
    ASSUME IInv, NEW f \in Files, Moves(f, "queued", "pending")
    PROVE  /\ Cardinality(InFlight') = Cardinality(InFlight) + 1
           /\ Cardinality(InFlight) \in Nat
           /\ stage' \in [Files -> Stage]
<1>1. /\ f \notin InFlight /\ InFlight' = InFlight \cup {f}
      /\ InFlight \in SUBSET Files
  BY DEF IInv, TypeOK, Moves, InFlight, At
<1>2. stage' \in [Files -> Stage]
  BY DEF IInv, TypeOK, Moves, Stage
<1>3. Cardinality(InFlight') = Cardinality(InFlight) + 1
  BY <1>1, FiniteFiles, FS_AddElement
<1> QED BY <1>1, <1>2, <1>3, FiniteFiles

-----------------------------------------------------------------------------
LEMMA InitIInv == Init => IInv
<1> SUFFICES ASSUME Init PROVE IInv
  OBVIOUS
<1>1. TypeOK
  BY DEF Init, TypeOK, FirstStage, Stage
<1>2. InFlight \in SUBSET (1 .. MaxActive)
  BY LoopAssumption DEF Init, InFlight, At, Files, FirstStage
<1>3. IsFiniteSet(1 .. MaxActive) /\ Cardinality(1 .. MaxActive) = MaxActive
  BY LoopAssumption, FS_Interval
<1>4. Cardinality(InFlight) <= MaxActive /\ Cardinality(InFlight) \in Nat
  BY <1>2, <1>3, FS_Subset, FS_CardinalityType
<1> QED BY <1>1, <1>4 DEF Init, IInv, Load

LEMMA NextIInv == IInv /\ [Next]_vars => IInv'
<1> SUFFICES ASSUME IInv, [Next]_vars PROVE IInv'
  OBVIOUS
<1>0. /\ torrentSessions \in SUBSET Files /\ quitting \in SUBSET Files
      /\ theWorldisEnding \in BOOLEAN
      /\ main \in {"select", "refill", "exited"}
      /\ Cardinality(InFlight) \in Nat /\ MaxActive \in Nat
  BY FiniteFiles, LoopAssumption DEF IInv, TypeOK, InFlight
(* Steps of the creator and of sessions keep the file in the pipeline. *)
<1>1. ASSUME NEW f \in Files,
             Creator(f) \/ EndSession(f) \/ QuitBlocks(f) \/ SendDone(f)
      PROVE  IInv'
  <2>1. /\ UNCHANGED <<torrentSessions, theWorldisEnding, quitting, main>>
        /\ \E from, to \in Stage \ {"queued", "finished", "dropped"} :
              Moves(f, from, to)
    BY <1>1 DEF Creator, CreatorTake, NewTorrentSession, SendStart, SendFailed,
                EndSession, QuitBlocks, SendDone, Stage
  <2>2. InFlight' = InFlight /\ stage' \in [Files -> Stage]
    BY <2>1, MoveWithin
  <2> QED BY <1>0, <2>1, <2>2 DEF IInv, TypeOK, Load
<1>2. ASSUME NEW f \in Files, TakeStart(f) PROVE IInv'
  <2>1. torrentSessions' \in SUBSET Files
        /\ UNCHANGED <<theWorldisEnding, quitting, main>>
    BY <1>0, <1>2 DEF TakeStart
  <2>2. CASE Moves(f, "starting", "running")
    <3>1. InFlight' = InFlight /\ stage' \in [Files -> Stage]
      BY <2>2, MoveWithin DEF Stage
    <3> QED BY <1>0, <2>1, <3>1 DEF IInv, TypeOK, Load
  <2>3. CASE Moves(f, "starting", "dropped")
    <3>1. /\ Cardinality(InFlight') = Cardinality(InFlight) - 1
          /\ stage' \in [Files -> Stage]
      BY <2>3, MoveOut DEF Stage
    <3> QED BY <1>0, <2>1, <3>1 DEF IInv, TypeOK, Load
  <2> QED BY <1>2, <2>2, <2>3 DEF TakeStart
<1>3. ASSUME NEW f \in Files, TakeDone(f) PROVE IInv'
  <2>1. /\ torrentSessions' \in SUBSET Files
        /\ UNCHANGED <<theWorldisEnding, quitting>>
        /\ main = "select" /\ main' \in {"select", "refill", "exited"}
    BY <1>0, <1>3 DEF TakeDone, Unregistered
  <2>2. /\ Cardinality(InFlight') = Cardinality(InFlight) - 1
        /\ stage' \in [Files -> Stage]
    <3>1. Moves(f, "failing", "finished") \/ Moves(f, "ending", "finished")
      BY <1>3 DEF TakeDone
    <3> QED BY <3>1, MoveOut DEF Stage
  <2> QED BY <1>0, <2>1, <2>2 DEF IInv, TypeOK, Load
<1>4. ASSUME NEW f \in Files, Refill(f) PROVE IInv'
  <2>1. /\ Cardinality(InFlight') = Cardinality(InFlight) + 1
        /\ stage' \in [Files -> Stage]
    BY <1>4, MoveIn DEF Refill
  <2>2. /\ main = "refill" /\ main' = "select"
        /\ UNCHANGED <<torrentSessions, theWorldisEnding, quitting>>
    BY <1>4 DEF Refill
  <2> QED BY <1>0, <2>1, <2>2 DEF IInv, TypeOK, Load
<1>5. CASE Interrupt
  BY <1>5, <1>0 DEF Interrupt, IInv, TypeOK, Load, InFlight, At
<1>6. CASE UNCHANGED vars
  BY <1>6 DEF vars, IInv, TypeOK, Load, InFlight, At
<1> QED BY <1>1, <1>2, <1>3, <1>4, <1>5, <1>6 DEF Next, MainLoop, Exited

(* ActiveBound: RunTorrents never has more than MaxActive torrents in its  *)
(* pipeline, and never blocks on createChan.                               *)
THEOREM ActiveBoundHolds == Spec => [](TypeOK /\ ActiveBound)
<1>1. IInv => TypeOK /\ ActiveBound
  <2> SUFFICES ASSUME IInv PROVE ActiveBound
    BY DEF IInv
  <2>1. /\ InFlight \in SUBSET Files
        /\ At({"pending"}) \in SUBSET InFlight
    BY DEF InFlight, At, IInv, TypeOK
  <2>2. /\ Cardinality(InFlight) \in Nat
        /\ Cardinality(At({"pending"})) \in Nat
        /\ Cardinality(At({"pending"})) <= Cardinality(InFlight)
    BY <2>1, FiniteFiles, FS_Subset, FS_CardinalityType
  <2> QED BY <2>2, LoopAssumption DEF IInv, Load, ActiveBound, CreateChanFull
<1> QED BY <1>1, InitIInv, NextIInv, PTL DEF Spec

-----------------------------------------------------------------------------
(* Control-C and sessions without a tracker. *)

(* No torrent is given twice. *)
DistinctHashes == \A f, g \in Files : InfoHash[f] = InfoHash[g] => f = g

(* The main loop knows every session whose DoTorrent has not returned. *)
Registered ==
    \A f \in Files : stage[f] \in {"running", "stuck"} => f \in torrentSessions

LEMMA NextRegistered ==
    ASSUME DistinctHashes, TypeOK, Registered, [Next]_vars
    PROVE  Registered'
<1> USE DEF TypeOK, Registered, Moves
<1>1. ASSUME NEW f \in Files,
             \/ Creator(f) \/ EndSession(f) \/ QuitBlocks(f) \/ SendDone(f)
             \/ Refill(f)
      PROVE  Registered'
  BY <1>1 DEF Creator, CreatorTake, NewTorrentSession, SendStart, SendFailed,
              EndSession, QuitBlocks, SendDone, Refill
<1>2. ASSUME NEW f \in Files, TakeStart(f) PROVE Registered'
  BY <1>2, DistinctHashes DEF DistinctHashes, TakeStart
<1>3. ASSUME NEW f \in Files, TakeDone(f) PROVE Registered'
  BY <1>3, DistinctHashes DEF DistinctHashes, TakeDone, Unregistered
<1>4. CASE Interrupt \/ UNCHANGED vars
  BY <1>4 DEF Interrupt, vars
<1> QED BY <1>1, <1>2, <1>3, <1>4 DEF Next, MainLoop, Exited

(* The exception in QuitExits is one for good: a session without a tracker *)
(* that has taken the quit message stays in DoTorrent and in the table of  *)
(* sessions, and as long as the program runs it does not come to its end.  *)
THEOREM StuckForGood ==
    ASSUME DistinctHashes
    PROVE  Spec => [][\A f \in Files : stage[f] = "stuck" =>
                          stage'[f] = "stuck" /\ main' # "exited"]_vars
<1>1. Init => Registered
  BY DEF Init, FirstStage, Registered
<1>2. TypeOK /\ Registered /\ [Next]_vars => Registered'
  BY NextRegistered
<1>3. TypeOK /\ Registered /\ [Next]_vars =>
        [\A f \in Files : stage[f] = "stuck" =>
                          stage'[f] = "stuck" /\ main' # "exited"]_vars
  <2> SUFFICES ASSUME TypeOK, Registered, Next, NEW f \in Files,
                      stage[f] = "stuck", ~ UNCHANGED vars
               PROVE  stage'[f] = "stuck" /\ main' # "exited"
    OBVIOUS
  <2>1. ASSUME NEW g \in Files,
               \/ Creator(g) \/ EndSession(g) \/ QuitBlocks(g) \/ SendDone(g)
               \/ TakeStart(g) \/ Refill(g)
        PROVE  stage'[f] = "stuck" /\ main' # "exited"
    BY <2>1 DEF Creator, CreatorTake, NewTorrentSession, SendStart, SendFailed,
                EndSession, QuitBlocks, SendDone, TakeStart, Refill, Moves, TypeOK
  <2>2. ASSUME NEW g \in Files, TakeDone(g)
        PROVE  stage'[f] = "stuck" /\ main' # "exited"
    <3>1. stage'[f] = "stuck" /\ g # f
      BY <2>2 DEF TakeDone, Moves, TypeOK
    <3>2. f \in torrentSessions'
      BY <2>2, <3>1, DistinctHashes
         DEF DistinctHashes, TakeDone, Unregistered, Registered
    <3> QED BY <2>2, <3>1, <3>2 DEF TakeDone
  <2>3. CASE Interrupt
    BY <2>3 DEF Interrupt
  <2> QED BY <2>1, <2>2, <2>3 DEF Next, MainLoop, Exited
<1> QED BY <1>1, <1>2, <1>3, ActiveBoundHolds, PTL DEF Spec

-----------------------------------------------------------------------------
(* The steps that are about one connection only. *)
ConnStep(c) ==
    \/ Offer(c) \/ AcceptNewPeer(c) \/ HintNewPeer(c) \/ tryNewPeer(c)
    \/ connectToPeer(c) \/ Enqueue(c) \/ addPeerImp(c) \/ ClosePeer(c)

-----------------------------------------------------------------------------
(* Connections implements TorrentLoop. *)

LEMMA StepsImplement == [ConnectionsNext]_allVars => [Next]_vars
<1> SUFFICES ASSUME [ConnectionsNext]_allVars PROVE [Next]_vars
  OBVIOUS
<1>1. ASSUME NEW c \in Conns, ConnStep(c) PROVE UNCHANGED vars
  BY <1>1 DEF ConnStep, Offer, AcceptNewPeer, HintNewPeer, tryNewPeer,
              connectToPeer, Enqueue, addPeerImp, ClosePeer, loopVars
<1>2. ASSUME NEW f \in Files,
             \/ (Creator(f) \/ SendDone(f)) /\ Rest
             \/ QuitBlocks(f) /\ Rest
             \/ Shutdown(f) \/ Handle(f)
      PROVE  Next
  <2>1. Creator(f) \/ SendDone(f) \/ EndSession(f) \/ QuitBlocks(f) \/ MainLoop(f)
    BY <1>2 DEF Shutdown, Handle, Start, Done, MainLoop
  <2> QED BY <2>1 DEF Next
<1>3. ASSUME NEW f \in Files, Announce(f) PROVE UNCHANGED vars
  BY <1>3 DEF Announce, loopVars
<1>4. CASE Interrupt \/ Exited
  BY <1>4 DEF Next
<1>5. CASE UNCHANGED allVars
  BY <1>5 DEF allVars, vars
<1> QED BY <1>1, <1>2, <1>3, <1>4, <1>5 DEF ConnectionsNext, ConnStep

(* Forwarding connections and announcing torrents adds nothing to what     *)
(* RunTorrents does to its sessions: Connections implements TorrentLoop.   *)
THEOREM ImplementsTorrentLoop == ConnectionsSpec => Spec
<1>1. ConnectionsInit => Init
  BY DEF ConnectionsInit
<1> QED BY <1>1, StepsImplement, PTL DEF ConnectionsSpec, Spec

(* ActiveBound: at most MaxActive torrents are in flight, and the main     *)
(* loop never waits for createChan, with connections coming at any time.   *)
THEOREM ActiveBoundWithConnections == ConnectionsSpec => [](TypeOK /\ ActiveBound)
  BY ImplementsTorrentLoop, ActiveBoundHolds, PTL

-----------------------------------------------------------------------------
(* The table of peers. *)

PlaceOK == place \in [Conns -> Place]

TableInv == PlaceOK /\ TableSound

LEMMA FiniteIn ==
    ASSUME NEW f, NEW p
    PROVE  IsFiniteSet(In(f, p)) /\ Cardinality(In(f, p)) \in Nat
<1>1. In(f, p) \in SUBSET Conns
  BY DEF In
<1> QED BY <1>1, ConnectionsAssumption, FS_Subset, FS_CardinalityType

(* A step that brings nobody into a table keeps the tables sound. *)
LEMMA TableShrinks ==
    ASSUME TableInv, PlaceOK',
           \A c \in Conns : place'[c] = "peer" => place[c] = "peer"
    PROVE  TableInv'
<1> SUFFICES ASSUME NEW f \in Files
             PROVE  /\ Cardinality(In(f, "peer")') <= MaxNumPeers
                    /\ \A c, d \in In(f, "peer")' : ID[c] = ID[d] => c = d
                    /\ \A c \in In(f, "peer")' : ID[c] # Self
  BY DEF TableInv, TableSound
<1>1. In(f, "peer")' \in SUBSET In(f, "peer")
  BY DEF In
<1>2. /\ Cardinality(In(f, "peer")') <= Cardinality(In(f, "peer"))
      /\ Cardinality(In(f, "peer")') \in Nat
      /\ Cardinality(In(f, "peer")) \in Nat
  BY <1>1, FiniteIn, FS_Subset, FS_CardinalityType
<1>3. /\ Cardinality(In(f, "peer")) <= MaxNumPeers
      /\ \A c, d \in In(f, "peer") : ID[c] = ID[d] => c = d
      /\ \A c \in In(f, "peer") : ID[c] # Self
  BY DEF TableInv, TableSound
<1> QED BY <1>1, <1>2, <1>3, ConnectionsAssumption

(* addPeerImp adds a peer only where there is room and it is new. *)
LEMMA TableGrows ==
    ASSUME TableInv, NEW c \in Conns, Acceptable(c), PutAt(c, "peer"),
           place[c] = "queued"
    PROVE  TableInv'
<1>0. PlaceOK'
  BY DEF TableInv, PlaceOK, PutAt, Place
<1> SUFFICES ASSUME NEW f \in Files
             PROVE  /\ Cardinality(In(f, "peer")') <= MaxNumPeers
                    /\ \A d, e \in In(f, "peer")' : ID[d] = ID[e] => d = e
                    /\ \A d \in In(f, "peer")' : ID[d] # Self
  BY <1>0 DEF TableInv, TableSound
<1>3. /\ Cardinality(In(f, "peer")) <= MaxNumPeers
      /\ \A d, e \in In(f, "peer") : ID[d] = ID[e] => d = e
      /\ \A d \in In(f, "peer") : ID[d] # Self
  BY DEF TableInv, TableSound
<1>1. CASE Target[c] # f
  <2>1. In(f, "peer")' = In(f, "peer")
    BY <1>1 DEF In, PutAt, TableInv, PlaceOK
  <2> QED BY <2>1, <1>3
<1>2. CASE Target[c] = f
  <2>1. In(f, "peer")' = In(f, "peer") \cup {c} /\ c \notin In(f, "peer")
    BY <1>2 DEF In, PutAt, TableInv, PlaceOK
  <2>2. /\ ID[c] # Self /\ \A d \in In(f, "peer") : ID[d] # ID[c]
        /\ Cardinality(In(f, "peer")) < MaxNumPeers
    BY <1>2 DEF Acceptable
  <2>3. Cardinality(In(f, "peer")') = Cardinality(In(f, "peer")) + 1
    BY <2>1, FiniteIn, FS_AddElement
  <2>4. Cardinality(In(f, "peer")') <= MaxNumPeers
    BY <2>2, <2>3, FiniteIn, ConnectionsAssumption
  <2> QED BY <2>1, <2>2, <2>4, <1>3
<1> QED BY <1>1, <1>2

LEMMA NextTable == TableInv /\ [ConnectionsNext]_allVars => TableInv'
<1> SUFFICES ASSUME TableInv, [ConnectionsNext]_allVars PROVE TableInv'
  OBVIOUS
<1>1. ASSUME NEW c \in Conns,
             Offer(c) \/ AcceptNewPeer(c) \/ HintNewPeer(c) \/ tryNewPeer(c)
             \/ connectToPeer(c) \/ Enqueue(c) \/ ClosePeer(c)
      PROVE  TableInv'
  <2>1. \E p \in Place \ {"peer"} : PutAt(c, p)
    BY <1>1 DEF Offer, AcceptNewPeer, HintNewPeer, tryNewPeer, connectToPeer,
                Enqueue, ClosePeer, AddPeer, PutAt, Place
  <2>2. PlaceOK' /\ \A d \in Conns : place'[d] = "peer" => place[d] = "peer"
    BY <2>1 DEF PutAt, TableInv, PlaceOK
  <2> QED BY <2>2, TableShrinks
<1>2. ASSUME NEW c \in Conns, addPeerImp(c) PROVE TableInv'
  <2>1. CASE Acceptable(c)
    BY <1>2, <2>1, TableGrows DEF addPeerImp
  <2>2. CASE ~Acceptable(c)
    <3>1. PutAt(c, "closed")
      BY <1>2, <2>2 DEF addPeerImp
    <3>2. PlaceOK' /\ \A d \in Conns : place'[d] = "peer" => place[d] = "peer"
      BY <3>1 DEF PutAt, TableInv, PlaceOK, Place
    <3> QED BY <3>2, TableShrinks
  <2> QED BY <2>1, <2>2
<1>3. ASSUME NEW f \in Files, Shutdown(f) PROVE TableInv'
  <2>1. PlaceOK' /\ \A d \in Conns : place'[d] = "peer" => place[d] = "peer"
    BY <1>3 DEF Shutdown, TableInv, PlaceOK, Place
  <2> QED BY <2>1, TableShrinks
<1>4. CASE UNCHANGED place
  BY <1>4, TableShrinks DEF TableInv, PlaceOK
<1>5. ASSUME NEW f \in Files, Handle(f) \/ Announce(f) PROVE UNCHANGED place
  BY <1>5 DEF Handle, Start, Done, Rest, Announce
<1> QED BY <1>1, <1>2, <1>3, <1>4, <1>5 DEF ConnectionsNext, Rest, allVars

(* Nobody is connected at the beginning. *)
LEMMA TableHolds == ConnectionsSpec => [](PlaceOK /\ TableSound)
<1>1. ConnectionsInit => TableInv
  <2> SUFFICES ASSUME ConnectionsInit PROVE TableInv
    OBVIOUS
  <2>1. PlaceOK /\ \A f \in Files : In(f, "peer") = {}
    BY DEF ConnectionsInit, PlaceOK, Place, In
  <2>2. Cardinality({}) = 0
    BY FS_EmptySet
  <2> QED BY <2>1, <2>2, ConnectionsAssumption DEF TableInv, TableSound
<1> QED BY <1>1, NextTable, PTL DEF ConnectionsSpec, TableInv

(* TableSound: a session never has more than MAX_NUM_PEERS peers, nor one  *)
(* twice, nor itself, however many dialling goroutines were let in while   *)
(* there was room.                                                         *)
THEOREM TableSoundHolds == ConnectionsSpec => []TableSound
  BY TableHolds, PTL

(* ConnectionsTypeOK.  The loop's part comes from TorrentLoop, that of the *)
(* connections from the table, and the announcing goroutines only move     *)
(* from one of their states to another.                                    *)
THEOREM ConnectionsTypes == ConnectionsSpec => []ConnectionsTypeOK
<1> DEFINE LpdOK == /\ lpd \in [Files -> {"none", "launched", "ticking", "stopped"}]
                    /\ tickers \subseteq Files /\ hasty \subseteq Files
<1>1. ConnectionsInit => LpdOK /\ PlaceOK
  BY DEF ConnectionsInit, PlaceOK, Place
<1>2. LpdOK /\ [ConnectionsNext]_allVars => LpdOK'
  <2> SUFFICES ASSUME LpdOK, [ConnectionsNext]_allVars PROVE LpdOK'
    OBVIOUS
  <2>1. ASSUME NEW c \in Conns,
               \/ Offer(c) \/ AcceptNewPeer(c) \/ HintNewPeer(c)
               \/ tryNewPeer(c) \/ connectToPeer(c) \/ Enqueue(c)
               \/ addPeerImp(c) \/ ClosePeer(c)
        PROVE  UNCHANGED lpdVars
    BY <2>1 DEF Offer, AcceptNewPeer, HintNewPeer, tryNewPeer, connectToPeer,
                Enqueue, addPeerImp, ClosePeer
  <2>2. ASSUME NEW f \in Files, Start(f) PROVE LpdOK'
    BY <2>2 DEF Start
  <2>3. ASSUME NEW f \in Files, Announce(f) PROVE LpdOK'
    BY <2>3 DEF Announce
  <2>4. ASSUME NEW f \in Files, Done(f) PROVE LpdOK'
    BY <2>4 DEF Done, StopAnnouncing, lpdVars
  <2>5. ASSUME NEW f \in Files, Shutdown(f) PROVE UNCHANGED lpdVars
    BY <2>5 DEF Shutdown
  <2>6. UNCHANGED lpdVars => LpdOK'
    BY DEF lpdVars
  <2> QED BY <2>1, <2>2, <2>3, <2>4, <2>5, <2>6
          DEF ConnectionsNext, Handle, Rest, allVars
<1>3. TypeOK /\ PlaceOK /\ LpdOK => ConnectionsTypeOK
  BY DEF ConnectionsTypeOK, PlaceOK
<1> HIDE DEF LpdOK
<1>4. ConnectionsSpec => []LpdOK
  BY <1>1, <1>2, PTL DEF ConnectionsSpec
<1>5. ConnectionsSpec => []PlaceOK
  BY TableHolds, PTL
<1> QED BY <1>3, <1>4, <1>5, ActiveBoundWithConnections, PTL

-----------------------------------------------------------------------------
(* Local announcements. *)

LpdType ==
    /\ stage \in [Files -> Stage]
    /\ lpd \in [Files -> {"none", "launched", "ticking", "stopped"}]
    /\ tickers \subseteq Files

Active == {"running", "stuck", "ended", "ending"}

(* The map of tickers has just the goroutines that are at it; every one    *)
(* that goes on after the end of its session was late.                     *)
LpdInv(f) ==
    /\ stage[f] \in Active => lpd[f] \in {"launched", "ticking"}
    /\ lpd[f] = "ticking" /\ stage[f] # "finished" => f \in tickers
    /\ stage[f] = "finished" /\ lpd[f] \in {"launched", "ticking"} => f \in hasty
    /\ f \in tickers => lpd[f] = "ticking"
    /\ stage[f] \notin Active \cup {"finished"} => lpd[f] = "none"

AnnounceInv == LpdType /\ \A f \in Files : LpdInv(f)

LEMMA NextAnnounce ==
    ASSUME DistinctHashes
    PROVE  AnnounceInv /\ [ConnectionsNext]_allVars => AnnounceInv'
<1> SUFFICES ASSUME AnnounceInv, [ConnectionsNext]_allVars PROVE AnnounceInv'
  OBVIOUS
<1>1. CASE UNCHANGED <<stage, lpdVars>>
  BY <1>1 DEF AnnounceInv, LpdType, LpdInv, lpdVars
(* Steps that start or end no session. *)
<1>2. ASSUME NEW f \in Files, Creator(f) \/ EndSession(f) \/ QuitBlocks(f)
             \/ SendDone(f) \/ Refill(f),
             UNCHANGED lpdVars
      PROVE  AnnounceInv'
  <2>1. /\ stage' = [stage EXCEPT ![f] = stage'[f]]
        /\ stage'[f] \in Stage \ {"finished"} /\ stage[f] # "finished"
        /\ stage[f] \in Active <=> stage'[f] \in Active
    BY <1>2 DEF Creator, CreatorTake, NewTorrentSession, SendStart, SendFailed,
                EndSession, QuitBlocks, SendDone, Refill, Moves, AnnounceInv,
                LpdType, Stage,
                Active
  <2> QED BY <1>2, <2>1 DEF AnnounceInv, LpdType, LpdInv, lpdVars
<1>3. ASSUME NEW f \in Files, Start(f) PROVE AnnounceInv'
  <2>1. /\ stage[f] = "starting"
        /\ \/ stage' = [stage EXCEPT ![f] = "dropped"] /\ lpd' = lpd
           \/ /\ stage' = [stage EXCEPT ![f] = "running"]
              /\ lpd' = [lpd EXCEPT ![f] = "launched"]
        /\ UNCHANGED <<tickers, hasty>>
    BY <1>3 DEF Start, TakeStart, Moves, AnnounceInv, LpdType
  <2> QED BY <2>1 DEF AnnounceInv, LpdType, LpdInv, Active, Stage
<1>4. ASSUME NEW f \in Files, Announce(f) PROVE AnnounceInv'
  <2>1. /\ lpd[f] = "launched" /\ lpd' = [lpd EXCEPT ![f] = "ticking"]
        /\ tickers' = tickers \cup {f} /\ UNCHANGED <<stage, hasty>>
    BY <1>4, DistinctHashes DEF Announce, DistinctHashes, AnnounceInv, LpdType,
                                loopVars, vars
  <2> QED BY <2>1 DEF AnnounceInv, LpdType, LpdInv, Active
<1>5. ASSUME NEW f \in Files, Done(f) PROVE AnnounceInv'
  <2>1. CASE stage[f] = "ending"
    <3>1. {g \in tickers : InfoHash[g] = InfoHash[f]} = tickers \cap {f}
      BY DistinctHashes DEF DistinctHashes, AnnounceInv, LpdType
    <3>2. /\ stage' = [stage EXCEPT ![f] = "finished"]
          /\ tickers' = tickers \ {f}
          /\ lpd' = [g \in Files |-> IF g \in tickers \cap {f} THEN "stopped"
                                     ELSE lpd[g]]
          /\ hasty' = IF lpd[f] = "launched" THEN hasty \cup {f} ELSE hasty
      BY <1>5, <2>1, <3>1 DEF Done, TakeDone, Moves, StopAnnouncing
    <3>3. LpdType'
      BY <3>2 DEF AnnounceInv, LpdType, Stage
    <3>4. LpdInv(f)'
      BY <2>1, <3>2 DEF AnnounceInv, LpdType, LpdInv, Active
    <3>5. ASSUME NEW g \in Files, g # f PROVE LpdInv(g)'
      BY <3>2, <3>5 DEF AnnounceInv, LpdType, LpdInv
    <3> QED BY <3>3, <3>4, <3>5 DEF AnnounceInv
  <2>2. CASE stage[f] # "ending"
    <3>1. /\ stage[f] = "failing" /\ stage' = [stage EXCEPT ![f] = "finished"]
          /\ UNCHANGED lpdVars
      BY <1>5, <2>2 DEF Done, TakeDone, Moves
    <3> QED BY <3>1 DEF AnnounceInv, LpdType, LpdInv, Active, Stage, lpdVars
  <2> QED BY <2>1, <2>2
<1>6. ASSUME NEW c \in Conns, ConnStep(c) PROVE UNCHANGED <<stage, lpdVars>>
  BY <1>6 DEF ConnStep, Offer, AcceptNewPeer, HintNewPeer, tryNewPeer,
              connectToPeer, Enqueue, addPeerImp, ClosePeer, loopVars, vars
<1>7. CASE (Interrupt \/ Exited) /\ Rest
  BY <1>1, <1>7 DEF Interrupt, Exited, Rest, vars
<1>8. CASE UNCHANGED allVars
  BY <1>1, <1>8 DEF allVars, vars
<1>9. ASSUME NEW f \in Files,
             \/ (Creator(f) \/ SendDone(f)) /\ Rest
             \/ QuitBlocks(f) /\ Rest
             \/ Shutdown(f) \/ Handle(f) \/ Announce(f)
      PROVE  AnnounceInv'
  BY <1>2, <1>3, <1>4, <1>5, <1>9 DEF Shutdown, Handle, Rest
<1> QED BY <1>1, <1>6, <1>7, <1>8, <1>9 DEF ConnectionsNext, ConnStep

(* Announced, when no torrent is given twice: a running torrent is         *)
(* announced, and StopAnnouncing ends that unless the goroutine of         *)
(* Announce had not stored its ticker by then.                             *)
THEOREM AnnouncedHolds ==
    ASSUME DistinctHashes
    PROVE  ConnectionsSpec => []Announced
<1>1. ConnectionsInit => AnnounceInv
  BY DEF ConnectionsInit, Init, FirstStage, AnnounceInv, LpdType, LpdInv, Active,
         Stage
<1>2. AnnounceInv => Announced
  BY DEF AnnounceInv, LpdInv, Announced, Active
<1>3. AnnounceInv /\ [ConnectionsNext]_allVars => AnnounceInv'
  BY NextAnnounce
<1> QED BY <1>1, <1>2, <1>3, PTL DEF ConnectionsSpec
=============================================================================
