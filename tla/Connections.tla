---------------------------- MODULE Connections -----------------------------
(***************************************************************************)
(* How peers come to a session: connections that the listener accepts, the *)
(* addresses that DHT, local peer discovery and trackers give, and the     *)
(* goroutines that dial them (torrent/torrentLoop.go, listen.go,           *)
(* torrent.go: AcceptNewPeer, HintNewPeer, tryNewPeer, connectToPeer,      *)
(* AddPeer, addPeerImp), and how sessions are announced to the local       *)
(* network (lpd.go).  It extends TorrentLoop, whose main loop forwards     *)
(* connections and hints between its other duties and has to come back     *)
(* from that, whatever the session at the other end is doing.              *)
(*                                                                         *)
(* A connection is in one place at a time:                                 *)
(*   new        known to nobody, or only to a tracker                      *)
(*   offered    the listener sends it on conChan                           *)
(*   forwarded  the main loop is in the select of AddPeer with it          *)
(*   hinted     its address is in hintNewPeerChan                          *)
(*   dialing    in connectToPeer, up to AddPeer                            *)
(*   adding     its goroutine is in the select of AddPeer with it          *)
(*   queued     in addPeerChan                                             *)
(*   peer       in ts.peers                                                *)
(*   closed     closed, or never made                                      *)
(*   left       open, but forgotten                                        *)
(***************************************************************************)
EXTENDS TorrentLoop

CONSTANTS
    Conns,         \* connections, or addresses to connect to
    Target,        \* Target[c]: the torrent it is about
    ID,            \* ID[c]: the peer id at its other end
    Self,          \* ts.Session.PeerID, the same for all sessions here
    MaxNumPeers    \* MAX_NUM_PEERS

ASSUME ConnectionsAssumption ==
    /\ IsFiniteSet(Conns)
    /\ Target \in [Conns -> Files]
    /\ MaxNumPeers \in Nat \ {0}

VARIABLES
    place,    \* where a connection is
    lpd,      \* lpd[f]: the goroutine of Announce: "none", "launched",
              \* "ticking", or "stopped" with its ticker
    tickers,  \* activeAnnounces: the files whose tickers it holds
    hasty     \* files done before their goroutine had stored its ticker

loopVars == vars
lpdVars == <<lpd, tickers, hasty>>
allVars == <<vars, place, lpdVars>>

Place == {"new", "offered", "forwarded", "hinted", "dialing", "adding",
          "queued", "peer", "closed", "left"}

ConnectionsTypeOK ==
    /\ TypeOK
    /\ place \in [Conns -> Place]
    /\ lpd \in [Files -> {"none", "launched", "ticking", "stopped"}]
    /\ tickers \subseteq Files
    /\ hasty \subseteq Files

ConnectionsInit ==
    /\ Init
    /\ place = [c \in Conns |-> "new"]
    /\ lpd = [f \in Files |-> "none"]
    /\ tickers = {}
    /\ hasty = {}

In(f, p) == {c \in Conns : Target[c] = f /\ place[c] = p}

(* The main loop waits in AddPeer. *)
Held == \E c \in Conns : place[c] = "forwarded"

Alive == main # "exited"
Ready == main = "select" /\ ~Held

PutAt(c, p) == place' = [place EXCEPT ![c] = p]

(* DoTorrent has closed ts.ended. *)
Ended(f) == stage[f] \in {"ended", "ending", "finished"}

-----------------------------------------------------------------------------
(* The ways in. *)

(* The listener: one connection at a time, header read. *)
Offer(c) ==
    /\ Alive
    /\ place[c] = "new"
    /\ \A d \in Conns : place[d] # "offered"
    /\ PutAt(c, "offered")
    /\ UNCHANGED <<loopVars, lpdVars>>

(* AddPeer: the length is compared first, and the send comes later. *)
AddPeer(c, waiting) ==
    PutAt(c, IF Cardinality(In(Target[c], "queued")) < MaxNumPeers
             THEN waiting ELSE "closed")

(* <-conChan.  A connection for no session of ours, or to which our header *)
(* cannot be written, is not closed.                                       *)
AcceptNewPeer(c) ==
    /\ Ready
    /\ place[c] = "offered"
    /\ \/ Target[c] \in torrentSessions /\ AddPeer(c, "forwarded")
       \/ PutAt(c, "left")
    /\ UNCHANGED <<loopVars, lpdVars>>

(* An address from DHT or local peer discovery.  Only the main loop sends  *)
(* on hintNewPeerChan, so the length it compares is still right when it    *)
(* sends.                                                                  *)
HintNewPeer(c) ==
    /\ Ready
    /\ place[c] = "new"
    /\ Target[c] \in torrentSessions
    /\ Cardinality(In(Target[c], "hinted")) < MaxNumPeers
    /\ PutAt(c, "hinted")
    /\ UNCHANGED <<loopVars, lpdVars>>

(* A session takes a hint, or an address from its tracker's response. *)
tryNewPeer(c) ==
    /\ Alive
    /\ place[c] \in {"new", "hinted"}
    /\ stage[Target[c]] = "running"
    /\ PutAt(c, IF Cardinality(In(Target[c], "peer")) < MaxNumPeers
                THEN "dialing" ELSE "closed")
    /\ UNCHANGED <<loopVars, lpdVars>>

(* connectToPeer: the dial fails, the headers do, or it goes to AddPeer. *)
connectToPeer(c) ==
    /\ Alive
    /\ place[c] = "dialing"
    /\ PutAt(c, "closed") \/ PutAt(c, "left") \/ AddPeer(c, "adding")
    /\ UNCHANGED <<loopVars, lpdVars>>

(* Mutant: the select does not look at ts.ended. *)
MutEnqueue(c) ==
    /\ Alive
    /\ place[c] \in {"forwarded", "adding"}
    /\ Cardinality(In(Target[c], "queued")) < MaxNumPeers
    /\ PutAt(c, "queued")
    /\ UNCHANGED <<loopVars, lpdVars>>

(* The select of AddPeer.  When the session has ended meanwhile the        *)
(* connection may be dropped; it is not closed.                            *)
Enqueue(c) ==
    /\ Alive
    /\ place[c] \in {"forwarded", "adding"}
    /\ \/ /\ Cardinality(In(Target[c], "queued")) < MaxNumPeers
          /\ PutAt(c, "queued")
       \/ Ended(Target[c]) /\ PutAt(c, "left")
    /\ UNCHANGED <<loopVars, lpdVars>>

(* Mutant: the number of peers is left to tryNewPeer, which checked it. *)
MutAcceptable(c) ==
    /\ ID[c] # Self
    /\ \A d \in In(Target[c], "peer") : ID[d] # ID[c]

(* addPeerImp rejects ourselves, a peer that is there already, and one too *)
(* many.                                                                   *)
Acceptable(c) ==
    /\ ID[c] # Self
    /\ \A d \in In(Target[c], "peer") : ID[d] # ID[c]
    /\ Cardinality(In(Target[c], "peer")) < MaxNumPeers

addPeerImp(c) ==
    /\ Alive
    /\ place[c] = "queued"
    /\ stage[Target[c]] = "running"
    /\ PutAt(c, IF Acceptable(c) THEN "peer" ELSE "closed")
    /\ UNCHANGED <<loopVars, lpdVars>>

ClosePeer(c) ==
    /\ Alive
    /\ place[c] = "peer"
    /\ stage[Target[c]] = "running"
    /\ PutAt(c, "closed")
    /\ UNCHANGED <<loopVars, lpdVars>>

(* The end of DoTorrent: Shutdown closes the peers. *)
Shutdown(f) ==
    /\ EndSession(f)
    /\ place' = [c \in Conns |-> IF c \in In(f, "peer") THEN "closed"
                                 ELSE place[c]]
    /\ UNCHANGED lpdVars

-----------------------------------------------------------------------------
(* Local peer discovery. *)

(* Announce launches a goroutine for a session that starts, ... *)
Start(f) ==
    /\ ~Held
    /\ TakeStart(f)
    /\ lpd' = IF stage'[f] = "running" THEN [lpd EXCEPT ![f] = "launched"]
              ELSE lpd
    /\ UNCHANGED <<place, tickers, hasty>>

(* ... which announces it and stores its ticker. *)
Announce(f) ==
    /\ Alive
    /\ lpd[f] = "launched"
    /\ lpd' = [lpd EXCEPT ![f] = "ticking"]
    /\ tickers' = {g \in tickers : InfoHash[g] # InfoHash[f]} \cup {f}
    /\ UNCHANGED <<loopVars, place, hasty>>

(* Mutant: the ticker is forgotten and goes on. *)
MutStopAnnouncing(f) ==
    /\ tickers' = tickers \ {f}
    /\ hasty' = IF lpd[f] = "launched" THEN hasty \cup {f} ELSE hasty
    /\ UNCHANGED lpd

(* StopAnnouncing finds no ticker when the goroutine is late. *)
StopAnnouncing(f) ==
    LET found == {g \in tickers : InfoHash[g] = InfoHash[f]}
    IN  /\ tickers' = tickers \ found
        /\ lpd' = [g \in Files |-> IF g \in found THEN "stopped" ELSE lpd[g]]
        /\ hasty' = IF lpd[f] = "launched" THEN hasty \cup {f} ELSE hasty

(* <-doneChan *)
Done(f) ==
    /\ ~Held
    /\ TakeDone(f)
    /\ IF stage[f] = "ending" THEN StopAnnouncing(f) ELSE UNCHANGED lpdVars
    /\ UNCHANGED place

-----------------------------------------------------------------------------
Rest == UNCHANGED <<place, lpdVars>>

Handle(f) == Start(f) \/ Done(f) \/ (Refill(f) /\ Rest)

ConnectionsNext ==
    \/ \E c \in Conns :
          \/ Offer(c) \/ AcceptNewPeer(c) \/ HintNewPeer(c) \/ tryNewPeer(c)
          \/ connectToPeer(c) \/ Enqueue(c) \/ addPeerImp(c) \/ ClosePeer(c)
    \/ \E f \in Files :
          \/ (Creator(f) \/ SendDone(f)) /\ Rest
          \/ QuitBlocks(f) /\ Rest
          \/ Shutdown(f) \/ Handle(f) \/ Announce(f)
    \/ ~Held /\ Interrupt /\ Rest
    \/ Exited /\ Rest

ConnectionsSpec == ConnectionsInit /\ [][ConnectionsNext]_allVars

(* As in TorrentLoop: goroutines run on, a session that is asked to quit   *)
(* takes the message; moreover a session takes what is in addPeerChan      *)
(* until then.                                                             *)
ConnectionsFairSpec ==
    /\ ConnectionsSpec
    /\ \A f \in Files :
          /\ WF_allVars((Creator(f) \/ SendDone(f)) /\ Rest)
          /\ WF_allVars(f \in quitting /\ (Shutdown(f) \/ (QuitBlocks(f) /\ Rest)))
    /\ WF_allVars(\E f \in Files : Handle(f))
    /\ \A c \in Conns : WF_allVars(Enqueue(c)) /\ WF_allVars(addPeerImp(c))

-----------------------------------------------------------------------------
(* The main loop comes back from AddPeer.  It compared the length of       *)
(* addPeerChan before, but a dialling goroutine may have taken the place   *)
(* since, and the session may have ended before it makes room; all other   *)
(* sessions, and control-C, wait for the main loop meanwhile.  Only a      *)
(* session that is stuck in its last report, which neither makes room nor  *)
(* closes ts.ended, can keep it.                                           *)
MainReturns ==
    Held ~> (~Held \/ \E c \in Conns : /\ place[c] = "forwarded"
                                       /\ stage[Target[c]] = "stuck")

(* A session has at most MAX_NUM_PEERS peers, no two of them the same and  *)
(* none of them itself, though many goroutines are let in on the way to    *)
(* its table at a time when there was room.                                *)
TableSound ==
    \A f \in Files :
        /\ Cardinality(In(f, "peer")) <= MaxNumPeers
        /\ \A c, d \in In(f, "peer") : ID[c] = ID[d] => c = d
        /\ \A c \in In(f, "peer") : ID[c] # Self

(* A torrent is announced as long as DoTorrent runs, and once it is done   *)
(* only if its session was over before the goroutine of Announce had       *)
(* stored its ticker.                                                      *)
Announced ==
    \A f \in Files :
        /\ stage[f] \in {"running", "stuck"} => lpd[f] \in {"launched", "ticking"}
        /\ stage[f] = "finished" /\ lpd[f] = "ticking" => f \in hasty
=============================================================================
