------------------------------ MODULE Choking ------------------------------
(***************************************************************************)
(* Whom the session uploads to: ClassicChokePolicy (torrent/choker.go),    *)
(* chokePeers and the two messages that trigger it (torrent/torrent.go),   *)
(* and the download rate the policy sorts by (torrent/accumulator.go).     *)
(*                                                                         *)
(* Everything here runs in the DoTorrent goroutine; peers, messages and    *)
(* the 10-second ticks reach it in any order.                              *)
(***************************************************************************)
EXTENDS Integers, FiniteSets

CONSTANTS
    Conns,                   \* connections (peerState values)
    HighBandwidthSlots,      \* HIGH_BANDWIDTH_SLOTS
    OptimisticUnchokeCount,  \* OPTIMISTIC_UNCHOKE_COUNT
    MaxRate,                 \* bound on the rate of a delivery
    None                     \* no optimistic unchoke yet

ASSUME ChokingAssumption ==
    /\ IsFiniteSet(Conns)
    /\ HighBandwidthSlots \in Nat
    /\ OptimisticUnchokeCount \in Nat \ {0}
    /\ MaxRate \in Nat
    /\ None \notin Conns

VARIABLES
    peers,        \* registered connections
    interested,   \* those with p.peer_interested
    unchoked,     \* those with ~p.am_choking
    rate,         \* p.downloaded.rate
    optimist,     \* ccp.optimisticUnchoker, possibly of a closed peer
    counter       \* ccp.counter

vars == <<peers, interested, unchoked, rate, optimist, counter>>

TypeOK ==
    /\ peers \subseteq Conns
    /\ interested \subseteq peers
    /\ unchoked \subseteq peers
    /\ rate \in [Conns -> 0 .. MaxRate]
    /\ optimist \in Conns \cup {None}
    /\ counter \in 0 .. OptimisticUnchokeCount - 1

Init ==
    /\ peers = {}
    /\ interested = {}
    /\ unchoked = {}
    /\ rate = [c \in Conns |-> 0]
    /\ optimist = None
    /\ counter = 0

-----------------------------------------------------------------------------
(* ClassicChokePolicy.                                                     *)

(* What sort.Sort may put in the first slots: any of the fastest. *)
TopSets(S, r) ==
    {T \in SUBSET S :
        /\ Cardinality(T) = IF Cardinality(S) <= HighBandwidthSlots
                            THEN Cardinality(S) ELSE HighBandwidthSlots
        /\ \A t \in T, s \in S \ T : r[t] >= r[s]}

(* The optimist is found below the first slots, and its time is not up. *)
Keeps(S, T) ==
    /\ optimist \in S \ T
    /\ counter + 1 < OptimisticUnchokeCount

(* Choke on the interested peers S, sorted so that T come first; o takes   *)
(* the slot after them, if there is anybody left for it.                   *)
Choke(S, T, o) ==
    IF Keeps(S, T)
    THEN /\ o = optimist
         /\ counter' = counter + 1
         /\ UNCHANGED optimist
    ELSE IF S # T
    THEN /\ o \in S \ T
         /\ counter' = 0
         /\ optimist' = o
    ELSE /\ o = None
         /\ UNCHANGED <<counter, optimist>>

(* computeDownloadRate for a peer.  The Accumulator inside a peerState is  *)
(* never set up by NewAccumulator, so its maxRatePeriod is zero and every  *)
(* Add starts a new period: asking for the rate adds nothing over the time *)
(* since the last block, and the rate becomes zero.                        *)
computeDownloadRate(r, S) == [c \in Conns |-> IF c \in S THEN 0 ELSE r[c]]

(* Mutants: whoever was unchoked stays so; the optimist is left out. *)
MutChosenSticky(S, T, o) == {c \in S : c \in T \/ c = o \/ c \in unchoked}
MutChosenShort(S, T, o) == T

(* The first unchokeCount of the list: the sorted slots and the optimist. *)
Chosen(S, T, o) == {c \in S : c \in T \/ c = o}

(***************************************************************************)
(* chokePeers, called when `now' are the interested peers.  Peers that are *)
(* not interested are not passed to the policy and stay as they are.       *)
(***************************************************************************)
chokePeers(now, o) ==
    /\ interested' = now
    /\ rate' = computeDownloadRate(rate, now)
    /\ \E T \in TopSets(now, rate') :
          /\ Choke(now, T, o)
          /\ unchoked' = (unchoked \ now) \cup Chosen(now, T, o)
    /\ UNCHANGED peers

-----------------------------------------------------------------------------

Slots == Conns \cup {None}

(* addPeerImp: a new peerState chokes and is not interested. *)
AddPeer(c) ==
    /\ c \notin peers
    /\ peers' = peers \cup {c}
    /\ rate' = [rate EXCEPT ![c] = 0]
    /\ optimist' = IF optimist = c THEN None ELSE optimist
    /\ UNCHANGED <<interested, unchoked, counter>>

(* ClosePeer does not run the policy: the slot stays empty until it runs. *)
ClosePeer(c) ==
    /\ c \in peers
    /\ peers' = peers \ {c}
    /\ interested' = interested \ {c}
    /\ unchoked' = unchoked \ {c}
    /\ UNCHANGED <<rate, optimist, counter>>

(* A PIECE message: creditDownload(length).  With periods of length zero   *)
(* the rate is that of this block alone.                                   *)
creditDownload(c, n) ==
    /\ c \in peers
    /\ rate' = [rate EXCEPT ![c] = n]
    /\ UNCHANGED <<peers, interested, unchoked, optimist, counter>>

(* INTERESTED and NOT_INTERESTED run the policy at once, even if c is gone *)
(* and the message is one that its reader still held.                      *)
Interested(c) ==
    \E o \in Slots : chokePeers((interested \cup {c}) \cap peers, o)

NotInterested(c) == \E o \in Slots : chokePeers(interested \ {c}, o)

(* chokePolicyHeartbeat, every 10 seconds. *)
Tick(o) == chokePeers(interested, o)

Next ==
    \/ \E c \in Conns : \/ AddPeer(c)
                        \/ ClosePeer(c)
                        \/ \E n \in 1 .. MaxRate : creditDownload(c, n)
                        \/ Interested(c)
                        \/ NotInterested(c)
    \/ \E o \in Slots : Tick(o)

Spec == Init /\ [][Next]_vars

-----------------------------------------------------------------------------
(* At most unchokeCount interested peers are unchoked, however interest,   *)
(* ticks and departures follow each other; in particular a peer that lost  *)
(* interest while unchoked, which chokePeers then leaves unchoked, takes   *)
(* no extra slot when it is interested again.                              *)
UploadSlots ==
    Cardinality(interested \cap unchoked) <= HighBandwidthSlots + 1

(* Ticks keep coming, and rand.Intn picks every candidate now and then. *)
FairSpec ==
    /\ Spec
    /\ WF_vars(\E o \in Slots : Tick(o))
    /\ \A c \in Conns : SF_vars(Tick(c))

(* Nobody starves: a peer that stays connected and interested is unchoked  *)
(* again and again, if only by its turn as the optimist.                   *)
NobodyStarves ==
    \A c \in Conns : <>[](c \in interested) => []<>(c \in unchoked)

=============================================================================
