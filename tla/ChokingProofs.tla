---------------------------- MODULE ChokingProofs ----------------------------
(***************************************************************************)
(* Proofs that Choking keeps its types and its upload slots for every set  *)
(* of connections and every number of slots.                               *)
(***************************************************************************)
EXTENDS Choking, FiniteSetTheorems, TLAPS

IInv == TypeOK /\ UploadSlots

(* The peers the policy picks fill at most the sorted slots and one more. *)
LEMMA ChosenFit ==
    ASSUME NEW S \in SUBSET Conns, NEW r, NEW T \in TopSets(S, r), NEW o
    PROVE  /\ Chosen(S, T, o) \subseteq S
           /\ Cardinality(Chosen(S, T, o)) <= HighBandwidthSlots + 1
<1>1. IsFiniteSet(S) /\ T \in SUBSET S
  BY ChokingAssumption, FS_Subset DEF TopSets
<1>2. IsFiniteSet(T) /\ Cardinality(T) \in Nat /\ Cardinality(S) \in Nat
  BY <1>1, FS_Subset, FS_CardinalityType
<1>3. Cardinality(T) <= HighBandwidthSlots
  BY <1>2, ChokingAssumption DEF TopSets
<1>4. /\ IsFiniteSet(T \cup {o})
      /\ Cardinality(T \cup {o}) <= Cardinality(T) + 1
      /\ Cardinality(T \cup {o}) \in Nat
  <2>1. /\ IsFiniteSet(T \cup {o})
        /\ Cardinality(T \cup {o}) = IF o \in T THEN Cardinality(T)
                                               ELSE Cardinality(T) + 1
    BY <1>2, FS_AddElement
  <2> QED BY <1>2, <2>1
<1>5. Chosen(S, T, o) \in SUBSET (T \cup {o})
  BY DEF Chosen
<1>6. /\ Cardinality(Chosen(S, T, o)) <= Cardinality(T \cup {o})
      /\ Cardinality(Chosen(S, T, o)) \in Nat
  BY <1>4, <1>5, FS_Subset, FS_CardinalityType
<1> QED BY <1>2, <1>3, <1>4, <1>6, ChokingAssumption DEF Chosen

(* A run of the policy, whatever called it. *)
LEMMA ChokePeersOK ==
    ASSUME IInv, NEW now \in SUBSET peers, NEW o \in Slots, chokePeers(now, o)
    PROVE  /\ peers' = peers
           /\ interested' \subseteq peers'
           /\ unchoked' \subseteq peers'
           /\ rate' \in [Conns -> 0 .. MaxRate]
           /\ optimist' \in Conns \cup {None}
           /\ counter' \in 0 .. OptimisticUnchokeCount - 1
           /\ UploadSlots'
<1>1. PICK T \in TopSets(now, rate') :
         /\ Choke(now, T, o)
         /\ unchoked' = (unchoked \ now) \cup Chosen(now, T, o)
  BY DEF chokePeers
<1>2. now \in SUBSET Conns /\ interested' = now /\ peers' = peers
  BY DEF chokePeers, IInv, TypeOK
<1>3. interested' \cap unchoked' = Chosen(now, T, o)
  BY <1>1, <1>2, ChosenFit
<1>4. UploadSlots'
  BY <1>1, <1>2, <1>3, ChosenFit DEF UploadSlots
<1>5. unchoked' \subseteq peers'
  BY <1>1, <1>2, ChosenFit DEF IInv, TypeOK
<1>6. rate' \in [Conns -> 0 .. MaxRate]
  BY ChokingAssumption DEF chokePeers, computeDownloadRate, IInv, TypeOK
<1>7. /\ optimist' \in Conns \cup {None}
      /\ counter' \in 0 .. OptimisticUnchokeCount - 1
  BY <1>1, <1>2, ChokingAssumption DEF Choke, Keeps, IInv, TypeOK
<1> QED BY <1>2, <1>4, <1>5, <1>6, <1>7

(* Losing a peer frees slots. *)
LEMMA FewerFit ==
    ASSUME IInv, interested' \cap unchoked' \subseteq interested \cap unchoked
    PROVE  UploadSlots'
<1>1. IsFiniteSet(interested \cap unchoked)
  BY ChokingAssumption, FS_Subset DEF IInv, TypeOK
<1>2. /\ Cardinality(interested' \cap unchoked')
            <= Cardinality(interested \cap unchoked)
      /\ Cardinality(interested' \cap unchoked') \in Nat
      /\ Cardinality(interested \cap unchoked) \in Nat
  BY <1>1, FS_Subset, FS_CardinalityType
<1> QED BY <1>2, ChokingAssumption DEF IInv, UploadSlots

LEMMA NextIInv == IInv /\ [Next]_vars => IInv'
<1> SUFFICES ASSUME IInv, [Next]_vars PROVE IInv'
  OBVIOUS
<1>1. ASSUME NEW c \in Conns, AddPeer(c) PROVE IInv'
  <2>1. TypeOK'
    BY <1>1, ChokingAssumption DEF AddPeer, IInv, TypeOK
  <2>2. UploadSlots'
    BY <1>1, FewerFit DEF AddPeer
  <2> QED BY <2>1, <2>2 DEF IInv
<1>2. ASSUME NEW c \in Conns, ClosePeer(c) PROVE IInv'
  <2>1. TypeOK'
    BY <1>2 DEF ClosePeer, IInv, TypeOK
  <2>2. UploadSlots'
    BY <1>2, FewerFit DEF ClosePeer
  <2> QED BY <2>1, <2>2 DEF IInv
<1>3. ASSUME NEW c \in Conns, NEW n \in 1 .. MaxRate, creditDownload(c, n)
      PROVE  IInv'
  <2>1. TypeOK'
    BY <1>3, ChokingAssumption DEF creditDownload, IInv, TypeOK
  <2>2. UploadSlots'
    BY <1>3, FewerFit DEF creditDownload
  <2> QED BY <2>1, <2>2 DEF IInv
<1>4. ASSUME NEW c \in Conns, Interested(c) PROVE IInv'
  <2>1. PICK o \in Slots : chokePeers((interested \cup {c}) \cap peers, o)
    BY <1>4 DEF Interested
  <2>2. (interested \cup {c}) \cap peers \in SUBSET peers
    OBVIOUS
  <2>3. peers \subseteq Conns
    BY DEF IInv, TypeOK
  <2> QED BY <2>1, <2>2, <2>3, ChokePeersOK DEF IInv, TypeOK
<1>5. ASSUME NEW c \in Conns, NotInterested(c) PROVE IInv'
  <2>1. PICK o \in Slots : chokePeers(interested \ {c}, o)
    BY <1>5 DEF NotInterested
  <2>2. interested \ {c} \in SUBSET peers
    BY DEF IInv, TypeOK
  <2>3. peers \subseteq Conns
    BY DEF IInv, TypeOK
  <2> QED BY <2>1, <2>2, <2>3, ChokePeersOK DEF IInv, TypeOK
<1>6. ASSUME NEW o \in Slots, Tick(o) PROVE IInv'
  <2>1. chokePeers(interested, o) /\ interested \in SUBSET peers
    BY <1>6 DEF Tick, IInv, TypeOK
  <2>2. peers \subseteq Conns
    BY DEF IInv, TypeOK
  <2> QED BY <2>1, <2>2, ChokePeersOK DEF IInv, TypeOK
<1>7. CASE UNCHANGED vars
  BY <1>7, FewerFit DEF vars, IInv, TypeOK
<1> QED BY <1>1, <1>2, <1>3, <1>4, <1>5, <1>6, <1>7 DEF Next

(* TypeOK and UploadSlots: whatever the peers do, at most                  *)
(* HIGH_BANDWIDTH_SLOTS + 1 interested peers are unchoked.                 *)
THEOREM UploadSlotsHold == Spec => [](TypeOK /\ UploadSlots)
<1>1. Init => IInv
  <2> SUFFICES ASSUME Init PROVE IInv
    OBVIOUS
  <2>1. TypeOK
    BY ChokingAssumption DEF Init, TypeOK
  <2>2. Cardinality(interested \cap unchoked) = 0
    BY FS_EmptySet DEF Init
  <2> QED BY <2>1, <2>2, ChokingAssumption DEF IInv, UploadSlots
<1> QED BY <1>1, NextIInv, PTL DEF Spec, IInv
=============================================================================
