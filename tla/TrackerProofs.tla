---------------------------- MODULE TrackerProofs ---------------------------
(***************************************************************************)
(* Proof that the tracker introduces the peers of a swarm to each other,   *)
(* for any number of clients at any addresses.                             *)
(***************************************************************************)
EXTENDS Tracker, FiniteSetTheorems, TLAPS

(* Who holds the lock for an announce has one. *)
LockHeld == \A c \in Clients : lock = c => request[c] # None

IInv == TypeOK /\ LockHeld /\ Introduced

(* There are finitely many addresses. *)
LEMMA FiniteKeys ==
    ASSUME NEW S, S \subseteq Keys
    PROVE  /\ IsFiniteSet(S) /\ Cardinality(S) \in Nat
           /\ Cardinality(S) <= Cardinality(Keys) /\ Cardinality(Keys) \in Nat
<1> DEFINE f == [c \in Clients |-> Key[c]]
<1>1. IsFiniteSet(Keys)
  <2>1. Keys = {f[c] : c \in Clients}
    BY DEF Keys
  <2>2. f \in Surjection(Clients, Keys)
    BY <2>1 DEF Surjection, Keys
  <2> QED BY <2>2, FS_Surjection, TrackerAssumption
<1> QED BY <1>1, FS_Subset, FS_CardinalityType

(* Who asks for as many peers as there are is told of all of them. *)
LEMMA AllPicked ==
    ASSUME NEW now \in SUBSET Keys, NEW k \in now, NEW n \in Int,
           NEW compact \in BOOLEAN,
           n <= 0 \/ n >= Cardinality(now) - 1,
           Cardinality(Keys) <= DefaultPeerCount + 1,
           NEW P \in pickRandomPeers(now, k, compact,
                                     Wanted(n, Cardinality(now))),
           NEW q \in now \cap V4, q # k
    PROVE  q \in P
<1> DEFINE E == {p \in now : p # k /\ (compact => p \in V4)}
           count == Wanted(n, Cardinality(now))
<1>1. /\ IsFiniteSet(now) /\ Cardinality(now) \in Nat
      /\ Cardinality(now) <= Cardinality(Keys) /\ Cardinality(Keys) \in Nat
  BY FiniteKeys
<1>2. IsFiniteSet(now \ {k}) /\ Cardinality(now \ {k}) = Cardinality(now) - 1
  BY <1>1, FS_RemoveElement
<1>3. /\ IsFiniteSet(E) /\ Cardinality(E) \in Nat
      /\ Cardinality(E) <= Cardinality(now) - 1
  BY <1>2, FS_Subset, FS_CardinalityType
<1>4. count \in Nat /\ count >= Cardinality(now) - 1
  BY <1>1, TrackerAssumption DEF Wanted
<1>5. P \subseteq E
  BY DEF pickRandomPeers
<1>6. count = 0 \/ Cardinality(E) < count => P = E
  BY DEF pickRandomPeers
<1>7. ~(count = 0 \/ Cardinality(E) < count) => Cardinality(P) = count
  BY DEF pickRandomPeers
<1> HIDE DEF count, E
<1>8. Cardinality(P) = Cardinality(E) => P = E
  BY <1>3, <1>5, FS_Subset
<1>9. Cardinality(P) <= Cardinality(E) /\ Cardinality(P) \in Nat
  BY <1>3, <1>5, FS_Subset, FS_CardinalityType
<1>10. P = E
  BY <1>1, <1>3, <1>4, <1>6, <1>7, <1>8, <1>9
<1> QED BY <1>10 DEF E

(* The announce of a registered torrent's client. *)
LEMMA UpdateTableOK ==
    ASSUME IInv, NEW c \in Clients, NEW params \in Params,
           request[c] # None, UpdateTable(c, params)
    PROVE  /\ table' \subseteq Keys /\ id' \in [Keys -> Clients]
           /\ lastSeen' \in [Keys -> 0 .. MaxTime]
           /\ crash' \in {"no", "map", "nil"}
           /\ told' \in [Keys -> SUBSET Keys] /\ content' \in [Keys -> BOOLEAN]
           /\ Introduced'
<1> DEFINE k == Key[c]
           stays == k \in table /\ id[k] = c /\ params.event # "stopped"
           now == IF params.event = "stopped" THEN table \ {k}
                                              ELSE table \cup {k}
           picked == pickRandomPeers(now, k, params.compact,
                                     Wanted(params.numWant, Cardinality(now)))
           asks == params.numWant <= 0 \/ params.numWant >= Cardinality(now) - 1
           base == IF stays THEN told ELSE Forget(k)
<1>1. k \in Keys /\ table' = now /\ now \subseteq Keys
  BY DEF Keys, UpdateTable, IInv, TypeOK
<1>2. PICK P \in picked :
         told' = [base EXCEPT ![k] = IF k \in now THEN @ \cup P ELSE {}]
  BY DEF UpdateTable
<1>3. content' = [content EXCEPT ![k] = k \in now /\ ((stays /\ @) \/ asks)]
  BY DEF UpdateTable
<1>4. P \subseteq now \ {k}
  BY DEF pickRandomPeers
<1>5. /\ base \in [Keys -> SUBSET Keys]
      /\ \A p \in Keys : p # k => base[p] = told[p] \/ base[p] = told[p] \ {k}
      /\ stays => base = told
  BY DEF Forget, IInv, TypeOK
<1>6. id' \in [Keys -> Clients] /\ lastSeen' \in [Keys -> 0 .. MaxTime]
  <2>1. 0 \in 0 .. MaxTime /\ request[c] \in 0 .. MaxTime
    BY TrackerAssumption DEF IInv, TypeOK
  <2> QED BY <2>1, <1>1 DEF UpdateTable, IInv, TypeOK
<1>7. crash' \in {"no", "map", "nil"}
  BY DEF UpdateTable, WriteTable
<1>8. content \in [Keys -> BOOLEAN] /\ table \subseteq Keys
  BY DEF IInv, TypeOK
<1>9. params.numWant \in Int /\ params.compact \in BOOLEAN
  BY TrackerAssumption DEF Params
<1> HIDE DEF now, base, stays, asks
<1>10. told' \in [Keys -> SUBSET Keys]
  BY <1>1, <1>2, <1>4, <1>5
<1>11. content' \in [Keys -> BOOLEAN]
  BY <1>1, <1>3, <1>8 DEF stays, asks
<1>12. /\ k \in now => told'[k] = base[k] \cup P
       /\ \A p \in Keys : p # k => told'[p] = base[p] /\ content'[p] = content[p]
       /\ content'[k] => (stays /\ content[k]) \/ asks
  BY <1>1, <1>2, <1>3, <1>5, <1>8
<1>13. ASSUME Cardinality(Keys) <= DefaultPeerCount + 1,
              NEW q \in now \cap V4, q # k, k \in now, k \in V4,
              content'[k], content'[q]
       PROVE  k \in told'[q] \/ q \in told'[k]
  <2>1. CASE asks
    <3>1. q \in P
      BY <1>1, <1>2, <1>9, <1>13, <2>1, AllPicked DEF asks
    <3> QED BY <3>1, <1>12, <1>13
  <2>2. CASE stays /\ content[k]
    <3>1. k \in table /\ q \in table
      BY <2>2, <1>13 DEF stays, now
    <3>2. content[q]
      BY <1>1, <1>12, <1>13
    <3>3. k \in told[q] \/ q \in told[k]
      BY <2>2, <3>1, <3>2, <1>13 DEF IInv, Introduced
    <3> QED BY <3>3, <2>2, <1>1, <1>5, <1>12, <1>13
  <2> QED BY <1>12, <1>13, <2>1, <2>2
<1>14. ASSUME Cardinality(Keys) <= DefaultPeerCount + 1,
              NEW p \in now \cap V4, NEW q \in now \cap V4, p # q,
              p # k, q # k, content'[p], content'[q]
       PROVE  p \in told'[q] \/ q \in told'[p]
  <2>1. p \in table /\ q \in table /\ content[p] /\ content[q]
    BY <1>1, <1>12, <1>14 DEF now
  <2>2. p \in told[q] \/ q \in told[p]
    BY <2>1, <1>14 DEF IInv, Introduced
  <2> QED BY <2>2, <1>1, <1>5, <1>12, <1>14
<1>15. Introduced'
  BY <1>1, <1>13, <1>14 DEF Introduced, Keys
<1> QED BY <1>1, <1>6, <1>7, <1>10, <1>11, <1>15

(* Entries that are removed from the table. *)
LEMMA KeepOK ==
    ASSUME IInv, NEW S \in SUBSET table, Keep(S)
    PROVE  /\ table' \subseteq Keys
           /\ lastSeen' \in [Keys -> 0 .. MaxTime]
           /\ told' \in [Keys -> SUBSET Keys] /\ content' \in [Keys -> BOOLEAN]
           /\ Introduced'
<1>1. 0 \in 0 .. MaxTime
  BY TrackerAssumption
<1>2. /\ table' \subseteq Keys
      /\ lastSeen' \in [Keys -> 0 .. MaxTime]
      /\ told' \in [Keys -> SUBSET Keys]
  BY <1>1 DEF Keep, IInv, TypeOK
<1>3. content' \in [Keys -> BOOLEAN]
  BY DEF Keep
<1>4. /\ table' = S /\ table \subseteq Keys
      /\ \A k \in S : told'[k] = told[k] \cap S /\ content'[k] = content[k]
  BY DEF Keep, IInv, TypeOK
<1>5. Introduced'
  BY <1>4 DEF IInv, Introduced, Keys
<1> QED BY <1>2, <1>3, <1>5

LEMMA NextIInv == IInv /\ [Next]_vars => IInv'
<1> SUFFICES ASSUME IInv, [Next]_vars PROVE IInv'
  OBVIOUS
<1> USE DEF tableVars, serveVars, heardVars
<1>1. ASSUME UNCHANGED <<table, heardVars>> PROVE Introduced'
  BY <1>1 DEF IInv, Introduced, Keys
<1>2. ASSUME NEW c \in Clients, Announce(c) PROVE IInv'
  <2>1. TypeOK' /\ LockHeld'
    BY <1>2, TrackerAssumption DEF Announce, Running, IInv, TypeOK, LockHeld
  <2> QED BY <2>1, <1>1, <1>2 DEF Announce, IInv
<1>3. ASSUME NEW c \in Clients, AnnounceLock(c) PROVE IInv'
  <2>1. TypeOK' /\ LockHeld'
    BY <1>3 DEF AnnounceLock, Running, IInv, TypeOK, LockHeld
  <2> QED BY <2>1, <1>1, <1>3 DEF AnnounceLock, IInv
<1>4. ASSUME NEW c \in Clients, AnnounceReply(c) PROVE IInv'
  <2>1. request[c] # None
    BY <1>4 DEF AnnounceReply, IInv, LockHeld
  <2>2. /\ table' \subseteq Keys /\ id' \in [Keys -> Clients]
        /\ lastSeen' \in [Keys -> 0 .. MaxTime]
        /\ crash' \in {"no", "map", "nil"}
        /\ told' \in [Keys -> SUBSET Keys] /\ content' \in [Keys -> BOOLEAN]
        /\ Introduced'
    <3>1. CASE registered
      BY <3>1, <2>1, <1>4, UpdateTableOK DEF AnnounceReply
    <3>2. CASE ~registered
      BY <3>2, <1>1, <1>4 DEF AnnounceReply, IInv, TypeOK
    <3> QED BY <3>1, <3>2
  <2>3. LockHeld'
    BY <1>4, TrackerAssumption DEF AnnounceReply, LockHeld
  <2> QED BY <2>2, <2>3, <1>4 DEF AnnounceReply, IInv, TypeOK
<1>5. ASSUME ScrapeBegin \/ ScrapeEnd \/ ReaperDone \/ Interrupt \/ QuitClose
             \/ QuitDone \/ QuitListener \/ Listen \/ ServeReturns \/ TimePasses
             \/ Register
      PROVE  IInv'
  <2>1. UNCHANGED <<table, id, lastSeen, lock, request, heardVars>>
    BY <1>5 DEF ScrapeBegin, ScrapeEnd, ReaperDone, Interrupt, QuitClose,
                QuitDone, QuitListener, Listen, ServeReturns, TimePasses, Register
  <2>2. time' \in 0 .. MaxTime
    <3>1. time' = time \/ (time < MaxTime /\ time' = time + 1)
      BY <1>5 DEF ScrapeBegin, ScrapeEnd, ReaperDone, Interrupt, QuitClose,
                  QuitDone, QuitListener, Listen, ServeReturns, TimePasses,
                  Register
    <3> QED BY <3>1, TrackerAssumption DEF IInv, TypeOK
  <2>5. /\ registered' \in BOOLEAN /\ scraping' \in BOOLEAN
        /\ reaper' \in {"waiting", "reaping", "done"}
    <3>1. registered \in BOOLEAN /\ scraping \in BOOLEAN
          /\ reaper \in {"waiting", "reaping", "done"}
      BY DEF IInv, TypeOK
    <3> QED BY <3>1, <1>5, Zenon
            DEF ScrapeBegin, ScrapeEnd, ReaperDone, Interrupt, QuitClose,
                QuitDone, QuitListener, Listen, ServeReturns, TimePasses,
                Register
  <2>3. /\ server' \in {"new", "serving", "ok", "error"}
        /\ quit' \in {"none", "called", "closing", "closed", "done"}
        /\ crash' \in {"no", "map", "nil"}
    BY <1>5 DEF ScrapeBegin, ScrapeEnd, ReaperDone, Interrupt, QuitClose,
                QuitDone, QuitListener, Listen, ServeReturns, TimePasses,
                Register, WriteTable, IInv, TypeOK
  <2>4. TypeOK' /\ LockHeld'
    BY <2>1, <2>2, <2>3, <2>5 DEF IInv, TypeOK, LockHeld
  <2> QED BY <2>1, <2>4, <1>1 DEF IInv
<1>6. CASE Unregister
  <2>1. Keep({}) /\ {} \in SUBSET table
    BY <1>6 DEF Unregister
  <2>2. LockHeld' /\ registered' = FALSE
    BY <1>6 DEF Unregister, IInv, LockHeld
  <2> QED BY <2>1, <2>2, <1>6, KeepOK DEF Unregister, WriteTable, IInv, TypeOK
<1>7. CASE ReaperLock
  <2>1. TypeOK' /\ LockHeld'
    BY <1>7, TrackerAssumption DEF ReaperLock, IInv, TypeOK, LockHeld
  <2> QED BY <2>1, <1>1, <1>7 DEF ReaperLock, IInv
<1>8. CASE Reap
  <2>1. PICK S \in SUBSET table : Keep(S)
    BY <1>8 DEF Reap
  <2>2. LockHeld'
    BY <1>8, TrackerAssumption DEF Reap, LockHeld
  <2> QED BY <2>1, <2>2, <1>8, KeepOK DEF Reap, WriteTable, IInv, TypeOK
<1>9. CASE UNCHANGED vars
  <2>1. TypeOK' /\ LockHeld'
    BY <1>9 DEF vars, IInv, TypeOK, LockHeld
  <2> QED BY <2>1, <1>1, <1>9 DEF vars, IInv
<1> QED BY <1>2, <1>3, <1>4, <1>5, <1>6, <1>7, <1>8, <1>9
        DEF Next, Serve, Quitting, Ended

(* The type invariant and Introduced: of any two peers in the table, one   *)
(* has heard of the other, whatever the clients, the reaper and the        *)
(* callers of Register and Unregister do.                                  *)
THEOREM IntroducedHolds == Spec => [](TypeOK /\ Introduced)
<1>1. Init => IInv
  <2> SUFFICES ASSUME Init PROVE IInv
    OBVIOUS
  <2>1. 0 \in 0 .. MaxTime
    BY TrackerAssumption
  <2>2. TypeOK
    BY <2>1 DEF Init, TypeOK
  <2>3. LockHeld
    BY TrackerAssumption DEF Init, LockHeld
  <2>4. Introduced
    BY DEF Init, Introduced
  <2> QED BY <2>2, <2>3, <2>4 DEF IInv
<1>2. IInv => TypeOK /\ Introduced
  BY DEF IInv
<1> QED BY <1>1, <1>2, NextIInv, PTL DEF Spec
=============================================================================
