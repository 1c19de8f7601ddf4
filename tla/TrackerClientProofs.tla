------------------------- MODULE TrackerClientProofs ------------------------
(***************************************************************************)
(* Proofs about the tracker client: that the announce list keeps its       *)
(* trackers, for any number of levels of any size, and that the query of a *)
(* UDP tracker takes no wrong answer, for any number of connection         *)
(* requests.                                                               *)
(***************************************************************************)
EXTENDS TrackerClient, UdpTracker, TLAPS

(* A position is a level and a place in it. *)
LEMMA PositionFacts ==
    /\ \A p \in Positions : /\ p[1] \in Levels /\ p[2] \in 1 .. LevelSize[p[1]]
                            /\ p = <<p[1], p[2]>>
    /\ \A l \in Levels, i \in Nat :
          1 <= i /\ i <= LevelSize[l] => <<l, i>> \in Positions
  BY ClientAssumption DEF Positions

(* Moving a tracker to the front permutes its level. *)
LEMMA MoveToFrontOK ==
    ASSUME announceList \in [Positions -> Trackers], NEW p \in Positions,
           NEW l \in Levels
    PROVE  /\ MoveToFront(p) \in [Positions -> Trackers]
           /\ TrackersOf(MoveToFront(p), l) = TrackersOf(announceList, l)
<1> DEFINE new == MoveToFront(p)
           back(q) == <<q[1], q[2] - 1>>
           forth(q) == <<q[1], q[2] + 1>>
<1>0. /\ p[1] \in Levels /\ p[2] \in Nat /\ 1 <= p[2] /\ p[2] <= LevelSize[p[1]]
      /\ LevelSize[p[1]] \in Nat
  BY PositionFacts, ClientAssumption
<1>1. ASSUME NEW q \in Positions, q[1] = p[1], q[2] <= p[2], q[2] # 1
      PROVE  back(q) \in Positions /\ back(q)[1] = q[1]
  <2>1. q[1] \in Levels /\ q[2] \in Nat /\ 1 <= q[2] /\ q[2] <= LevelSize[q[1]]
    BY PositionFacts, ClientAssumption
  <2>2. q[2] - 1 \in Nat /\ 1 <= q[2] - 1 /\ q[2] - 1 <= LevelSize[q[1]]
    BY <1>0, <1>1, <2>1
  <2> QED BY <2>1, <2>2, PositionFacts
<1>2. ASSUME NEW q \in Positions, q[1] = p[1], q[2] < p[2]
      PROVE  /\ forth(q) \in Positions /\ forth(q)[1] = q[1]
             /\ forth(q)[2] <= p[2] /\ forth(q)[2] # 1
             /\ back(forth(q)) = q
  <2>1. q[1] \in Levels /\ q[2] \in Nat /\ 1 <= q[2] /\ q = <<q[1], q[2]>>
    BY PositionFacts, ClientAssumption
  <2>2. /\ q[2] + 1 \in Nat /\ 1 <= q[2] + 1 /\ q[2] + 1 <= LevelSize[q[1]]
        /\ q[2] + 1 <= p[2] /\ q[2] + 1 # 1 /\ (q[2] + 1) - 1 = q[2]
    BY <1>0, <1>2, <2>1
  <2> QED BY <2>1, <2>2, PositionFacts
<1>3. <<p[1], 1>> \in Positions
  BY <1>0, PositionFacts
<1>4. ASSUME NEW q \in Positions
      PROVE  \E r \in Positions : r[1] = q[1] /\ new[q] = announceList[r]
  <2>1. CASE q[1] # p[1] \/ q[2] > p[2]
    <3>1. new[q] = announceList[q]
      BY <2>1 DEF MoveToFront
    <3> QED BY <3>1
  <2>2. CASE q[1] = p[1] /\ ~(q[2] > p[2]) /\ q[2] = 1
    <3>1. new[q] = announceList[p]
      BY <2>2 DEF MoveToFront
    <3> QED BY <3>1, <2>2
  <2>3. CASE q[1] = p[1] /\ ~(q[2] > p[2]) /\ q[2] # 1
    <3>1. new[q] = announceList[back(q)]
      BY <2>3 DEF MoveToFront
    <3>2. q[2] <= p[2]
      BY <2>3, <1>0, PositionFacts, ClientAssumption
    <3>3. back(q) \in Positions /\ back(q)[1] = q[1]
      BY <1>1, <2>3, <3>2
    <3> HIDE DEF back, new
    <3> QED BY <3>1, <3>3
  <2> QED BY <2>1, <2>2, <2>3
<1>5. /\ new \in [Positions -> Trackers]
      /\ \A q \in Positions : q[1] = l => new[q] \in TrackersOf(announceList, l)
  <2>1. new = [q \in Positions |-> new[q]]
    BY DEF MoveToFront
  <2> HIDE DEF new
  <2>2. \A q \in Positions : new[q] \in Trackers
    BY <1>4
  <2>3. \A q \in Positions : q[1] = l => new[q] \in TrackersOf(announceList, l)
    BY <1>4 DEF TrackersOf
  <2> QED BY <2>1, <2>2, <2>3
<1>6. ASSUME NEW q \in Positions, q[1] = l
      PROVE  announceList[q] \in TrackersOf(new, l)
  <2>1. CASE q[1] # p[1] \/ q[2] > p[2]
    <3>1. new[q] = announceList[q]
      BY <2>1 DEF MoveToFront
    <3> QED BY <3>1, <1>6 DEF TrackersOf
  <2>2. CASE q[1] = p[1] /\ q[2] < p[2]
    <3>1. /\ forth(q) \in Positions /\ forth(q)[1] = l
          /\ forth(q)[2] <= p[2] /\ forth(q)[2] # 1
          /\ back(forth(q)) = q
      BY <1>2, <1>6, <2>2
    <3>2. ~(forth(q)[2] > p[2])
      BY <3>1, <1>0, PositionFacts, ClientAssumption
    <3>3. new[forth(q)] = announceList[back(forth(q))]
      BY <3>1, <3>2, <1>6, <2>2 DEF MoveToFront
    <3> QED BY <3>1, <3>3 DEF TrackersOf
  <2>3. CASE q[1] = p[1] /\ q[2] = p[2]
    <3>1. q = p
      BY <2>3, PositionFacts
    <3>2. new[<<p[1], 1>>] = announceList[p]
      BY <1>0, <1>3 DEF MoveToFront
    <3> QED BY <1>3, <1>6, <3>1, <3>2 DEF TrackersOf
  <2> QED BY <2>1, <2>2, <2>3, <1>0, PositionFacts, ClientAssumption
<1> HIDE DEF new
<1>7. TrackersOf(new, l) = TrackersOf(announceList, l)
  BY <1>5, <1>6 DEF TrackersOf
<1> QED BY <1>5, <1>7 DEF new

(* The type invariant and TrackersKept: whatever the trackers answer, the  *)
(* list the client works through is the one of the torrent.                *)
THEOREM TrackersKeptHolds == Spec => [](TypeOK /\ TrackersKept)
<1> DEFINE Inv == TypeOK /\ TrackersKept
<1>1. Init => Inv
  BY DEF Init, TypeOK, TrackersKept, Responses
<1>2. Inv /\ [Next]_vars => Inv'
  <2> SUFFICES ASSUME Inv, [Next]_vars PROVE Inv'
    OBVIOUS
  <2> USE DEF sessionVars, queryVars
  <2>1. ASSUME UNCHANGED announceList PROVE TrackersKept'
    BY <2>1 DEF TrackersKept, TrackersOf
  <2>2. CASE Report
    BY <2>1, <2>2 DEF Report, TypeOK
  <2>3. CASE TakeQuit
    BY <2>1, <2>3 DEF TakeQuit, TypeOK
  <2>4. CASE Achieved
    BY <2>1, <2>4 DEF Achieved, TypeOK
  <2>5. CASE Relay
    BY <2>1, <2>5 DEF Relay, TypeOK
  <2>6. CASE QueryTake
    BY <2>1, <2>6 DEF QueryTake, TypeOK, Responses
  <2>7. ASSUME NEW p \in Positions, Succeed(p) PROVE Inv'
    <3>1. /\ announceList' \in [Positions -> Trackers]
          /\ \A l \in Levels : TrackersOf(announceList', l) = AnnounceList[l]
      <4>1. \A l \in Levels : /\ MoveToFront(p) \in [Positions -> Trackers]
                              /\ TrackersOf(MoveToFront(p), l) = AnnounceList[l]
        BY MoveToFrontOK DEF TypeOK, TrackersKept
      <4>2. Levels # {}
        BY PositionFacts
      <4> QED BY <2>7, <4>1, <4>2 DEF Succeed
    <3>2. TypeOK'
      BY <2>7, <3>1 DEF Succeed, TypeOK, Responses
    <3> QED BY <3>1, <3>2 DEF TrackersKept, TrackersOf
  <2>8. ASSUME NEW p \in Positions, NEW r \in {"nil", "failure"}, Fail(p, r)
        PROVE  Inv'
    BY <2>1, <2>8 DEF Fail, TypeOK, Responses
  <2>9. CASE GiveUp
    BY <2>1, <2>9 DEF GiveUp, TypeOK
  <2>10. CASE TakeInfo
    BY <2>1, <2>10 DEF TakeInfo, TypeOK
  <2>11. CASE UNCHANGED vars
    BY <2>1, <2>11 DEF vars, TypeOK
  <2> QED BY <2>2, <2>3, <2>4, <2>5, <2>6, <2>7, <2>8, <2>9, <2>10, <2>11
          DEF Next, QueryStep, Over
<1> QED BY <1>1, <1>2, PTL DEF Spec

-----------------------------------------------------------------------------
(* What becomes of the reports of a session. *)

(* The relay keeps, and the query takes, reports in the order in which     *)
(* DoTorrent made them; one that waits is later than all these; and the    *)
(* latest one waits, is kept, or was taken.                                *)
InOrder ==
    /\ session \in {"report", "stop"} => recentReport < reported /\ report < reported
    /\ recentReport # 0 => report < recentReport

LatestKept ==
    reported > 0 => \/ session \in {"report", "stop"}
                    \/ recentReport = reported
                    \/ report = reported

Reports == TypeOK /\ InOrder /\ LatestKept

(* Whatever the query goroutine is doing, and however many reports come    *)
(* while it does.                                                          *)
LEMMA ReportsHold == Spec => []Reports
<1>1. Init => InOrder /\ LatestKept
  BY DEF Init, InOrder, LatestKept
<1>2. TypeOK /\ InOrder /\ LatestKept /\ [Next]_vars => InOrder' /\ LatestKept'
  <2> SUFFICES ASSUME TypeOK, InOrder, LatestKept, [Next]_vars
               PROVE  InOrder' /\ LatestKept'
    OBVIOUS
  <2> USE DEF sessionVars, queryVars, InOrder, LatestKept, TypeOK
  <2>1. CASE Report
    BY <2>1 DEF Report
  <2>2. CASE TakeQuit
    BY <2>2 DEF TakeQuit
  <2>3. CASE Achieved
    BY <2>3 DEF Achieved
  <2>4. CASE Relay
    BY <2>4 DEF Relay
  <2>5. CASE QueryTake
    BY <2>5 DEF QueryTake
  <2>6. ASSUME NEW p \in Positions, Succeed(p) PROVE InOrder' /\ LatestKept'
    BY <2>6 DEF Succeed
  <2>7. ASSUME NEW p \in Positions, NEW response \in {"nil", "failure"},
               Fail(p, response)
        PROVE  InOrder' /\ LatestKept'
    BY <2>7 DEF Fail
  <2>8. CASE GiveUp
    BY <2>8 DEF GiveUp
  <2>9. CASE TakeInfo
    BY <2>9 DEF TakeInfo
  <2>10. CASE UNCHANGED vars
    BY <2>10 DEF vars
  <2> QED BY <2>1, <2>2, <2>3, <2>4, <2>5, <2>6, <2>7, <2>8, <2>9, <2>10
          DEF Next, QueryStep, Over
<1> QED BY <1>1, <1>2, TrackersKeptHolds, PTL DEF Spec, Reports

(* The relay forgets old reports only: the latest report of the session is *)
(* waiting for the relay, with it, or announced, even while a tracker does *)
(* not answer.                                                             *)
THEOREM LatestKeptHolds == Spec => []LatestKept
<1>1. Reports => LatestKept
  BY DEF Reports
<1> QED BY <1>1, ReportsHold, PTL

(* No report is announced twice, and none after a later one: "stopped" is  *)
(* never followed by the report of a timer.                                *)
THEOREM ReportsInOrderHolds == Spec => [][report' # report => report' > report]_vars
<1>1. Reports /\ [Next]_vars => [report' # report => report' > report]_vars
  <2> SUFFICES ASSUME Reports, Next, report' # report PROVE report' > report
    OBVIOUS
  <2>1. QueryTake
    BY DEF Next, Report, TakeQuit, Achieved, Relay, QueryStep, Succeed, Fail,
           GiveUp, TakeInfo, Over, vars, queryVars, sessionVars
  <2> QED BY <2>1 DEF QueryTake, Reports, InOrder, TypeOK
<1> QED BY <1>1, ReportsHold, PTL DEF Spec

-----------------------------------------------------------------------------
(* The order in which queryTrackers goes through its tiers. *)

(* Trackers that failed in this query come before all others; a query that *)
(* is not over has had no answer yet; and a response that says the query   *)
(* has failed is one of the last tracker of the last tier.                 *)
TiersInOrder ==
    /\ query = "asking" =>
          /\ tr # "ok"
          /\ \A p \in tried, q \in Positions : Before(q, p) => q \in tried
    /\ query = "responding" /\ tr # "ok" => tr = "failure" /\ tried = Positions

(* queryTrackers asks a tier only when all trackers of the tiers before it *)
(* have failed in the same query, and the session is told of a failure     *)
(* only when every tracker of the torrent has failed: none is left out     *)
(* because of what was tried for an earlier report, nor because a tracker  *)
(* answered with a failure reason.                                         *)
THEOREM TiersInOrderHolds == Spec => []TiersInOrder
<1>1. Init => TiersInOrder
  BY DEF Init, TiersInOrder
<1>2. TypeOK /\ TiersInOrder /\ [Next]_vars => TiersInOrder'
  <2> SUFFICES ASSUME TypeOK, TiersInOrder, [Next]_vars PROVE TiersInOrder'
    OBVIOUS
  <2>0. UNCHANGED Positions
    BY DEF Positions, Levels
  <2> USE DEF queryVars, sessionVars
  <2>1. ASSUME UNCHANGED <<query, tried, tr>> PROVE TiersInOrder'
    BY <2>1 DEF TiersInOrder
  <2>2. CASE Report \/ TakeQuit \/ Achieved \/ Relay
    BY <2>1, <2>2 DEF Report, TakeQuit, Achieved, Relay
  <2>3. CASE QueryTake
    BY <2>3 DEF QueryTake, TiersInOrder
  <2>4. ASSUME NEW p \in Positions, Succeed(p) PROVE TiersInOrder'
    BY <2>4 DEF Succeed, TiersInOrder
  <2>5. ASSUME NEW p \in Positions, NEW response \in {"nil", "failure"},
               Fail(p, response)
        PROVE  TiersInOrder'
    <3>1. /\ query = "asking" /\ query' = "asking" /\ tried' = tried \cup {p}
          /\ tr' = response
          /\ \A q \in Positions : Before(q, p) => q \in tried
      BY <2>5 DEF Fail, IsNext
    <3>2. \A r \in tried', q \in Positions : Before(q, r) => q \in tried'
      BY <3>1 DEF TiersInOrder
    <3> QED BY <3>1, <3>2 DEF TiersInOrder
  <2>6. CASE GiveUp
    BY <2>6 DEF GiveUp, TiersInOrder, TypeOK, Responses
  <2>7. CASE TakeInfo
    BY <2>7 DEF TakeInfo, TiersInOrder
  <2>8. CASE UNCHANGED vars
    BY <2>1, <2>8 DEF vars
  <2> QED BY <2>2, <2>3, <2>4, <2>5, <2>6, <2>7, <2>8 DEF Next, QueryStep, Over
<1> QED BY <1>1, <1>2, TrackersKeptHolds, PTL DEF Spec

-----------------------------------------------------------------------------
(* The query of a UDP tracker. *)

(* There is a connection id only after an answer, and an announcement only *)
(* after a connection; without a connection id the deadline has passed.    *)
Order ==
    /\ phase \in {"connect", "connecting"} => ~connectionID
    /\ phase \in {"connect", "connecting", "announce"} =>
          announcement \notin requests
    /\ phase = "announce" => expired \/ connectionID

UdpInv == UdpTypeOK /\ Order /\ AnnounceConnected /\ AnswersMatch

-----------------------------------------------------------------------------
LEMMA UdpInitOK == UdpInit => UdpInv
<1> SUFFICES ASSUME UdpInit PROVE UdpInv
  OBVIOUS
<1>1. 0 \in Attempts
  BY UdpAssumption DEF Attempts
<1>2. UdpTypeOK
  BY <1>1 DEF UdpInit, UdpTypeOK
<1>3. Order /\ AnnounceConnected
  BY DEF UdpInit, Order, AnnounceConnected
<1>4. AnswersMatch
  BY DEF UdpInit, AnswersMatch
<1> QED BY <1>2, <1>3, <1>4 DEF UdpInv

LEMMA UdpNextOK == UdpInv /\ [UdpNext]_udpVars => UdpInv'
<1> SUFFICES ASSUME UdpInv, [UdpNext]_udpVars PROVE UdpInv'
  OBVIOUS
<1> USE DEF UdpInv
<1>0. /\ Retries \in Nat /\ 0 < Retries
      /\ \A a \in Attempts : a \in Transactions /\ a # announcement
      /\ announcement \in Transactions
  BY UdpAssumption DEF Attempts, Transactions, announcement
<1>1. CASE SendConnect
  <2>1. retry # announcement /\ requests' \subseteq Transactions
    BY <1>0, <1>1 DEF SendConnect, UdpTypeOK
  <2> QED BY <1>1, <2>1 DEF SendConnect, UdpTypeOK, Order, AnnounceConnected,
                             AnswersMatch
<1>2. CASE ConnectTimeout
  <2>1. retry' \in Attempts
    BY <1>0, <1>2 DEF ConnectTimeout, UdpTypeOK, Attempts
  <2> QED BY <1>2, <2>1 DEF ConnectTimeout, UdpTypeOK, Order, AnnounceConnected,
                             AnswersMatch
<1>3. ASSUME NEW r \in responses, ReadConnect(r) PROVE UdpInv'
  <2>1. r \in UdpResponses
    BY DEF UdpTypeOK
  <2>2. IsConnectResponse(r) => r = [kind |-> "connect", transaction |-> retry]
    BY <2>1 DEF UdpResponses, IsConnectResponse
  <2>3. UdpTypeOK' /\ Order' /\ AnnounceConnected'
    BY <1>3 DEF ReadConnect, UdpTypeOK, Order, AnnounceConnected
  <2> QED BY <1>3, <2>2, <2>3 DEF ReadConnect, AnswersMatch
<1>4. CASE SendAnnounce
  <2>1. requests' \subseteq Transactions
    BY <1>0, <1>4 DEF SendAnnounce, UdpTypeOK
  <2> QED BY <1>4, <2>1 DEF SendAnnounce, UdpTypeOK, Order, AnnounceConnected,
                             AnswersMatch
<1>5. CASE AnnounceTimeout \/ Error \/ DeadlineExpires
  <2>1. CASE AnnounceTimeout
    BY <2>1 DEF AnnounceTimeout, UdpTypeOK, Order, AnnounceConnected, AnswersMatch
  <2>2. CASE Error
    BY <2>2 DEF Error, UdpTypeOK, Order, AnnounceConnected, AnswersMatch
  <2>3. CASE DeadlineExpires
    BY <2>3 DEF DeadlineExpires, UdpTypeOK, Order, AnnounceConnected, AnswersMatch
  <2> QED BY <1>5, <2>1, <2>2, <2>3
<1>6. ASSUME NEW r \in responses, ReadAnnounce(r) PROVE UdpInv'
  <2>1. r \in UdpResponses
    BY DEF UdpTypeOK
  <2>2. IsAnnounceResponse(r) =>
           r = [kind |-> r.kind, transaction |-> announcement] /\ r.kind \in Kinds
    BY <2>1 DEF UdpResponses, IsAnnounceResponse
  <2>3. UdpTypeOK' /\ Order' /\ AnnounceConnected'
    BY <1>6, <2>2 DEF ReadAnnounce, UdpTypeOK, Order, AnnounceConnected
  <2> QED BY <1>6, <2>2, <2>3 DEF ReadAnnounce, AnswersMatch
<1>7. ASSUME NEW t \in requests, NEW kind \in Kinds, Respond(t, kind)
      PROVE  UdpInv'
  <2>1. responses' \subseteq UdpResponses /\ responses \subseteq responses'
    BY <1>7 DEF Respond, UdpTypeOK, UdpResponses
  <2> QED BY <1>7, <2>1 DEF Respond, UdpTypeOK, Order, AnnounceConnected,
                             AnswersMatch
<1>8. CASE UNCHANGED udpVars
  BY <1>8 DEF udpVars, UdpTypeOK, Order, AnnounceConnected, AnswersMatch
<1> QED BY <1>1, <1>2, <1>3, <1>4, <1>5, <1>6, <1>7, <1>8
        DEF UdpNext, Client, Returned

(* UdpTypeOK: in particular the retries of queryUDPTracker keep to their   *)
(* bound, and what it accepts was an answer to something.                  *)
THEOREM UdpTypes == UdpSpec => []UdpTypeOK
<1>1. UdpInv => UdpTypeOK
  BY DEF UdpInv
<1> QED BY <1>1, UdpInitOK, UdpNextOK, PTL DEF UdpSpec

(* AnnounceConnected: queryUDPTracker never puts an announcement on the    *)
(* network without a connection id of the tracker's, however often its     *)
(* connection requests time out.                                           *)
THEOREM AnnounceConnectedHolds == UdpSpec => []AnnounceConnected
<1>1. UdpInv => AnnounceConnected
  BY DEF UdpInv
<1> QED BY <1>1, UdpInitOK, UdpNextOK, PTL DEF UdpSpec

(* AnswersMatch: no late, repeated or reordered answer to an earlier       *)
(* request is taken for the answer to the present one.                     *)
THEOREM AnswersMatchHolds == UdpSpec => []AnswersMatch
<1>1. UdpInv => AnswersMatch
  BY DEF UdpInv
<1> QED BY <1>1, UdpInitOK, UdpNextOK, PTL DEF UdpSpec
=============================================================================
