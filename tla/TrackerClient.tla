---------------------------- MODULE TrackerClient ---------------------------
(***************************************************************************)
(* A session and its tracker client (torrent/trackerClient.go): the        *)
(* DoTorrent goroutine reports its status, a relay goroutine keeps the     *)
(* latest report, and a query goroutine announces it to the trackers, tier *)
(* by tier, and hands the response back.  All channels between the three   *)
(* are unbuffered.  What happens on the wire is the choice of an outcome;  *)
(* a query may take for ever.                                              *)
(*                                                                         *)
(* Reports are numbered in the order in which DoTorrent makes them; what   *)
(* else they contain is left out.  There is no relay and no query when the *)
(* session is trackerless, and trackerReportChan is nil then.              *)
(***************************************************************************)
EXTENDS Integers, FiniteSets

CONSTANTS
    NumLevels,     \* len(announceList)
    LevelSize,     \* number of trackers in a level
    AnnounceList,  \* the set of trackers of a level
    Trackerless,   \* ts.trackerLessMode
    HaveTorrent,   \* whether the session starts with its metadata
    MaxReports     \* bound on the number of reports

Levels == 1 .. NumLevels
Trackers == UNION {AnnounceList[l] : l \in Levels}

ASSUME ClientAssumption ==
    /\ NumLevels \in Nat
    /\ LevelSize \in [Levels -> Nat]
    /\ Trackerless \in BOOLEAN
    /\ HaveTorrent \in BOOLEAN
    /\ MaxReports \in Nat

VARIABLES
    session,       \* DoTorrent: "select", "report", "stop" (both wait to
                   \* send on trackerReportChan) or "ended"
    reported,      \* the number of reports made
    recentReport,  \* the report the relay holds, or 0
    announceList,  \* the shuffled copy queryTrackers works on
    query,         \* the query goroutine: "idle", "asking" or "responding"
    report,        \* the report it announces, or announced last
    tried,         \* positions of announceList asked in vain
    tr,            \* the latest query's TrackerResponse: "nil", "ok" or
                   \* "failure" (one with a failure reason)
    ti             \* ts.ti, likewise

sessionVars == <<session, reported, ti>>
queryVars   == <<announceList, query, report, tried, tr>>
vars == <<sessionVars, recentReport, queryVars>>

Responses == {"nil", "ok", "failure"}
Positions == UNION {{l} \X (1 .. LevelSize[l]) : l \in Levels}

TypeOK ==
    /\ session \in {"select", "report", "stop", "ended"}
    /\ reported \in Nat
    /\ recentReport \in 0 .. reported
    /\ announceList \in [Positions -> Trackers]
    /\ query \in {"idle", "asking", "responding"}
    /\ report \in 0 .. reported
    /\ tried \subseteq Positions
    /\ tr \in Responses
    /\ ti \in Responses

(* The trackers of level l of a list. *)
TrackersOf(list, l) == {list[p] : p \in {q \in Positions : q[1] = l}}

(* startTrackerClient shuffles each level; DoTorrent reports "started". *)
Init ==
    /\ announceList \in [Positions -> Trackers]
    /\ \A l \in Levels : TrackersOf(announceList, l) = AnnounceList[l]
    /\ IF HaveTorrent /\ ~Trackerless
       THEN session = "report" /\ reported = 1
       ELSE session = "select" /\ reported = 0
    /\ recentReport = 0
    /\ query = "idle"
    /\ report = 0
    /\ tried = {}
    /\ tr = "nil"
    /\ ti = "nil"

-----------------------------------------------------------------------------
(* DoTorrent.                                                              *)

(* fetchTrackerInfo("") by a timer, or ("completed") after the last piece. *)
Report ==
    /\ session = "select"
    /\ ~Trackerless
    /\ reported < MaxReports
    /\ session' = "report"
    /\ reported' = reported + 1
    /\ UNCHANGED <<ti, recentReport, queryVars>>

(* <-ts.quit: fetchTrackerInfo("stopped"), whatever trackerLessMode says. *)
TakeQuit ==
    /\ session = "select"
    /\ session' = "stop"
    /\ reported' = reported + 1
    /\ UNCHANGED <<ti, recentReport, queryVars>>

(* The seed ratio is achieved: DoTorrent returns without a word. *)
Achieved ==
    /\ session = "select"
    /\ session' = "ended"
    /\ UNCHANGED <<reported, ti, recentReport, queryVars>>

-----------------------------------------------------------------------------
(* The goroutines of startTrackerClient.                                   *)

(* Mutants: a relay that has to get rid of a report first, and one that    *)
(* keeps the old report.                                                   *)
MutRelayBusy ==
    /\ ~Trackerless
    /\ session \in {"report", "stop"}
    /\ recentReport = 0
    /\ recentReport' = reported
    /\ session' = IF session = "stop" THEN "ended" ELSE "select"
    /\ UNCHANGED <<reported, ti, queryVars>>

MutRelayKeeps ==
    /\ ~Trackerless
    /\ session \in {"report", "stop"}
    /\ recentReport' = IF recentReport = 0 THEN reported ELSE recentReport
    /\ session' = IF session = "stop" THEN "ended" ELSE "select"
    /\ UNCHANGED <<reported, ti, queryVars>>

(* The relay takes a report at any time and forgets the one it held; the   *)
(* session goes on, or ends if that was its last one.                      *)
Relay ==
    /\ ~Trackerless
    /\ session \in {"report", "stop"}
    /\ recentReport' = reported
    /\ session' = IF session = "stop" THEN "ended" ELSE "select"
    /\ UNCHANGED <<reported, ti, queryVars>>

(* recentReports <- recentReport *)
QueryTake ==
    /\ query = "idle"
    /\ recentReport # 0
    /\ query' = "asking"
    /\ report' = recentReport
    /\ recentReport' = 0
    /\ tried' = {}
    /\ tr' = "nil"
    /\ UNCHANGED <<sessionVars, announceList>>

Before(p, q) == p[1] < q[1] \/ (p[1] = q[1] /\ p[2] < q[2])

(* queryTrackers asks level by level, each in its present order. *)
IsNext(p) ==
    /\ query = "asking"
    /\ p \in Positions \ tried
    /\ \A q \in Positions : Before(q, p) => q \in tried

(* Mutant: level[0] is overwritten before it is copied. *)
MutMoveToFront(p) ==
    [q \in Positions |->
        IF q[1] = p[1] /\ q[2] <= 2 /\ q[2] <= p[2] THEN announceList[p]
        ELSE IF q[1] = p[1] /\ q[2] <= p[2]
        THEN announceList[<<q[1], q[2] - 1>>]
        ELSE announceList[q]]

(* copy(level[1:i+1], level[0:i]); level[0] = tracker *)
MoveToFront(p) ==
    [q \in Positions |->
        IF q[1] # p[1] \/ q[2] > p[2] THEN announceList[q]
        ELSE IF q[2] = 1 THEN announceList[p]
        ELSE announceList[<<q[1], q[2] - 1>>]]

(* queryTracker succeeds: its response goes to the session. *)
Succeed(p) ==
    /\ IsNext(p)
    /\ announceList' = MoveToFront(p)
    /\ query' = "responding"
    /\ tr' = "ok"
    /\ UNCHANGED <<sessionVars, recentReport, report, tried>>

(* queryTracker returns an error, with or without a response. *)
Fail(p, response) ==
    /\ IsNext(p)
    /\ tried' = tried \cup {p}
    /\ tr' = response
    /\ UNCHANGED <<sessionVars, recentReport, announceList, query, report>>

(* All trackers failed: what the last one returned is what is returned. *)
GiveUp ==
    /\ query = "asking"
    /\ tried = Positions
    /\ query' = IF tr = "nil" THEN "idle" ELSE "responding"
    /\ UNCHANGED <<sessionVars, recentReport, announceList, report, tried, tr>>

(* trackerInfoChan <- tr, taken by DoTorrent's select. *)
TakeInfo ==
    /\ query = "responding"
    /\ session = "select"
    /\ query' = "idle"
    /\ ti' = tr
    /\ UNCHANGED <<session, reported, recentReport, announceList, report,
                   tried, tr>>

-----------------------------------------------------------------------------

QueryStep ==
    \/ QueryTake
    \/ \E p \in Positions : \/ Succeed(p)
                            \/ \E response \in {"nil", "failure"} :
                                  Fail(p, response)
    \/ GiveUp
    \/ TakeInfo

(* Nothing happens in a session that is over, its last query done. *)
Over == session = "ended" /\ UNCHANGED vars

Next == Report \/ TakeQuit \/ Achieved \/ Relay \/ QueryStep \/ Over

Spec == Init /\ [][Next]_vars

(* The relay is always ready to receive.  Trackers need not answer. *)
RelaySpec == Spec /\ WF_vars(Relay)

-----------------------------------------------------------------------------
(* Moving the tracker that answered to the front of its level loses and    *)
(* doubles none, through any number of announces.                          *)
TrackersKept ==
    \A l \in Levels : TrackersOf(announceList, l) = AnnounceList[l]

(* DoTorrent, which sends on an unbuffered channel, is never held up: not  *)
(* by trackers that do not answer, not by a response that waits for it.    *)
NeverHeldUp == session = "report" ~> session # "report"

(* "Quitting torrent session": after the quit message the session ends.    *)
QuitEnds == session = "stop" ~> session = "ended"

(* The relay forgets old reports only: if every query comes to an end and  *)
(* the session looks at its channels, the latest report is announced in    *)
(* the end, unless the session is over.                                    *)
LatestAnnounced ==
    WF_vars(QueryStep) /\ SF_vars(TakeInfo) =>
        \A n \in 1 .. MaxReports :
            reported = n ~> (report >= n \/ session \in {"stop", "ended"})
=============================================================================
