----------------------------- MODULE TorrentLoop ----------------------------
(***************************************************************************)
(* RunTorrents (torrent/torrentLoop.go): the main loop, the goroutine that *)
(* creates sessions, and one goroutine per running session, which talk     *)
(* over the channels createChan (MaxActive places), startChan and doneChan *)
(* (one place each).  Torrent files are numbered in command-line order.    *)
(*                                                                         *)
(* A file is in one place at a time, so the places of the channels and of  *)
(* the goroutines are one function, `stage':                               *)
(*   queued    in torrentQueue                                             *)
(*   pending   in createChan                                               *)
(*   creating  the creator is in NewTorrentSession                         *)
(*   created   the creator sends the session on startChan                  *)
(*   failed    the creator sends an empty session on doneChan              *)
(*   starting  in startChan                                                *)
(*   running   in DoTorrent                                                *)
(*   stuck     DoTorrent has taken the quit message but has no tracker:    *)
(*             it sends its last report on a nil trackerReportChan          *)
(*   ended     DoTorrent has returned; its goroutine sends on doneChan     *)
(*   failing   its empty session is in doneChan                            *)
(*   ending    its session is in doneChan                                  *)
(*   finished  taken from doneChan                                         *)
(*   dropped   taken from startChan too late                               *)
(***************************************************************************)
EXTENDS Integers, FiniteSets

CONSTANTS
    NumFiles,      \* len(torrentFiles)
    InfoHash,      \* info hash of a torrent file
    MaxActive,     \* flags.MaxActive
    MayInterrupt   \* whether the user presses control-C

ASSUME LoopAssumption ==
    /\ NumFiles \in Nat \ {0}
    /\ MaxActive \in Nat \ {0}
    /\ MayInterrupt \in BOOLEAN

Files == 1 .. NumFiles

VARIABLES
    stage,             \* where a file is
    torrentSessions,   \* the values of torrentSessions, keyed by info hash
    theWorldisEnding,
    quitting,          \* sessions for which a Quit goroutine was started
    main               \* "select", "refill" (sends on createChan) or "exited"

vars == <<stage, torrentSessions, theWorldisEnding, quitting, main>>

Stage == {"queued", "pending", "creating", "created", "failed", "starting",
          "running", "stuck", "ended", "failing", "ending", "finished", "dropped"}

At(S) == {f \in Files : stage[f] \in S}

creator   == At({"creating", "created", "failed"})
startChan == At({"starting"})
doneChan  == At({"failing", "ending"})

(* Files that have left the queue and are not over. *)
InFlight == Files \ At({"queued", "finished", "dropped"})

TypeOK ==
    /\ stage \in [Files -> Stage]
    /\ torrentSessions \subseteq Files
    /\ theWorldisEnding \in BOOLEAN
    /\ quitting \subseteq Files
    /\ main \in {"select", "refill", "exited"}

(* Mutant: off by one. *)
MutFirstStage(f) == IF f <= MaxActive + 1 THEN "pending" ELSE "queued"

(* The first MaxActive files go to createChan, the others to torrentQueue. *)
FirstStage(f) == IF f <= MaxActive THEN "pending" ELSE "queued"

Init ==
    /\ stage = [f \in Files |-> FirstStage(f)]
    /\ torrentSessions = {}
    /\ theWorldisEnding = FALSE
    /\ quitting = {}
    /\ main = "select"

Moves(f, from, to) ==
    /\ main # "exited"
    /\ stage[f] = from
    /\ stage' = [stage EXCEPT ![f] = to]

IsFirst(f, S) == \A g \in At(S) : f <= g

-----------------------------------------------------------------------------
(* The goroutine that creates sessions. *)

CreatorTake(f) ==
    /\ creator = {}
    /\ IsFirst(f, {"pending"})
    /\ Moves(f, "pending", "creating")
    /\ UNCHANGED <<torrentSessions, theWorldisEnding, quitting, main>>

NewTorrentSession(f) ==
    /\ \E result \in {"created", "failed"} : Moves(f, "creating", result)
    /\ UNCHANGED <<torrentSessions, theWorldisEnding, quitting, main>>

SendStart(f) ==
    /\ startChan = {}
    /\ Moves(f, "created", "starting")
    /\ UNCHANGED <<torrentSessions, theWorldisEnding, quitting, main>>

SendFailed(f) ==
    /\ doneChan = {}
    /\ Moves(f, "failed", "failing")
    /\ UNCHANGED <<torrentSessions, theWorldisEnding, quitting, main>>

-----------------------------------------------------------------------------
(* The goroutine of a running session. *)

(* DoTorrent returns: at the seed ratio, or when it has taken the quit     *)
(* message and its tracker client the last report.                         *)
EndSession(f) ==
    /\ Moves(f, "running", "ended")
    /\ UNCHANGED <<torrentSessions, theWorldisEnding, quitting, main>>

(* In trackerless mode it takes the quit message and blocks: there is no   *)
(* guard around fetchTrackerInfo("stopped").  Which torrents have a        *)
(* tracker does not matter to the loop before that.                        *)
QuitBlocks(f) ==
    /\ f \in quitting
    /\ Moves(f, "running", "stuck")
    /\ UNCHANGED <<torrentSessions, theWorldisEnding, quitting, main>>

SendDone(f) ==
    /\ doneChan = {}
    /\ Moves(f, "ended", "ending")
    /\ UNCHANGED <<torrentSessions, theWorldisEnding, quitting, main>>

-----------------------------------------------------------------------------
(* The main loop. *)

(* Mutant: the end of the world is not looked at. *)
MutTakeStart(f) ==
    /\ main = "select"
    /\ Moves(f, "starting", "running")
    /\ torrentSessions' = {g \in torrentSessions : InfoHash[g] # InfoHash[f]}
                             \cup {f}
    /\ UNCHANGED <<theWorldisEnding, quitting, main>>

TakeStart(f) ==
    /\ main = "select"
    /\ IF theWorldisEnding
       THEN /\ Moves(f, "starting", "dropped")
            /\ UNCHANGED torrentSessions
       ELSE /\ Moves(f, "starting", "running")
            /\ torrentSessions' =
                  {g \in torrentSessions : InfoHash[g] # InfoHash[f]} \cup {f}
    /\ UNCHANGED <<theWorldisEnding, quitting, main>>

(* delete(torrentSessions, ts.M.InfoHash), unless ts is an empty session. *)
Unregistered(f) ==
    {g \in torrentSessions : stage[f] = "failing" \/ InfoHash[g] # InfoHash[f]}

TakeDone(f) ==
    /\ main = "select"
    /\ \/ Moves(f, "failing", "finished")
       \/ Moves(f, "ending", "finished")
    /\ torrentSessions' = Unregistered(f)
    /\ main' = IF ~theWorldisEnding /\ At({"queued"}) # {}
               THEN "refill"
               ELSE IF torrentSessions' = {} THEN "exited" ELSE "select"
    /\ UNCHANGED <<theWorldisEnding, quitting>>

(* createChan <- torrentQueue[0]: waits while the channel is full. *)
CreateChanFull == Cardinality(At({"pending"})) >= MaxActive

Refill(f) ==
    /\ main = "refill"
    /\ ~CreateChanFull
    /\ IsFirst(f, {"queued"})
    /\ Moves(f, "queued", "pending")
    /\ main' = "select"
    /\ UNCHANGED <<torrentSessions, theWorldisEnding, quitting>>

(* <-quitChan: a Quit goroutine for every registered session. *)
Interrupt ==
    /\ MayInterrupt
    /\ main = "select"
    /\ theWorldisEnding' = TRUE
    /\ quitting' = quitting \cup torrentSessions
    /\ UNCHANGED <<stage, torrentSessions, main>>

(* The program has ended. *)
Exited == main = "exited" /\ UNCHANGED vars

-----------------------------------------------------------------------------

Creator(f) ==
    CreatorTake(f) \/ NewTorrentSession(f) \/ SendStart(f) \/ SendFailed(f)

MainLoop(f) == TakeStart(f) \/ TakeDone(f) \/ Refill(f)

Next ==
    \/ \E f \in Files : \/ Creator(f) \/ EndSession(f) \/ QuitBlocks(f)
                         \/ SendDone(f) \/ MainLoop(f)
    \/ Interrupt
    \/ Exited

Spec == Init /\ [][Next]_vars

(* The goroutines make progress, and a session that is asked to quit takes *)
(* the message: with a tracker it ends then, since the relay of the client *)
(* takes every report (NeverHeldUp in TrackerClient), without one not.     *)
ProgressFairness ==
    /\ \A f \in Files : /\ WF_vars(Creator(f))
                        /\ WF_vars(SendDone(f))
                        /\ WF_vars(f \in quitting /\ (EndSession(f) \/ QuitBlocks(f)))
    /\ WF_vars(\E f \in Files : MainLoop(f))

QuitSpec == Spec /\ ProgressFairness

-----------------------------------------------------------------------------
(* -maxActive: at no time are more than MaxActive torrents being created,  *)
(* running or about to be replaced, although files enter the pipeline at   *)
(* three places of the code; in particular the main loop, on whose         *)
(* attention all the others depend, never waits for room in createChan.    *)
ActiveBound ==
    /\ Cardinality(InFlight) <= MaxActive
    /\ main = "refill" => ~CreateChanFull

(* Control-C while a session is registered ends the program, even if       *)
(* others are being created or queued at that time: unless a trackerless   *)
(* session has taken the quit message, and nothing else keeps it.          *)
QuitExits ==
    (theWorldisEnding /\ torrentSessions # {})
        ~> (main = "exited" \/ At({"stuck"}) # {})
=============================================================================
