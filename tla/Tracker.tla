------------------------------- MODULE Tracker ------------------------------
(***************************************************************************)
(* The tracker server (tracker/tracker.go): one goroutine per HTTP request *)
(* beside the reaper, the goroutine that takes control-C, callers of       *)
(* Register and Unregister, and the one that runs ListenAndServe.  They    *)
(* share the peer table under the mutex t.m.                               *)
(*                                                                         *)
(* Torrents share only the lock, so the module follows one torrent.  Time  *)
(* is counted in units of checkDuration (30 minutes) from ListenAndServe   *)
(* on.  The statistics that are only reported (uploaded, downloaded, left  *)
(* and the counts made of them) are left out, and so is an announce that   *)
(* is refused before it asks for the lock.                                 *)
(***************************************************************************)
EXTENDS Integers, FiniteSets

CONSTANTS
    Clients,           \* clients, each with a peer id of its own
    Key,               \* the listen address a client announces
    V4,                \* addresses that are IPv4
    Wants,             \* values of numwant
    DefaultPeerCount,  \* DEFAULT_PEER_COUNT
    MaxTime,           \* bound on the time
    MayInterrupt,      \* whether the user presses control-C
    None, Reaper       \* nobody; the goroutine t.reaper()

Keys == {Key[c] : c \in Clients}

ASSUME TrackerAssumption ==
    /\ IsFiniteSet(Clients)
    /\ V4 \subseteq Keys
    /\ Wants \subseteq Int
    /\ DefaultPeerCount \in Nat \ {0}
    /\ MaxTime \in Nat
    /\ MayInterrupt \in BOOLEAN
    /\ None # Reaper
    /\ {None, Reaper} \cap Clients = {}

VARIABLES
    time,
    registered,  \* whether t.t has an entry for the torrent
    table,       \* the keys of trackerTorrent.peers
    id,          \* trackerPeer.id, as the client that has it
    lastSeen,    \* trackerPeer.lastSeen
    lock,        \* who holds t.m, or None
    request,     \* the time of the announce of a client that is being
                 \* handled, or None
    scraping,    \* whether a handleScrape reads the table
    reaper,      \* "waiting", "reaping" (holds t.m) or "done"
    server,      \* ListenAndServe: "new", "serving", "ok" or "error"
    quit,        \* Quit: "none", "called", "closing", "closed" or "done"
    crash,       \* why the process died: "no", "map" or "nil"
    told,        \* the peers a peer has heard of since both have joined
    content      \* whether it asked for all there are since it joined

tableVars == <<registered, table, id, lastSeen>>
serveVars == <<server, quit>>
heardVars == <<told, content>>
vars == <<time, tableVars, lock, request, scraping, reaper, serveVars, crash,
          heardVars>>

(* What an announce asks for. *)
Params == [event : {"stopped", "other"}, numWant : Wants, compact : BOOLEAN]

TypeOK ==
    /\ time \in 0 .. MaxTime
    /\ registered \in BOOLEAN
    /\ table \subseteq Keys
    /\ id \in [Keys -> Clients]
    /\ lastSeen \in [Keys -> 0 .. MaxTime]
    /\ lock \in Clients \cup {None, Reaper}
    /\ request \in [Clients -> (0 .. MaxTime) \cup {None}]
    /\ scraping \in BOOLEAN
    /\ reaper \in {"waiting", "reaping", "done"}
    /\ server \in {"new", "serving", "ok", "error"}
    /\ quit \in {"none", "called", "closing", "closed", "done"}
    /\ crash \in {"no", "map", "nil"}
    /\ told \in [Keys -> SUBSET Keys]
    /\ content \in [Keys -> BOOLEAN]

Init ==
    /\ time = 0
    /\ registered \in BOOLEAN
    /\ table = {}
    /\ id \in [Keys -> Clients] /\ \A k \in Keys : Key[id[k]] = k
    /\ lastSeen = [k \in Keys |-> 0]
    /\ lock = None
    /\ request = [c \in Clients |-> None]
    /\ scraping = FALSE
    /\ reaper = "waiting"
    /\ server = "new"
    /\ quit = "none"
    /\ crash = "no"
    /\ told = [k \in Keys |-> {}]
    /\ content = [k \in Keys |-> FALSE]

Running == crash = "no" /\ server \in {"new", "serving"}

(* A write to the table while a scrape reads it without the lock is a data *)
(* race, for which the Go runtime may end the process.                     *)
WriteTable == crash' \in IF scraping THEN {"no", "map"} ELSE {"no"}

(* The entries of S stay in the table; of the others nothing is kept. *)
Keep(S) ==
    /\ table' = S
    /\ lastSeen' = [k \in Keys |-> IF k \in S THEN lastSeen[k] ELSE 0]
    /\ told' = [k \in Keys |-> IF k \in S THEN told[k] \cap S ELSE {}]
    /\ content' = [k \in Keys |-> k \in S /\ content[k]]

-----------------------------------------------------------------------------
(* An announce. *)

(* How many of `count' peers are sent to who asks for n of them. *)
Wanted(n, count) ==
    LET m == IF n <= 0 \/ n > DefaultPeerCount THEN DefaultPeerCount ELSE n
    IN  IF m > count THEN count ELSE m

(* Mutant: the asker, when met, counts as one of the peers sent. *)
MutPickRandomPeers(peers, k, compact, count) ==
    LET E == {p \in peers : p # k /\ (compact => p \in V4)}
    IN  {P \in SUBSET E :
            IF count = 0 \/ Cardinality(E) < count
            THEN P = E ELSE Cardinality(P) \in {count - 1, count}}

(* pickRandomPeers: the loop over the table ends when it has enough.       *)
pickRandomPeers(peers, k, compact, count) ==
    LET E == {p \in peers : p # k /\ (compact => p \in V4)}
    IN  {P \in SUBSET E :
            IF count = 0 \/ Cardinality(E) < count THEN P = E
                                                   ELSE Cardinality(P) = count}

(* handleAnnounce up to the lock: the time is taken before the lock is had. *)
(* What else the announce says does not matter before that.                 *)
Announce(c) ==
    /\ Running
    /\ server = "serving"
    /\ quit \notin {"closed", "done"}
    /\ request[c] = None
    /\ request' = [request EXCEPT ![c] = time]
    /\ UNCHANGED <<time, tableVars, lock, scraping, reaper, serveVars, crash,
                   heardVars>>

AnnounceLock(c) ==
    /\ Running
    /\ request[c] # None
    /\ lock = None
    /\ lock' = c
    /\ UNCHANGED <<time, tableVars, request, scraping, reaper, serveVars,
                   crash, heardVars>>

(* What was heard by and of a peer that joins or leaves is forgotten. *)
Forget(k) == [p \in Keys |-> IF p = k THEN {} ELSE told[p] \ {k}]

(* trackerTorrent.handleAnnounce: an entry with another id is replaced, a  *)
(* client that has stopped is removed, and everybody gets peers.           *)
UpdateTable(c, params) ==
    LET k     == Key[c]
        stays == k \in table /\ id[k] = c /\ params.event # "stopped"
        now   == IF params.event = "stopped" THEN table \ {k}
                                             ELSE table \cup {k}
    IN  /\ WriteTable
        /\ table' = now
        /\ id' = [id EXCEPT ![k] = c]
        /\ lastSeen' = [lastSeen EXCEPT ![k] = IF k \in now THEN request[c]
                                                           ELSE 0]
        /\ \E P \in pickRandomPeers(now, k, params.compact,
                                    Wanted(params.numWant, Cardinality(now))) :
              told' = [IF stays THEN told ELSE Forget(k)
                          EXCEPT ![k] = IF k \in now THEN @ \cup P ELSE {}]
        /\ content' = [content EXCEPT ![k] =
                          /\ k \in now
                          /\ \/ stays /\ @
                             \/ params.numWant <= 0
                             \/ params.numWant >= Cardinality(now) - 1]

AnnounceReply(c) ==
    /\ Running
    /\ lock = c
    /\ IF registered THEN \E params \in Params : UpdateTable(c, params)
                     ELSE UNCHANGED <<table, id, lastSeen, crash, heardVars>>
    /\ lock' = None
    /\ request' = [request EXCEPT ![c] = None]
    /\ UNCHANGED <<time, registered, scraping, reaper, serveVars>>

-----------------------------------------------------------------------------
(* Scrapes, which take no lock. *)

ScrapeBegin ==
    /\ Running
    /\ server = "serving"
    /\ ~scraping
    /\ scraping' = TRUE
    /\ UNCHANGED <<time, tableVars, lock, request, reaper, serveVars, crash,
                   heardVars>>

ScrapeEnd ==
    /\ Running
    /\ scraping
    /\ scraping' = FALSE
    /\ UNCHANGED <<time, tableVars, lock, request, reaper, serveVars, crash,
                   heardVars>>

-----------------------------------------------------------------------------
(* Register and Unregister. *)

Register ==
    /\ Running
    /\ lock = None
    /\ ~registered
    /\ WriteTable
    /\ registered' = TRUE
    /\ UNCHANGED <<time, table, id, lastSeen, lock, request, scraping, reaper,
                   serveVars, heardVars>>

Unregister ==
    /\ Running
    /\ lock = None
    /\ registered
    /\ WriteTable
    /\ registered' = FALSE
    /\ Keep({})
    /\ UNCHANGED <<time, id, lock, request, scraping, reaper, serveVars>>

-----------------------------------------------------------------------------
(* The reaper, which comes once. *)

ReaperLock ==
    /\ Running
    /\ reaper = "waiting"
    /\ time >= 1
    /\ lock = None
    /\ lock' = Reaper
    /\ reaper' = "reaping"
    /\ UNCHANGED <<time, tableVars, request, scraping, serveVars, crash,
                   heardVars>>

(* Mutant: made to come again, in a loop, it leaves the unlocking to the   *)
(* end of a function that does not end.                                    *)
MutReap ==
    /\ Running
    /\ reaper = "reaping"
    /\ Keep({k \in table : lastSeen[k] >= time - 2})
    /\ reaper' = "waiting"
    /\ WriteTable
    /\ UNCHANGED <<time, registered, id, lock, request, scraping, serveVars>>

Reap ==
    /\ Running
    /\ reaper = "reaping"
    /\ Keep({k \in table : lastSeen[k] >= time - 2})
    /\ lock' = None
    /\ reaper' = "done"
    /\ WriteTable
    /\ UNCHANGED <<time, registered, id, request, scraping, serveVars>>

ReaperDone ==
    /\ Running
    /\ reaper = "waiting"
    /\ quit = "done"
    /\ reaper' = "done"
    /\ UNCHANGED <<time, tableVars, lock, request, scraping, serveVars, crash,
                   heardVars>>

-----------------------------------------------------------------------------
(* ListenAndServe and Quit. *)

Listen ==
    /\ Running
    /\ server = "new"
    /\ \/ lock = None /\ server' = "serving"
       \/ server' = "error"
    /\ UNCHANGED <<time, tableVars, lock, request, scraping, reaper, quit,
                   crash, heardVars>>

(* http.Serve returns once the listener is closed. *)
ServeReturns ==
    /\ Running
    /\ server = "serving"
    /\ quit \in {"closed", "done"}
    /\ server' = IF quit = "done" THEN "ok" ELSE "error"
    /\ UNCHANGED <<time, tableVars, lock, request, scraping, reaper, quit,
                   crash, heardVars>>

(* Control-C, at any time. *)
Interrupt ==
    /\ Running
    /\ MayInterrupt
    /\ quit = "none"
    /\ quit' = "called"
    /\ UNCHANGED <<time, tableVars, lock, request, scraping, reaper, server,
                   crash, heardVars>>

(* t.l is read under the lock, and is nil until ListenAndServe sets it. *)
QuitListener ==
    /\ Running
    /\ quit = "called"
    /\ lock = None
    /\ quit' = "closing"
    /\ crash' = IF server = "new" THEN "nil" ELSE "no"
    /\ UNCHANGED <<time, tableVars, lock, request, scraping, reaper, server,
                   heardVars>>

(* l.Close() *)
QuitClose ==
    /\ Running
    /\ quit = "closing"
    /\ quit' = "closed"
    /\ UNCHANGED <<time, tableVars, lock, request, scraping, reaper, server,
                   crash, heardVars>>

(* close(t.done) *)
QuitDone ==
    /\ Running
    /\ quit = "closed"
    /\ quit' = "done"
    /\ UNCHANGED <<time, tableVars, lock, request, scraping, reaper, server,
                   crash, heardVars>>

-----------------------------------------------------------------------------

TimePasses ==
    /\ Running
    /\ server = "serving"
    /\ time < MaxTime
    /\ time' = time + 1
    /\ UNCHANGED <<tableVars, lock, request, scraping, reaper, serveVars,
                   crash, heardVars>>

(* The process has ended. *)
Ended == ~Running /\ UNCHANGED vars

Serve(c) ==
    Announce(c) \/ AnnounceLock(c) \/ AnnounceReply(c)

Quitting == QuitListener \/ QuitClose \/ QuitDone

Next ==
    \/ \E c \in Clients : Serve(c)
    \/ ScrapeBegin \/ ScrapeEnd
    \/ Register \/ Unregister
    \/ ReaperLock \/ Reap \/ ReaperDone
    \/ Listen \/ ServeReturns
    \/ Interrupt \/ Quitting
    \/ TimePasses
    \/ Ended

Spec == Init /\ [][Next]_vars

(* Goroutines run on, and a mutex is granted to everyone who waits for it. *)
Fairness ==
    /\ \A c \in Clients : SF_vars(AnnounceLock(c)) /\ WF_vars(AnnounceReply(c))
    /\ WF_vars(Reap)
    /\ SF_vars(QuitListener) /\ WF_vars(QuitClose) /\ WF_vars(QuitDone)
    /\ WF_vars(ServeReturns)

FairSpec == Spec /\ Fairness

-----------------------------------------------------------------------------
(* What the tracker is for: of any two registered peers one has heard of   *)
(* the other, whatever came between their announces (restarts at the same  *)
(* address, the reaper, the torrent being unregistered for a while),       *)
(* provided that each asked for as many peers as there are, that there are *)
(* no more than DEFAULT_PEER_COUNT and that their addresses are IPv4.      *)
Introduced ==
    Cardinality(Keys) <= DefaultPeerCount + 1 =>
        \A p, q \in table \cap V4 :
            p # q /\ content[p] /\ content[q]
                => p \in told[q] \/ q \in told[p]

(* Every announce that asks for the lock is replied to while the process   *)
(* runs: handlers, reaper, Register and Quit all give the lock back.       *)
AnnounceReplied ==
    \A c \in Clients : request[c] # None ~> (request[c] = None \/ ~Running)

(* "run it until interrupted": after control-C, ListenAndServe returns.    *)
InterruptEnds == quit = "called" ~> ~Running

=============================================================================
