# TLA+ specifications of Taipei-Torrent

Taipei-Torrent (`src/`) is a BitTorrent client and a small tracker, written in
Go. This directory holds models of its concurrent and stateful parts, the TLC
configurations that check them, and TLAPS proofs of their main invariants.
`PROJECT.json` maps every definition to the source lines it models and lists
runs, mutants, findings, hazards and theorems.

## 1. The system

| component | source | state it keeps | operations | talks to |
|---|---|---|---|---|
| Torrent scheduler | `torrent/torrentLoop.go` (`RunTorrents`) | queue of files, registered sessions, "the world is ending" | start, finish, interrupt, forward connections and hints | creator goroutine (`createChan`, `startChan`), sessions (`doneChan`, `Quit`) |
| Session | `torrent/torrent.go` (`TorrentSession`, `DoTorrent`) | pieces, active pieces, peers, statistics | one handler per channel of its `select` | readers and writers of its peers, tracker client, scheduler, file store |
| Download engine | `torrent.go` (`RequestBlock`, `RecordBlock`, `generalMessage`), `pieces.go` | `pieceSet`, `activePieces`, per-peer `have`, `our_requests`, interest | CHOKE, UNCHOKE, HAVE, BITFIELD, PIECE, time-outs | peers |
| Choking | `choker.go`, `accumulator.go`, `chokePeers` | optimist, counter, rates, who is choked | 10-second tick, INTERESTED, NOT_INTERESTED | peers |
| Upload serving | `torrent.go` (`REQUEST`, `CANCEL`, `sendRequest`) | `peer_requests`, statistics | REQUEST, CANCEL | cache, file store |
| Peer connections | `peer.go` | write queue, keep-alive times | `peerReader`, `peerWriter`, `queueingWriter` | session, sockets |
| Metadata extension | `torrent.go` (`DoExtension`, `DoMetadata`, `reload`) | pieces of the metadata | extension handshake, data, reject | peers |
| Tracker client | `trackerClient.go` | latest report, order of trackers | report, query, UDP exchange | session (two unbuffered channels), trackers |
| Tracker server | `tracker/tracker.go` | peer table, mutex, listener | announce, scrape, register, unregister, reap, quit | HTTP handlers, signal goroutine |
| File store | `files.go`, `osfiles.go`, `ramfiles.go`, `sftp.go` | files | read, write a range | caches, session |
| Caches | `cache.go`, `hdcache.go` | cached blocks, use times, capacity shared between torrents | read, write, evict, resize | file store, other sessions |
| Bitset, hashing | `bitset.go`, `pieces.go` | – | set, test, parse, hash in parallel | session |
| Resume data | `torrent.go` (`load`, `RecordBlock`) | `haveBitset` file | save, load | file system |
| LPD, DHT, NAT, proxy | `lpd.go`, `upnp.go`, `natpmp.go`, `proxy.go`, DHT library | tickers, mappings | announce, map | scheduler |
| Metainfo, magnet links, command line | `metainfo.go`, `uri.go`, `main.go` | – | parse, create | – |

What is hard here:

* A session is one goroutine, so its handlers do not interrupt each other, but
  what it learns from others is late: a message read before a connection was
  closed is handled afterwards, and each connection announces its end twice
  (reader and writer).
* Peers, trackers and users act in any order; blocks of a piece come from
  several peers, some of them wrong; requests time out and are answered all
  the same.
* Goroutines talk over channels with no or little buffering, some of them in
  both directions at once, so everybody can end up waiting for everybody.
* Counters are only ever added to or subtracted from (`Left`, the request
  counts), so an event handled twice leaves them wrong for good.
* Shutting down (seed ratio, control-C, `Quit`) races with everything else.

What makes each part correct is stated by the properties of section 3; the
hazards they answer to are in `PROJECT.json`, each with its line.

## 2. Modules

| module | models | composes / refines |
|---|---|---|
| `Download` | the download half of a session, with its readers and writers | implements `PieceStore` |
| `PieceStore` | what a session promises about the pieces it holds | abstract specification |
| `Choking` | choke policy, `chokePeers`, download rates | – |
| `Serving` | the upload half of a session, with the queues and writers of its peers | composes and implements `Choking` (`INSTANCE`) |
| `Cache` | the RAM and the disk cache, shared out among torrents | – |
| `FileStore`, `Bitset` | file layout and byte format, as operators | – |
| `Resume` | resume data, the full check with its goroutines, crashes | extends `FileStore`, `Bitset` |
| `SessionStart` | start from a torrent file or a magnet link, metadata exchange | extends `Resume` |
| `TorrentLoop` | main loop, creator goroutine, session goroutines | – |
| `Connections` | listener, hints, dialling, peer table, local announcements | extends `TorrentLoop` |
| `TrackerClient` | session, relay and query goroutines | – |
| `UdpTracker` | one query of a UDP tracker over a lossy network | the inside of one `queryTracker` call of `TrackerClient` |
| `Tracker` | the tracker server | – |
| `MC...` | small instances for TLC | extends the module it instantiates |
| `DownloadProofs`, `ChokingProofs`, `ServingProofs`, `CacheProofs`, `TrackerProofs` | theorems and proofs | extend the module they are named after |
| `SessionStartProofs` | the same for `FileStore`, `Resume` and `SessionStart` | extends `SessionStart` |
| `ConnectionsProofs` | the same for `TorrentLoop` and `Connections` | extends `Connections` |
| `TrackerClientProofs` | the same for `TrackerClient` and `UdpTracker`, whose `Init`, `Next`, ... are called `UdpInit`, `UdpNext`, ... | extends both |

Operators named `Mut...` are mutated forms of the definition that follows
them; they are not used by any specification. Each property has one that
breaks it (`PROJECT.json`, `mutants`). `TypeOK` says what values the variables
of a module take; the runs leave it out, and the inductive invariants of the
proofs contain it, or as much of it as they need.

### Download

`DoTorrent` handles one message at a time, so each handler is one action that
includes all the calls the handler makes: `Piece` is the PIECE case of
`generalMessage` with `RecordBlock`, `checkPiece`, `WritePiece` and the
`RequestBlock` that follows. `peerReader` is a three-state process per
connection (reading, holding a message, gone) and `peerWriter` a two-state
one; both end with a nil message, for which `DoTorrent` runs `ClosePeer`.

A block is a pair of piece and index, and the bytes of a block are reduced to
whether they are right. `RequestBlock` is a function from a *plan* (active
pieces, counts, requests to and interest in one peer) to the set of plans it
may produce, since map iteration order and the random start of `ChoosePiece`
make it nondeterministic.

`Honest` connections keep to the protocol and send right data; the others may
send any message at any time, including blocks that overlap others or start
between block boundaries. `Reliable` ones are honest seeds that do not go
away. A nil `p.have` and an offset beyond the buffer of a short last piece
make the handlers panic; that is the action `Panic`.

`Init` covers every outcome of `load`: any set of right pieces on disk, of
which any part is known (full check, resume data, or neither).

### Choking

The sort is the choice of a set of fastest peers; `rand.Intn` is the choice of
an optimist. The `Accumulator` in a `peerState` is a zero value, so its rate
period is zero and `GetRate`, which adds zero bytes over some time, yields a
rate of zero: `computeDownloadRate` says so.

### Serving

The messages of one session to its peers: the session decides, the writer of
each connection lags behind. Every handler that calls `sendMessage` appends to
`queue[c]`, which stands for the channel and the list of `queueingWriter` up to
`peerWriter`; `Write` is one turn of `peerWriter`, and `view` and `known` are
what the peer has read by then. INTERESTED, NOT_INTERESTED and ticks are
actions of `Choking` conjoined with the CHOKE and UNCHOKE messages that
`SetChoke` sends for the difference. `Refused` is every way to `ClosePeer`. The
pieces acquired come from the download half, so `Acquire` is the end of
`RecordBlock` only.

### Cache

One variable `kind` tells `RamCache` from `HdCache`; most actions are common.
`boxExists`, the files of `HdCache` and the table of `RamCache` are one
function `box`: a box is absent, right, wrong, or "gone" (`HdCache`: the bit is
set, the file is not there). `recent` is the order of the use times, which is
all that `trim` looks at. A read is a loop of steps (`Look`, `HitRam`, `HitHd`,
`HitFails`, `Fetch`), since `rebalance` of another session may come between any
two of them; where the two goroutines overlap, an update of the count or of a
byte of `boxExists` may be lost. `faults` records which kinds of fault have
happened: a race, an error of a cache file, an error of the store below.

### FileStore, Bitset, Resume, SessionStart

`FileStore` has `find` and the loop common to `ReadAt` and `WritePiece`;
`Extent` is the reference definition, compared with it for all small layouts
(`ChunksAreExtents`, evaluated with the run) and proved equal to it for all
(`ChunksAreExtent`). `Bitset` has the byte format; `BytesReadBack` compares
writing and reading it, and the lemma `ReadBack` is the proof.

`Resume` has the files, the resume file and the process. `WritePiece` writes
file by file, `Claim` sets the bit and truncates the resume file, `Save` writes
it, and `Crash` may come between any two, with a prefix of the resume file
written. The check is `computeSums` with its reader, one chunk on the unbuffered
channel, a chunk per worker, and the bounded channel of results. The data that a
crash of the operating system would lose are not modelled.

`SessionStart` adds the metadata: peers that connect before there is a torrent
have piece maps of length 0 and are given new ones at the end of `load`; each
piece of metadata makes the session ask for all that are missing; the last one
leads to `reload`. `load` may also return early, for an unknown encoding, a file
that cannot be opened or a piece length of zero: the session is then refused
(`Start`) or left without its torrent (`failed`). Handlers wait while the goroutine is in `load` or
`RecordBlock`, which are several steps here. Peers are honest; those outside
`Full` never answer, like this program itself.

### TorrentLoop and Connections

Every file is in one place at a time, so one function `stage` says for each
file which channel or goroutine it is in. `createChan` holds `MaxActive`
files, `startChan` and `doneChan` one. A session that takes the quit message
ends if it has a tracker; without one it blocks in `DoTorrent`, in the stage
"stuck" (`QuitBlocks`). The loop does not depend on which torrents have a tracker
before that, so the choice is made there.

`Connections` extends this with the connections, each again in one `place`:
with the listener, in the main loop, in a dialling goroutine, in a channel of
the session, in its table. `AddPeer` is two steps, the comparison of the length
and the send, as dialling goroutines do both at any time; while the main loop
is in the second (`Held`) it does nothing else. The actions of `TorrentLoop`
are used as they are, with `~Held` for those of the main loop. `lpd` and
`tickers` are the goroutines of `Announce` and the map of tickers. DHT results,
local announcements and tracker responses are all sources of addresses.

### TrackerClient and UdpTracker

In `TrackerClient` the session is "select", or waits to send a report; the relay
is a variable that holds the latest report; the query goroutine asks the
positions of the announce list in order. The outcome of a query is free, and so
is its duration. `UdpTracker` opens up one query: connection requests with
time-outs, an announcement, and a network that may lose, delay and repeat
datagrams in both directions (a response once sent can be read at any time, any
number of times or never). Transaction ids are taken to be distinct, and one
deadline covers an attempt to connect and the announcement after it.

### Tracker

One announce is three steps: it takes the time, takes the lock, and updates
the table and replies. A scrape is an interval during which the table is read
without the lock; a write in that interval is a data race, for which the Go
runtime may end the process. Torrents share nothing but the lock, so one
torrent is followed. `told` and `content` are history variables, and what the
variables say of an absent entry is reset.

## 3. Runs

Passing runs:

| run | instance | shows |
|---|---|---|
| `download_mixed` | an honest seed and a peer that may do anything; one piece of two blocks | `PieceSetVerified`, `InterestSound`, `NoRequestLeak`, `ClosedPeersCleanedUp` |
| `download_pieces` | the same peers; three pieces, one active at a time, the last one short | `Accounting`, `LeftIsMissingBytes`, `ActiveWanted`, `RefinesPieceStore` |
| `download_seed` | one honest seed; pieces of two, two and one block | `DownloadCompletes` |
| `choking_slots` | four peers, one slot and the optimist | `UploadSlots`, `NobodyStarves` |
| `loop_bound` | three files, two active, control-C at any time, two connections to a session with room for one peer | `ActiveBound`, `TableSound`, `Announced`, `QuitExits`, `MainReturns` |
| `client_reports` | levels of three trackers and one, which answer, fail or never answer | `TrackersKept`, `NeverHeldUp`, `QuitEnds`, `LatestAnnounced` |
| `udp_query` | three connection requests | `AnnounceConnected`, `AnswersMatch`, `QueryEnds` |
| `tracker_swarm` | three clients, two of them at one address, reaper, scrapes, interrupt | `Introduced`, `AnnounceReplied`, `InterruptEnds` |
| `serving` | two peers for one place, one with extensions, one piece | `NoPieceWhileChoked`, `ViewsConverge`, `Informed` |
| `cache` | either cache, two pieces, the last one short, room for one or two | `ReadsMatch`, `WrittenThrough`, `UsageExact`, `PanicsExplained`, `ReadEnds` |
| `session_start` | three pieces over three files, file or magnet link, every pair of flags, crashes | `ResumeSound`, `MapsFit`, `CheckExact`, `CheckEnds`, `NeverForgets`, `MetadataArrive` |

One run finds the code at odds with what its comment says (quoted in
`PROJECT.json`, `findings`):

| run | shows |
|---|---|
| `download_stall` | a peer's last request is answered for a piece we have by now, and it is asked for nothing any more |

Some properties say under which faults the code does not keep a promise, so
that everything else is covered: `ReadsMatch`, `UsageExact` and
`PanicsExplained` name the races and errors a cache does not survive,
`ResumeSound` the pieces whose write failed, `Announced` the session that is
over before its ticker was stored, `QuitExits` and `MainReturns` the trackerless
session that is stuck in its last report, `MetadataArrive` the peer that rejects
or leaves, and a `load` or `saveMetaInfo` that fails.

### Also noticed

The following came up while modelling. The models contain the behaviour, but no
run is spent on it.

Sessions and connections:

* `torrent.go:517`: the second of a connection's two final nil messages
  unregisters whoever has its address by then, so that a peer may come to be
  connected twice.
* `torrentLoop.go:135`: the program ends when the last registered session ends,
  though another torrent is still being created.
* `torrent.go:730`: a trackerless session that is asked to quit sends its last
  report on a nil channel. It never ends, nor does the program after control-C
  (`QuitBlocks`, `StuckForGood`; `QuitEnds` fails with `Trackerless = TRUE`, and
  `QuitExits` and `MainReturns` without their exceptions).
* `torrent.go:528`: with `-useDeadlockDetector`, nobody tells the detector that
  a session has ended; it panics 15 seconds later and takes the others along.
* `torrentLoop.go:145`, `torrent.go:391`, `:422`: a connection about no torrent of
  ours, or whose header cannot be written or read, is not closed; neither are
  those in the channels of a session that ends. They are "left" in
  `Connections`.
* `torrent.go:432`: before `DoTorrent` has made its channels their capacity is
  zero, so connections to a session that has just started are closed.
* `listen.go:43`: the header is read before the next `Accept`, so an inbound
  connection that says nothing holds up all others.
* `torrent.go:712`: `lastReadTime.Second() != 0` was meant to ask whether the time
  is set; a peer last heard from in the first second of a minute is not timed out.
* `lpd.go:110`: a ticker stored after `StopAnnouncing` runs for ever, and the map
  is written by several goroutines without a lock; `torrentLoop.go:97`: after an
  error of `NewAnnouncer` the main loop dereferences a nil `lpd`.

Upload, metadata, files and caches:

* `torrent.go:1158`: every EXTENSION message is answered with a bitfield, also
  after HAVE messages, where this program itself refuses one.
* `AddRequest` and `MAX_PEER_REQUESTS` are not used: requests are answered at
  once, so CANCEL never finds one, and the queue of a slow peer has no bound.
* `torrent.go:510`: `Transferring` is set to false only if it is false; when the
  first peer asked leaves, rejects or never answers, a magnet link stalls.
  `torrent.go:1295`: metadata with a wrong hash are logged and loaded.
* A crash while `haveBitset` is rewritten leaves a file that `load` refuses as
  malformed, until it is removed by hand or `-initialCheck` is used.
* `bitset.go:85`: `IsEndValid` masks the bits in use instead of those behind the
  end; `NewBitsetFromBytes`, which the models use, has it right.
* `cache.go:120`: `ReadAt` takes a box from the table twice and, if another
  session has thrown it out in between, goes on without its bytes.
  `hdcache.go:178`: boxes are counted before they are written, so errors and
  races leave the count too high, and `trim` runs out of boxes and panics.
  Both caches panic on reads behind the end of a short last piece, where
  `files.go` reads zeros, and both keep what a failed read left in the buffer.
  `rebalance` gives everybody at least one piece, so that many torrents
  together exceed the capacity.

Download, choking and trackers:

* `torrent.go:901`: the error of `WritePiece` is dropped and the piece claimed
  (`PieceSetVerified` fails with `StoreMayFail = TRUE`).
* `torrent.go:923`: when a piece arrives, interest in the other peers that have
  it is not reconsidered, though the comment relies on the caller for that.
* `torrent.go:789`: the endgame may request a block again from the peer that has
  the request already, and count it as a second requester.
* `torrent.go:897`: the peer whose block completes a bad piece is closed, though
  the bad block may be another's.
* `torrent.go:1033`: every INTERESTED and NOT_INTERESTED message runs a choke
  policy that "expects to be called once every 10 seconds" (`choker.go:30`), so
  an optimist's turn may be cut short.
* `peer.go:52`: the `Accumulator` of a peer is never initialised, so all rates
  the policy sorts by are zero and the slots do not go to the fastest peers.
* `torrentLoop.go:124`: of two sessions of one torrent, the end of one
  unregisters the other, and the program may end with it at work.
* `trackerClient.go:108`: a failed query's response is returned and taken for
  tracker information.
* `trackerClient.go:391`: the action compared is the one sent, not the one
  received, so a long enough error response passes for a list of peers.
* `tracker.go:318`: a scrape reads the table without the mutex that "protects l
  and t"; `tracker.go:337`: an interrupt before `t.l` is set dereferences nil,
  and the listener is closed before `t.done`, so that `ListenAndServe` may return
  an error after `Quit`; `tracker.go:476`: a stopped client is sent peers all the
  same; `tracker.go:465`: a late stop drops the successor at that address;
  `tracker.go:361`: the reaper comes once and too early to find anybody.

### Bounds

* `MaxRequestCount` (Download): the code puts no bound on how often the endgame
  requests a block again; the model makes no new requests while a block is
  requested that often. Two is where counts and requests first part company.
  A reliable seed that answers or unchokes is exempt, so that the bound never
  stops a download.
* Two connections reach every race between a closing connection and another. Piece and
  block sizes are a few bytes: what matters is one or several blocks per
  piece, a short last piece, and more pieces than may be active.
* `MaxRate` (Choking): one step of rate tells fast from slow. Four peers for two
  places leave candidates when the optimist is replaced.
* `MaxReports` (TrackerClient): three suffice for one being announced, one held
  and one that replaces it.
* `Retries` (UdpTracker): first, middle and last attempt.
* `MaxTime` (Tracker): one unit of 30 minutes is when the reaper comes. It finds
  nobody an hour old then, as in the code; the theorem covers a reaper that is
  delayed for longer.
* `MaxQueue` (Serving): three messages wait at most for one writer, enough for a block
  between two changes of mind; the session makes no step that sends while a queue is
  full, so the bound delays decisions and drops nothing. One piece is acquired,
  before or after the bitfield.
* `MaxOthers`, `Capacity` (Cache): the share shrinks from two pieces to one and
  grows back. `MaxFaults` bounds the *kinds* of fault in a behaviour, not their
  number, so each kind is met as often as it comes but not with another.
* `ByteSize`, `ResultsCap` (Resume): two bits to a byte make a bitset of two bytes
  whose last one has a bit to spare; one place for results makes two workers
  wait for the merger. `MaxFaults` is one piece that cannot be read or written.
  `MetaPieces`: first, middle and last piece of the metadata.
* `NumFiles`, `MaxNumPeers` (Connections): two files in flight and one queued; two
  connections for one place reach the comparison that is stale when used.

`CHECK_DEADLOCK FALSE` is set where the system may stop: all connections of an
instance used up (Download, Serving), an interrupt before any session is
registered (TorrentLoop: the loop then waits for ever), a cache that is closed
or a program that has panicked (Cache), and resume data that are refused or
metadata that never come (SessionStart, where crashes are free to happen but
need not).

### Fairness

* Download: `select` picks among ready channels at random, so a message that
  is held is handled, and a read from a closed socket fails (weak fairness).
  A reliable seed sends its bitfield, unchokes an interested peer and answers a
  request that stands again and again (strong fairness: its reader and our
  time-outs may come between).
* Choking: ticks keep coming, and `rand.Intn` picks every candidate that is
  offered again and again.
* TorrentLoop and Connections: goroutines run on; a session that has been sent
  the quit message takes it, and takes connections from `addPeerChan` until then
  (`select` does not pass over a channel for ever). What follows is free: it
  ends, since the relay of `TrackerClient` takes every report (`NeverHeldUp`), or
  it has no tracker and is stuck. No fairness makes a stuck session go on.
* Cache: a goroutine inside the cache goes on. That reads end is conditional on
  other sessions not opening and closing their caches for ever.
* Resume and SessionStart: reader, workers and merger run on, and a peer that
  has the metadata answers or rejects what it is asked.
* TrackerClient: the relay is always in a `select`. Only `LatestAnnounced`
  assumes that queries end and says so; `UdpTracker` shows it for UDP
  (`QueryEnds`) from deadlines alone.
* Tracker: a Go mutex is granted to every waiter in the end (it has a
  starvation mode), hence strong fairness for taking it.

## 4. Proofs

All theorems hold for every value of the constants that satisfies the named
assumptions (`SizeAssumption`, `PeerAssumption`, `ChokingAssumption`,
`LoopAssumption`, `ConnectionsAssumption`, `ClientAssumption`, `UdpAssumption`,
`TrackerAssumption`, `CacheAssumption`, `ResumeAssumption`,
`BitsetAssumption`): positive sizes, finite sets of connections or clients,
layouts whose files add up to the size of the torrent, a `None` that is not a
value of the data, no more. Every invariant and every action property of
section 3 is a theorem, and so are the refinements and every `TypeOK`: of
`Choking`, `TorrentLoop`, `TrackerClient` and `Tracker` together with the
invariant of the module, of the others as a theorem of its own (`TypeCorrect`,
`ServingTypes`, `CacheTypes`, `SessionTypes`, `ConnectionsTypes`, `UdpTypes`).
The argument of each proof:

* `DownloadProofs`. The inductive invariant `IInv` joins `TypeOK`,
  `Accounting`, `ActiveWanted`, `InterestSound`, `IdleUnrequested` and, when
  writes succeed, `PieceSetVerified`. The parts need each other: that interest
  is not withdrawn early rests on active pieces being incomplete (the endgame
  then finds a block), that rests on a piece leaving `activePieces` in the step
  that completes it, and that `Left` does not drift rests on active pieces being
  ones we lack. `IdleUnrequested` (nothing is requested of a connection without
  a reader) is what makes `NoRequestLeak` inductive. `RequestBlockOK`, on which
  most cases rest, says that `RequestBlock` keeps a plan in order; it is used
  twice for UNCHOKE. Theorems: `TypeCorrect`, `AccountingHolds`,
  `ActiveWantedHolds`, `InterestSoundHolds`, `NoRequestLeakHolds`,
  `PieceSetVerifiedHolds` and `Refinement` (the session implements
  `PieceStore`; `Left` is bounded below by the length of the piece acquired).
  `LeftIsMissingBytesHolds` goes from the closed form in `Accounting` to the sum
  over the missing pieces: `SumIsBytes` shows by a least counterexample that
  `MapThenSumSet` adds up to `Bytes`, whatever order it picks the pieces in.
* `ChokingProofs`, `UploadSlotsHold`. Inductive with `TypeOK`; the argument is
  that a run of the policy overwrites the choice for exactly the interested
  peers, so nothing accumulates.
* `ServingProofs`. The properties choose the last CHOKE or UNCHOKE before a
  message; the invariant says instead what the first `n` messages of a queue
  make of a peer's view (`Says`), so that a message appended (`SaysMore`) or
  written is a step of the argument. `IInv` adds `Fresh` (the peer of a connection
  not yet in use knows nothing) and, for the open ones, that
  blocks come where the peer knows it is unchoked, that all of the queue leads
  to what the session has decided, and that bitfield and HAVE messages add up
  to what it holds. Theorems: `NoPieceWhileChokedHolds`, `ViewsConvergeHolds`,
  `InformedHolds`, for queues, connections and pieces without bound.
  `ServesByPolicy`: the session implements `Choking`. A run of the policy is the
  same in both (`SameRun`), and steps of readers and writers stutter or are the
  policy's own. `ServesFewHolds` carries `UploadSlots` over by that refinement,
  from the theorem of `ChokingProofs` and without a second proof of it.
* `CacheProofs`. The count and the data are two arguments. `Counted`: while
  there has been no race and no error of a cache file, one goroutine at most is
  in the cache, the list by use time holds exactly the boxes, each once, and a
  trim that is under way has that list and the excess of the count before it
  (`TrimExact`: it removes the head of its list, which is the oldest box). So
  `UsageExactHolds`, and `trim` cannot run out of boxes (`PanicsExplainedHolds`).
  `Data`, which is needed in the presence of races and errors too: no box is
  wrong and a box of a piece that we lack is the one being written. It rests on
  `Reading` (a read that has not left the torrent is of a piece we have, and
  after one box it is over or beyond the last piece, `OneBox`) and, in a
  `RamCache`, on `Counted`, for a box that was seen must still be there
  (`RamHit`). Theorems: `ReadsMatchHolds`, `WrittenThroughHolds`. In `CacheTypes`
  the substance is that no copy leaves a read with less than nothing to do
  (`CopyFits`) and that `rebalance` leaves every cache a share.
* `SessionStartProofs`. First `ChunksAreExtent`: `find` ends at a file that starts at
  or before the offset (`FindStarts`), and a turn of the loop takes exactly the
  bytes that are meant in its file (`LoopTurnExact`). A claim about a recursive
  function is proved by a least counterexample, which the library's `WFMin`
  provides; that such a function exists (`SearchExists`, `LoopExists`) must be
  shown first. Then `RInv`: what is not right of the piece being written is
  still in `todo` or its write has failed (`Recorded`), the resume file, if load
  accepts it, claims right pieces only (`ResumeRight`: a prefix of a bitset is
  malformed), and every chunk between reader, hashers and merger says of its
  piece what is the case (`Hashed`). Theorems: `ResumeSoundHolds` and, from
  `Hashed` when all sums are merged, `CheckExactHolds`. `MInv` says how long
  piece maps are in each phase: `MapsFitHolds`. `NeverForgetsHolds` needs no
  invariant. `SessionTypes` rests on `MissingOK`: what `DoMetadata` asks for again
  are the indices that are missing and exist.

  The safety half of `CheckEnds`: no chunk of a check is lost between reader,
  hashers and merger (`Conserved`), so somebody can go on until every piece is
  merged (`CheckGoesOnHolds`), and every step of `Hashing` makes `StepsLeft`
  smaller, which begins at four for each piece (`CheckShrinksHolds`). Both are
  for any number of hashers and any capacity of the results channel. `CheckEnds`
  itself adds fairness and is model-checked.

  `ClaimsWritten` is what corresponds to the steps of `PieceStore`: while a
  session runs it acquires pieces one at a time, each once (`NotClaimed`: the
  piece being written is none of those it has), with all bytes in the files or
  a failed write. It is no refinement of `PieceStore` as a whole, in which there
  are no restarts.
* `ConnectionsProofs`. `ActiveBoundHolds`: `IInv` counts the files in flight
  together with the place that is free, and must stay so, while the main loop
  refills (`Load`), which is why the send on `createChan` never blocks.
  `ImplementsTorrentLoop`: steps of connections and of the
  announcing goroutines stutter in `TorrentLoop`, the others are its steps under
  stronger guards; `ActiveBoundWithConnections` follows. `TableSoundHolds`:
  `TableSound` is inductive with the type of `place`, because `addPeerImp` asks
  again what `tryNewPeer` asked when the address came. `AnnouncedHolds`, under
  `DistinctHashes`: `AnnounceInv` ties the map of tickers to the goroutines and to
  the stages of the files; without it `StopAnnouncing` might find no ticker for a
  goroutine that has stored one. `StuckForGood`, under `DistinctHashes`: the
  exception of `QuitExits` is no passing delay. `Registered` (the table holds every
  session whose `DoTorrent` has not returned) shows that the program does not end
  while a session is stuck.
* `TrackerClientProofs`, on `UdpTracker`. `Order` says that without a connection id the deadline has
  passed when the announcement is about to be written, and that there is no
  connection id while attempts are still made, so that the attempt it belongs to
  is the last. Theorems: `AnnounceConnectedHolds`, `AnswersMatchHolds`.
* `TrackerClientProofs`, on `TrackerClient`: `TrackersKeptHolds`. Moving a tracker to the front
  permutes its level (`MoveToFrontOK`). `LatestKeptHolds` and
  `ReportsInOrderHolds` rest on `InOrder`: reports are made, kept by the relay and
  taken by the query in one order, so that forgetting one never forgets the
  latest. This is the safety half of `LatestAnnounced`. `TiersInOrderHolds`: the
  trackers that have failed in a query come before all others, so that a tier is
  asked only after the tiers before it, and a failure reaches the session only
  when every tracker has failed; it needs `TypeOK` for `tried` to be all positions
  when no tracker is left.
* `TrackerProofs`, `IntroducedHolds`. `AllPicked` says that who asks for as
  many peers as there are is told of all; the invariant then follows for the
  peer that announced later, whatever removed and re-added entries before.

Only model-checked: all liveness properties, since the provers do not reach
fairness (`ClosedPeersCleanedUp`, `DownloadCompletes`, `NobodyStarves`,
`QuitExits`, `MainReturns`, `NeverHeldUp`, `QuitEnds`, `LatestAnnounced`,
`AnnounceReplied`, `InterruptEnds`, `QueryEnds`, `ReadEnds`, `CheckEnds`,
`MetadataArrive`).

## 5. Not modelled

* Parsing and creation of metainfo, magnet links and bencoded messages
  (`metainfo.go`, `uri.go`): conversions of input with no state of their own.
* NAT traversal, proxies and DHT: exchanges with third parties, no state of the
  program's own. The file-system back ends and `sftp.go`: I/O behind an
  interface that `FileStore` stands in front of.
* Command line, logging, and the rates shown to the user.
* In `Download`, REQUEST, CANCEL, INTERESTED and EXTENSION appear only as
  messages that leave the download alone or close the peer; `Serving` and
  `SessionStart` have their effects. PORT goes to the DHT library.
* In `Tracker`, statistics and the two reply formats.
* In `SessionStart`, peers that send wrong metadata or pieces out of range.
* A crash of the operating system, after which writes may be lost in any order.

## 6. Plan

1. An address that connects again in `Download`, before the second nil message of
   its first connection; wrong metadata in `SessionStart`; two torrents with
   caches of their own in `Cache`.
2. The safety half of the other liveness properties, as for `CheckEnds`: that
   readers and writers of `Download` can always end when a peer is closed, and
   that the main loop of `Connections` is held up in `AddPeer` only.
