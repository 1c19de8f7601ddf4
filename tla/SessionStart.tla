---------------------------- MODULE SessionStart ----------------------------
(***************************************************************************)
(* The start of a torrent session (torrent/torrent.go), from a torrent     *)
(* file or from a magnet link.  With a magnet link the session runs before *)
(* it has a torrent: it connects to peers, fetches the info dictionary     *)
(* from one of them in pieces (DoExtension, DoMetadata), and only then     *)
(* loads, with the resume data and the checks of module Resume.            *)
(*                                                                         *)
(* Peers are honest.  Those in Full have the metadata, say how long they   *)
(* are, and answer requests in order; the others announce ut_metadata as   *)
(* this program itself does, without a size and without ever answering.    *)
(***************************************************************************)
EXTENDS Resume

CONSTANTS
    Peers,       \* addresses
    Full,        \* peers that have the metadata
    MetaPieces   \* number of 16 KiB pieces of the info dictionary

ASSUME SessionStartAssumption ==
    /\ Full \subseteq Peers
    /\ MetaPieces \in Nat \ {0}

VARIABLES
    bits,          \* bits[p]: p.have.n, or None when p is not in ts.peers
    total,         \* ts.totalPieces: 0 until load has got that far
    transferring,  \* ME.Transferring
    source,        \* the peer that was asked first, while it is connected
    got,           \* indices of ME.Pieces that are not empty
    length,        \* len(ME.Pieces)
    asked,         \* asked[p]: requests that p has not answered, oldest first
    failed         \* the source rejected, or saveMetaInfo or load failed

metaVars == <<bits, total, transferring, source, got, length, asked, failed>>
vars == <<resumeVars, metaVars>>

TypeOK ==
    /\ ResumeTypeOK
    /\ phase \in {"down", "magnet", "check", "running", "refused"}
    /\ bits \in [Peers -> {None, 0, totalPieces}]
    /\ total \in {0, totalPieces}
    /\ transferring \in BOOLEAN
    /\ source \in Peers \cup {None}
    /\ got \subseteq 0 .. length - 1
    /\ length \in {0, MetaPieces}
    /\ \A p \in Peers : \A k \in DOMAIN asked[p] : asked[p][k] < MetaPieces
    /\ failed \in BOOLEAN

Init ==
    /\ ResumeInit
    /\ bits = [p \in Peers |-> None] /\ total = 0
    /\ transferring = FALSE /\ source = None
    /\ got = {} /\ length = 0
    /\ asked = [p \in Peers |-> <<>>]
    /\ failed = FALSE

exchange == <<transferring, source, got, length, failed>>

(* Mutant: load leaves the peers it has as they are. *)
MutEnlarge == UNCHANGED bits

(* The end of load: enlarge any existing peers' piece maps. *)
Enlarge == bits' = [p \in Peers |-> IF bits[p] = None THEN None ELSE totalPieces]

-----------------------------------------------------------------------------
(* NewTorrentSession, for a torrent file ... *)
StartFile(f) ==
    /\ Start(f)
    /\ total' = totalPieces
    /\ UNCHANGED <<bits, asked, exchange>>

(* ... and for a magnet link. *)
StartMagnet(f) ==
    /\ phase = "down"
    /\ phase' = "magnet"
    /\ flags' = f
    /\ UNCHANGED <<files, pieceSet, record, pipeline, metaVars>>

(* The goroutine of the session takes messages when it is not in load or   *)
(* RecordBlock.                                                            *)
Serving == phase \in {"magnet", "running"} /\ at = "idle"

addPeerImp(p) ==
    /\ Serving /\ bits[p] = None
    /\ bits' = [bits EXCEPT ![p] = total]
    /\ UNCHANGED <<resumeVars, total, asked, exchange>>

(* Transferring is not reset, whoever leaves. *)
ClosePeer(p) ==
    /\ Serving /\ bits[p] # None
    /\ bits' = [bits EXCEPT ![p] = None]
    /\ asked' = [asked EXCEPT ![p] = <<>>]
    /\ source' = IF source = p THEN None ELSE source
    /\ UNCHANGED <<resumeVars, total, transferring, got, length, failed>>

(* Mutant: a transfer begins without a request. *)
MutHandshake(p) ==
    /\ phase = "magnet" /\ bits[p] # None /\ ~ transferring
    /\ length' = IF p \in Full THEN MetaPieces ELSE length
    /\ got' = IF p \in Full THEN {} ELSE got
    /\ transferring' = TRUE
    /\ source' = p
    /\ UNCHANGED <<resumeVars, bits, total, asked, failed>>

(* DoExtension for a handshake, which does nothing more when the torrent   *)
(* is there or a transfer has begun.                                       *)
Handshake(p) ==
    /\ phase = "magnet" /\ bits[p] # None /\ ~ transferring
    /\ length' = IF p \in Full THEN MetaPieces ELSE length
    /\ got' = IF p \in Full THEN {} ELSE got
    /\ transferring' = TRUE
    /\ source' = p
    /\ asked' = [asked EXCEPT ![p] = Append(@, 0)]
    /\ UNCHANGED <<resumeVars, bits, total, failed>>

(* reload: the error of load is dropped. *)
reload ==
    /\ total' = totalPieces
    /\ \/ /\ load(flags)
          /\ IF phase' = "running" THEN Enlarge ELSE UNCHANGED bits
       \/ Malformed(flags) /\ UNCHANGED <<resumeVars, bits>>
    /\ UNCHANGED flags

(* The requests for the pieces that are missing, in their order. *)
Missing(set) ==
    LET below(k) == {i \in 0 .. length - 1 : i \notin set /\ i <= k}
    IN  [n \in 1 .. length - Cardinality(set) |->
            CHOOSE k \in 0 .. length - 1 :
                k \notin set /\ Cardinality(below(k)) = n]

(* Mutant: metadata are taken when the torrent is there already. *)
MutData(p) ==
    /\ Serving /\ p \in Full /\ asked[p] # <<>>
    /\ got' = got \cup {Head(asked[p])}
    /\ asked' = [asked EXCEPT ![p] = Tail(@) \o Missing(got')]
    /\ \/ Missing(got') # <<>> /\ UNCHANGED <<resumeVars, bits, total, failed>>
       \/ Missing(got') = <<>> /\ reload /\ UNCHANGED failed
    /\ UNCHANGED <<transferring, source, length>>

(* METADATA_DATA in answer to the oldest request: the piece is kept, every *)
(* piece that is missing is asked for, again if it was before, and when    *)
(* none is, the metadata are saved and loaded.                             *)
Data(p) ==
    /\ Serving /\ p \in Full /\ asked[p] # <<>>
    /\ \/ /\ phase = "running"
          /\ asked' = [asked EXCEPT ![p] = Tail(@)]
          /\ UNCHANGED <<resumeVars, bits, total, got, failed>>
       \/ /\ phase = "magnet"
          /\ got' = got \cup {Head(asked[p])}
          /\ asked' = [asked EXCEPT ![p] = Tail(@) \o Missing(got')]
          /\ \/ /\ Missing(got') # <<>>
                /\ UNCHANGED <<resumeVars, bits, total, failed>>
             \/ /\ Missing(got') = <<>>
                /\ \/ reload /\ UNCHANGED failed
                   \/ /\ failed' = TRUE   \* saveMetaInfo, or an early error of load
                      /\ UNCHANGED <<resumeVars, bits, total>>
    /\ UNCHANGED <<transferring, source, length>>

(* METADATA_REJECT is only logged. *)
Reject(p) ==
    /\ Serving /\ p \in Full /\ asked[p] # <<>>
    /\ asked' = [asked EXCEPT ![p] = Tail(@)]
    /\ failed' = TRUE
    /\ UNCHANGED <<resumeVars, bits, total, transferring, source, got, length>>

(* The end of checkPieces, in a load from a file or from a reload. *)
LoadChecked ==
    /\ Checked
    /\ Enlarge
    /\ UNCHANGED <<total, asked, exchange>>

CrashAll ==
    /\ Crash
    /\ bits' = [p \in Peers |-> None] /\ total' = 0
    /\ transferring' = FALSE /\ source' = None
    /\ got' = {} /\ length' = 0
    /\ asked' = [p \in Peers |-> <<>>]
    /\ failed' = FALSE

Flags == [initialCheck : BOOLEAN, quickResume : BOOLEAN]

Next ==
    \/ \E f \in Flags : StartFile(f) \/ StartMagnet(f)
    \/ \E p \in Peers : addPeerImp(p) \/ ClosePeer(p) \/ Handshake(p)
                        \/ Data(p) \/ Reject(p)
    \/ Hashing /\ UNCHANGED metaVars
    \/ LoadChecked
    \/ Recording /\ UNCHANGED metaVars
    \/ CrashAll

Spec == Init /\ [][Next]_vars

(* Goroutines that can go on do, and peers that have the metadata answer   *)
(* what they are asked.                                                    *)
FairSpec ==
    /\ Spec
    /\ WF_vars((Hashing /\ UNCHANGED metaVars) \/ LoadChecked)
    /\ \A p \in Full : WF_vars(Data(p) \/ Reject(p))

-----------------------------------------------------------------------------
(* Once there is a torrent, the piece maps of all peers are as long as it, *)
(* of those too that came before the metadata: HAVE and BITFIELD messages  *)
(* set bits in them, and a bit out of range is a panic.                    *)
MapsFit == phase = "running" =>
    \A p \in Peers : bits[p] # None => bits[p] = totalPieces

(* A session does not forget pieces while it runs: answers to requests for *)
(* metadata that were sent twice do not load the torrent again.            *)
NeverForgets ==
    [][phase = "running" /\ phase' \in {"check", "running"} =>
           phase' = "running" /\ pieceSet \subseteq pieceSet']_vars

(* Metadata arrive: when the first peer asked has them, stays, and does    *)
(* not reject, the session gets its torrent, unless saveMetaInfo or load   *)
(* fails.                                                                  *)
MetadataArrive ==
    phase = "magnet" /\ source \in Full
        ~> phase # "magnet" \/ source = None \/ failed \/ Malformed(flags)
=============================================================================
