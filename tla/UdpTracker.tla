------------------------------ MODULE UdpTracker ----------------------------
(***************************************************************************)
(* A query of a UDP tracker (torrent/trackerClient.go, queryUDPTracker): a *)
(* connection request, repeated when it times out, and an announcement     *)
(* that uses the connection id so obtained, over a network that loses,     *)
(* delays, reorders and duplicates datagrams.  The socket is connected, so *)
(* only the tracker's datagrams are read.                                  *)
(*                                                                         *)
(* A request is known by its transaction id; those are random and taken to *)
(* be distinct: the number of the attempt, or Retries for the announcement.*)
(* One deadline serves the reads and the writes of an attempt to connect,  *)
(* and the announcement after it.                                          *)
(*                                                                         *)
(* The names that every specification has (Init, Next, Spec, ...) are      *)
(* prefixed here, as the proofs about the tracker client extend both this  *)
(* module and TrackerClient.                                               *)
(***************************************************************************)
EXTENDS Integers, FiniteSets

CONSTANT Retries   \* how often a connection is requested (8 in the code)

ASSUME UdpAssumption == Retries \in Nat \ {0}

Attempts == 0 .. Retries - 1
announcement == Retries
Transactions == Attempts \cup {announcement}

(* Datagrams of the tracker.  An error carries a text of any length; what  *)
(* matters of it is whether the datagram has at least the 20 bytes of an   *)
(* announce response.                                                      *)
Kinds == {"connect", "announce", "error", "shorterror"}
UdpResponses == [kind : Kinds, transaction : Transactions]

VARIABLES
    phase,         \* "connect" (about to send), "connecting" (waiting),
                   \* "announce", "announcing", "ok" or "failed"
    retry,         \* the number of the attempt
    expired,       \* whether the deadline has passed
    connectionID,  \* whether the tracker has given it (or it is zero)
    requests,      \* transactions of the requests on the network
    connected,     \* whether the announcement carries the tracker's id
    responses,     \* responses on the network
    accepted       \* the kind of the announce response that was accepted

udpVars == <<phase, retry, expired, connectionID, requests, connected,
             responses, accepted>>

UdpTypeOK ==
    /\ phase \in {"connect", "connecting", "announce", "announcing", "ok",
                  "failed"}
    /\ retry \in Attempts
    /\ expired \in BOOLEAN
    /\ connectionID \in BOOLEAN
    /\ requests \subseteq Transactions
    /\ connected \in BOOLEAN
    /\ responses \subseteq UdpResponses
    /\ accepted \in Kinds \cup {"none"}

UdpInit ==
    /\ phase = "connect"
    /\ retry = 0
    /\ expired = FALSE
    /\ connectionID = FALSE
    /\ requests = {}
    /\ connected = FALSE
    /\ responses = {}
    /\ accepted = "none"

-----------------------------------------------------------------------------
(* The client. *)

(* An error that is not a time-out, at any call, ends the query. *)
Error ==
    /\ phase \notin {"ok", "failed"}
    /\ phase' = "failed"
    /\ UNCHANGED <<retry, expired, connectionID, requests, connected,
                   responses, accepted>>

(* con.SetDeadline and con.Write(connectionRequest) *)
SendConnect ==
    /\ phase = "connect"
    /\ phase' = "connecting"
    /\ expired' = FALSE
    /\ requests' = requests \cup {retry}
    /\ UNCHANGED <<retry, connectionID, connected, responses, accepted>>

DeadlineExpires ==
    /\ phase \in {"connecting", "announce", "announcing"}
    /\ ~expired
    /\ expired' = TRUE
    /\ UNCHANGED <<phase, retry, connectionID, requests, connected, responses,
                   accepted>>

(* Mutant: the attempts are not counted. *)
MutConnectTimeout ==
    /\ phase = "connecting"
    /\ expired
    /\ phase' = "connect"
    /\ UNCHANGED <<retry, expired, connectionID, requests, connected,
                   responses, accepted>>

(* con.Read times out: the next attempt, or on to the announcement. *)
ConnectTimeout ==
    /\ phase = "connecting"
    /\ expired
    /\ IF retry + 1 < Retries
       THEN phase' = "connect" /\ retry' = retry + 1
       ELSE phase' = "announce" /\ UNCHANGED retry
    /\ UNCHANGED <<expired, connectionID, requests, connected, responses,
                   accepted>>

(* 16 bytes, action 0, and the transaction id of this attempt. *)
IsConnectResponse(r) == r.kind = "connect" /\ r.transaction = retry

ReadConnect(r) ==
    /\ phase = "connecting"
    /\ ~expired
    /\ r \in responses
    /\ IF IsConnectResponse(r)
       THEN phase' = "announce" /\ connectionID' = TRUE
       ELSE phase' = "failed" /\ UNCHANGED connectionID
    /\ UNCHANGED <<retry, expired, requests, connected, responses, accepted>>

(* Mutant: the deadline is one for reads only. *)
MutSendAnnounce ==
    /\ phase = "announce"
    /\ phase' = "announcing"
    /\ requests' = requests \cup {announcement}
    /\ connected' = connectionID
    /\ UNCHANGED <<retry, expired, connectionID, responses, accepted>>

(* con.Write(announcementRequest): fails if the deadline has passed. *)
SendAnnounce ==
    /\ phase = "announce"
    /\ IF expired
       THEN phase' = "failed" /\ UNCHANGED <<requests, connected>>
       ELSE /\ phase' = "announcing"
            /\ requests' = requests \cup {announcement}
            /\ connected' = connectionID
    /\ UNCHANGED <<retry, expired, connectionID, responses, accepted>>

(* con.Read times out; an announcement is not repeated. *)
AnnounceTimeout ==
    /\ phase = "announcing"
    /\ expired
    /\ phase' = "failed"
    /\ UNCHANGED <<retry, expired, connectionID, requests, connected,
                   responses, accepted>>

(* Mutant: the transaction id is not looked at. *)
MutIsAnnounceResponse(r) == r.kind \in {"announce", "error"}

(* At least 20 bytes and the transaction id of the announcement; the       *)
(* action that is compared is that of the request.                         *)
IsAnnounceResponse(r) ==
    r.kind \in {"announce", "error"} /\ r.transaction = announcement

ReadAnnounce(r) ==
    /\ phase = "announcing"
    /\ ~expired
    /\ r \in responses
    /\ IF IsAnnounceResponse(r)
       THEN phase' = "ok" /\ accepted' = r.kind
       ELSE phase' = "failed" /\ UNCHANGED accepted
    /\ UNCHANGED <<retry, expired, connectionID, requests, connected, responses>>

-----------------------------------------------------------------------------
(* The tracker answers a request, or a copy of it, at any time or never; a *)
(* response may be read any number of times or never.                      *)
Respond(t, kind) ==
    /\ t \in requests
    /\ kind \in {IF t = announcement THEN "announce" ELSE "connect", "error",
                 "shorterror"}
    /\ t = announcement /\ ~connected => kind # "announce"
    /\ responses' = responses \cup {[kind |-> kind, transaction |-> t]}
    /\ UNCHANGED <<phase, retry, expired, connectionID, requests, connected,
                   accepted>>

(* queryUDPTracker has returned. *)
Returned == phase \in {"ok", "failed"} /\ UNCHANGED udpVars

Client ==
    \/ SendConnect
    \/ ConnectTimeout
    \/ \E r \in responses : ReadConnect(r)
    \/ SendAnnounce
    \/ AnnounceTimeout
    \/ \E r \in responses : ReadAnnounce(r)

UdpNext ==
    \/ Client
    \/ Error
    \/ DeadlineExpires
    \/ \E t \in requests, kind \in Kinds : Respond(t, kind)
    \/ Returned

UdpSpec == UdpInit /\ [][UdpNext]_udpVars

(* The client runs on and its deadlines pass; the tracker owes nothing.    *)
UdpFairSpec == UdpSpec /\ WF_udpVars(Client) /\ WF_udpVars(DeadlineExpires)

-----------------------------------------------------------------------------
(* An announcement on the network carries a connection id that the tracker *)
(* has given: after the last connection request timed out the code goes on *)
(* with the id zero, but by then the deadline has passed for writes too.   *)
AnnounceConnected == announcement \in requests => connected

(* A connection is established by the answer to the attempt under way, and *)
(* the query succeeds only if the tracker has answered its announcement:   *)
(* no late or repeated answer to an earlier request passes for one.        *)
AnswersMatch ==
    /\ connectionID => [kind |-> "connect", transaction |-> retry] \in responses
    /\ phase = "ok" => [kind |-> accepted, transaction |-> announcement]
                           \in responses

(* Whatever is lost, the query ends, and with it what waits for it.        *)
QueryEnds == <>(phase \in {"ok", "failed"})
=============================================================================
