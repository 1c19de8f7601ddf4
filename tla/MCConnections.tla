--------------------------- MODULE MCConnections ----------------------------
(* Small instances of Connections for TLC. *)
EXTENDS Connections

\* Every file is a torrent of its own.
DistinctHash == [f \in Files |-> f]

\* All connections are about the first torrent, and lead to different peers.
FirstTorrent == [c \in Conns |-> 1]
DistinctID == [c \in Conns |-> c]
=============================================================================
