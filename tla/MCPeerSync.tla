----------------------------- MODULE MCPeerSync -----------------------------
(* Model-checking instance of PeerSync: requests around every boundary of    *)
(* LastServed, with ranges that are empty, cut, one too long and wrapped.    *)
EXTENDS PeerSync

MCRequests == [start : 0..1, end : 0..3, max : 0..1]
=============================================================================
