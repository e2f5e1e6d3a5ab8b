---------------------------- MODULE MCPeersCluster ----------------------------
(* A peer, a change of the packages, callbacks and rounds that overlap in     *)
(* pairs, and a clock that passes the maximum age of a contact and the time a *)
(* failing peer is protected.                                                 *)
EXTENDS PeersCluster

CONSTANTS p1, c1, c2, r1, r2

MCPeers     == {p1}
MCCallbacks == {c1, c2}
MCRounds    == {r1, r2}
=============================================================================
