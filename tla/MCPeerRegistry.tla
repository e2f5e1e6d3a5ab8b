---------------------------- MODULE MCPeerRegistry ----------------------------
(* Two peers, three threads that do anything, and one list of both peers.        *)
EXTENDS PeerRegistry

CONSTANTS p1, p2, t1, t2, t3

MCPeers   == {p1, p2}
MCThreads == {t1, t2, t3}
MCUpdates == {<<p1, p2>>}
=============================================================================
