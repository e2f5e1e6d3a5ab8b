------------------------ MODULE MCPackageStatusUpdater ------------------------
(* Peers share nothing in the updater but the packages of interest. *)
EXTENDS PackageStatusUpdater

CONSTANTS p1, p2, q1

MCPackages == {p1, p2}
MCPeers    == {q1}
=============================================================================
