----------------------- MODULE MCPackageDownloadManager -----------------------
EXTENDS PackageDownloadManager

CONSTANTS p1, q1, q2

NoPackage  == {}
OnePackage == {p1}
OnePeer    == {q1}
TwoPeers   == {q1, q2}

\* q1 is a seeder, q2 has the first segment only.
OffersFull == [p \in Packages |-> [q \in Peers |-> IF q = q1 THEN Segments ELSE {1}]]
=============================================================================
