CONSTANTS
    p1 = p1
    p2 = p2
    q1 = q1
    Packages <- MCPackages
    Peers <- MCPeers
    MaxObjects = 2
    MaxPolls = 1
SPECIFICATION FairSpec
INVARIANTS
    CountersExact
    CountersConserved
PROPERTIES
    NewsAreAskedFor
CHECK_DEADLOCK FALSE
