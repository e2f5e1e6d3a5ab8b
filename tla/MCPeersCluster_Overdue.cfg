CONSTANTS
    p1 = p1
    c1 = c1
    c2 = c2
    r1 = r1
    r2 = r2
    Peers <- MCPeers
    Callbacks <- MCCallbacks
    Rounds <- MCRounds
    Maximum = 2
    Fast = 1
    DisableAfterFails = 2
    DisableAfterTime = 1
    Changes = 1
    MaxTime = 2
SPECIFICATION FairSpec
PROPERTY OverdueIsContacted
CHECK_DEADLOCK FALSE
