CONSTANTS
    p1 = p1
    p2 = p2
    t1 = t1
    t2 = t2
    t3 = t3
    Null = Null
    Peers <- MCPeers
    Threads <- MCThreads
    Updates <- MCUpdates
SPECIFICATION FairSpec
INVARIANTS
    PublishedIsEnabled
    EnabledIsPolled
PROPERTY EndsOrDeadlocks
CHECK_DEADLOCK FALSE
