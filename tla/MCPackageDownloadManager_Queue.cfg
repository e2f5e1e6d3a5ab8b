CONSTANTS
    p1 = p1
    q1 = q1
    q2 = q2
    Null = Null
    Packages <- OnePackage
    Peers <- OnePeer
    Segments = {1}
    Offers <- OffersFull
    Discovered <- OnePackage
    Slots = {1, 2}
    MaximumDownloadSlots = 1
    SegmentsPerRequest = 1
    SavesMayFail = FALSE
    MaxRetries = 1
SPECIFICATION FairSpec
INVARIANTS
    SomethingWillCall
    DeletedNotQueued
    GivesUpForAReason
PROPERTY HeadLeavesQueue
CHECK_DEADLOCK FALSE
