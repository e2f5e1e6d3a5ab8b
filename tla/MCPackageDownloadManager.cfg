CONSTANTS
    p1 = p1
    q1 = q1
    q2 = q2
    Null = Null
    Packages <- OnePackage
    Peers <- TwoPeers
    Segments = {1, 2}
    Offers <- OffersFull
    Discovered <- NoPackage
    Slots = {1, 2, 3}
    MaximumDownloadSlots = 2
    SegmentsPerRequest = 1
    SavesMayFail = TRUE
    MaxRetries = 2
SPECIFICATION Spec
INVARIANTS
    SlotLimit
    SlotsWorkOnLocalPackages
PROPERTIES
    StoppedGetsNoSlot
CHECK_DEADLOCK FALSE
