CONSTANTS
    a1 = a1
    s1 = s1
    o1 = o1
    d1 = d1
    d2 = d2
    Null = Null
    Users <- MCUsers
    Uploaders <- MCUploaders
    Others <- MCOthers
    Deleters <- MCDeleters
    MaximumUploadsSlots = 2
    Parts = 2
    OpensMayFail = TRUE
SPECIFICATION UpFairSpec
INVARIANTS
    WholeWhileLocked
    OneDeletionRuns
    UnregisteredIsGone
    UploadLimit
    SlotsBalanced
PROPERTIES
    ImplementsGuardedResource
    DeletionEndsUnlessLost
CHECK_DEADLOCK FALSE
