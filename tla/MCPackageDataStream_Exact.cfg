CONSTANTS
    s1 = s1
    s2 = s2
    NoFile = NoFile
    Slots <- MCSlots
    Sizes <- MCSizes
    SegmentLength = 2
    SegmentsPerDataFile = 2
    SegmentsPerRequest = 2
    FilesMayFail = TRUE
SPECIFICATION Spec
INVARIANT CreatedIsValid
CHECK_DEADLOCK FALSE
