CONSTANTS
    a = a
    b = b
    Null = Null
    Manager = Manager
    Torn = Torn
    Slots <- MCSlots
    SegmentsCount = 2
    SegmentLength = 2
    SegmentLastLength = 1
    BitsPerByte = 8
    MaxCount = 1
SPECIFICATION FairFileSpec
INVARIANTS
    FileNeverOverclaims
    CompleteMeansAllData
    SaveCoversFile
PROPERTIES
    CompletionSaved
CHECK_DEADLOCK FALSE
