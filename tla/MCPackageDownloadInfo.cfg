CONSTANTS
    a = a
    b = b
    Null = Null
    Slots <- MCSlots
    SegmentsCount = 3
    SegmentLength = 2
    SegmentLastLength = 1
    BitsPerByte = 2
    MaxCount = 2
SYMMETRY SlotSymmetry
SPECIFICATION Spec
INVARIANTS
    ReturnNeverThrows
    NoSegmentTwice
    LedgerInv
PROPERTIES
    RefusalLeavesARunner
    DownloadedOnlyGrows
    ImplementsSegmentClaims
CHECK_DEADLOCK FALSE
