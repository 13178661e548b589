SPECIFICATION Spec
CONSTANTS
    Spaces = {parent, child}
    InitSpace = parent
    Frames <- MCFrames
    Pool <- MCPool
    Ids = {1, 2, 3, 4, 5, 6}
    NULL = NULL
    Device = Device
    HeapBase = 0
    HeapTop = 1
    MmapBase = 2
    MmapTop = 5
    Flags = {"r", "rw"}
    StackFlags = "rw"
    StackPages = 2
    MaxSteps = 4
    Kinds <- MCKinds
INVARIANTS RangesDisjoint EntriesCurrent EntriesOwned FramesMapped LookupSound
CHECK_DEADLOCK FALSE
PROPERTIES MprotectKeepsPages ForkCopies
