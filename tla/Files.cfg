SPECIFICATION FilesSpec
CONSTANTS
    Procs = {init, child}
    Init_process = init
    Descriptions = {d1, d2}
    Free = Free
    StdFds = 2
    MaxFds = 3
    FileNames = {"a", "b"}
    Paths <- MCPaths
    MaxEntries = 4
    MaxVnodes = 4
    LinkDepth = 3
    FileKinds = {"tmpfs", "memfd"}
    FilePage = 2
    FileLength = 4
    FileValues = {1, 2}
    TermWidth = 2
    TermHeight = 2
    TabStop = 2
    Digits = {1, 4}
    MaxDigits = 2
    IntMax = 41
    MaxCsiArgs = 2
SYMMETRY FilesSymmetry
INVARIANTS HintSound   TermSafe
PROPERTIES LowestFree VfsKept
CHECK_DEADLOCK FALSE
