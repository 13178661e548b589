SPECIFICATION StructuresSpec
CONSTANTS
    Size = 3
    Word = 6
    Values = {a, b}
    MaxCount = 4
    Threads = {t1, t2, t3}
    Events = {e1}
    Waits <- OneEvent
    MaxTriggers = 1
    Capacities = {1}
    NULL = NULL
    MemoryMap <- MCMemoryMap
    PageBytes = 4
    PagesPerStruct = 8
    MaxRun = 4
    TimThreads = {s1, s2}
    NanosPerSecond = 3
    Durations <- MCDurations
    Intervals <- MCIntervals
SYMMETRY ListSymmetry
  
PROPERTIES ImplementsFifo ImplementsEvent
CHECK_DEADLOCK FALSE
