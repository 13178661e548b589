SPECIFICATION Spec
CONSTANTS
    Threads = {t1, t2, t3}
    Events = {pipe}
    Waits = {}
    Pipe = pipe
    ReadEnds = {r1, rw}
    WriteEnds = {w1, rw}
    Nonblock = {rw}
    Capacity = 3
    Counts = {2}
    MaxTriggers = 1
SYMMETRY PipeSymmetry
INVARIANTS EventSafe NoneStranded PipeCounted
