SPECIFICATION FairSpec
CONSTANTS
    Threads = {t1, t2}
    Events = {pipe}
    Waits = {}
    Pipe = pipe
    ReadEnds = {r1}
    WriteEnds = {w1}
    Nonblock = {}
    Capacity = 3
    Counts = {2}
    MaxTriggers = 1
PROPERTIES CallReturns
