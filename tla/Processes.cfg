SPECIFICATION ProcessesSpec
CONSTANTS
    Threads = {1, 2, 3, 4}
    Idle = 0
    ListHead = ListHead
    NULL = NULL
    KernelMain = 2
    Procs = {"kernel", "init", "a"}
    KernelProc = "kernel"
    InitProc = "init"
    ProcOf <- MCProcOf
    MainOf <- MCMainOf
    Signals = {9}
    Handled = {}
    MaxPending = 1
    MaxPid = 3
    Waiters = {w1, w2}
    WaitOptions = {{"exited"}, {"exited", "stopped"}}
    MaxGroups = 4
    MaxExecs = 3
    SigNumbers = {1, 2}
    SigActions <- MCSigActions
    MaxFrames = 3
    SigMasks = {{}, {1}}
    Ids = {0, 1, 2}
    MaxSupplementary = 2
    EventFds = {e1}
    SignalFd = sf
    PollThreads = {p1, p2}
    COUNTER_MAX = 1
    Adds = {1}
    PollSignals = {1}
    PollMasks = {{}, {1}}
    MaxEvents = 1
    SockClients = {c1}
    SockAccepted = {a1, a2}
    RingCapacity = 3
    Chunks = {2}
    MaxSent = 4
    DgSockets = {d1, d2}
    DgCapacity = 2
    MaxDatagrams = 3
    PtyCapacity = 2
    PtyBuffers <- MCPtyBuffers
    Termios <- MCTermios
    TtyGroups = {"g1", "g2", "g3"}
    SessionOf <- MCSessionOf
    Leads = {"g1", "g3"}
    NoGroup = "none"
    ConsoleCapacity = 4
    Keys <- MCKeys
INVARIANTS RunListLinked OwnContext  ProcKept SignalSafe CredSafe  SocketSafe TtySafe
CHECK_DEADLOCK FALSE
