SPECIFICATION SteadySpec
CONSTANTS
    Threads = {1, 2, 3, 4}
    Idle = 0
    ListHead = ListHead
    NULL = NULL
    KernelMain = 2
    Procs = {"kernel", "init", "a"}
    KernelProc = "kernel"
    InitProc = "init"
    ProcOf <- MCProcOf
    MainOf <- MCMainOf
    Signals = {}
    Handled = {}
    MaxPending = 1
INVARIANTS ActivePagemapExists
