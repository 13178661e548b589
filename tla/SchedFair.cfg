SPECIFICATION FairSpec
CONSTANTS
    Threads = {1, 2, 3}
    Idle = 0
    ListHead = ListHead
    NULL = NULL
    KernelMain = 2
    Procs = {"kernel", "init", "a"}
    KernelProc = "kernel"
    InitProc = "init"
    ProcOf <- MCProcOf
    MainOf <- MCMainOf
    Signals = {10, 19}
    Handled = {10}
    MaxPending = 1
PROPERTIES ReadyRuns
