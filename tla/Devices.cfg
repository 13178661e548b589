SPECIFICATION DevicesSpec
CONSTANTS
    DrmFiles = {f1, f2}
    DumbSizes = {0, 1}
    Planes = 2
    DmaPages = 5
    DisplayPages = 2
    DrmWord = 9
    MaxObjects = 2
    MaxFbs = 2
    MaxHandles = 2
    MaxNames = 1
    PortLayout <- MCPorts
    TrbRingSize = 6
    EventRingSize = 2
    Requests = 2
    Configurations <- MCConfigurations
    MaxReports = 1
    MaxStrings = 1
    VioCallers = {c1, c2}
    BlockLength = 6
    RxLength = 3
    IndexWord = 6
    MaxBurst = 2
    MaxChains = 3
    Senders = {n1, n2}
    Hosts = {"near", "far", "zero"}
    Routes <- MCRoutes
    Lengths = {0, 3, 4}
    MaxFragment = 2
    UdpSockets = {u1, u2}
    LastPort = 3
    FirstAuto = 2
    QueueLimit = 2
    MaxArrivals = 3
    Listeners = {l1}
    InputCapacity = 7
    ScanCodes = {1, 2}
    Extended <- MCExtended
    MousePacket = 3
    MaxPackets = 3
    HidKeys = {4, 5}
    HidSlots = 2
    HidSizes = {1, 8, 24}
    HidCounts = {1, 2}
    MaxItems = 6
    NanosPerSecond = 3
SYMMETRY DevicesSymmetry
INVARIANTS DrmSafe XhciSafe VioSafe  
CHECK_DEADLOCK FALSE
