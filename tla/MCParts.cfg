SPECIFICATION MCSpec
CONSTANTS
    idle = idle
    t1 = t1
    t2 = t2
    t3 = t3
    None = None
    Slot <- MCSlot
    Idle = idle
    Mutex = {m1, m2}
    Words = 24
    MinBlock = 5
    Needs = {5, 7, 9}
    Cap = 3
    MaxSent = 9
    MaxSessions = 2
    Pid = {0, 1, 2}
    Kernel = 0
    MaxSessionId = 3
    MaxRules = 4
    ShownRules = 2
    MaxRuleId = 5
    MaxInspected = 2
    Address = {a, b}
    Net = {{a, b}, {a}, {b}}
    Gateway = {g, h}
    MaxRoutes = 4
    MaxFrames = 1
    DwmMaxWindows = 2
    AppTag = {a, b}
    MaxWinId = 4
    MaxClients = 2
    Client = {a, b}
    Period = {0, 1, 3}
    MaxNow = 5
    Tag = {a, b, c}
    PrefetchEntries = 3
    Top = 1
    Stale = 1
    MaxLaunches = 2
    MaxTime = 3
    MaxSaved = 1
    MaxCpus = 4
    Madt <- MCMadt
    Dpc = {a, b}
    MaxQueued = 3
    Context = {c1, c2}
    Boot = c1
    Vector = {2, 3, 14, 18, 32, 33, 49, 255}
    MaxNested = 3
    Depth = 2
    Batch = 1
    MaxDeferred = 3
    ScreenW = 3
    ScreenH = 3
    MousePacket <- MCPackets
    ScanCode = {42, 170, 54, 182, 30}
    MaxPackets = 2
    MaxKeys = 2
    Patience = 2
    MaxLen = 3
    Data <- MCData
    MaxPacketsSent = 3
    LineBytes = 3
    Lines <- MCLines
    MaxLines = 3
    MaxConnects = 2
    Machine <- MCMachine
    Model <- MCModel
    Absent = "none"
    Gigabit <- MCGigabit
    Fast = "fast"
    MaxDevices = 4
INVARIANTS OneRunner NoLostWaiter Tiled Coalesced HoldsNewest GrantsAreFresh NetworkTablesAgree DwmAgrees ServicesKeepCount ProcessorsKeepOwn Acknowledged LinesInStep TableIsBus
CHECK_DEADLOCK FALSE
