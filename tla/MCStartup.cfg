SPECIFICATION MCSpec
CONSTANTS
    MaxThreads = 5
    Mutex = {}
    Quanta <- BootQuanta
    BoostPeriod = 200
    StarveAfter = 500
    MissLimit = 10
    CreatePrios = {2, 3, 4}
    Delays = {10, 500}
    MaxTicks = 1000
    SmssSleep = 10
    KshellSleep = 500
    RingSize = 4
    MaxSent = 9
    LogSize = 3
    Socket = {s1, s2, s3}
    None = None
    MaxWire = 4
    PipeSize = 1
    Output <- MCOutput
    Request = {"first", "second"}
    MaxPumpErrors = 1
INVARIANTS BootInOrder LogHoldsNewest OneSocketEach PageIsTold RequestsClosed
PROPERTIES BootReachesThreads ImplementsFifo BothReconnect ExecComesBack
CHECK_DEADLOCK FALSE
