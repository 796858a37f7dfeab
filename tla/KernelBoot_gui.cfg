CONSTANTS
    MaxThreads = 5
    Mutex = {}
    Quanta <- BootQuanta
    BoostPeriod = 200
    StarveAfter = 500
    MissLimit = 10
    CreatePrios = {2, 3, 4}
    Delays = {10, 500}
    MaxTicks = 1000
    SmssSleep = 10
    KshellSleep = 500
SPECIFICATION BootSpec
CHECK_DEADLOCK FALSE
PROPERTY GuiBoots
