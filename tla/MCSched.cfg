SPECIFICATION MCSpec
CONSTANTS
  MaxThreads = 4
  Mutex = {m1}
  Quanta <- MCQuanta
  BoostPeriod = 2
  StarveAfter = 2
  MissLimit = 2
  CreatePrios = {1, 4}
  Delays = {1, 2}
  MaxTicks = 4
INVARIANTS ListsIntact NobodyOversleeps MissedIsLate
PROPERTIES ImplementsLifecycle DispatchesHighest
CHECK_DEADLOCK FALSE
