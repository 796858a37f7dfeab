SPECIFICATION MCSpec
CONSTANTS Words = 20
          Request = {1, 24, 40}
          FreeTag = FreeTag
          UsedTag = UsedTag
          Data = Data
          Null = Null
          CounterMod = 1
          Frames = 12
          LowFrames = 2
          KernelFrames = {2}
          DbPages = 1
          Maps <- MCMaps
          Fanout = 2
          PoolPages = 8
          Sizes = {1, 2, 3}
INVARIANT FailureUndone
CHECK_DEADLOCK FALSE
