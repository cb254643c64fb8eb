\* Threads that cannot be created or compiled, counters that overflow.
SPECIFICATION FairSpec
CONSTANTS
  NumThreads = 3
  Experiments = 1
  Iterations = 0
  Seconds = 100
  TicksPerSecond = 50
  PassTime = 3
  Jitter <- Delays
  Resolutions = {0, 1}
  OpsPerChain = 4
  IntBits = 2
  LongBits = 6
  MayNotStart = {0, 1}
  MayNotCompile = {1, 2}
INVARIANTS SamplesAreComplete
PROPERTIES ImplementsWindows
CHECK_DEADLOCK FALSE
