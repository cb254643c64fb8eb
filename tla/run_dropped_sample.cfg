\* The clock only advances, but one pass takes no longer than one tick of it.
SPECIFICATION FairSpec
CONSTANTS
  NumThreads = 2
  Experiments = 2
  Iterations = 1
  Seconds = 0
  TicksPerSecond = 50
  PassTime = 1
  Jitter <- Truncated
  Resolutions = {0, 1}
  OpsPerChain = 4
  IntBits = 31
  LongBits = 64
  MayNotStart = {}
  MayNotCompile = {}
INVARIANTS ResultsComplete
