\* Two threads race on iters.
SPECIFICATION FairSpec
CONSTANTS
  NumThreads = 2
  Experiments = 1
  Iterations = 0
  Seconds = 100
  TicksPerSecond = 50
  PassTime = 3
  Jitter <- Delays
  Resolutions = {0, 1}
  OpsPerChain = 4
  IntBits = 31
  LongBits = 64
  MayNotStart = {}
  MayNotCompile = {}
INVARIANTS PredictionExact
