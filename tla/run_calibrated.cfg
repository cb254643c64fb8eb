\* Three threads calibrate by a clock that may be set back.
SPECIFICATION FairReportSpec
CONSTANTS
  NumThreads = 3
  Experiments = 2
  Iterations = 0
  Seconds = 100
  TicksPerSecond = 50
  PassTime = 3
  Jitter <- SetBack
  Resolutions = {0, 1}
  OpsPerChain = 4
  IntBits = 31
  LongBits = 64
  MayNotStart = {}
  MayNotCompile = {}
  ClockSteps = {1}
  MaxSince = 1
  ChainsPerThread = 2
  BytesPerLine = 64
  LineNum = 3
INVARIANTS TimedChase WholeWork PredictionInput IInv RowsMatchWork
PROPERTIES QuietShared Termination
