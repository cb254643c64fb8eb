\* -i given: calibration is skipped.
SPECIFICATION FairReportSpec
CONSTANTS
  NumThreads = 3
  Experiments = 2
  Iterations = 5
  Seconds = 0
  TicksPerSecond = 50
  PassTime = 3
  Jitter <- Delays
  Resolutions = {0, 1}
  OpsPerChain = 4
  IntBits = 31
  LongBits = 64
  MayNotStart = {}
  MayNotCompile = {}
  ClockSteps = {1, 2}
  MaxSince = 2
  ChainsPerThread = 2
  BytesPerLine = 64
  LineNum = 3
INVARIANTS ResultsComplete RowsDefined PrintedExactly
PROPERTIES Reported
