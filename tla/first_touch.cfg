\* Maps that give the chains of a thread different domains.
SPECIFICATION SetupSpec
CONSTANTS
  Requests <- MapRequests
  Domains = 3
  MaskBits = 4
  MaxInt = 7
  Cpusets <- SomeCpusets
  Masks <- SomeMasks
  CpuSetBits = 4
  CpusOf <- TwoCpusEach
INVARIANTS ChainsInDomain
