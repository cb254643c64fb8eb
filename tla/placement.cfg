\* Three domains; formulas, well-formed and ill-formed maps, and any of the
\* threads until its chains are linked.
SPECIFICATION SetupSpec
CONSTANTS
  Requests <- AllRequests
  Domains = 3
  MaskBits = 4
  MaxInt = 7
  Cpusets <- SomeCpusets
  Masks <- SomeMasks
  CpuSetBits = 4
  CpusOf <- TwoCpusEach
INVARIANTS WritesInBounds MapExact DomainsValid SizesAgree IInv
  RunsWhereSent OneDomainHonoured
