\* Three threads with two chains of one page each.
SPECIFICATION FairSpec
CONSTANTS
  NumThreads = 3
  Chains = 2
  Pages = 1
  OpsPerChain = 4
INVARIANTS OwnStream DrawsCounted
PROPERTIES StreamGuarded AllFinish
