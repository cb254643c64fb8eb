\* Random chains with and without factors that divide the pages or the
\* lines, forward and reverse chains.
SPECIFICATION FairLoopSpec
CONSTANTS
  Geometries <- AllGeometries
  PrimeTable <- FirstPrimes
  PairGeometries <- Pairs
INVARIANTS ChaseBounded CoprimeExact StrideOrder StridedOpsExact
  WithinWorkingSet IInv
  AsBuilt AllChainsReturn DataOnly
PROPERTIES PageByPage Returns
