\* A factor of the table divides the lines of a page.
SPECIFICATION FairLoopSpec
CONSTANTS
  Geometries <- AnyGeometries
  PrimeTable <- FirstPrimes
  PairGeometries = {}
INVARIANTS WholeChain
