\* LOAD_ALL or STORE_ALL with a stride that does not divide the chain.
SPECIFICATION FairLoopSpec
CONSTANTS
  Geometries <- UnevenGeometries
  PrimeTable <- FirstPrimes
  PairGeometries = {}
INVARIANTS InMemory
