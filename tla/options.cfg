\* Up to three options, sizes that need rounding and lines that hold no
\* whole number of links.
SPECIFICATION Spec
CONSTANTS
  Sizes = {0, 8, 24, 64, 100, 4096}
  Counts = {0, 1, 3}
  MaxOptions = 3
INVARIANTS TypeOK OneLength Usable FewestUnits AllocationFits
