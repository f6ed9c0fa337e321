SPECIFICATION Spec
CONSTANTS
  h1 = h1
  h2 = h2
  h3 = h3
  h4 = h4
  small = small
  large = large
  NPages = 6
  Class = {large}
  Items <- MCItems
  Handle = {h1, h2, h3}
  MaxBlock = 2
  MaxBig = 4
  Heaps = {"kernel"}
  Reuse = TRUE
  MaxBigFree = 3
INVARIANTS NoCorruption
SYMMETRY Users
CHECK_DEADLOCK FALSE
