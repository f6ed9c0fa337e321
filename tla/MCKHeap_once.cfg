SPECIFICATION Spec
CONSTANTS
  h1 = h1
  h2 = h2
  h3 = h3
  h4 = h4
  small = small
  large = large
  NPages = 4
  Class = {small, large}
  Items <- MCItems
  Handle = {h1, h2, h3, h4}
  MaxBlock = 2
  MaxBig = 2
  Heaps = {"kernel", "user"}
  Reuse = FALSE
  MaxBigFree = 2
INVARIANTS Exclusive HeadersIntact Accounted
SYMMETRY Users
CHECK_DEADLOCK FALSE
