SPECIFICATION Spec
CONSTANTS
  c1 = c1
  c2 = c2
  Cores = {c1, c2}
  WordBits = 2
  NWords = 3
  MaxRun = 2
  MemoryMaps <- AllMaps
SYMMETRY CoreSymmetry
INVARIANTS TypeOK Exclusive Conservation CacheExact
PROPERTIES SingleOomMeansEmpty
CHECK_DEADLOCK FALSE
