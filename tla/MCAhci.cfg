SPECIFICATION FairSpec
CONSTANTS
  r1 = r1
  r2 = r2
  r3 = r3
  None = None
  Freed = Freed
  Dropped = Dropped
  Reader = {r1, r2, r3}
  NSlots = 2
  Cores = 1
  MaxReads = 1
  Errors = TRUE
  Sector = 2
  Region = 4
  Field = 4
  Setups <- MCSetups
  LastPort = 1
  LastBus = 1
  LastDevice = 1
  LastFunction = 2
INVARIANTS SlotOwned  NoStrayWrite EngineIdle DiskNodes
PROPERTIES ReadEnds
CHECK_DEADLOCK FALSE
