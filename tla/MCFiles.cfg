SPECIFICATION Spec
CONSTANTS
  Process = {init, child}
  InitProcess = init
  Cores = 1
  BlockSize = 2
  Archive <- TarMembers
  Devices <- BootDevices
  Asks <- InitAsks
  ReadSizes = {2}
  SeekOffsets <- Offsets
  Unused = {"log"}
  MaxFds <- OneEach
  MaxOffset = 3
  MaxIndex = 5
  MaxNames = 4
  Names = {"bin", "init", "log"}
  NoName = NoName
  NoCall = NoCall
  NoNode = NoNode
  NoString = NoString
  Freed = Freed
INVARIANTS ReadsInOrder ListsEachOnce
PROPERTY OpenReturns
CHECK_DEADLOCK FALSE
