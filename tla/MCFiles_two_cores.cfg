SPECIFICATION Spec
CONSTANTS
  Process = {init, child}
  InitProcess = init
  Cores = 2
  BlockSize = 2
  Archive <- TarMembers
  Devices <- BootDevices
  Asks <- AskFew
  ReadSizes = {2}
  SeekOffsets <- Offsets
  Unused = {"log"}
  MaxFds <- OneEach
  MaxOffset = 3
  MaxIndex = 5
  MaxNames = 4
  Names = {"bin", "init", "log"}
  NoName = NoName
  NoCall = NoCall
  NoNode = NoNode
  NoString = NoString
  Freed = Freed

PROPERTY OpenReturns
CHECK_DEADLOCK FALSE
