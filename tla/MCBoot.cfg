SPECIFICATION FairSpec
CONSTANTS
  ImageBase = 16
  BssBase = 80
  AddressBits = 8
  HalfBits = 5
  Exports <- MCExports
  Word = 2
  Alignment = 4
  Setups <- MCSetups
  MaxCores = 3
  StackTop = 40
INVARIANTS ModulesRight ImageRight CoresDistinct LogSound ArgumentsArrive
PROPERTIES BootEnds
CHECK_DEADLOCK FALSE
