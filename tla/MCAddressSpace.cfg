SPECIFICATION Spec
CONSTANTS
  p1 = p1
  p2 = p2
  p3 = p3
  root = root
  dev = dev
  Nil = Nil
  Process = {p1, p2}
  InitProc = p1
  Root = root
  Space = {p1, p2, root}
  NFrames = 9
  Device = {dev}
  NIndex = 4
  Levels = 2
  Image <- MCImage
  Arena <- MCArena
  KernelTop = {2, 3}
  BootPages <- MCBoot
  HeapPages <- MCHeap
  MmioPages <- MCMmio
  PageBytes = 16
  FixedAt <- MCFixed
  Leftover <- MCLeftover
  MaxBlocks = 1
  Reuse = FALSE
INVARIANTS KernelAgrees FrameOwnedOnce
PROPERTIES Isolation ForkCopies
CHECK_DEADLOCK FALSE
