SPECIFICATION Spec
CONSTANTS
  c1 = c1
  c2 = c2
  p1 = p1
  p2 = p2
  p3 = p3
  q1 = q1
  None = None
  Core = {c1, c2}
  Proc = {p1, p2}
  Queue = {q1}
  BootCore = c1
  InitProc = p1
  Setups <- SignalSetups
  MaxSleepers = 3
  MaxSleep = 1
  Handled = {2}
INVARIANTS AssertHolds
CHECK_DEADLOCK FALSE
