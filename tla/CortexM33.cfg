SPECIFICATION Spec
CONSTANTS
  Irq = {16}
  SysExc = {11, 15}
  Priority = {0, 2}
  SysPriority = 2
  UsageFaultEna = FALSE
  MspWords = 40
  PspWords = 40
  MaxPush = 1
  FaultsInIT = FALSE
INVARIANT NoMissedInterrupt
PROPERTIES NoLostInterrupt ReturnsRestore
CHECK_DEADLOCK FALSE
CONSTRAINT Bounds
