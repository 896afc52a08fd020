CONSTANTS
  Parts = {"hazard3"}
  Zero = zero
  Value = {zero, v1, v2}
  Depth = 2
  Lock = {l1, l2}
  Irq = {1, 46}
  H3Priority = {0, 7}
  Context <- Contexts
  NoIrq = none
  Irqs <- M0Irqs
  Lines = {"irq0"}
  SysExc = {"SysTick", "SVCall"}
  Priority = {0, 2}
  MaxPush = 1
SPECIFICATION MCSpec
INVARIANT PreemptAtMost16
