CONSTANTS
  Alarm = {a1, a2, a3}
  Delta = {0, 1, 2}
  HandlerDelta = {0, 1}
  TickDelta = {1, 2}
  MaxNanos = 4
  Never = Never
  Full = 3
  Levels = {0, 2}
  Tops = {1, 2}
  Prescalers = {2}
  MaxTop = 2
  DivModes = {"FreeRunning", "BGated", "BFallingEdge"}
  Loads = {0, 1, 2}
  TimeMask = 2
  Core = {0, 1}
  MicroAlarms = {0}
  Wrap = 4
  MaxTime = 26
  UartSize = 2
  SpiSize = 4
  I2CSize = 3
  TxThreshold = 0
  AdcSize = 2
  Thresholds = {0, 2}
  RoundRobins = {{}, {0, 2}}
SYMMETRY Symmetry
SPECIFICATION MCSpec
CONSTRAINT Bounds
INVARIANTS  CountersExact AlarmsPrompt RequestsFollowStatus TransfersGoOn NothingOverdue
PROPERTIES TimeNeverRunsBack AlarmsFireOnTime
CHECK_DEADLOCK FALSE
