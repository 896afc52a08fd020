SPECIFICATION MCSpec
CONSTANTS
  Words = {0, 4, 16}
  AmoInHandler = FALSE
  M = 3
  IsArmBus = FALSE
  Byte = {{}, {0, 1}}
  Pins = {0, 1}
  Overrides = {0, 1, 2}
  Enables = {{}, {"EdgeHigh", "LevelHigh"}}
  Forces = {{}, {"EdgeHigh"}}
  Chunk = 2
  MaxSkew = 1
  Paths = {"a.hex", "b.hex", "bad"}
  Loadable = {"a.hex", "b.hex"}
  Archs = {"arm", "riscv"}
  Entries = {"e"}
  MaxInstructions = 2
  MaxAhead = 1
  Pid = {1}
  Command = {1}
  Requests = {}
  MaxOverlap = 0
  MaxCrashes = 0
  Operands = {}
  Values = {}
  Configs = {}
  MaxOps = 0
  MaxNested = 0
  MaxRetries = 0
  Parts = {"controller"}
INVARIANT IdleIsForever
CHECK_DEADLOCK FALSE
