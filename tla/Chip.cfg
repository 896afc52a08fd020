SPECIFICATION MCSpec
CONSTANTS
  Words = {0, 4, 16}
  AmoInHandler = FALSE
  M = 3
  IsArmBus = FALSE
  Byte = {{}, {0, 1}}
  Pins = {0, 1}
  Overrides = {0, 1, 2}
  Enables = {{}, {"EdgeHigh", "LevelHigh"}}
  Forces = {{}, {"EdgeHigh"}}
  Chunk = 2
  MaxSkew = 1
  Paths = {"a.hex", "b.hex", "bad"}
  Loadable = {"a.hex", "b.hex"}
  Archs = {"arm", "riscv"}
  Entries = {"e"}
  MaxInstructions = 2
  MaxAhead = 1
  Pid = {1, 2, 3}
  Command = {1, 2, 3}
  Requests = {"tool", "tool only", "start", "start bad", "status", "stop", "restart"}
  MaxOverlap = 2
  MaxCrashes = 2
  Operands = {3, 254}
  Values = {254}
  Configs = {6331392, 1248258}
  MaxOps = 1
  MaxNested = 2
  MaxRetries = 1
  Parts = {"amo", "flash", "sram", "register", "bootram", "dpram", "sio", "outputs", "inputs", "debug arm", "debug riscv", "sio rp2040", "controller", "firmware rp2350", "firmware rp2040", "daemon", "calculators", "link arm", "link riscv"}
INVARIANTS NoLostIncrement  PinsFollow DebuggerInControl HandlersUnnoticed DaemonServes ControllerCoherent
CHECK_DEADLOCK FALSE
