SPECIFICATION MCSpec
CONSTANTS
  Value = {zero, v1, v2}
  Zero = zero
  Capacity = 4
  Alarms = {a1, a2}
  Delta = {0, 1, 2}
  HandlerDelta = {1, 2}
  TickDelta = {1, 2}
  MaxNanos = 4
  Never = Never
  Buffers = 3
  Packets = 3
  PacketSize = 2
  MaxIn = 4
  MaxOut = 4
 
PROPERTIES RingIsQueue TickReturns BlocksComplete StallsEnd EnumerationCompletes
CHECK_DEADLOCK FALSE
