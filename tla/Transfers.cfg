CONSTANTS
  ChannelCount = 16
  Channels = {0, 1}
  Irqs = {0}
  Dreqs = {0}
  Timers = {59}
  Controls <- Ring
  Masks = {{}}
  Counts <- SmallCounts
  Modes = {0, 1, 15}
  Effects <- RingEffects
SPECIFICATION MCSpec
INVARIANTS NoLostRequest  LinesFollowStatus NoMissedWakeUp RequestsFollowFIFOs
PROPERTY CausesAndWordsOnce
