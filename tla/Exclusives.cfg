SPECIFICATION ExclusivesSpec
CONSTANTS
  Words = {0, 4}
  AmoInHandler = FALSE
  M = 3
INVARIANT NoLostIncrement
