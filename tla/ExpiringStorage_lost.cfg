CONSTANTS
  Client = {c1, c2}
  Key = {k1}
  TicksPerSec = 2
  MaxTime = 3
  None = None
SPECIFICATION Spec
PROPERTY LiveEntriesStay
CHECK_DEADLOCK FALSE
