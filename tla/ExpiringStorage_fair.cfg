CONSTANTS
  Client = {c1, c2}
  Key = {k1}
  TicksPerSec = 2
  MaxTime = 4
  None = None
SPECIFICATION FairSpec
INVARIANTS TypeOK EvictsWithinTheSecond
PROPERTIES NotReturnedAfterDeadline ExpiredAreSwept SweeperExits
CHECK_DEADLOCK FALSE
