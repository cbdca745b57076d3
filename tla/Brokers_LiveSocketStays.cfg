SPECIFICATION Spec
CONSTANTS
  Pid = {p1, p2, p3}
  None = None
  MaxClock = 2
  MaxMint = 2
  MaxKills = 2
PROPERTY LiveSocketStays
CHECK_DEADLOCK FALSE
