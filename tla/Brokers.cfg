SPECIFICATION FairSpec
CONSTANTS
  Pid = {p1, p2, p3}
  None = None
  MaxClock = 1
  MaxMint = 2
  MaxKills = 2
INVARIANTS TypeOK OneBrokerUnlessRaced
PROPERTY RewindsOnlyIfShared BrokerComesBack
CHECK_DEADLOCK FALSE
