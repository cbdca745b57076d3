SPECIFICATION FairSpec
CONSTANTS
  ask = ask
  cast = cast
  peer = peer
  other = other
  Op = {ask, cast}
  Alias = {peer}
  To <- MCTo
  Everyone = Everyone
  Broker = Broker
  None = None
  MaxMishaps = 2
INVARIANTS
  SuccessIsComplete
PROPERTIES
  IntentOutlivesCrash
  OutboxDrains
CHECK_DEADLOCK FALSE
