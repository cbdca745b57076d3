SPECIFICATION Spec
CONSTANTS
  a1 = a1
  a2 = a2
  s1 = s1
  s2 = s2
  Alias = {a1, a2}
  Session = {s1, s2}
  None = None
  Offline = 0
  Retention = 1
  MaxClock = 3
  MaxToken = 2
  MaxCrashes = 1
CHECK_DEADLOCK FALSE
SYMMETRY Symm
INVARIANTS
  SnapshotHoldsRoster
  SiblingsAgeTogether
  LeaveSticks
  
PROPERTIES
  KeepsOwners
