SPECIFICATION FairSpec
CONSTANTS
  t1 = t1
  t2 = t2
  x = x
  y = y
  Pid = {p1, p2, p3}
  Thread = {t1, t2}
  Alias = {x, y}
  Uuid = {1, 2, 3, 4, 5, 6}
  Derived <- MCDerived
  None = None
INVARIANTS TypeOK OneHost
PROPERTY FollowsInTheEnd
