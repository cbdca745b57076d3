SPECIFICATION FairSpec
CONSTANTS
  mine = mine
  ours = ours
  t1 = t1
  t2 = t2
  sub = sub
  Mail = {mine, ours}
  Shared = {ours}
  Thread = {t1, t2, sub}
  TopLevel = {t1, t2}
  Foreign = {}
  First = t1
  None = None
  MaxMishaps = 2
  MaxMoves = 2
INVARIANTS
  OncePerThread
PROPERTIES
  AckedIsSaved
  MailIsDelivered
CHECK_DEADLOCK FALSE
