SPECIFICATION Spec
CONSTANTS
  q = q
  i = i
  b1 = b1
  b2 = b2
  Msg = {q, i}
  Asks = {q}
  Sent = {q}
  Shared = {q}
  Intent = {o1}
  Entry = {e1}
  Box = {b1, b2}
  Lease = {l1, l2}
  None = None
  To <- MCTo
  LeaseFor = 1
  Tombstone = 0
  Retention = 0
  MaxClock = 1
  LastSend = 0
INVARIANTS
  TypeOK
  StoresAgree
PROPERTIES
  EventsAreChanges
  SameEvents
