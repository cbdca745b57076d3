SPECIFICATION FairSpec
CONSTANTS
  Ask = {a1}
  asker = asker
  peer = peer
  peerToo = peerToo
  Alias <- MCAlias
  SessionOf <- MCSessionOf
  Managed = {}
  ReplyBys <- MCReplyBys
  Ttls <- MCTtls
  FinalGrace = 3
  LeaseFor = 1
  Tombstone = 2
  Retention = 2
  None = None
  Unsent = Unsent
  Purged = Purged
  MaxClock = 4
  LastSend = 0
  MaxAnswers = 1
INVARIANTS
  ReleasedOnTime
  ClosureMatchesPosts
PROPERTIES
  SettledStaysSettled
  OnlyRecipientOrAgeHides
  KeepsContract
  ChasedAskCloses
  ClosedAskIsPurged
