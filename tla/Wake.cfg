SPECIFICATION FairSpec
CONSTANTS
  derived = derived
  chosen = chosen
  refused = refused
  q1 = q1
  q2 = q2
  Name <- MCName
  Derived = derived
  Taken <- MCTaken
  Ask <- MCAsk
  To <- MCTo
  None = None
INVARIANTS TypeOK BlocksOnce WakesOnce
PROPERTY NewMailWakes
