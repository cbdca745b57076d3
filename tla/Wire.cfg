SPECIFICATION FairSpec
CONSTANTS
  Requests = 2
  Header = 2
  Capacity = 3
  MaxFrame = 4
  AskSize = {1, 3, 5}
  AnswerSize = {2, 5}
  ErrorSize = 1
INVARIANTS TypeOK Intact
PROPERTY Answered
CHECK_DEADLOCK FALSE
