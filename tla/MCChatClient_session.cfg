SPECIFICATION FairSpec
CONSTANTS
  Public = {general}
  DMs = {dm}
  General = general
  None = None
  MaxConns = 3
  MaxPosts = 2
  MaxAnswers = 1
INVARIANTS TypeOK SubmittedAccounted PublicRejoined RefersToItsRoom UnreadHonest
PROPERTY Reconnects
CHECK_DEADLOCK FALSE
