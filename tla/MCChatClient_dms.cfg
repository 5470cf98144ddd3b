SPECIFICATION Spec
CONSTANTS
  Public = {general}
  DMs = {dm}
  General = general
  None = None
  MaxConns = 2
  MaxPosts = 1
  MaxAnswers = 1
INVARIANT DMsRejoined
CHECK_DEADLOCK FALSE
