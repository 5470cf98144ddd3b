\* Both messages, or one and a connection that breaks, or two that break.
CONSTANTS
  p1 = p1
  p2 = p2
  x = x
  w = w
  Web = Web
  Phones = {p1, p2}
  Msgs = {x, w}
  Author <- MCAuthor
  Links <- MCLinks
  Dual <- MCDual
  MaxEvents = 2
SPECIFICATION Spec
INVARIANTS
  TypeOK
  NoDuplicates
  UploadedOnce
  UpstreamCaughtUp
  OnlineReachesServer
  LinkedPhonesAgree
CHECK_DEADLOCK FALSE
