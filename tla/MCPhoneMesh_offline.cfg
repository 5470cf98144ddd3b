\* One message, written before the relay connects.
CONSTANTS
  p1 = p1
  p2 = p2
  x = x
  w = w
  Web = Web
  Phones = {p1, p2}
  Msgs = {x}
  Author <- MCAuthor
  Links <- MCLinks
  Dual <- MCDual
  MaxEvents = 1
SPECIFICATION Spec
INVARIANTS
  OfflineMessagesSync
CHECK_DEADLOCK FALSE
