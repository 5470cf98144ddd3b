\* a is in the room; b's browser joins, may break and come back as z.  The log
\* keeps one message: m of a, or p that a relay may send twice.
CONSTANTS
  a = a
  b = b
  z = z
  m = m
  p = p
  Clients = {a, b, z}
  Tabs = {a, b}
  TabOf <- MCTabOf
  Early = {a}
  Sent <- MCSent
  Author = a
  Fragile = {b}
  Msgs = {m, p}
  Relayed = {p}
  MaxMessages = 1
  Cap = 2
  MaxOps = 2
  None = None
SPECIFICATION Spec
INVARIANTS
  TypeOK
  NoMessageLost
  
CHECK_DEADLOCK FALSE
