\* A relay with two peer ids and a second relay, one room,
\* fair scheduling.
CONSTANTS
  relay = relay
  other = other
  g = g
  p1 = p1
  p2 = p2
  p3 = p3
  Clients = {relay, other}
  Peers = {p1, p2, p3}
  Rooms = {g}
  Joined <- MCJoined
  Hears <- MCHears
SPECIFICATION FairSpec
INVARIANTS
  TypeOK
  VoiceConsistent
  BleSpeakersJoined
  BleVoiceRegistered
PROPERTIES
  BleGhostsCleared
CHECK_DEADLOCK FALSE
