\* Two people, two public rooms, one direct-message room, fair scheduling.
CONSTANTS
  c1 = c1
  c2 = c2
  Clients = {c1, c2}
  Users = {c1, c2}
  UserOf <- OneEach
  Names = {n1, n2}
  DMs = {d1}
SPECIFICATION FairSpec
INVARIANTS
  TypeOK
  NoGhostMember
  RoomsCoverMembers
  PanicsOnlyUnlocked
PROPERTIES
  EveryCloseCompletes
  ImplementsPublicRooms
CHECK_DEADLOCK FALSE
