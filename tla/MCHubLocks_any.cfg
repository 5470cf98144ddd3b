\* Two connections that run every handler, one writer that pings.
CONSTANTS
  relay = relay
  other = other
  relayReader = relayReader
  otherReader = otherReader
  relayWriter = relayWriter
  otherWriter = otherWriter
  hubRun = hubRun
  Clients = {relay, other}
  Readers <- MCReaders
  Writers <- MCWriters
  HubRun = hubRun
  Requests <- All
  MaxRuns = 1
SPECIFICATION Spec
INVARIANTS
  TypeOK
  OnlyRegistrationDeadlocks
CHECK_DEADLOCK FALSE
