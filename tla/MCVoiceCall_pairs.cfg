SPECIFICATION Spec
CONSTANTS
  ann = ann
  bob = bob
  Browsers = {ann, bob}
  Gatherers = {}
  MaxJoins <- Once
INVARIANT MembersConnected
CHECK_DEADLOCK FALSE
