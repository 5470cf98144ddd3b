SPECIFICATION Spec
CONSTANTS
  ann = ann
  bob = bob
  Browsers = {ann, bob}
  Gatherers = {ann}
  MaxJoins <- OnceOrTwice
INVARIANTS TypeOK AudioOnlyInCall CandidatesArrive NewcomerConnects
CHECK_DEADLOCK FALSE
