\* Two attempts of one run and a request of the older endpoints, one fault.
SPECIFICATION Spec
CONSTANTS
  w1 = w1
  w2 = w2
  w3 = w3
  r1 = r1
  None = None
  Writer = {w1, w2, w3}
  Run = {r1}
  Kind <- RunLegacy
  RunOf <- OneRunOf
  Present = {{w1, w2, w3}}
  Earlier = {0}
  LegacyFiles = FALSE
  MaxFaults = 1
INVARIANTS
  TypeOK
  LinearHistory
  RunHasItsVersion
  EndedHoldsNothing
PROPERTIES
  FencedPublish
  CheckpointsMoveForward
  LeaseIsTakenByNobody
SYMMETRY Attempts
CHECK_DEADLOCK FALSE
