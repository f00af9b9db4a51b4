\* One server with one worker, two runs of one application; it crashes or shuts down.
SPECIFICATION Spec
CONSTANTS
  r1 = r1
  r2 = r2
  a1 = a1
  a2 = a2
  p1 = p1
  p2 = p2
  w1 = w1
  w2 = w2
  Run = {r1, r2}
  App = {a1}
  Proc = {p1}
  Slot = {w1}
  None = None
  AppOf <- SameApp
  Host <- OneHost
  MaxReady = 2
  MaxSeq = 3
  MaxFaults = 0
  MaxStops = 1
INVARIANTS
  TypeOK
  OneUnfinishedRunPerApp
  CancelReachesHandler
PROPERTIES
  LifecycleSpec
CHECK_DEADLOCK FALSE
