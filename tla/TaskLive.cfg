\* Two servers on one database, one run; one of them crashes or shuts down.
SPECIFICATION FairSpec
CONSTANTS
  r1 = r1
  r2 = r2
  a1 = a1
  a2 = a2
  p1 = p1
  p2 = p2
  w1 = w1
  w2 = w2
  Run = {r1}
  App = {a1}
  Proc = {p1, p2}
  Slot = {w1, w2}
  None = None
  AppOf <- OneRun
  Host <- TwoHosts
  MaxReady = 2
  MaxSeq = 4
  MaxFaults = 0
  MaxStops = 1
PROPERTIES
  NoForeignInterrupt
  CancelSettles
  ExecutionEnds
CHECK_DEADLOCK FALSE
