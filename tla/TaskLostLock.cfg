\* Two servers, one run: the connection that holds the runtime lock drops.
SPECIFICATION Spec
CONSTANTS
  r1 = r1
  r2 = r2
  a1 = a1
  a2 = a2
  p1 = p1
  p2 = p2
  w1 = w1
  w2 = w2
  Run = {r1}
  App = {a1}
  Proc = {p1, p2}
  Slot = {w1, w2}
  None = None
  AppOf <- OneRun
  Host <- TwoHosts
  MaxReady = 1
  MaxSeq = 3
  MaxFaults = 1
  MaxStops = 0
PROPERTIES
  NoForeignInterrupt
CHECK_DEADLOCK FALSE
