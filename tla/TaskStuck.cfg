\* One server, one worker, one run; one statement or one answer is lost.
SPECIFICATION FairSpec
CONSTANTS
  r1 = r1
  r2 = r2
  a1 = a1
  a2 = a2
  p1 = p1
  p2 = p2
  w1 = w1
  w2 = w2
  Run = {r1}
  App = {a1}
  Proc = {p1}
  Slot = {w1}
  None = None
  AppOf <- OneRun
  Host <- OneHost
  MaxReady = 1
  MaxSeq = 3
  MaxFaults = 1
  MaxStops = 0
PROPERTIES
  CancelSettles
CHECK_DEADLOCK FALSE
