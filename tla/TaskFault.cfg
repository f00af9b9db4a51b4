\* One server with two workers, one run, one fault: redelivery and retries.
SPECIFICATION FairSpec
CONSTANTS
  r1 = r1
  r2 = r2
  a1 = a1
  a2 = a2
  p1 = p1
  p2 = p2
  w1 = w1
  w2 = w2
  Run = {r1}
  App = {a1}
  Proc = {p1}
  Slot = {w1, w2}
  None = None
  AppOf <- OneRun
  Host <- TwoSlots
  MaxReady = 2
  MaxSeq = 4
  MaxFaults = 1
  MaxStops = 2
INVARIANTS
  OneAttemptAtATime
  DoneClosesTheStream
  HandlesAreOwn
  SlotsAreAccountedFor
PROPERTIES
  PendingIsServed
CHECK_DEADLOCK FALSE
