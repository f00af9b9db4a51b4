\* One page, two servers, one connection at a time, one fault.
SPECIFICATION FairSpec
CONSTANTS
  k1 = k1
  p1 = p1
  p2 = p2
  c1 = c1
  Page = {k1}
  Proc = {p1, p2}
  Drainer = p1
  Conn = {c1}
  None = None
  MaxRetries = 1
  MaxLog = 5
  MaxFaults = 1
INVARIANTS
  ShownInOrder
  ReturnsAtAStop
  DoneIsTheRuns
PROPERTIES
  CatchesUp
  SubscriberLeaves
CHECK_DEADLOCK FALSE
