SPECIFICATION Spec
CONSTANTS
  c1 = c1
  c2 = c2
  c3 = c3
  alice = alice
  bob = bob
  None = None
  Nothing = Nothing
  Client = {c1, c2, c3}
  Account = {alice, bob}
  Page = {c1}
  Text = {t1, t2}
  MaxUsers = 3
  MaxApps = 2
  MaxSize = 2
  Window = 3
  MaxMessages = 4
  Rate = 2
  Interval = 2
  Slack = 1
  Key <- MCKeys
  MaxSends = 2
  MaxLoads = 2
  MaxPosts = 2
  MaxRuns = 3
  Cases <- MCCases
INVARIANTS
  TypeOK
  WalkMissesNothing
  WindowIsKept
  DeletedIsHidden
  OneRunPerSend
CHECK_DEADLOCK FALSE
