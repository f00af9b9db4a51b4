\* Two requests and a summary; a lease is lost, or a count, or the server crashes.
SPECIFICATION Spec
CONSTANTS
  t1 = t1
  t2 = t2
  s1 = s1
  s2 = s2
  None = None
  Talker = {t1, t2}
  Summariser = {s1}
  MinRecords = 2
  Need = 3
  Keep = 2
  KeepLarge = 1
  MaxUncovered = 3
  MaxMessages = 3
  MaxFaults = 1
INVARIANTS
  TypeOK
  
  CoverageComplete
PROPERTY
  PromptComplete
SYMMETRY Alike
CHECK_DEADLOCK FALSE
