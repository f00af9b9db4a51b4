\* One request after the other, whose summaries fail.
SPECIFICATION FairSpec
CONSTANTS
  t1 = t1
  t2 = t2
  s1 = s1
  s2 = s2
  None = None
  Talker = {t1}
  Summariser = {s1}
  MinRecords = 2
  Need = 3
  Keep = 2
  KeepLarge = 1
  MaxUncovered = 3
  MaxMessages = 5
  MaxFaults = 0
PROPERTY
  FailuresDoNotBlock
CHECK_DEADLOCK FALSE
