\* A run, and a restoration or a summary, of an application that is new and has
\* files to import, or has two versions; any writer may hang, and two things go
\* wrong among crashes, stalls past the leases and lost answers.
SPECIFICATION FairSpec
CONSTANTS
  w1 = w1
  w2 = w2
  w3 = w3
  r1 = r1
  None = None
  Writer = {w1, w2, w3}
  Run = {r1}
  Kind <- RunRestore
  RunOf <- FirstRunOf
  Present = {{w1, w2}, {w1, w3}}
  Earlier = {0, 2}
  LegacyFiles = TRUE
  MaxFaults = 2
INVARIANT
  RunBaseIsCurrent
PROPERTY
  LeaseEnds
CHECK_DEADLOCK FALSE
