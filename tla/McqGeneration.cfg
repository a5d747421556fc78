CONSTANTS
  MaxCards = 3
  BatchSize = 2
  Gens = {g1}
  Starters = {s1}
  Slow = FALSE
  MaxDeletes = 2
  MaxCrashes = 1
SPECIFICATION FairMcqSpec
INVARIANTS McqTypeOK ProgressWithinTotal EachCardOnce
PROPERTY UnfinishedIsTakenUp
CHECK_DEADLOCK FALSE
