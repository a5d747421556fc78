SPECIFICATION FairSpec
CONSTANTS
  Workers = {w1}
  Threads = {t1}
  Nobody = Nobody
  Dead = Dead
  MaxJobs = 2
  MaxQueue = 1
  MaxRequests = 3
  MaxCrashes = 2
PROPERTIES
  ImplementsJobService
  PendingIsServed
  RunningEnds
CHECK_DEADLOCK FALSE
