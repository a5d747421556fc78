SPECIFICATION Spec
CONSTANTS
  Workers = {w1}
  Threads = {t1, t2}
  Nobody = Nobody
  Dead = Dead
  MaxJobs = 2
  MaxQueue = 2
  MaxRequests = 2
  MaxCrashes = 1
SYMMETRY PoolSymmetry
INVARIANTS
  ActiveIsBusy
  MutualExclusion
CHECK_DEADLOCK FALSE
