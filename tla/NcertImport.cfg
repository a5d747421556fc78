SPECIFICATION Spec
CONSTANTS
  a = a
  b = b
  big = big
  Books <- ThreeBooks
  TooBig = {big}
  NumChapters = 2
  AtRoot = FALSE
  NoWait = FALSE
  KeepPdfs = FALSE
  MaxFailures = 2
  MaxCrashes = 1
  Plan <- PlanTwice
INVARIANTS
  TypeOK
  RepeatsHaveCauses
  ReportsAreTrue
PROPERTIES
  EverythingIsImported
