SPECIFICATION Spec
CONSTANTS
  NumFiles = 2
  Chunks = 2
  Threads = 1
  SingleDeck = FALSE
  Requests = {"stop", "cancelAll", "cancelFile", "resumeFile", "resumeAll", "purge"}
  MaxAttempts = 4
  MaxJobs = 2
  MaxStops = 1
  MaxCrashes = 1
INVARIANTS
  CompletedDeckIsPure
  SupersededIsOver
PROPERTIES
  CompletedFileIsLeftAlone
  ImplementsFileService
CHECK_DEADLOCK FALSE
