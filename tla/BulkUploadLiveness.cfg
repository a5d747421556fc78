SPECIFICATION FairSpec
CONSTANTS
  NumFiles = 1
  Chunks = 2
  Threads = 1
  SingleDeck = TRUE
  Requests = {"stop", "cancelAll", "cancelFile", "resumeAll"}
  MaxAttempts = 3
  MaxJobs = 3
  MaxStops = 1
  MaxCrashes = 1
PROPERTIES
  NoEndlessRequeue
  PendingFileIsProcessed
  ProcessingFileEnds
CHECK_DEADLOCK FALSE
