CONSTANTS
  InputFile <- File
  MaxThreads = 3
  MaxMessages = 1
  MaxAge = 0
  MaxFuture = 0
  Back = 1
  MaxStarts = 2
SPECIFICATION FairSpec
INVARIANTS
  TypeOK
  FirstRequestsOnly
  LogTellsVerdict
  LosesOneUnlogged
PROPERTIES
  PostboxRefinement
  ClientEnds
  PostedIsAnswered
CHECK_DEADLOCK FALSE
