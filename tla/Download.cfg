SPECIFICATION FairSpec
CONSTANTS
  N = 4
  datashards = 2
  Pieces = 2
  MaxFail = 2
  MaySkip = TRUE
INVARIANT WrittenInOrder
PROPERTY FailedNotAskedAgain
PROPERTY DownloadCompletes
CHECK_DEADLOCK FALSE
