SPECIFICATION FairSpec
CONSTANTS
  Blobbers = {b1, b2}
  NRequests = 3
  Finals = {2, 3}
  Blocks <- Lengths
  Homes <- FilesOn
  DataShards = 1
  Retries = 2
  MaxBusy = 1
  MaxOther = 1
  MaxTrouble = 3
  MayRefuse = TRUE
  Cancels = {1}
INVARIANT CounterNotAhead
INVARIANT PaidAtMostRetries
PROPERTY PaidIsKept
PROPERTY BatchReports
CHECK_DEADLOCK FALSE
