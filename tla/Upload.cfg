SPECIFICATION FairSpec
CONSTANTS
  N = 3
  Parity = 2
  K = 2
  Ends = {TRUE, FALSE}
  MaxHeld = 3
  MaxTries = 2
  MaxFail = 3
  MaxCalls = 3
INVARIANT CompletedOnThreshold
INVARIANT MaskHoldsAll
PROPERTY UploadEnds
