SPECIFICATION FairSpec
CONSTANTS
  N = 3
  Thresh = 2
  Lists <- MCLists
  Start <- MCStart
  MaxFail = 3
INVARIANT SequentialEffect
INVARIANT CompletedOnThreshold
INVARIANT OnlyOwnChanges
PROPERTY Returns
