SPECIFICATION Spec
CONSTANTS
  N = 3
  Thresh = 2
  MaxTries = 2
  MaxFail = 3
INVARIANT SucceedsOnThreshold
INVARIANT LockReleased
