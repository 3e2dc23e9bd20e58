SPECIFICATION Spec
CONSTANTS
  Blobbers = {b1, b2, b3}
  DataShards = 2
  ParityShards = 1
  MaxOps = 3
  MaxErr = 2
  MaxLost = 2
  MaxNow = 3
SYMMETRY Symmetry
INVARIANT TypeOK
INVARIANT AckedAvailable
INVARIANT FailedLeavesNoTrace
