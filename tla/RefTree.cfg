SPECIFICATION Spec
CONSTANTS
  Names = {1, 2}
  Trees <- AllTrees
  MaxDepth = 3
  MaxOps = 2
INVARIANT CommitAccepted
INVARIANT SizeAgrees
INVARIANT DistinctIds
CHECK_DEADLOCK FALSE
