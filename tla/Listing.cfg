SPECIFICATION ListingSpec
CONSTANTS
  Blobbers = {b1, b2, b3, b4}
  DataShards = 2
  ParityShards = 2
  Names = {f, g}
  Requests = {"list", "repair", "ticket", "refs", "recent", "meta"}
  MaxWrites = 3
  MaxFaults = 1
INVARIANTS
  
  NoDirtyReads
SYMMETRY Symmetry
