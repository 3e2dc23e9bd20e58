SPECIFICATION FairSpec
CONSTANTS
  Clients = {c1, c2}
  NoClient = none
  N = 2
  Thresh = 2
  AddConsensus = 0
  MaxRetry = 2
  LongCritical = {c1}
  MaxLost = 2
  ExpireEarly = FALSE
INVARIANT TypeOK
INVARIANT MutualExclusion
INVARIANT LeadUnlockedLast
INVARIANT NoRelockAfterUnlock
PROPERTY ImplementsLock
PROPERTY LockTerminates
