SPECIFICATION TxnFairSpec
CONSTANTS
  NTxns = 3
  Width = 2
  Miners = {1, 2}
  MaxFailures = 2
INVARIANT ReportsWhatMinersSaid
INVARIANT WalletRecovers
PROPERTY AllAnswered
CHECK_DEADLOCK FALSE
