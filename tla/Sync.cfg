SPECIFICATION SyncSpec
CONSTANTS
  Dirs <- TwoDirs
  Files <- TwoFiles
  RemotePath <- Root
  MaxEdits = 4
  MaxOutages = 2
INVARIANT Converges
INVARIANT DeletionsPropagate
PROPERTY SecondSyncIsQuiet
