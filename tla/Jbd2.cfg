CONSTANTS
  b1 = b1
  b2 = b2
  Blocks <- TwoBlocks
  TidHalf = 8
  Maxlen = 13
  MinLogReserved = 7
  FirstTid = 15
  FirstHead = 11
  Modes <- AllLogs
  MaxTxs = 3
  MaxVersion = 3
  MaxCredits = 2
  MaxCrashes = 1
  WideTxs = 2
SPECIFICATION Spec
INVARIANTS
  LogNeverFull
  FlushedIsEmpty
  JournalledNotDirty
  ReplaySparesData
PROPERTIES
  StoreUnlessLapsed
  NoSpaceAbort
SYMMETRY Swaps
CONSTRAINT Bounds
CHECK_DEADLOCK FALSE
