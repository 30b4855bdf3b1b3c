CONSTANTS
  b1 = b1
  b2 = b2
  Blocks <- TwoBlocks
  TidHalf = 8
  Maxlen = 13
  MinLogReserved = 7
  FirstTid = 10
  FirstHead = 11
  Modes <- PlainLog
  MaxTxs = 2
  MaxVersion = 2
  MaxCredits = 2
  MaxCrashes = 1
  WideTxs = 2
SPECIFICATION Spec
PROPERTIES
  ImplementsStore
SYMMETRY Swaps
CONSTRAINT Bounds
CHECK_DEADLOCK FALSE
