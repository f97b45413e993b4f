SPECIFICATION FairSpec
CONSTANTS
  RingSize = 4
  PacketSize = 5
  RecvLen = 2
  SyncMark = 1
  Totals <- MCTotals
  Faults = {}
  WaitsForHandler = FALSE
PROPERTY EveryTransferAnswered
