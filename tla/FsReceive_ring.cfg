SPECIFICATION FairSpec
CONSTANTS
  RingSize = 4
  PacketSize = 5
  RecvLen = 2
  SyncMark = 1
  Totals <- MCTotals
  Faults = {"open", "write", "ring"}
  WaitsForHandler = TRUE
INVARIANTS
  FsTypeOK
  LandsInPacket
  InOrder
  SuccessMeansStored
  SoundSucceeds
PROPERTIES
  EveryTransferAnswered
  TransferSpec
