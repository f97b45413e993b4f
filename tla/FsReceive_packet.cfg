SPECIFICATION Spec
CONSTANTS
  RingSize = 4
  PacketSize = 5
  RecvLen = 2
  SyncMark = 1
  Totals <- MCLongTotals
  Faults = {}
  WaitsForHandler = TRUE
INVARIANT LandsInPacket
