\* One feeding port, as on the A7672S; the readers of the V1 demos.
CONSTANTS
  Ports = {uart1}
  CacheLen = 3
  Bytes = {"digit", "other", "eol"}
  Eol = {"eol"}
  Digits = {"digit"}
  ChunkLens = {1, 2}
  Chunks <- MCChunks
  LineLens = {3}
  ReadLens = {2}
  ValueLen = 2
SPECIFICATION Spec
INVARIANTS TypeOK RingAgrees WakeMeansData LockHeld ReadResult
PROPERTIES ChannelSpec WakeupLostAtClearing
