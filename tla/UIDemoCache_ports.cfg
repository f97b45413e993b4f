\* Two feeding ports, as on the boards whose UART4 also feeds the cache.
CONSTANTS
  Ports = {uart1, uart4}
  CacheLen = 2
  Bytes = {"digit", "eol"}
  Eol = {"eol"}
  Digits = {"digit"}
  ChunkLens = {2}
  Chunks <- MCChunks
  LineLens = {3}
  ReadLens = {2}
  ValueLen = 2
SPECIFICATION FairSpec
INVARIANT LockHeld
PROPERTIES ChannelSpec CallbackReturnsEventually StoringWakesReader
