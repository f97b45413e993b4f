\* A wake-up that is erased before the reader waits for it.
CONSTANTS
  Ports = {uart1}
  CacheLen = 2
  Bytes = {"digit", "eol"}
  Eol = {"eol"}
  Digits = {"digit"}
  ChunkLens = {1, 2}
  Chunks <- MCChunks
  LineLens = {3}
  ReadLens = {2}
  ValueLen = 2
SPECIFICATION FairSpec
PROPERTY DataReachesReader
