SPECIFICATION FairSpec
CONSTANTS
  BufSize = 4
  HeadLen = 2
  MaxLen = 7
INVARIANTS
  DlTypeOK
  StoredIsPrefix
  SuccessMeansWhole
  FailedIsNotRun
  ClosesOwnSocket
  HttpReleases
PROPERTIES DownloadEnds StoreSpec
