SPECIFICATION LockstepSpec
CONSTANTS
  Requests <- LockstepRequests
  FullBlocks = 6
  HasTail = TRUE
  BlkMod = 4
  RetransmitCount = 2
  RetrMod = 4
  Faults <- LockstepFaults
  Lag = 2
INVARIANTS
  UploadTypeOK
  BlocksInPlace
  UploadIntact
  NoNegativeSeek
  DownloadIntact
  NeverAhead
  ShortByOneAtMost
PROPERTY
  ImplementsTransfer
CHECK_DEADLOCK FALSE
