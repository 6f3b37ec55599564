SPECIFICATION Spec
CONSTANTS
  Requests <- AllRequests
  FullBlocks = 5
  HasTail = TRUE
  BlkMod = 4
  RetransmitCount = 2
  RetrMod = 4
  Faults <- StorageFaults
  MaxStage = 6
INVARIANTS
  TypeOK
  AckedIsStored
  DownloadIsFile
  ErrorReported
  EndsAfterLastBlock
CHECK_DEADLOCK FALSE
