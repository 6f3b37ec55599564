SPECIFICATION UploadSpec
CONSTANTS
  Requests <- LockstepWrites
  FullBlocks = 4
  HasTail = TRUE
  BlkMod = 8
  RetransmitCount = 3
  RetrMod = 16
  Faults <- NoFaults
  Lag = 2
INVARIANT
  AckedPrefixStored
CHECK_DEADLOCK FALSE
