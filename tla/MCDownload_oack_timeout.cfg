SPECIFICATION DownloadSpec
CONSTANTS
  Requests <- OptionReads
  FullBlocks = 3
  HasTail = TRUE
  BlkMod = 8
  RetransmitCount = 1
  RetrMod = 4
  Faults <- NoFaults
  Lag = 2
INVARIANT
  ClientHasPrefix
CHECK_DEADLOCK FALSE
