SPECIFICATION FairSpec
CONSTANTS
  Requests <- WindowedRead
  FullBlocks = 2
  HasTail = TRUE
  BlkMod = 8
  RetransmitCount = 1
  RetrMod = 4
  Faults <- NoFaults
  MaxStage = 4
PROPERTY
  SilentPeerEnds
CHECK_DEADLOCK FALSE
