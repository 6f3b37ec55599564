SPECIFICATION FairSpec
CONSTANTS
  Requests <- UnwindowedRequests
  FullBlocks = 2
  HasTail = FALSE
  BlkMod = 4
  RetransmitCount = 2
  RetrMod = 4
  Faults <- AllFaults
  MaxStage = 3
PROPERTIES
  SilentPeerEnds
CHECK_DEADLOCK FALSE
