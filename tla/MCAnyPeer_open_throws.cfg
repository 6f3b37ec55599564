SPECIFICATION Spec
CONSTANTS
  Requests <- PlainRead
  FullBlocks = 2
  HasTail = TRUE
  BlkMod = 8
  RetransmitCount = 1
  RetrMod = 4
  Faults <- OpenFault
  MaxStage = 4
INVARIANT
  ErrorReported
CHECK_DEADLOCK FALSE
