SPECIFICATION FairSpec
CONSTANTS
  Slots = {s1, s2}
  MaxBacklog = 1
  Descriptors <- PlainDescriptor
PROPERTY
  StopReturns
CHECK_DEADLOCK FALSE
