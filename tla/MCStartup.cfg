SPECIFICATION StartupFairSpec
CONSTANTS
  Slots = {s1, s2, s3}
  MaxBacklog = 1
  Descriptors <- AnyDescriptor
  V4Text <- MCV4
  V6Text <- MCV6
  PortMod = 8
  DfltPort = 3
  U16 = 8
  DfltRetransmit = 3
  DfltDialect = 3
  DfltSyslog = 6
  DfltChmod = 4
  CommandLines <- MCLines
  EmbeddedLines <- MCEmbedded
  BusyLines <- MCBusy
  MaxPolls = 3
  Ports = {4, 9}
INVARIANTS
  StartupTypeOK
  NoDanglingThread
  OptionsAsGiven
  AddressUnderstood
  BadLineServesNothing
  SuccessIsDaemon
PROPERTIES
  FinishedIsErased
  StopInLoopReturns
  ParentTells
CHECK_DEADLOCK FALSE
