SPECIFICATION Spec
CONSTANTS
  OctetMod = 13
  SizeMod = 64
  Lower <- MCLower
  DigitOctets <- MCDigits
  OptionName <- MCOptionName
  ModeName <- MCModeName
  Default <- MCDefault
  IntMax = 20
  Script <- MCScript
  OpCodes = {2, 3}
  ClientSizes = {8, 18}
  PktBufSize = 20
  LocalBufSize = 20
  MinSize = 4
  OptionOrder <- MCOrder
  BlkMod = 6
  MaxToggles = 1
INVARIANTS
  HandshakeTypeOK
  PushedReadsBack
  PushTellsFit
  VerdictOfPacket
  ParsedAsMeant
  OackEchoesRequest
CHECK_DEADLOCK FALSE
