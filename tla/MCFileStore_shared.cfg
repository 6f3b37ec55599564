SPECIFICATION Spec
CONSTANTS
  Managers = {m1, m2}
  Nobody = nobody
  Requests <- AllRequests
  Sums = {"sum"}
  Dirs <- TwoDirs
  Md5Files <- SumFiles
  Initial <- OldFiles
  Blocks = 3
INVARIANTS
  TypeOK
  InitialKept
  ClosedIsWhole
  UploadedInPlace
  ServedFromFile
  SearchOrder
PROPERTIES
  FinalForGood
CHECK_DEADLOCK FALSE
