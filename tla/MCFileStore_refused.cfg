SPECIFICATION Spec
CONSTANTS
  Managers = {m1, m2}
  Nobody = nobody
  Requests <- OldWrite
  Sums = {}
  Dirs <- TwoDirs
  Md5Files <- NoSumFiles
  Initial <- OldRoot
  Blocks = 2
INVARIANT
  OnlyCreatedChanged
CHECK_DEADLOCK FALSE
