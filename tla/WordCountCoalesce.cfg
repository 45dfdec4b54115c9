\* The file name and the start arrive together.
SPECIFICATION FairSpec
CONSTANTS
  IPnum = 1
  FileLens = {7}
  BlockLen = 3
  Coalesce = TRUE
  MayDie = FALSE
  CleanStack = TRUE
PROPERTY EventuallyPrints
CHECK_DEADLOCK FALSE
