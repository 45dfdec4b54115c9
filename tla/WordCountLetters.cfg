\* Two workers, the last of which answers first.
SPECIFICATION Spec
CONSTANTS
  IPnum = 2
  FileLens = {7}
  BlockLen = 3
  Coalesce = FALSE
  MayDie = FALSE
  CleanStack = TRUE
INVARIANT EveryLetterCounted
CHECK_DEADLOCK FALSE
