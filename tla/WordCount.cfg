\* Three workers, a file they cannot share evenly and one that is shorter than
\* their number; workers may die.
SPECIFICATION FairSpec
CONSTANTS
  IPnum = 3
  FileLens = {2, 8}
  BlockLen = 3
  Coalesce = FALSE
  MayDie = TRUE
  CleanStack = TRUE
INVARIANTS TypeOK NoLostUpdate CountedOnce
PROPERTY EventuallyPrints
CHECK_DEADLOCK FALSE
