\* Two revisions that may sync at once, two crashes; the second name
\* has one word.
CONSTANTS
  MaxRevs = 2
  OneWord = {2}
  Concurrency = 2
  MaxAttempts = 2
  MaxTries = 2
  MaxCrashes = 2
  Apart = TRUE
  DefaultOn = TRUE
SPECIFICATION FairSpec
INVARIANTS
  SyncInv
  LastEditShows
PROPERTIES
  OptOutKept
  SyncEnds
CHECK_DEADLOCK FALSE
