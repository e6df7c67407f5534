SPECIFICATION FairSpec
CONSTANTS
  Tasks = {1, 2}
  HistoryLimit = 1
  MaxKeep = 2
  MaxRuns = 3
  MaxFailures = 1
  MaxRestarts = 1
INVARIANT TypeOK
INVARIANT AtMostOnce
INVARIANT NothingSwallowed
PROPERTY QuietStart
PROPERTY Told
\* The number of runs is bounded.
CHECK_DEADLOCK FALSE
