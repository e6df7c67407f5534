SPECIFICATION Spec
CONSTANTS
  Tasks = {1, 2}
  HistoryLimit = 1
  MaxKeep = 2
  MaxRuns = 3
  MaxFailures = 1
  MaxRestarts = 1
PROPERTY HistoryKeptQuiet
\* The number of runs is bounded.
CHECK_DEADLOCK FALSE
