SPECIFICATION FairSpec
CONSTANTS
  Keys = {k1}
  Runs = {r1, r2}
  Procs = {p1, p2}
  MaxProcs = 1
  SlowTurns = FALSE
  None = None
PROPERTY TurnEnds
PROPERTY Reclaimed
\* Each run is made once, so the behaviour ends.
CHECK_DEADLOCK FALSE
