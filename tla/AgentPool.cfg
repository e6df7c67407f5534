SPECIFICATION Spec
CONSTANTS
  Keys = {k1, k2}
  Runs = {r1, r2}
  Procs = {p1, p2}
  MaxProcs = 1
  SlowTurns = TRUE
  None = None
SYMMETRY MCSymmetry
INVARIANT TypeOK
INVARIANT Accounted
INVARIANT StreamsToOwnTurn
PROPERTY GrowsWithCallers
PROPERTY ImplementsAgentTurns
\* Each run is made once, so the behaviour ends.
CHECK_DEADLOCK FALSE
