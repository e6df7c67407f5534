SPECIFICATION Spec
CONSTANTS
  Keys = {k1, k2}
  Runs = {r1, r2}
  Procs = {p1, p2}
  MaxProcs = 1
  SlowTurns = FALSE
  None = None
SYMMETRY MCSymmetry
PROPERTY TurnNotEvicted
\* Each run is made once, so the behaviour ends.
CHECK_DEADLOCK FALSE
