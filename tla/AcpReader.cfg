SPECIFICATION Spec
CONSTANTS
  Agents = {a1, a2}
  Starts = 3
  max = 1
  None = None
INVARIANT TypeOK
INVARIANT AlmostBounded
INVARIANT Reachable
INVARIANT OwnTerminal
PROPERTY ReaderReturns
CHECK_DEADLOCK FALSE
