SPECIFICATION Spec
CONSTANTS
  Updates = {u1, u2}
  Admins = {u1}
  Backends = {b1, b2, b3, b4}
  Kinds = {Internal, External}
  Internal = Internal
  MaxCrashes = 1
  Boot = Boot
  Empty = Empty
  Torn = Torn
  None = None
INVARIANT TypeOK
INVARIANT BackendsAccounted
INVARIANT FileWhole
PROPERTY LoneUpdateTakesEffect
PROPERTY OperatorKeepsKind
PROPERTY ImplementsServiceSlot
PROPERTY ReplacedIsClosed
\* Each update is made once.
CHECK_DEADLOCK FALSE
