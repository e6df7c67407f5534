SPECIFICATION Spec
CONSTANTS
  a1 = a1
  a2 = a2
  i1 = i1
  i2 = i2
  Agents = {a1, a2}
  Requests = {r1, r2}
  Ids = {i1, i2}
  Options = {yes, no}
  Allow = {yes}
  Messages <- MCMessages
  Clicks = {c1}
  Cancelled = Cancelled
  None = None
INVARIANT AnswersItsOwnCard
CHECK_DEADLOCK FALSE
