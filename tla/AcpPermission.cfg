SPECIFICATION Spec
CONSTANTS
  a1 = a1
  a2 = a2
  i1 = i1
  i2 = i2
  Agents = {a1, a2}
  Requests = {r1, r2}
  Ids = {i1, i2}
  Options = {yes, no}
  Allow = {yes}
  Messages <- MCMessages
  Clicks = {c1, c2}
  Cancelled = Cancelled
  None = None
INVARIANT TypeOK
INVARIANT Answerable
INVARIANT OnlyOffered
INVARIANT Consent
INVARIANT AnswerKept
PROPERTY EveryRequestEnds
\* Every request is made once and every card clicked once per call.
CHECK_DEADLOCK FALSE
