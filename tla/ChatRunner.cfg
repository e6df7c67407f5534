SPECIFICATION Spec
CONSTANTS
  Turns = {t1, t2}
  Sessions = {s1}
  MaxConcurrentChats = 1
  maxMsgs = 2
  histMax = 2
  maxDelegateTasks = 2
  Past = 8
  New = 2
  MaxEvents = 1
INVARIANT TypeOK
INVARIANT SlotsAccounted
INVARIANT KeepsLatest
INVARIANT TableBounded
PROPERTY SlotReturned
PROPERTY NoteArrives
\* Every request is made once.
CHECK_DEADLOCK FALSE
