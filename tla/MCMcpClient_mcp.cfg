\* Two calls and two operations of the user, and a server whose requests have the
\* numbers of the first request of a connection and of the first call.  It stops
\* when they are over: no deadlock check.
SPECIFICATION Spec
CONSTANTS
  Calls = {c1, c2}
  Initialize = Initialize
  ListTools = ListTools
  Manager = Manager
  NoOne = NoOne
  Closed = Closed
  Null = Null
  ServerIds = {1, 3}
  Attempts = 2
  MaxOps = 2
CONSTRAINT Bounded
CHECK_DEADLOCK FALSE
INVARIANTS
  AnswersAreOwn
PROPERTIES
  CallsEnd
