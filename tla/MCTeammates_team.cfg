\* Two messages; or a tool, a kill and one message; a lock grows old beside plain
\* messages.  It stops when nothing more is sent: no deadlock check.
SPECIFICATION Spec
CONSTANTS
  Messages = {m1, m2}
  Runner = Runner
  NoOne = NoOne
  MaxOld = 1
  MaxLate = 1
CONSTRAINTS Ordered Mixed
INVARIANTS
  TypeOK
  MessagesKept
  HandledInOrder
  IdleMeansDelivered
  TasksReleased
PROPERTIES
  MessagesAreRead
  KillEnds
CHECK_DEADLOCK FALSE
