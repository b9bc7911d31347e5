\* Two submissions, or one and a stop; two workers, and a fault at any moment.
\* It stops when all requests are over: no deadlock check.
SPECIFICATION Spec
CONSTANTS
  Requests = {r1, r2}
  Stops = {s1}
  Sources = {http, telegram}
  Keys = {k}
  Asks <- Anything
  NoKey = nokey
  None = none
  Workers = {w1, w2}
  Recovery = recovery
  MaxQueued = 1
  MaxRestarts = 1
  MaxFaults = 1
CONSTRAINTS Ordered Mixed
CHECK_DEADLOCK FALSE
INVARIANTS
  TypeOK
  SentOnce
  MarkedAfterTheEnd
  OneExecutor
  StatusesHaveCauses
PROPERTIES
  ImplementsRegistry
  CommandsTaken
