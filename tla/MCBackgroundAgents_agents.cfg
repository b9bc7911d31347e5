\* An agent, an abort, a TaskStop and the shutdown of the session.
\* It stops when all of them are over: no deadlock check.
SPECIFICATION Spec
CONSTANTS
  Agents = {a1}
  Aborters = {user}
  Stoppers = {model}
  None = none
CHECK_DEADLOCK FALSE
INVARIANTS
  TypeOK
  OverMeansOver
  SupervisedWhileRunning
  WorkKept
  ShutdownEndsTasks
PROPERTIES
  AbortsEndRuns
  EndsAreTold
