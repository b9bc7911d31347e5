\* A second process starts while the first one works.
\* It stops when the bounds are used up: no deadlock check.
SPECIFICATION Spec
CONSTANTS
  Procs = {p1, p2}
  Owners = {ann, bob}
  NoOwner = nobody
  MaxTasks = 2
  MaxOps = 3
  MaxCrashes = 0
  MaxStarts = 1
  MaxFailures = 0
  MaxReviews = 0
CHECK_DEADLOCK FALSE
PROPERTIES
  InterruptedWithoutWorker
