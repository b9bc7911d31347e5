\* Two processes, two agents and two tasks, or one beside starts and reviews.
\* It stops when the bounds are used up: no deadlock check.
SPECIFICATION Spec
CONSTANTS
  Procs = {p1, p2}
  Owners = {ann, bob}
  NoOwner = nobody
  MaxTasks = 2
  MaxOps = 4
  MaxCrashes = 1
  MaxStarts = 2
  MaxFailures = 1
  MaxReviews = 1
CONSTRAINT Mixed
SYMMETRY Symmetry
CHECK_DEADLOCK FALSE
INVARIANTS
  TypeOK
  IdsNeverReused
  ClaimsExclusive
  OneTaskPerOwner
PROPERTY
  ClaimsWaitForDependencies
