\* A submission and a stop, without a fault: no deadlock check.
SPECIFICATION Spec
CONSTANTS
  Requests = {r1}
  Stops = {s1}
  Sources = {http}
  Keys = {k}
  Asks <- Anything
  NoKey = nokey
  None = none
  Workers = {w1}
  Recovery = recovery
  MaxQueued = 1
  MaxRestarts = 1
  MaxFaults = 0
CHECK_DEADLOCK FALSE
INVARIANT
  StoppedRunsAreQuiet
