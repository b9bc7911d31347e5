\* Two messages, and no lock grows old.  No deadlock check: see team.
SPECIFICATION Spec
CONSTANTS
  Messages = {m1, m2}
  Runner = Runner
  NoOne = NoOne
  MaxOld = 0
  MaxLate = 0
CHECK_DEADLOCK FALSE
INVARIANTS
  ReadMeansHandled
