SPECIFICATION Spec
CONSTANTS
  Drains = {d1, d2}
  Forms = {f1}
  Ids = {i1, i2}
  Contents = {c1, c2}
  None = None
  MaxVersion = 1
  MaxFaults = 1
INVARIANT FailedIsNotCompleted
CHECK_DEADLOCK FALSE
