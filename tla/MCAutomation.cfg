SPECIFICATION Spec
CONSTANTS
  Workers = {w1, w2}
  Cap = 1
  MaxAttempts = 2
  PageSize = 1
  MaxEvents = 2
  MaxIncidents = 1
SYMMETRY WorkerSymmetry
INVARIANTS TypeOK InProgressWithinCap CursorLeavesNothingBehind
PROPERTIES ResultsStand
CHECK_DEADLOCK FALSE
