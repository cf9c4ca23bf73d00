SPECIFICATION Spec
CONSTANTS
  Sessions = {1, 2}
  Delivered = {1}
  Passes = {a, b}
  PageSize = 1
  Overlap = 1
  Window = 2
  Skews <- Drifting
  MaxNow = 2
SYMMETRY PassSymmetry
INVARIANTS TypeOK TimelySessionsAreRecorded ExhaustedReportIsTrue
CHECK_DEADLOCK FALSE
