SPECIFICATION FairSpec
CONSTANTS
  Sessions = {1, 2}
  Delivered = {}
  Passes = {a, b}
  PageSize = 1
  Overlap = 1
  Window = 2
  Skews <- Synchronous
  MaxNow = 1
PROPERTIES TimelyIsRecorded
CHECK_DEADLOCK FALSE
