SPECIFICATION FairSpec
CONSTANTS
  Drains = {d1, d2}
  Forms = {f1}
  Ids = {i1}
  Contents = {c1, c2}
  None = None
  MaxVersion = 1
  MaxFaults = 1
INVARIANTS TypeOK ReceiptIsTrue CompletedOnce NoWorkIsLost
PROPERTIES OnlyTheHolderReports QueuedIsResolved
CHECK_DEADLOCK FALSE
