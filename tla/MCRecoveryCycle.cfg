SPECIFICATION FairSpec
CONSTANTS
  Ids = {1, 2}
  Passes = {a, b}
INVARIANTS TypeOK CycleOffersAllDue
PROPERTIES DueIsServed
