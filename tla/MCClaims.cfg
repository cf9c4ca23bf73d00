SPECIFICATION FairSpec
CONSTANTS
  Workers = {w1, w2}
  NoToken = NoToken
  NoPayment = NoPayment
  Payments = {p1}
  LeaseDuration = 2
  RetryDelay = 1
  MaxAttempts = 2
  MaxLag = 1
  MaxReviews = 1
INVARIANTS TypeOK CompletedIsFulfilled
PROPERTIES OnlyTheOwnerEnds TerminalStatesHold ImplementsPaidCheckout PaidIsSettled
CHECK_DEADLOCK FALSE
