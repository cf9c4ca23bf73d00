SPECIFICATION Spec
CONSTANTS
  Attempts = {a1, a2}
  Sessions = {s1, s2}
  NoAttempt = NoAttempt
  NoSession = NoSession
  Contents = {c1, c2}
  NoContent = NoContent
  Tabs = {t1, t2}
  Workers = {w1}
  Life = 1
  MinLife = 2
  Grace = 1
  StripeLag = 1
  MaxTries = 1
  MaxTime = 2
  LastStart = 2
SYMMETRY ModelSymmetry
INVARIANTS TypeOK AbandonedIsUnpayable OnePayableSession
PROPERTIES HistoryHolds ImplementsCartCheckout
CHECK_DEADLOCK FALSE
