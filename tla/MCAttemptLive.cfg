SPECIFICATION FairSpec
CONSTANTS
  Attempts = {a1}
  Sessions = {s1}
  NoAttempt = NoAttempt
  NoSession = NoSession
  Contents = {c1}
  NoContent = NoContent
  Tabs = {t1}
  Workers = {w1}
  Life = 2
  MinLife = 2
  Grace = 1
  StripeLag = 1
  MaxTries = 2
  MaxTime = 5
  LastStart = 1
PROPERTIES AttemptsEnd PaidIsCompleted
CHECK_DEADLOCK FALSE
