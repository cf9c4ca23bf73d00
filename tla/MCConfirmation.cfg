SPECIFICATION FairSpec
CONSTANTS
  Messages = {m1, m2}
  Malformed = {m2}
  Workers = {w1, w2}
  NoWorker = NoWorker
  NoMessage = NoMessage
  MaxAttempts = 2
INVARIANTS TypeOK ClosedRowsAreTrue
PROPERTIES ImplementsAtMostOnceSubmission AcceptedIsRecorded QueuedIsTried
CHECK_DEADLOCK FALSE
