SPECIFICATION Spec
CONSTANTS
  t1 = t1
  w1 = w1
  Tasks = {t1}
  Workers = {w1}
  BatchTasks = {t1}
  BatchSize = 2
  CheckEvery = 1
  MaxRetries = 1
  MaxFaults = 0
  MaxCancels = 1
  MaxReplays = 0
  MaxAged = 1
  Outcomes = {"scored", "needs_review", "rejected"}
INVARIANTS CompletedHasResults RejectionIsLogged
PROPERTY CancelHolds
