SPECIFICATION Spec
CONSTANTS
  t1 = t1
  w1 = w1
  Tasks = {t1}
  Workers = {w1}
  BatchTasks = {}
  BatchSize = 1
  CheckEvery = 3
  MaxRetries = 1
  MaxFaults = 0
  MaxCancels = 1
  MaxReplays = 0
  MaxAged = 1
  Outcomes = {"scored", "rejected"}
PROPERTY CancelOnlyLive
