SPECIFICATION FairSpec
CONSTANTS
  t1 = t1
  w1 = w1
  Tasks = {t1}
  Workers = {w1}
  BatchTasks = {}
  BatchSize = 1
  CheckEvery = 3
  MaxRetries = 1
  MaxFaults = 1
  MaxCancels = 1
  MaxReplays = 0
  MaxAged = 0
  Outcomes = {"scored"}
PROPERTIES Settles QueueDrains
