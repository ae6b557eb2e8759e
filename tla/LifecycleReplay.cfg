SPECIFICATION Spec
CONSTANTS
  t1 = t1
  w1 = w1
  w2 = w2
  Tasks = {t1}
  Workers = {w1,w2}
  BatchTasks = {}
  BatchSize = 1
  CheckEvery = 3
  MaxRetries = 0
  MaxFaults = 1
  MaxCancels = 0
  MaxReplays = 1
  MaxAged = 1
  Outcomes = {"scored"}
SYMMETRY WorkerSymmetry
INVARIANTS DeadLetterIsFinal OrphanSweepSparesQueued
