SPECIFICATION AttemptSpec
CONSTANTS
  BatchSize = 3
  BatchSlots = 2
  ApiSlots = 1
  NumKeys = 1
  QwenRetries = 1
  NetErrors = 1
  CheckEvery = 2
  Streams = {s1}
  Graders = {g1, g2}
  Cancellers = {c1}
  Cleaners = {c1}
  MaxProgress = 1
  MaxErrors = 1
  MaxSweeps = 1
INVARIANTS AttemptTypeOK RecordsMatchRows NeverAhead EndIsAnnounced
PROPERTIES BatchEnds StreamsEnd GradesAsAttempt
CHECK_DEADLOCK FALSE
