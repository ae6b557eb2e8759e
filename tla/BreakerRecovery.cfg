SPECIFICATION FairSpec
CONSTANTS
  b1 = b1
  s1 = s1
  s2 = s2
  Breakers = {b1}
  Slots = {s1, s2}
  FailureThreshold = 2
  SuccessThreshold = 2
  MaxTroubles = 1
INVARIANTS TypeOK FullCountIsTripping
PROPERTIES Recovers OwnCopyIsBreaker
