SPECIFICATION MCSpec
CONSTANTS
  Evaluations = {e1, e2}
  NumKeys = 2
  MaxAttempts = 1
  Window = 2
  MinSamples = 2
  RatePercent = 30
  SpikePercent = 180
  TokenLimit = 2
  Tokens = {1, 2, 3}
  Breakers = {b1}
  Slots = {c1}
  FailureThreshold = 3
  SuccessThreshold = 2
  MaxTroubles = 0
INVARIANTS EngineTypeOK BurntKeysRest SilenceIsNoticed
PROPERTIES RouteRecovers BreakerSpec
CHECK_DEADLOCK FALSE
