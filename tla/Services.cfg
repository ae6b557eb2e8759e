SPECIFICATION ServicesSpec
CONSTANTS
  a1 = a1
  a2 = a2
  Requests = {a1, a2}
  Payloads = {p1, big}
  Oversized = {big}
  Versions = {v1, v2}
  MaxDeploys = 1
  MaxOutages = 1
  Assets <- MCAssets
  Weightings <- MCWeightings
  Segments = {"s1"}
  Slices = 2
  Hashes = {0, 1, 2}
  Operators = {a1, a2}
  Settings = {0, 1}
  Requested <- MCRequested
  PageSize = 1
  MaxLog = 3
  MaxFaults = 1
  Stems <- MCStems
  Hashed <- MCHashed
  Cut <- MCCut
  Extensions = {"jpg", "pdf"}
  PageTypes = {"jpg"}
  MaxFiles = 3
  ObjectPage = 2
  Runners = {a1, a2}
  Teachers = {t1}
  Batches = {b1}
  References <- MCReferences
  MaxRubrics = 2
  Students = {a1, a2}
  Rosters <- MCRosters
  TaskId = t
  Outcomes = {"scored", "needs_review"}
  MaxAttempts = 2
  Procs = {a1, a2}
  MaxTries = 2
  MaxStarts = 2
SYMMETRY ServicesSymmetry
INVARIANTS ServicesTypeOK CachedPromptIsOwn SingleFlight LogReplays ReaderMissesNothing OwnFileGraded MissingOnlyOnceGivenUp DuplicatesOverlap PoolIsRight ReadyMeansMigrated
PROPERTIES TeacherWorkStands LeftoversDoNotBlock TableSpec RoutingIsSteady
CHECK_DEADLOCK FALSE
