SPECIFICATION MCSpec
CONSTANTS
  Chunks = {c1, c2, c3}
  ChunkSizes = {1, 2}
  MaxItems = 2
  MaxBytes = 3
  MaxEventBytes = 3
  MaxFed = 7
  MaxChunk = 3
  RateRequests = {q1, q2, q3}
  TokenCounts = {0, 2}
  Window = 2
  RpmLimit = 2
  TpmLimit = 3
  MaxRateTime = 4
  AuthRequests = {r1, r2}
  MaxFailures = 2
  BlockSeconds = 2
  Day = 5
  MaxGuardTime = 7
  Callers = {ca, cb, cc}
  Keys = {"k1"}
  Models = {"m1", "m2"}
  KeyRpm = 2
  ModelRpm = 2
  MaxConcurrency = 2
  Minute = 1
  Transient = 1
  Ladder <- Ladder2
  HitWindow = 2
  ExhaustWindow = 3
  Overload = 2
  Default = 2
  Ceiling = 3
  Midnight = 9
  Floors = {0, 4}
  Failures = {"rate_limit", "daily", "overload", "transient", "denied"}
  Pauses = 1
  MaxTime = 2
  Panel <- Panel2
  Reserve <- Reserve1
  MaxIterations = 2
  MaxToolCalls = 2
  MaxAsk = 2
  DecisionRoutes = 2
SYMMETRY CallersAlike
CHECK_DEADLOCK FALSE
INVARIANTS AdmissionExact ChunkingInvisible KeysHeld EnsembleBilled
PROPERTIES BansJustified CooldownHeld
