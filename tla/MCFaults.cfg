SPECIFICATION MCSpec
CONSTANTS
  Edits = {e1, e2}
  MaxCrashes = 2
  MaxFaults = 1
  BackupNames = 4
  PastBackups = 2
  MaxBackups = 2
  OperatorFiles = 2
  BackupFaults = 1
  l1 = l1
  l3 = l3
  q2 = q2
  Lifespans = {l1, l3}
  ProcessOf <- TwoProcesses
  MaxInodes = 3
  MaxChmods = 1
  Images = {1, 2}
  Nested = {2}
  Backup = {1, 2}
  Backups = {"b1", "b2"}
  VolumeFaults = 2
  Migrators = {1, 2}
  MaxChanges = 1
  MaxFailures = 2
  Legacy = {11}
  Events = {1, 2}
  Hours = {1, 2, 3}
  RetentionHours = 1
  MaxDeaths = 2
  MaxDbFaults = 2
  Requests = {q1, q2}
  OpKinds = {"json", "image", "audio", "speaker", "speech", "convert", "create", "poll"}
  MaxRoute = 2
  RivaRoutes = {2}
  Retries = 1
  FileSize = 2
  UploadRoom = 2
  Fingerprints = {1, 2}
  Urls = {1, 2, 3}
  Languages = {1, 2}
  CandidateNames = {1, 2}
  Criteria = {1}
  MinSources = 2
  TopN = 1
  MaxTries = 2
  ToolKinds = {"search", "jina", "extract", "read"}
  ExtractSlots = 2
CHECK_DEADLOCK FALSE
INVARIANTS ConfigKept LifespanSafe ImagesKept MigrationWhole HistoryKept OperationsExact AnswersGrounded
PROPERTIES NothingTaken
