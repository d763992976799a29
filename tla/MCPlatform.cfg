SPECIFICATION Spec
CONSTANTS
  RingSize = 3
  ChanSize = 2
  MaxPublished = 5
  MaxSubscribed = 2

  Servers = {"blue", "green"}
  Mode <- mcMode
  Entries = {"e1"}
  TicksPerSec = 2
  TicksPerDay = 4
  Retention = 4
  BlobMode = "errors"
  MaxNow = 9
  MaxStarts = 1
  MaxFaults = 1

  AccountIds = {"a1", "a2", "a3", "a4"}
  Sessions = {"s1", "s2"}
  UserIds = {"u1"}
  LogIds = {1}
  Populations <- mcPopulations
  Subject <- mcSubject
  StoredKey <- mcStoredKey
  Target <- mcTarget
  MaxRuns = 3
INVARIANTS
  TypesOK
  StreamUnbroken
  OneLeader
  RetentionKept
  RowsSurvive
  MigratedFaithfully
PROPERTIES
  RingImplementsLog
  JobsKeepRunning
CHECK_DEADLOCK FALSE
