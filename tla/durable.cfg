\* Acknowledged writes, victims and reclaimed entries: what a restart finds of them.
CONSTANTS
  None = None
  INT64_MIN = 0
  INT64_MAX = 2
  ENTRY_OVERHEAD_BYTES = 1
  KeyLen <- MCKeyLen
  ValueLen <- MCValueLen
  NotAnIntegerError = NotAnIntegerError
  IntegerOverflowError = IntegerOverflowError
  InvalidExpireError = InvalidExpireError
  OutOfMemoryError = OutOfMemoryError
  PersistenceError = PersistenceError
  Key = {a, b, c}
  Text = {txt}
  MaxMemory = 6
  Policy = "allkeys-lru"
  MAXMEMORY_SAMPLES = 1
  SweepLimit = 1
  SetValues = {1, txt}
  Ttls = {0, 1}
  KeyArgs <- MCKeyArgs
  RestoreDeadlines = {}
  MaxTime = 1
  MaxTick = 3
  FsyncPolicy = {"always", "everysec"}
  MaxLog = 3
VIEW MCView
SYMMETRY MCSymmetry
SPECIFICATION DurableSpec
INVARIANTS DurableTypeOK LogMatchesMemory
PROPERTIES AckedSurvives FailedIsReadOnly RecoveredFits
