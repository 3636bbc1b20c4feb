\* Eviction with deadlines: garbage goes first, then victims; no write ends above the limit.
CONSTANTS
  None = None
  INT64_MIN = 0
  INT64_MAX = 3
  ENTRY_OVERHEAD_BYTES = 1
  KeyLen <- MCKeyLen
  ValueLen <- MCValueLen
  NotAnIntegerError = NotAnIntegerError
  IntegerOverflowError = IntegerOverflowError
  InvalidExpireError = InvalidExpireError
  OutOfMemoryError = OutOfMemoryError
  Key = {a, b, c}
  Text = {big}
  Oversized = {big}
  MaxMemory = 8
  Policy = "allkeys-lru"
  MAXMEMORY_SAMPLES = 2
  SweepLimit = 1
  SetValues = {2, big}
  Ttls = {1}
  KeyArgs <- MCOneKey
  RestoreDeadlines = {1}
  MaxTime = 2
  MaxTick = 3
VIEW MCView
SYMMETRY MCSymmetry
SPECIFICATION Spec
INVARIANTS MemoryIsExact VictimExists
PROPERTY HardLimit
