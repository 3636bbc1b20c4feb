\* Which keys eviction may take, and that clients see a map losing no others.
CONSTANTS
  None = None
  INT64_MIN = 0
  INT64_MAX = 2
  ENTRY_OVERHEAD_BYTES = 1
  KeyLen <- MCKeyLen
  ValueLen <- MCValueLen
  NotAnIntegerError = NotAnIntegerError
  IntegerOverflowError = IntegerOverflowError
  InvalidExpireError = InvalidExpireError
  OutOfMemoryError = OutOfMemoryError
  Key = {a, b, c, d, e}
  Text = {txt}
  Oversized = {}
  MaxMemory = 12
  Policy = "allkeys-lru"
  MAXMEMORY_SAMPLES = 3
  SweepLimit = 1
  SetValues = {1}
  Ttls = {}
  KeyArgs <- MCOneKey
  RestoreDeadlines = {}
  MaxTime = 0
  MaxTick = 4
SYMMETRY MCSymmetry
SPECIFICATION Spec
PROPERTIES RecentSurvive ImplementsMap
