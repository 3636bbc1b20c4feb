\* A key that expires while its own increment makes room comes back without a deadline.
CONSTANTS
  None = None
  INT64_MIN = 0
  INT64_MAX = 3
  ENTRY_OVERHEAD_BYTES = 1
  KeyLen <- MCKeyLen
  ValueLen <- MCValueLen
  NotAnIntegerError = NotAnIntegerError
  IntegerOverflowError = IntegerOverflowError
  InvalidExpireError = InvalidExpireError
  OutOfMemoryError = OutOfMemoryError
  Key = {a, b}
  Text = {txt}
  Oversized = {}
  MaxMemory = 6
  Policy = "allkeys-lru"
  MAXMEMORY_SAMPLES = 2
  SweepLimit = 1
  SetValues = {2}
  Ttls = {1}
  KeyArgs <- MCOneKey
  RestoreDeadlines = {}
  MaxTime = 2
  MaxTick = 4
SPECIFICATION Spec
PROPERTY IncrKeepsDeadline
