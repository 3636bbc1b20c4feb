\* A keyspace recovered above its limit refuses an overwrite that would shrink it.
CONSTANTS
  None = None
  INT64_MIN = 0
  INT64_MAX = 3
  ENTRY_OVERHEAD_BYTES = 1
  KeyLen <- MCKeyLen
  ValueLen <- MCValueLen
  NotAnIntegerError = NotAnIntegerError
  IntegerOverflowError = IntegerOverflowError
  InvalidExpireError = InvalidExpireError
  OutOfMemoryError = OutOfMemoryError
  Key = {a, b}
  Text = {txt}
  Oversized = {}
  MaxMemory = 7
  Policy = "noeviction"
  MAXMEMORY_SAMPLES = 2
  SweepLimit = 1
  SetValues = {2, txt}
  Ttls = {}
  KeyArgs <- MCOneKey
  RestoreDeadlines = {}
  MaxTime = 0
  MaxTick = 2
SPECIFICATION Spec
INVARIANT ShrinkAlwaysAdmitted
