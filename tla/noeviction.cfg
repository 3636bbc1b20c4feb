\* Values, deadlines, expiry, refusals and the sweeper under the default policy.
CONSTANTS
  None = None
  INT64_MIN = 0
  INT64_MAX = 3
  ENTRY_OVERHEAD_BYTES = 1
  KeyLen <- MCKeyLen
  ValueLen <- MCValueLen
  NotAnIntegerError = NotAnIntegerError
  IntegerOverflowError = IntegerOverflowError
  InvalidExpireError = InvalidExpireError
  OutOfMemoryError = OutOfMemoryError
  Key = {a, b}
  Text = {txt}
  Oversized = {}
  MaxMemory = 7
  Policy = "noeviction"
  MAXMEMORY_SAMPLES = 2
  SweepLimit = 1
  SetValues = {2, txt}
  Ttls = {0, 1, 3}
  KeyArgs <- MCKeyArgs
  RestoreDeadlines = {1}
  MaxTime = 1
  MaxTick = 2
SPECIFICATION FairSpec
INVARIANTS TypeOK MetadataHasKeys RecencyIsExact
PROPERTIES ImplementsMap SweepReclaims
