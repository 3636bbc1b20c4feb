\* Sessions of up to three frames, split, ended and reset at every byte.
CONSTANTS
  Other = {"G"}
  MaxIntDigits = 3
  Scripts <- MCScripts
  MAX_MULTIBULK_LENGTH = 2
  MAX_BULK_LENGTH = 4
  LineLimit = 6
  HighWater = 1
  LowWater = 0
SPECIFICATION FairSpec
INVARIANTS RequestsExact SilentOnlyOnLongNumber BacklogBounded
PROPERTY EveryRequestServed
