\* A length of more digits than int() converts.
CONSTANTS
  Other = {"G"}
  MaxIntDigits = 3
  Scripts <- MCScripts
  MAX_MULTIBULK_LENGTH = 2
  MAX_BULK_LENGTH = 4
  LineLimit = 6
  HighWater = 1
  LowWater = 0
SPECIFICATION Spec
INVARIANT HangsUpWithReply
