\* A malformed record is found after others were applied.
CONSTANTS
  Other = {"a", "S", "X", "E", "D", "P", "F"}
  SET = "S"
  PXAT = "X"
  PEXPIREAT = "E"
  DEL = "D"
  PERSIST = "P"
  FLUSHDB = "F"
  MaxIntDigits = 4300
  Logs <- MCLogs
SPECIFICATION Spec
INVARIANT CorruptAppliesNothing
