\* A damaged length is taken for a torn tail.
CONSTANTS
  Other = {"a", "S", "X", "E", "D", "P", "F"}
  SET = "S"
  PXAT = "X"
  PEXPIREAT = "E"
  DEL = "D"
  PERSIST = "P"
  FLUSHDB = "F"
  MaxIntDigits = 4300
  Logs <- MCLogs
SPECIFICATION Spec
INVARIANT OnlyTornTailsCut
