\* Every log of one or two records, cut or damaged at every byte.
CONSTANTS
  Other = {"a", "S", "X", "E", "D", "P", "F"}
  SET = "S"
  PXAT = "X"
  PEXPIREAT = "E"
  DEL = "D"
  PERSIST = "P"
  FLUSHDB = "F"
  MaxIntDigits = 4300
  Logs <- MCLogs
SPECIFICATION Spec
INVARIANTS TornTailRepaired FramingDamageRefused RefusalKeepsFile
