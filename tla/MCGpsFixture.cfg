SPECIFICATION Spec
CONSTANTS
  FIELD_BITS = 2
  Dollar = 8
  Star = 9
  CR = 10
  LF = 11
  Unprintable = 12
  MAX_FAULTS = 1
  REPLAY_SIZE = 16
  None = None
  Files <- MCFiles
  Altered <- MCAltered
  LIMITS <- MCLimits
  SIZES <- MCSizes
INVARIANTS
  BenchDataIsSent
CHECK_DEADLOCK FALSE
