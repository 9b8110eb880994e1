SPECIFICATION Spec
CONSTANTS
  a = a
  b = b
  None = None
  Reference <- MCReference
  COUNT = 2
  TRIALS = 2
  MAX_NOISE = 2
INVARIANTS
  FileIsWhatArrived
  PassMeansEveryByteAnswered
  ReportSpeaksOfTheFile
PROPERTIES
  EveryToolEnds
CHECK_DEADLOCK FALSE
