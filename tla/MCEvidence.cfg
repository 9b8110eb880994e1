SPECIFICATION Spec
CONSTANTS
  None = None
  Torn = Torn
  Idle = None
  Context <- MCContext
  Registered <- MCRegistered
  Streams <- MCStreams
  Planned <- MCPlanned
  Window <- MCWindow
  MAX_EDITS = 2
  MAX_LATE = 1
  PERIOD2 = 5
  DATA_BITS = 1
  WARMUP = 3
  IDLE = 2
  COUNT = 1
  QUEUE = 2
  CHUNKS = {3, 5}
INVARIANTS
  VerifiedBuildIsWhole
  SamplesInOrder
  DecodedAsOnePiece
  CapturedIsClean
  ClaimedContextIsInTheBitstream
  SummaryRestsOnBytes
  ExportIsTheCapture
PROPERTIES
  RecordEnds
CHECK_DEADLOCK FALSE
