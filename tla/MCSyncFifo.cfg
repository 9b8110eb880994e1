SPECIFICATION Spec
CONSTANTS
  DEPTH = 4
  b1 = b1
  b2 = b2
  NoData = NoData
  Data <- MCData
INVARIANTS
  PointersAgree
PROPERTIES
  ImplementsQueue
