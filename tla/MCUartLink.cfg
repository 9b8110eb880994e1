SPECIFICATION FairSpec
CONSTANTS
  CLKS_PER_BIT = 8
  DATA_BITS = 8
  TOLERANCE = 3
  Data <- MCData
PROPERTIES
  TxImplementsPort
  CrossesIntact
  ByteArrives
