SPECIFICATION NoiseSpec
CONSTANTS
  CLKS_PER_BIT = 8
  DATA_BITS = 2
PROPERTIES
  ImplementsPort
  SilentUntilIdle
