SPECIFICATION StreamFairSpec
CONSTANTS
  COUNTER_MAX = 3
  LATENCY = 4
  BLOCK_BYTES = 3
  k1 = k1
  k2 = k2
  n1 = n1
  n2 = n2
  Clear = Clear
  Key <- MCKey
  Nonce <- MCNonce
  Value <- MCValue
  Enc <- MCEnc
INVARIANTS
  HeldMaskIsNext
PROPERTIES
  CounterNeverSkips
  ImplementsKeystream
  ExhaustedAtTheEnd
  AbortDrains
  ByteKeepsComing
