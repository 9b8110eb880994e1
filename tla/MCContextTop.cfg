SPECIFICATION TopFairSpec
CONSTANTS
  BUILDS = {TRUE}
  COUNTER_MAX = 3
  CONTEXT_COUNTER = 1
  LATENCY = 6
  BLOCK_BYTES = 3
  DEPTH = 4
  FRAME = 4
  RX_GAP = 2
  RX_REARM = 3
  b1 = b1
  k1 = k1
  n1 = n1
  CONTEXT_KEY = k1
  CONTEXT_NONCE = n1
  Clear = Clear
  Byte <- MCByte
  Key <- MCKey
  Nonce <- MCNonce
  Value <- MCValue
  Enc <- MCEnc
INVARIANTS
  BytesMarkContext
PROPERTIES
  KeystreamUsedOnce
  RearmsUnlessUsed
  HeldByteLeaves
