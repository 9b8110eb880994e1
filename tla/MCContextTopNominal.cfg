SPECIFICATION TopSpec
CONSTANTS
  BUILDS = {TRUE}
  COUNTER_MAX = 4
  CONTEXT_COUNTER = 0
  LATENCY = 10
  BLOCK_BYTES = 3
  DEPTH = 2
  FRAME = 4
  RX_GAP = 4
  RX_REARM = 3
  b1 = b1
  k1 = k1
  n1 = n1
  CONTEXT_KEY = k1
  CONTEXT_NONCE = n1
  Clear = Clear
  Byte <- MCByte
  Key <- MCKey
  Nonce <- MCNonce
  Value <- MCValue
  Enc <- MCEnc
PROPERTY
  KeepsUpWithSource
