SPECIFICATION Spec
CONSTANTS
  BUILDS = {TRUE, FALSE}
  COUNTER_MAX = 2
  LATENCY = 5
  BLOCK_BYTES = 3
  DEPTH = 4
  FRAME = 4
  RX_GAP = 2
  RX_REARM = 3
  b1 = b1
  b2 = b2
  k1 = k1
  n1 = n1
  Clear = Clear
  Byte <- MCByte
  Key <- MCKey
  Nonce <- MCNonce
  Value <- MCValue
  Enc <- MCEnc
INVARIANTS
  SessionsAgree
  FifoNeverDrops
  OverflowSeenInPeak
PROPERTIES
  ImplementsChannel
