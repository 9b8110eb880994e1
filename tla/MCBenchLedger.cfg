SPECIFICATION BenchSpec
CONSTANTS
  Proc = {p1, p2, p3, p4}
  f1 = f1
  f2 = f2
  k1 = k1
  n1 = n1
  n2 = n2
  None = None
  Torn = Torn
  BLOCK = 2
  COUNTER_LIMIT = 4
  Path <- MCPath
  Key <- MCKey
  Nonce <- MCNonce
  Requests <- MCRequests
INVARIANTS
  KeystreamClaimedOnce
  ClaimIsOnDisk
  KeystreamStreamedOnce
PROPERTIES
  RegistryOnlyGrows
SYMMETRY Sym
CHECK_DEADLOCK FALSE
