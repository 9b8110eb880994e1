SPECIFICATION Spec
CONSTANTS
  ROUNDS = 10
  k1 = k1
  k2 = k2
  p1 = p1
  p2 = p2
  Clear = Clear
  Key <- MCKey
  Block <- MCBlock
PROPERTIES
  ImplementsService
