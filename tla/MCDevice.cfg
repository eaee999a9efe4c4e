SPECIFICATION Spec
CONSTANTS
  c1 = c1
  c2 = c2
  a1 = a1
  a2 = a2
  b1 = b1
  b2 = b2
  b3 = b3
  b4 = b4
  Context <- MCContext
  Addr <- MCAddr
  Block <- MCBlock
  Type <- MCType
  WeightMax = 1
  MaxTensors = 3
  NoBlock = NoBlock
SYMMETRY Symmetry
INVARIANTS
  TypeOK
  BlocksOwned
  OperandsStay
  StaleOnlyAfterFree
CHECK_DEADLOCK FALSE
