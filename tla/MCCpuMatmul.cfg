SPECIFICATION FairSpec
CONSTANTS
  Shape <- MCShape
  Wanted <- MCWanted
  TileK = 2
INVARIANTS
  TypeOK
  SoleWriter
  InSerialOrder
PROPERTY
  Returns
CHECK_DEADLOCK FALSE
