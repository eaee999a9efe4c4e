SPECIFICATION Spec
CONSTANTS
  LayerCount = 2
  SeqMax = 3
  k1 = k1
  k2 = k2
  v1 = v1
  v2 = v2
  Key <- MCKey
  Value <- MCValue
  Blank = Blank
INVARIANTS
  TypeOK
  HeadMovesOnlyWhenFull
PROPERTY
  Implements
