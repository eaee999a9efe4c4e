SPECIFICATION Spec
CONSTANTS
  i1 = i1
  i2 = i2
  i3 = i3
  b1 = b1
  b2 = b2
  b3 = b3
  Impl <- MCImpl
  Block <- MCBlock
  Size <- MCSize
  Align = 64
  ArenaCap = 200
  BucketMax = 2
  PoolMax = 72
  ImplMax = 2
  NoBlock = NoBlock
SYMMETRY Symmetry
INVARIANTS
  TypeOK
  LiveStorageDisjoint
  BlocksAccounted
  CachedObjectsAreFree
