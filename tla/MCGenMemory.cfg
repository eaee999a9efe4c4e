SPECIFICATION Spec
CONSTANTS
  Impl <- MCImpl
  Block <- MCBlock
  Size <- MCSize
  Align = 64
  ArenaCap = 256
  BucketMax = 0
  PoolMax = 128
  ImplMax = 0
  NoBlock = 0
  WeightBytes = 128
  RowBytes = 64
  Null = Null
  LoadedF32 = {TRUE}
  Projections = 2
  WeightMax = 1
  MaxCalls = 3
  MaxForwards = 1
  MaxFailures = 1
INVARIANTS
  TypeOK
  NothingDangles
  LeaksNamed
CHECK_DEADLOCK FALSE
