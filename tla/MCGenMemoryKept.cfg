SPECIFICATION Spec
CONSTANTS
  Impl <- MCImpl
  Block <- MCBlock
  Size <- MCSize
  Align = 64
  ArenaCap = 256
  BucketMax = 2
  PoolMax = 128
  ImplMax = 0
  NoBlock = 0
  WeightBytes = 128
  RowBytes = 64
  Null = Null
  LoadedF32 = {TRUE}
  Projections = 2
  WeightMax = 1
  MaxCalls = 3
  MaxForwards = 1
  MaxFailures = 1
INVARIANT
  KeptTensorsSurvive
CHECK_DEADLOCK FALSE
