SPECIFICATION FairSpec
CONSTANTS
  LayerCount = 3
  SeqMax = 2
  Cached <- MCCached
  PromptMax = 3
  MaxSteps = 3
  MaxCalls = 2
INVARIANTS
  TypeOK
  LayersShareOneContext
  SequenceUnbroken
  PositionsExactUntilFull
PROPERTY
  GenerateReturns
