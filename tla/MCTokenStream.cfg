SPECIFICATION FairSpec
CONSTANTS
  Tok <- MCTok
  Eos <- MCEos
  Role <- MCRole
  Byte <- MCByte
  Nul <- MCNul
  Visible <- MCVisible
  Text <- MCText
  Markers <- MCMarkers
  TopK = 3
  RepeatLimit = 3
  MaxSteps = 5
CHECK_DEADLOCK FALSE
INVARIANTS
  TypeOK
  EachTokenInOnePlace
  EachClassInOrder
  HeldBackWhileUndecided
  NoLongRepetition
PROPERTY
  Terminates
