SPECIFICATION TextSpec
CONSTANTS
  Vocabularies <- MCVocabularies
  SpecialLike <- MCSpecialLike
  Added <- MCAdded
  Texts <- MCTexts
  GenMax = 2
INVARIANTS
  RoundTrip
  StreamedAsDecoded
  SpecialsWhole
  MergedInRankOrder
