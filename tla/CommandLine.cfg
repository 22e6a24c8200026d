SPECIFICATION Spec
CONSTANTS
  Files <- MCFiles
  Vocabularies <- MCVocabularies
INVARIANTS
  BuiltAsSaid
  DerivedFlagsCover
CHECK_DEADLOCK FALSE
