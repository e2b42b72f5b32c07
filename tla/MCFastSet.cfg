SPECIFICATION Spec
CONSTANTS
  Ids <- TwoIds
  N = 7
  SMALL_SIZE = 5
  SMALLER_SIZE = 3
  WordBits = 2
INVARIANTS
  ReadsAreExact
PROPERTIES
  Implements
