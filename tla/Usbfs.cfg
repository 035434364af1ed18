SPECIFICATION Spec
CONSTANTS
  BlockSize = 2
  MaxLength = 5
  Rounds = 1
INVARIANTS
  NoDataLost
  CompletedMeansComplete
PROPERTIES
  FreedWhenOver
  EndsWhenOver
