SPECIFICATION FairSpec
CONSTANTS
  Texts <- MCTexts
  Extractors <- MCExtractors
  MinCandidate = 2
  MinimumWord = 2
  MaxGroups = 3
  MaxBoundaries = 3
INVARIANTS TokensPartitionText BreaksRespected BoundariesFound
PROPERTIES ImplementsSegmentation Terminates
CHECK_DEADLOCK FALSE
