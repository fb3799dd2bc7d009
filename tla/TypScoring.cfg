SPECIFICATION ScoringSpec
CHECK_DEADLOCK FALSE
INVARIANTS
  PlacesAreTaken
  BestFirst
  AccuracyNeverFour
  TruthPaysBest
