SPECIFICATION Spec
CONSTANTS
  InputWidth = 2
  InputHeight = 2
  Strides <- MCStrides
  ClassCount = 2
  Upscale = 1
  ScoreThreshold = 2
  Overlap <- MCOverlap
  Prediction <- MCPrediction
  NotFinite = NotFinite
CHECK_DEADLOCK FALSE
INVARIANTS
  DetectionsMatchPredictions
  StrongestKept
