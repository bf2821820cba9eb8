SPECIFICATION FairSpec
CONSTANTS
  MaxGeneration = 2
  MaxRun = 2
  MaxRevision = 2
  Expiry = 1
INVARIANTS
  ShownIsTended
  FailureIsFinal
PROPERTIES
  OnlyFreshShown
  DetectionsExpire
  RunIsAnalysed
