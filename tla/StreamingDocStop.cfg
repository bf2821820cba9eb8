SPECIFICATION FairSpec
CONSTANTS
  MaxRunId = 2
  MaxRetries = 1
  MaxFrames = 1
  MaxEvents = 3
PROPERTIES
  DocStopLeavesError
