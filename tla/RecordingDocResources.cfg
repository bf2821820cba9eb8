SPECIFICATION Spec
CONSTANTS
  MaxRunId = 1
  MaxAttempts = 2
  MaxSeconds = 2
  MaxPresses = 2
  MaxEvents = 3
INVARIANTS
  DocResourcesReleased
