SPECIFICATION FairSpec
CONSTANTS
  MaxRunId = 3
  MaxRetries = 2
  MaxFrames = 3
  MaxEvents = 4
INVARIANTS
  TypeOK
  OneLiveRun
  LatestFrameObservable
  GivesUpOnlyWhenSpent
PROPERTIES
  NoStaleFrameShown
  ImplementsStreamView
  CommandsAnswered
