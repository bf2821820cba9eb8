SPECIFICATION FairSpec
CONSTANTS
  MaxRunId = 2
  MaxAttempts = 2
  MaxSeconds = 2
  MaxPresses = 2
  MaxEvents = 3
INVARIANTS
  TypeOK
  RecorderConsistent
  NothingOutlivesAttempt
  RecordingViewSettles
PROPERTIES
  StopWins
  FilesEndOnce
  StopFinalizesRecording
