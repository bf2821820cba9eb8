SPECIFICATION Spec
CONSTANTS
  Format = {F1, F2}
  NoFormat = NoFormat
  Context = {C1, C2}
  NoContext = NoContext
  MaxAttempts = 2
  MaxPackets = 2
  MaxReady = 2
  MaxSeconds = 2
  MaxEvents = 1
CHECK_DEADLOCK FALSE
INVARIANTS
  StatisticsComplete
  ConverterOwnsContext
  DecoderKeepsUp
PROPERTY
  DurationTold
