SPECIFICATION Spec
CONSTANTS
  InputWidth = 3
  InputHeight = 2
  Picture <- MCPicture
  NoPicture = NoPicture
CHECK_DEADLOCK FALSE
INVARIANT
  ModelSeesPicture
PROPERTY
  NoNeedlessFailure
