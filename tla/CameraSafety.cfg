SPECIFICATION Spec
CONSTANTS
  Name = {empty, door}
  Url = {empty, http, rtsp1, rtsp2}
  Empty = empty
  BlankName = {empty}
  BlankUrl = {empty}
  StreamUrl = {rtsp1, rtsp2}
  MaxCameras = 2
SYMMETRY Interchangeable
INVARIANTS
  TypeOK
  SessionsFollowTable
  PanelActsOnSession
  SaveHitsShownCamera
  NothingOutlivesSession
  StartedAsStored
