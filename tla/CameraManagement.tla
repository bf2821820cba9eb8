---------------------------- MODULE CameraManagement ----------------------------
(***************************************************************************)
(* Adding, editing, removing and connecting cameras: the form and the list *)
(* of the camera panel (CameraManagementViewModel and its QML), the        *)
(* application service with its SQLite table, the registry of streaming    *)
(* sessions, and the view models and pictures made for them.               *)
(*                                                                         *)
(* Everything runs on the GUI thread, so a handler is one step. Each SQL   *)
(* statement may fail: the repository logs the error and goes on. Stopping *)
(* the program in the middle of a handler leaves the table as a failed     *)
(* statement or the whole handler would. A stream is only what was asked   *)
(* of its session; module StreamingSession has the rest.                   *)
(***************************************************************************)
EXTENDS Integers, SequencesExt

CONSTANTS
  Name, Url,       \* texts of the two fields
  Empty,           \* the empty text
  BlankName,       \* the names that are empty when trimmed
  BlankUrl,        \* the URLs that are empty when trimmed
  StreamUrl,       \* the URLs that begin, trimmed, with rtsp:// or file://
  MaxCameras       \* bound: cameras ever added

ASSUME CameraAssumption ==
  /\ Empty \in BlankName /\ BlankName \subseteq Name
  /\ Empty \in BlankUrl /\ BlankUrl \subseteq Url
  /\ StreamUrl \subseteq Url /\ StreamUrl \cap BlankUrl = {}
  /\ MaxCameras \in Nat \ {0}

\* Every camera gets a new UUID; here the next number.
CameraId == 1 .. MaxCameras
NoCamera == 0

Entry == [name : Name, url : Url]
Row == [id : CameraId, entry : Entry]
BlankEntry == [name |-> Empty, url |-> Empty]

CameraValidationError == {"None", "EmptyName", "EmptyUrl", "InvalidUrlScheme"}
ConnectionState ==
  {"Disconnected", "Connecting", "Connected", "Reconnecting", "Error"}

\* The states in which the panel's button says Stop.
StreamingState == {"Connecting", "Connected", "Reconnecting"}

VARIABLES
  table,           \* the rows of the SQLite table, in insertion order
  lastId,          \* the newest UUID
  sessions,        \* the cameras StreamingManager has a session for
  startedWith,     \* what each session was last started with; Empty: never
  wanted,          \* the sessions that were started and not stopped since
  cameras,         \* CameraManagementViewModel::m_cameras and the list model
  selectedIndex,   \* counted from 0 as in the code; -1: no selection
  form,            \* the two text fields
  validationError,
  viewModels,      \* the cameras LiveMonitoringViewModel has a view model for
  panelStream,     \* selectedStreamVm, the view model that the panel shows
  streamState,     \* the connection state that each view model shows
  pictures,        \* the cameras VideoFrameProvider has an image for
  orphans,         \* history: sessions whose INSERT failed
  unserved,        \* history: rows whose session a failure took away
  upToDate,        \* history: cameras not updated since their session's last start
  formOf           \* history: the camera whose values the form was given

registry == <<sessions, startedWith, wanted>>
panel == <<cameras, selectedIndex, form, formOf, validationError, panelStream>>
views == <<viewModels, streamState, pictures>>
history == <<orphans, unserved, upToDate>>
vars == <<table, lastId, registry, panel, views, history>>

Ids(rows) == {rows[i].id : i \in DOMAIN rows}

-----------------------------------------------------------------------------
(* The table, the validator, and what the panel derives from the list.     *)

\* A query returns the rows, or nothing when it fails.
Select(rows) == {rows, <<>>}

\* UPDATE and DELETE ... WHERE id = :id.
Updated(rows, id, e) ==
  [i \in DOMAIN rows |->
    IF rows[i].id = id THEN [id |-> id, entry |-> e] ELSE rows[i]]

Deleted(rows, id) ==
  IF id \in Ids(rows)
  THEN RemoveAt(rows, CHOOSE i \in DOMAIN rows : rows[i].id = id)
  ELSE rows

\* CameraValidator::validate looks at trimmed texts; untrimmed ones are stored.
Validate(e) ==
  CASE e.name \in BlankName -> "EmptyName"
    [] e.name \notin BlankName /\ e.url \in BlankUrl -> "EmptyUrl"
    [] e.name \notin BlankName /\ e.url \notin BlankUrl ->
         IF e.url \in StreamUrl THEN "None" ELSE "InvalidUrlScheme"

\* selectedCamera(): null when the index is outside the list.
IsSelected(rows, index) == index + 1 \in DOMAIN rows
SelectedId(rows, index) ==
  IF IsSelected(rows, index) THEN rows[index + 1].id ELSE NoCamera
SelectedEntry(rows, index) ==
  IF IsSelected(rows, index) THEN rows[index + 1].entry ELSE BlankEntry

\* The panel asks for the selected camera's view model: null without a session.
StreamOf(id, reg) == IF id \in reg THEN id ELSE NoCamera
hasSelection == selectedIndex >= 0

\* loadSelectedCameraIntoForm() and the handlers of selectedCameraChanged.
LoadSelected(rows, index, reg) ==
  /\ form' = SelectedEntry(rows, index)
  /\ formOf' = SelectedId(rows, index)
  /\ panelStream' = StreamOf(SelectedId(rows, index), reg)

SelectWithoutLoading(index) ==  \* mutant: the form is not loaded
  /\ selectedIndex' = index
  /\ panelStream' = StreamOf(SelectedId(cameras', index), sessions')
  /\ UNCHANGED <<form, formOf>>

\* setSelectedIndex() does nothing when the index stays the same.
SetSelectedIndex(index) ==
  /\ selectedIndex' = index
  /\ IF index = selectedIndex
     THEN UNCHANGED <<form, formOf, panelStream>>
     ELSE LoadSelected(cameras', index, sessions')

BeginAdd == validationError' = "None" /\ SetSelectedIndex(-1)

KeepSelection ==  \* mutant: the list moves under the selection
  UNCHANGED <<selectedIndex, form, formOf, panelStream, validationError>>

AfterDelete == BeginAdd

Reload == cameras' \in Select(table')

\* The repository's statements, whose failures nobody is told of.
Insert(row) ==
  \/ table' = Append(table, row) /\ orphans' = orphans
  \/ table' = table /\ orphans' = orphans \cup {row.id}

Delete(id) ==
  \/ table' = Deleted(table, id) /\ unserved' = unserved \ {id}
  \/ table' = table /\ unserved' = unserved \cup {id}

CreateNothing(id) == sessions  \* mutant: no session until the next start

CreateSession(id) == sessions \cup {id}

NotRetired(id) == viewModels  \* mutant: the view model is kept

\* The session's destruction clears and retires its view model.
Retired(id) == viewModels \ {id}

\* streamViewModel() makes the view model that the panel has asked for.
MakeViewModel(id) ==
  IF id \in viewModels \cup {NoCamera}
  THEN UNCHANGED <<viewModels, streamState>>
  ELSE /\ viewModels' = viewModels \cup {id}
       /\ streamState' = [streamState EXCEPT ![id] = "Disconnected"]

-----------------------------------------------------------------------------
(* Starting the program: one session for each row, an empty form, and the  *)
(* page's onCompleted, which selects the first camera. The sessions and    *)
(* the list come from two queries.                                         *)

Init ==
  /\ table = <<>> /\ lastId = 0
  /\ sessions = {} /\ wanted = {}
  /\ startedWith = [c \in CameraId |-> Empty]
  /\ cameras = <<>> /\ selectedIndex = 0
  /\ form = BlankEntry /\ formOf = NoCamera
  /\ validationError = "None"
  /\ panelStream = NoCamera
  /\ viewModels = {} /\ pictures = {}
  /\ streamState = [c \in CameraId |-> "Disconnected"]
  /\ orphans = {} /\ unserved = {} /\ upToDate = {}

FirstSession(rows) ==  \* mutant: a session for the front camera only
  {rows[i].id : i \in DOMAIN rows \cap {1}}

\* createSession() for each row that the first query returned.
SessionsAtStart(rows) == Ids(rows)

\* Leaving the program, or losing it, and starting it again.
Restart ==
  /\ UNCHANGED <<table, lastId>>
  /\ \E found \in Select(table) :
       /\ sessions' = SessionsAtStart(found)
       /\ unserved' = Ids(table) \ Ids(found)
  /\ wanted' = {}
  /\ startedWith' = [c \in CameraId |-> Empty]
  /\ cameras' \in Select(table)
  /\ selectedIndex' = 0
  /\ LoadSelected(cameras', 0, sessions')
  /\ validationError' = "None"
  /\ viewModels' = {panelStream'} \ {NoCamera}
  /\ pictures' = {}
  /\ streamState' = [c \in CameraId |-> "Disconnected"]
  /\ orphans' = {} /\ upToDate' = {}

-----------------------------------------------------------------------------
(* The form and the selection.                                             *)

EditName(text) ==
  /\ form' = [form EXCEPT !.name = text]
  /\ UNCHANGED <<table, lastId, registry, cameras, selectedIndex, formOf,
                 validationError, panelStream, views, history>>

EditUrl(text) ==
  /\ form' = [form EXCEPT !.url = text]
  /\ UNCHANGED <<table, lastId, registry, cameras, selectedIndex, formOf,
                 validationError, panelStream, views, history>>

SelectNext(index) ==  \* mutant: rows counted from 1
  /\ IsSelected(cameras, index)
  /\ UNCHANGED <<table, lastId, registry, cameras, validationError, pictures,
                 history>>
  /\ SetSelectedIndex(index + 1)
  /\ MakeViewModel(panelStream')

\* A click on a delegate of the list.
SelectCamera(index) ==
  /\ IsSelected(cameras, index)
  /\ UNCHANGED <<table, lastId, registry, cameras, validationError, pictures,
                 history>>
  /\ SetSelectedIndex(index)
  /\ MakeViewModel(panelStream')

\* The "+" button.
BeginAddCamera ==
  /\ UNCHANGED <<table, lastId, registry, cameras, views, history>>
  /\ BeginAdd

-----------------------------------------------------------------------------
(* The form's button: Save Camera with a selection, else Add Camera.       *)

\* addCamera() and updateSelectedCamera() change nothing but the message.
RejectEntry ==
  /\ hasSelection => IsSelected(cameras, selectedIndex)
  /\ Validate(form) # "None"
  /\ validationError' = Validate(form)
  /\ UNCHANGED <<table, lastId, registry, cameras, selectedIndex, form, formOf,
                 panelStream, views, history>>

\* The session is created even when the INSERT failed.
AddCamera ==
  /\ ~hasSelection
  /\ Validate(form) = "None"
  /\ lastId < MaxCameras
  /\ lastId' = lastId + 1
  /\ Insert([id |-> lastId', entry |-> form])
  /\ sessions' = CreateSession(lastId')
  /\ Reload
  /\ BeginAdd
  /\ UNCHANGED <<startedWith, wanted, views, unserved, upToDate>>

\* A stream that is running goes on with what it was started with.
UpdateSelectedCamera ==
  LET id == SelectedId(cameras, selectedIndex) IN
  /\ IsSelected(cameras, selectedIndex)
  /\ Validate(form) = "None"
  /\ validationError' = "None"
  /\ \/ table' = Updated(table, id, form) /\ upToDate' = upToDate \ {id}
     \/ UNCHANGED <<table, upToDate>>
  /\ Reload
  /\ LoadSelected(cameras', selectedIndex, sessions)
  /\ MakeViewModel(panelStream')
  /\ UNCHANGED <<lastId, registry, selectedIndex, pictures, orphans, unserved>>

\* The session goes first and takes its view model and picture with it.
DeleteSelectedCamera ==
  LET id == SelectedId(cameras, selectedIndex) IN
  /\ hasSelection /\ panelStream # NoCamera
  /\ IsSelected(cameras, selectedIndex)
  /\ sessions' = sessions \ {id}
  /\ wanted' = wanted \ {id}
  /\ viewModels' = Retired(id)
  /\ pictures' = pictures \ {id}
  /\ Delete(id)
  /\ Reload
  /\ AfterDelete
  /\ upToDate' = upToDate \ {id}
  /\ UNCHANGED <<lastId, startedWith, streamState, orphans>>

-----------------------------------------------------------------------------
(* Streams, and the view models of the live page.                          *)

\* The button shows what the view model says of the state, which is late.
isStreaming ==
  panelStream \in viewModels /\ streamState[panelStream] \in StreamingState

SessionUrl ==  \* mutant: a session that has a camera keeps it
  LET id == SelectedId(cameras, selectedIndex)
  IN  IF startedWith[id] # Empty THEN startedWith[id]
      ELSE SelectedEntry(cameras, selectedIndex).url

FormUrl == form.url  \* mutant: what is typed, not what is stored

\* start() replaces the session's camera by the one in the list.
StoredUrl == SelectedEntry(cameras, selectedIndex).url

ConnectSelectedCamera ==
  LET id == SelectedId(cameras, selectedIndex) IN
  /\ hasSelection /\ panelStream # NoCamera /\ ~isStreaming
  /\ IsSelected(cameras, selectedIndex)
  /\ startedWith' = [startedWith EXCEPT ![id] = StoredUrl]
  /\ wanted' = wanted \cup {id}
  /\ upToDate' = upToDate \cup {id}
  /\ UNCHANGED <<table, lastId, sessions, panel, views, orphans, unserved>>

StopSelectedCamera ==
  /\ hasSelection /\ panelStream # NoCamera /\ isStreaming
  /\ IsSelected(cameras, selectedIndex)
  /\ wanted' = wanted \ {SelectedId(cameras, selectedIndex)}
  /\ UNCHANGED <<table, lastId, sessions, startedWith, panel, views, history>>

\* A delegate of the live page is created for a row of the list.
ShowTile(id) ==
  /\ id \in Ids(cameras) \cap sessions
  /\ id \notin viewModels
  /\ MakeViewModel(id)
  /\ UNCHANGED <<table, lastId, registry, panel, pictures, history>>

\* A signal of a session: any state may follow any other here.
StateChanged(id, state) ==
  /\ id \in sessions \cap viewModels
  /\ startedWith[id] # Empty
  /\ streamState' = [streamState EXCEPT ![id] = state]
  /\ pictures' = IF state \in {"Connecting", "Disconnected"}
                 THEN pictures \ {id} ELSE pictures
  /\ UNCHANGED <<table, lastId, registry, panel, viewModels, history>>

FrameUpdated(id) ==
  /\ id \in sessions \cap viewModels
  /\ startedWith[id] # Empty
  /\ pictures' = pictures \cup {id}
  /\ UNCHANGED <<table, lastId, registry, panel, viewModels, streamState,
                 history>>

Next ==
  \/ Restart
  \/ \E text \in Name : EditName(text)
  \/ \E text \in Url : EditUrl(text)
  \/ \E index \in 0 .. MaxCameras - 1 : SelectCamera(index)
  \/ BeginAddCamera
  \/ RejectEntry
  \/ AddCamera
  \/ UpdateSelectedCamera
  \/ DeleteSelectedCamera
  \/ ConnectSelectedCamera
  \/ StopSelectedCamera
  \/ \E id \in CameraId : ShowTile(id) \/ FrameUpdated(id)
  \/ \E id \in CameraId, state \in ConnectionState : StateChanged(id, state)

Spec == Init /\ [][Next]_vars

-----------------------------------------------------------------------------
(* Properties.                                                             *)

TypeOK ==
  /\ table \in Seq(Row) /\ cameras \in Seq(Row)
  /\ lastId \in 0 .. MaxCameras
  /\ sessions \subseteq CameraId
  /\ startedWith \in [CameraId -> Url]
  /\ wanted \subseteq CameraId
  /\ selectedIndex \in -1 .. MaxCameras - 1
  /\ form \in Entry
  /\ validationError \in CameraValidationError
  /\ viewModels \subseteq CameraId
  /\ panelStream \in {NoCamera} \cup CameraId
  /\ streamState \in [CameraId -> ConnectionState]
  /\ pictures \subseteq CameraId
  /\ orphans \subseteq CameraId /\ unserved \subseteq CameraId
  /\ upToDate \subseteq CameraId
  /\ formOf \in {NoCamera} \cup CameraId

\* The registry follows the table through adding, removing and restarting:
\* they differ exactly by the statements that failed.
SessionsFollowTable ==
  sessions = (Ids(table) \ unserved) \cup orphans

\* The Q_ASSERT of startStreaming(): whenever the panel enables Connect, Stop
\* and Delete, they act on a camera that has a session and a view model.
PanelActsOnSession ==
  hasSelection /\ panelStream # NoCamera =>
    /\ panelStream = SelectedId(cameras, selectedIndex)
    /\ panelStream \in sessions \cap viewModels

\* Whatever fails, the list shows the table as it is or nothing.
ListShowsTable == cameras \in Select(table)

\* Save writes over the camera whose values the form was given, also after
\* the list has changed under the selection.
SaveHitsShownCamera ==
  IsSelected(cameras, selectedIndex) => formOf = SelectedId(cameras, selectedIndex)

\* No stream goes on behind a camera that was removed, and no view model or
\* picture outlives its session.
NothingOutlivesSession ==
  /\ wanted \subseteq sessions \cap Ids(table)
  /\ pictures \subseteq viewModels
  /\ viewModels \subseteq sessions

\* Only an update since the last Connect can make a session's URL differ from the
\* one stored for its camera, whatever was typed, selected or failed: a Connect
\* of a session that was started before takes the updated URL. The validator
\* has accepted it.
StartedAsStored ==
  \A row \in ToSet(table) :
    row.id \in upToDate =>
      startedWith[row.id] = row.entry.url /\ Validate(row.entry) = "None"

=============================================================================
