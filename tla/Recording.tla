------------------------------- MODULE Recording -------------------------------
(***************************************************************************)
(* Recording one camera: the Record button and the view model on the GUI   *)
(* thread, the mutex-protected command mailbox of FFmpegStreamingService,  *)
(* the connection attempt that owns the FFmpeg input, and the              *)
(* FFmpegRecordingService that remuxes its packets into a file.            *)
(*                                                                         *)
(* The life of runs and retries is that of module StreamingSession; here   *)
(* an attempt begins whenever a run is wanted. A packet is only its        *)
(* keyframe flag, a file only how it began and how it ended; its name is   *)
(* the second in which Record was pressed, as the view model names it.     *)
(***************************************************************************)
EXTENDS Integers, Sequences

CONSTANTS
  MaxRunId,     \* bound: streaming runs started by the user
  MaxAttempts,  \* bound: connection attempts that open the input
  MaxSeconds,   \* bound: seconds of the clock that names the files
  MaxPresses,   \* bound: presses of Record within one second
  MaxEvents     \* bound: signals waiting in the GUI thread's event queue

ASSUME RecordingAssumption ==
  /\ MaxRunId \in Nat \ {0}
  /\ MaxAttempts \in Nat \ {0}
  /\ MaxSeconds \in Nat \ {0}
  /\ MaxPresses \in Nat \ {0}
  /\ MaxEvents \in Nat \ {0, 1}

\* Stopping exists only inside stopRecording(), between two lines.
RecordingState == {"Stopped", "Starting", "Recording", "Error"}

ConnectionEvent == {"connected", "lost"}
Event == RecordingState \cup ConnectionEvent

\* Output paths: the camera's name and the second in which the button was
\* pressed, so one for each second; 0 is no file, no pending configuration.
NoFile == 0
File == 1 .. MaxSeconds

\* What an attempt holds: AVFormatContext, AVCodecContext, AVPacket, AVFrame.
AttemptResource == {"input", "codec", "packet", "frame"}

\* ... and what the frame converter holds, its SwsContext.
Resource == AttemptResource \cup {"converter"}

\* FFmpegRecordingService: its state, the pending configuration, the attempt
\* whose AVStream m_inputStream points into (0: null), and the output context.
Recorder ==
  [state : RecordingState, config : {NoFile} \cup File,
   stream : 0 .. MaxAttempts, output : {NoFile} \cup File]

IdleRecorder ==
  [state |-> "Stopped", config |-> NoFile, stream |-> 0, output |-> NoFile]

\* A file: the first packet written, and whether it is still being written,
\* was closed after av_write_trailer, which succeeded ("trailer") or failed
\* ("noTrailer"), or was just closed ("cut").
Ended == {"trailer", "noTrailer", "cut"}

FileState ==
  [first : {"none", "key", "inter"}, end : {"absent", "open"} \cup Ended]

VARIABLES
  life,          \* "alive", "destroying", "gone": the streaming session
  run,           \* StreamingSession::m_streamRunId
  stopRequested, \* the newest run's stop source
  attemptRun,    \* the run whose token the worker's attempt holds
  attempt,       \* the number of inputs opened so far
  pc,            \* the service's stream(): see Pc
  resources,     \* what the service holds
  pendingStart,  \* m_pendingStartRecording
  pendingStop,   \* m_pendingStopRecording
  rec,           \* the recorder
  files,         \* the output files
  events,        \* signals queued for the GUI thread
  uiConnected,   \* the view model's connection state is Connected
  sessionRec,    \* m_recordingState of the session and of the view model
  shownFile,     \* CameraStreamViewModel::m_recordingFileName
  clock,         \* the second that names a file
  presses        \* history: how often Record was pressed in each second

\* Between attempts, opening, at the head of the packet loop, taking commands,
\* reading, and the two halves of cleanup().
Pc == {"none", "init", "head", "poll", "read", "cleanup", "release"}

sessionVars == <<life, run, stopRequested>>
attemptVars == <<attemptRun, attempt, resources>>
mailbox == <<pendingStart, pendingStop>>
recorderVars == <<rec, files>>
clockVars == <<clock, presses>>
uiVars == <<uiConnected, sessionRec, shownFile, clockVars>>
vars == <<life, run, stopRequested, attemptRun, attempt, pc, resources,
          pendingStart, pendingStop, rec, files, events, uiConnected,
          sessionRec, shownFile, clock, presses>>

Init ==
  /\ life = "alive"
  /\ run = 0
  /\ stopRequested = FALSE
  /\ attemptRun = 0
  /\ attempt = 0
  /\ pc = "none"
  /\ resources = {}
  /\ pendingStart = NoFile
  /\ pendingStop = FALSE
  /\ rec = IdleRecorder
  /\ files = [f \in File |-> [first |-> "none", end |-> "absent"]]
  /\ events = <<>>
  /\ uiConnected = FALSE
  /\ sessionRec = "Stopped"
  /\ shownFile = NoFile
  /\ clock = 1
  /\ presses = [f \in File |-> 0]

-----------------------------------------------------------------------------
(* The GUI thread.                                                         *)

\* StreamingSession::start and stop, as far as the attempt's token sees them.
StartStream ==
  /\ life = "alive"
  /\ run < MaxRunId
  /\ run' = run + 1
  /\ stopRequested' = FALSE
  /\ UNCHANGED <<life, attemptVars, pc, mailbox, recorderVars, events, uiVars>>

StopStream ==
  /\ life = "alive"
  /\ stopRequested' = TRUE
  /\ UNCHANGED <<life, run, attemptVars, pc, mailbox, recorderVars, events, uiVars>>

\* The path of a recording asked for now.
FileName == clock

\* The button is enabled while the view says Connected, and means Stop only
\* while it says Recording (recordingActionEnabled, CameraListPanel.qml).
\* Every press names a file; only the first pending one is kept.
PressRecord ==
  /\ life = "alive"
  /\ uiConnected
  /\ sessionRec # "Recording"
  /\ presses[clock] < MaxPresses
  /\ presses' = [presses EXCEPT ![clock] = @ + 1]
  /\ shownFile' = FileName
  /\ pendingStart' = IF pendingStart = NoFile THEN FileName ELSE pendingStart
  /\ UNCHANGED <<sessionVars, attemptVars, pc, pendingStop, recorderVars,
                 events, uiConnected, sessionRec, clock>>

\* A second passes.
Tick ==
  /\ life = "alive"
  /\ clock < MaxSeconds
  /\ clock' = clock + 1
  /\ UNCHANGED <<sessionVars, attemptVars, pc, mailbox, recorderVars, events,
                 uiConnected, sessionRec, shownFile, presses>>

PressStop ==
  /\ life = "alive"
  /\ uiConnected
  /\ sessionRec = "Recording"
  /\ pendingStop' = TRUE
  /\ UNCHANGED <<sessionVars, attemptVars, pc, pendingStart, recorderVars,
                 events, uiVars>>

\* StreamingSession::onRecordingStateChanged and onStateChanged; the view
\* model copies what the session forwards.
Deliver ==
  /\ life = "alive"
  /\ events # <<>>
  /\ events' = Tail(events)
  /\ \/ /\ Head(events) \in RecordingState
        /\ sessionRec' = Head(events)
        /\ UNCHANGED uiConnected
     \/ /\ Head(events) \in ConnectionEvent
        /\ uiConnected' = (Head(events) = "connected")
        /\ UNCHANGED sessionRec
  /\ UNCHANGED <<sessionVars, attemptVars, pc, mailbox, recorderVars, shownFile,
                 clockVars>>

BeginDestroy ==
  /\ life = "alive"
  /\ life' = "destroying"
  /\ stopRequested' = TRUE
  /\ UNCHANGED <<run, attemptVars, pc, mailbox, recorderVars, events, uiVars>>

-----------------------------------------------------------------------------
(* The recorder: FFmpegRecordingService, on the streaming thread.          *)

\* requestRecording: refused unless Stopped (AlreadyRecording), in Error too.
RequestRecording(r, file) ==
  IF r.state = "Stopped"
  THEN [r EXCEPT !.state = "Starting", !.config = file, !.stream = attempt]
  ELSE r

StopRecordingStuck(r) ==  \* mutant: the state is left at Stopping
  IF r.state = "Recording" THEN [IdleRecorder EXCEPT !.state = "Stopping"]
  ELSE IF r.state = "Starting" THEN IdleRecorder ELSE r

\* stopRecording: Error is left alone.
StopRecording(r) ==
  IF r.state \in {"Starting", "Recording"} THEN IdleRecorder ELSE r

FilesClosedOnly(r) ==  \* mutant: the output is closed without av_write_trailer
  IF r.state = "Recording" THEN {[files EXCEPT ![r.output].end = "cut"]} ELSE {files}

\* What stopRecording may make of the files: an active one gets its trailer, or
\* av_write_trailer fails, which is only logged; either way it is closed.
FilesOnStop(r) ==
  IF r.state = "Recording"
  THEN {[files EXCEPT ![r.output].end = end] : end \in {"trailer", "noTrailer"}}
  ELSE {files}

FailedKeepingStream(r) ==  \* mutant: m_inputStream survives the failure
  [IdleRecorder EXCEPT !.state = "Error", !.stream = r.stream]

\* cleanup() after a failure, then the state that tells of it.
Failed(r) == [IdleRecorder EXCEPT !.state = "Error"]

\* The output opens: header written, configuration consumed.
Opened(r) == [r EXCEPT !.state = "Recording", !.config = NoFile, !.output = r.config]

\* A Starting recorder ignores packets until a keyframe comes.
Begins(key) == key

PacketKind(key) == IF key THEN "key" ELSE "inter"

\* handleVideoPacket: what a packet may do to the recorder and its files.
IgnorePacket(key) ==
  /\ \/ rec.state \in {"Stopped", "Error"}
     \/ rec.state = "Starting" /\ ~Begins(key)
  /\ UNCHANGED recorderVars

\* An output that was opened, emptying the file, and closed with no packet.
Emptied(file) == [files EXCEPT ![file] = [first |-> "none", end |-> "cut"]]

\* initializeRecording fails: before the output is opened, or at its header.
FailToOpen(key) ==
  /\ rec.state = "Starting"
  /\ Begins(key)
  /\ rec' = Failed(rec)
  /\ files' \in {files, Emptied(rec.config)}

OpenAndWrite(key) ==
  /\ rec.state = "Starting"
  /\ Begins(key)
  /\ rec' = Opened(rec)
  /\ files' = [files EXCEPT ![rec.config] = [first |-> PacketKind(key), end |-> "open"]]

OpenAndFailToWrite(key) ==
  /\ rec.state = "Starting"
  /\ Begins(key)
  /\ rec' = Failed(rec)
  /\ files' = Emptied(rec.config)

WritePacket(key) ==
  /\ rec.state = "Recording"
  /\ UNCHANGED recorderVars

FailToWrite(key) ==
  /\ rec.state = "Recording"
  /\ rec' = Failed(rec)
  /\ files' = [files EXCEPT ![rec.output].end = "cut"]

HandleVideoPacket(key) ==
  \/ IgnorePacket(key)
  \/ FailToOpen(key)
  \/ OpenAndWrite(key)
  \/ OpenAndFailToWrite(key)
  \/ WritePacket(key)
  \/ FailToWrite(key)

-----------------------------------------------------------------------------
(* The streaming service: FFmpegStreamingService::stream.                  *)

SupersededOnly == attemptRun < run  \* mutant: stop() does not reach the token

\* The token of the attempt: its run was stopped, or a newer one started.
Cancelled == stopRequested \/ attemptRun < run

\* Post signals; with the session in its destructor they are lost with it.
Post(signals) ==
  \/ /\ life = "alive"
     /\ Len(events) + Len(signals) <= MaxEvents
     /\ events' = events \o signals
  \/ /\ life # "alive"
     /\ UNCHANGED events

\* The worker calls stream() for the run that is wanted.
BeginAttempt ==
  /\ pc = "none"
  /\ run > 0
  /\ ~stopRequested
  /\ attemptRun' = run
  /\ pc' = "init"
  /\ UNCHANGED <<sessionVars, attempt, resources, mailbox, recorderVars, events,
                 uiVars>>

\* initializeEverything succeeds. If the token is not stopped by then, the
\* service says connected.
OpenAttempt ==
  /\ pc = "init"
  /\ attempt < MaxAttempts
  /\ attempt' = attempt + 1
  /\ resources' = resources \cup AttemptResource
  /\ \/ ~Cancelled /\ pc' = "head" /\ Post(<<"connected">>)
     \/ Cancelled /\ pc' = "cleanup" /\ UNCHANGED events
  /\ UNCHANGED <<sessionVars, attemptRun, mailbox, recorderVars, uiVars>>

\* What initializeEverything has allocated when the named part of it fails.
HeldOnFailure ==
  [openInput |-> {}, readStreamInfo |-> {}, initializeDecoder |-> {},
   initializePacket |-> {"input", "codec"},
   initializeFrame |-> {"input", "codec", "packet"}]

\* The part fails; what it holds is left to cleanup().
FailAttempt ==
  /\ pc = "init"
  /\ \E part \in DOMAIN HeldOnFailure : resources' = resources \cup HeldOnFailure[part]
  /\ pc' = "cleanup"
  /\ UNCHANGED <<sessionVars, attemptRun, attempt, mailbox, recorderVars, events,
                 uiVars>>

\* mutant: the stop of a batch is handled before its start
StopThenStart(r) ==
  LET stoppedRec == IF pendingStop THEN StopRecording(r) ELSE r
  IN  IF pendingStart # NoFile THEN RequestRecording(stoppedRec, pendingStart)
      ELSE stoppedRec

\* The head of the packet loop. A stop that comes after this look at the
\* token still finds the pending commands acted on.
CheckToken ==
  /\ pc = "head"
  /\ pc' = IF Cancelled THEN "cleanup" ELSE "poll"
  /\ UNCHANGED <<sessionVars, attemptVars, mailbox, recorderVars, events, uiVars>>

\* The commands of one batch: the start, then the stop.
ApplyCommands(r) ==
  LET started == IF pendingStart # NoFile THEN RequestRecording(r, pendingStart)
                 ELSE r
  IN  IF pendingStop THEN StopRecording(started) ELSE started

\* A start is reported only when it was accepted, a stop always.
CommandSignals ==
  (IF pendingStart # NoFile /\ rec.state = "Stopped" THEN <<"Starting">> ELSE <<>>)
  \o (IF pendingStop THEN <<ApplyCommands(rec).state>> ELSE <<>>)

KeepStart == pendingStart  \* mutant: the pending start is copied, not taken

\* m_pendingStartRecording once a batch has been taken.
StartAfterPoll == NoFile

\* processPendingCommands: take both commands under the mutex, act on them.
Poll ==
  /\ pc = "poll"
  /\ rec' = ApplyCommands(rec)
  /\ files' \in IF pendingStop THEN FilesOnStop(rec) ELSE {files}
  /\ Post(CommandSignals)
  /\ pendingStart' = StartAfterPoll
  /\ pendingStop' = FALSE
  /\ pc' = "read"
  /\ UNCHANGED <<sessionVars, attemptVars, uiVars>>

SignalsRecordingOnly(old, new) ==  \* mutant: a failure is not reported
  IF new = "Recording" /\ old # new THEN <<new>> ELSE <<>>

\* readNextPacket reports a recorder state that the packet changed.
PacketSignals(old, new) == IF old # new THEN <<new>> ELSE <<>>

\* The converter's context once a packet's frames, if any, have been converted:
\* sws_getCachedContext keeps or replaces it, and returns null if it fails.
AfterDecoding == {resources, resources \cup {"converter"}, resources \ {"converter"}}

\* readNextPacket: a video packet, recorded and then decoded. (Others change
\* nothing.)
ReadPacket ==
  /\ pc = "read"
  /\ \E key \in BOOLEAN : HandleVideoPacket(key)
  /\ Post(PacketSignals(rec.state, rec'.state))
  /\ resources' \in AfterDecoding
  /\ pc' = "head"
  /\ UNCHANGED <<sessionVars, attemptRun, attempt, mailbox, uiVars>>

\* av_read_frame gives no packet: the interrupt callback saw the token, or the
\* input ended, or an error.
LeaveLoop ==
  /\ pc = "read"
  /\ pc' = "cleanup"
  /\ UNCHANGED <<sessionVars, attemptVars, mailbox, recorderVars, events, uiVars>>

\* cleanup(): first the recorder is stopped and its state reported; the mailbox
\* is left as it is ...
CleanupRecorder ==
  /\ pc = "cleanup"
  /\ rec' = StopRecording(rec)
  /\ files' \in FilesOnStop(rec)
  /\ Post(<<rec'.state>>)
  /\ pc' = "release"
  /\ UNCHANGED <<sessionVars, attemptVars, mailbox, uiVars>>

ReleasedButPacket == {"frame", "codec", "input"}  \* mutant: a packet leaks

\* cleanupFrame, cleanupPacket, cleanupDecoder, cleanupInput.
Released == {"frame", "packet", "codec", "input"}

\* ... then the input is released. The worker then reports the connection.
ReleaseInput ==
  /\ pc = "release"
  /\ resources' = resources \ Released
  /\ Post(<<"lost">>)
  /\ pc' = "none"
  /\ UNCHANGED <<sessionVars, attemptRun, attempt, mailbox, recorderVars, uiVars>>

\* The thread has finished and the worker is deleted with its services, which
\* clean up again and free the converter; the view model forgets the session.
EndDestroy ==
  /\ life = "destroying"
  /\ pc = "none"
  /\ life' = "gone"
  /\ rec' = IdleRecorder
  /\ files' \in FilesOnStop(rec)
  /\ resources' = (resources \ Released) \ {"converter"}
  /\ events' = <<>>
  /\ uiConnected' = FALSE
  /\ sessionRec' = "Stopped"
  /\ shownFile' = NoFile
  /\ UNCHANGED <<run, stopRequested, attemptRun, attempt, pc, mailbox, clockVars>>

Gone == life = "gone" /\ UNCHANGED vars

Gui ==
  \/ StartStream \/ StopStream \/ PressRecord \/ PressStop \/ Tick \/ Deliver
  \/ BeginDestroy \/ EndDestroy

Worker ==
  \/ BeginAttempt \/ OpenAttempt \/ FailAttempt \/ CheckToken \/ Poll \/ ReadPacket
  \/ LeaveLoop \/ CleanupRecorder \/ ReleaseInput

Next == Gui \/ Worker \/ Gone

Spec == Init /\ [][Next]_vars

\* Both threads go on. Only a stopped token makes a read return: a camera
\* may be silent for ever.
Fairness ==
  /\ WF_vars(Deliver)
  /\ WF_vars(EndDestroy)
  /\ WF_vars(Cancelled /\ FailAttempt)
  /\ WF_vars(CheckToken)
  /\ WF_vars(Poll)
  /\ WF_vars(Cancelled /\ LeaveLoop)
  /\ WF_vars(CleanupRecorder)
  /\ WF_vars(ReleaseInput)

FairSpec == Spec /\ Fairness

-----------------------------------------------------------------------------
(* Properties.                                                             *)

TypeOK ==
  /\ life \in {"alive", "destroying", "gone"}
  /\ run \in 0 .. MaxRunId
  /\ stopRequested \in BOOLEAN
  /\ attemptRun \in 0 .. MaxRunId
  /\ attempt \in 0 .. MaxAttempts
  /\ pc \in Pc
  /\ resources \subseteq Resource
  /\ pendingStart \in {NoFile} \cup File
  /\ pendingStop \in BOOLEAN
  /\ rec \in Recorder
  /\ files \in [File -> FileState]
  /\ events \in Seq(Event)
  /\ uiConnected \in BOOLEAN
  /\ sessionRec \in RecordingState
  /\ shownFile \in {NoFile} \cup File
  /\ clock \in File
  /\ presses \in [File -> 0 .. MaxPresses]

\* The recorder's pointers agree with its state: the assertions of
\* handleVideoPacket hold, nothing is kept after a stop or a failure, and
\* exactly the file of an active recording is open.
RecorderConsistent ==
  /\ rec.config # NoFile <=> rec.state = "Starting"
  /\ rec.stream # 0 <=> rec.state \in {"Starting", "Recording"}
  /\ rec.output # NoFile <=> rec.state = "Recording"
  /\ \A f \in File : files[f].end = "open" <=> rec.output = f

\* The recorder never points into an input that has been released or belongs
\* to an earlier attempt (cleanup() stops it before cleanupInput()).
NoDanglingStream ==
  rec.stream # 0 => rec.stream = attempt /\ "input" \in resources

\* Between attempts the service holds at most the converter's SwsContext, which
\* only its destruction frees, whichever part of an attempt failed; a deleted
\* service holds nothing.
NothingHeldAfterwards ==
  /\ pc = "none" => resources \subseteq {"converter"}
  /\ life = "gone" => resources = {}

\* Both: nothing of an attempt is in use, or held, when the attempt is over,
\* whichever part of it failed and whatever the recorder was doing, and what is
\* kept for the next one goes with the service.
NothingOutlivesAttempt == NoDanglingStream /\ NothingHeldAfterwards

\* A file begins with a keyframe.
KeyframeFirst == \A f \in File : files[f].first # "inter"

\* When its signals are handled the view shows the recorder's own state,
\* through coalesced commands, failures and reconnections.
RecordingViewSettles ==
  (life = "alive" /\ \A i \in 1 .. Len(events) : events[i] \notin RecordingState)
  => sessionRec = rec.state

\* Consuming a stop leaves nothing recording or about to record, even if a
\* start was waiting in the same batch.
StopWins ==
  [][pendingStop /\ ~pendingStop' => rec'.state \notin {"Starting", "Recording"}]_vars

\* A finished file is touched again only if Record was pressed twice in the
\* second that names it: one press, one recording. (Two presses in a second
\* name one file, and a second recording of them overwrites the first.)
FinishedFileUntouched ==
  [][\A f \in File :
       files[f].end \in Ended /\ files'[f] # files[f] => presses[f] > 1]_vars

\* A file is closed without a call of av_write_trailer only in a step that makes
\* the recorder report an error: a stop, a lost stream and the destruction of
\* the session all make the call, though they do not make it succeed.
CutOnlyOnError ==
  [][\A f \in File : files[f].end # "cut" /\ files'[f].end = "cut"
       => rec'.state = "Error"]_vars

\* Both: a file ends once and for all, unless it is named twice, and is given
\* its trailer, as far as av_write_trailer can, but in an error.
FilesEndOnce ==
  [][\A f \in File :
       /\ files[f].end \in Ended /\ files'[f] # files[f] => presses[f] > 1
       /\ files[f].end # "cut" /\ files'[f].end = "cut" => rec'.state = "Error"]_vars

\* Stopping, restarting or removing the stream closes the file being written.
StopFinalizesRecording ==
  (rec.output # NoFile /\ (stopRequested \/ attemptRun < run))
  ~> (rec.output = NoFile)

\* docs/streaming-pipeline.md: the service "releases" its resources, SwsContext
\* among them, "through its cleanup methods before an attempt ends".
DocResourcesReleased == pc = "none" => resources = {}

\* docs/recording.md: the view model exposes "the selected output filename":
\* what it shows while it says Recording is the file that is recorded.
DocShownFileIsRecorded ==
  (rec.state = "Recording" /\ sessionRec = "Recording") => shownFile = rec.output

=============================================================================
