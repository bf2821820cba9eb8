# Verification of the Video Analytics Platform

TLA+ models of the concurrent core of the video analytics platform, the TLC
configurations that check them and TLAPS proofs about them. Paths are relative
to the repository; the modules are read beside its code.

| Module | What it is |
| --- | --- |
| `StreamingSession` | One camera's live view: session, worker, reconnect policy, frame exchange, view model |
| `StreamView` | What a session promises its observers on the GUI thread; `StreamingSession` implements it |
| `Recording` | The recording commands, the connection attempt and the MP4 recorder |
| `VideoDecoding` | The packet loop: decoder, frame converter, statistics and recording length |
| `AnalyticsSession` | The analytics session, its detector thread and its two mailboxes |
| `AnalyticsView` | What an analytics session promises its owner; `AnalyticsSession` implements it |
| `AnalyticsOverlay` | The overlay's timer and slots; composes `AnalyticsSession` with a camera's stream and view |
| `CameraManagement` | Table, application service, session registry, view models and the management panel |
| `OnnxDetector` | One detector: its construction, the conversion of a frame into the model's input, its refusals |
| `YoloxPostprocessing` | Decoding the model's predictions and suppressing duplicates |
| `MC...` | The instances that TLC checks, with the reason for their size |
| `..._proofs` | The theorems about a module and their proofs |

To check a module: `tlc -config Streaming.cfg MCStreamingSession.tla`. To check the
proofs: `tlapm StreamingSession_proofs.tla`.

## 1. Inventory

**Threads.** The GUI thread runs QML, the view models, `StreamingManager`, every
`StreamingSession`, `AnalyticsSession` and the timer of the analytics overlay. Each
session has a `QThread` for its `StreamingWorker`, the FFmpeg service and the
recorder. Each analytics session has a `std::jthread` for its detector.

| Component | State | Operations | Talks to |
| --- | --- | --- | --- |
| `StreamingSession` | run counter, stop source, last state | `start`, `stop`, `currentFrame`, `streamRunId`, destructor | worker (queued call), stop token, view model (signals) |
| `StreamingWorker` | run, reconnect policy | `start`: the retry loop | service (call), session (queued signals), frame exchange |
| `ReconnectPolicy` | retry count | `shouldRetry`, `recordRetry`, `reset` | worker |
| `FrameExchange` | one snapshot, under a mutex | `publish`, `snapshot` | worker writes, session reads |
| `FFmpegStreamingService` | FFmpeg contexts, stop token, two pending commands under a mutex, statistics, duration last published | `stream`, `enqueueStartRecording`, `enqueueStopRecording`, destructor | worker, recorder, GUI thread (commands) |
| `FFmpegRecordingService` | state, pending configuration, input stream, output context | `requestRecording`, `stopRecording`, `handleVideoPacket` | service |
| `CameraStreamViewModel` | copies of state, frame, recording state; file name; detections | slots of the session's signals, `startRecording`, `stopRecording` | session, QML, overlay |
| `AnalyticsSession` | activation (enabled, run, generation) under a mutex | `enable`, `disable`, `submitFrame`, `takeLatestResult`, destructor | detector thread, owner (signals) |
| Mailboxes | one frame; one result and a flag | `submit`, `waitAndTake`; `publish`, `acknowledgeNotification`, `takeLatest`; `clear` | session, detector thread |
| Analytics overlay (`application_bootstrap.cpp`) | run, generation, last revision, failed, time of the frame shown | timer tick, result and error callbacks | stream, analytics session, view model |
| Camera management | SQLite table, session registry, list models, selection, form | add, update, remove, connect, stop | database, streaming manager, view models |
| `FFmpegFrameConverter` | a cached `SwsContext`, across attempts | `convert` | service |
| `OnnxYoloXDetector` | configuration, the model's session | construction, `detect` through `processAnalyticsFrame` | detector thread, postprocessing |
| Postprocessing | none | decode predictions, class-aware suppression | detector |
| Image provider, QML | none that decisions depend on | display | |

**What is hard.** Nothing here is a distributed protocol; the difficulty is two
threads and an event queue per camera.

- *Late signals.* A signal posted by the worker is handled after an unbounded
  number of GUI actions. Signals and frames of a run are delivered after it was
  stopped, and after the next run has begun.
- *Queued calls.* `start` is queued behind a worker that may be blocked in a camera;
  several starts and stops pile up.
- *Cancellation at any point*: before the call is taken, while opening, between
  opening and `connected()`, in the packet loop, in the retry delay, in destruction.
- *Things that outlive an attempt*: the converter's context, the recorder's error, the
  commands not consumed, the duration last published; and things that must not: the
  statistics, the frames left in a decoder, the recorder's input stream.
- *Commands without an answer.* Recording commands are two mailbox slots, read
  whenever a packet loop comes by; buttons are enabled from late state.
- *Partial failure.* An attempt allocates four objects and a recording makes five
  calls; any of them fails.
- *Re-entrancy.* Slots of the analytics session's signals call the session.
- *Truncation.* Each side of a frame is scaled and truncated on its own; positions are
  scaled back with one factor.
- *Obsolete work.* The detector finishes frames of activations that are over.
- *Destruction.* Both destructors block the GUI thread until a worker ends.

**What makes it correct.** Only the newest run is live; no picture of an older run
or none where a newer one is due; the exact retry budget; a stop is answered; a
recorder that never uses freed input, starts files with a keyframe, finalizes them as
far as the muxer lets it and never reopens them; nothing obsolete in the analytics mailboxes, one announcement
at a time, no error of an activation that has been replaced; detections on screen only
for the connected run, and not for good; sessions that follow the table in spite of
failing statements; a form that writes over the camera it shows; the strongest detection
of each object; statistics that are complete and of the last attempt; a converter that
neither leaks a context nor uses one that was freed or made for another format; a tensor that holds the frame, and no exception for an ordinary
one, since any exception ends analytics for good; destructors return.
PROJECT.json lists the hazards, each with its line and the properties that cover it.

## 2. Modules

### StreamingSession

State of three places: the session on the GUI thread (`streamRunId`, `stopped`: the
ids whose `std::stop_source` was asked to stop, `sessionState`), what the view shows
(`vmFrame`), and the worker (`wpc`, `workerRun`, `reason`, `retryCount`). Between them:
`calls`, the queued `worker->start()`; `events`, the queued signals; `snapshot`, the
frame exchange. `lastEmitted` and `failedAttempts` are history.

Actions follow the code's order. `AcceptCall`, `BeginAttempt`, `FailAttempt`/`OpenAttempt`,
`Connect`, `PublishFrame`, `NotifyFrame`, `LeaveReadLoop`, `ExitCancelled`/`ExitFailed`,
`Wait`, `EndRun` are the pieces of `StreamingWorker::start` and `stream()` between two
places where another thread can be noticed: a read of the stop token, a post, the
frame exchange's lock. The GUI actions are the session's public functions and the
delivery of one queued signal. A frame is its run and revision. An attempt is its
outcomes; `Recording` opens it up.

### StreamView

The abstract specification of a session: what can be seen on the GUI thread without
worker, calls, signals, attempts and retries. Its variables are those of
`StreamingSession` of the same names, so the refinement mapping is the identity and the
rest is hidden (`View == INSTANCE StreamView`). `Say` is the handling of a queued state,
`Show` of a queued frame, `Produce` a publication in the exchange; everything else the
worker does is a stutter. It fixes the order of the states that a session goes through,
which the detailed module leaves to the order of posts and deliveries. Its fairness says
what an observer may wait for: the newest picture of the wanted run (`Show`), an end of a
claim that nobody wants (`Settle`), the end of destruction.

### Recording

`run`, `stopRequested` and `attemptRun` stand for the run control of `StreamingSession`,
`pc` for the place in `stream()`. `resources` is what the service has allocated:
`AttemptResource` of an attempt, `HeldOnFailure` of it when one part of
`initializeEverything` fails, and the frame converter's `SwsContext`, which a decoded
packet makes, keeps, replaces or loses (`AfterDecoding`) and which only `EndDestroy` frees.
`pendingStart`/`pendingStop` are the command mailbox, `rec` the recorder (state, pending
configuration, the attempt its `m_inputStream` belongs to, open output), `files` how
each file began and ended: after a trailer, after `av_write_trailer` failed, which is only
logged and ends in Stopped all the same (`FilesOnStop` has both outcomes), or closed
without the call (`cut`). `CheckToken` (the stop token at the head of the packet loop),
the batch of commands and the read are steps of their own, so that a stop, a command or
the destruction can come between any two of them. `uiConnected` and `sessionRec` are the
view's late copies that enable the button. The view model names a file by the camera and
the second of the press; `clock` and `Tick` are those seconds, and two presses in one
second name the same file, which opening empties (`Emptied`). The recorder's functions
are operators on `rec` and `files`; the transient state `Stopping` is inside one of them,
as in the code no one else can see it.

### VideoDecoding

The packet loop of `FFmpegStreamingService::stream` from one attempt to the next, at a
finer grain than the two modules above, which only know that frames come and that
packets are recorded. `pc` names the places in the loop; `OpenDecoder`,
`ProcessCommands`, `ReadPacket`, `SendPacket`/`DropPacket`, `ReceiveFrame`,
`EnsureContext`, `ScaleFrame`, `CountFrame`, `PublishDuration`, `EndLoop` and `Cleanup` are
its parts. The decoder is external: the number of frames it has ready. A frame is its
format (size and pixel format). `context` is the converter's pointer, `made` which
contexts are allocated and for which format: `CachedContext` is what `sws_getCachedContext`
may do, keeping a context that fits, else freeing it and then making one or failing to, and
`Assigned` what the converter makes of the result. Contexts outlive attempts. Whether an
image is emitted changes nothing here. `statistics` are the service's; the codec, resolution and
rates in them are set when the decoder is opened and stay, also when the camera changes
its format, so they are one number: the attempt they are of. `statsQueue` and
`durationQueue` are the queued signals, `sessionStats` and `viewDuration` the copies on
the GUI thread. `seen` and `receiveFailed` are history. Seconds pass at any moment, for
the two timers separately.

### AnalyticsSession

`enabled`, `streamRunId`, `generation` are the activation under `m_stateMutex`;
`pending`, `latest`, `notificationPending` the mailboxes; `closures` what is queued on
the GUI thread. Each critical section is one action. `enable` and `disable` emit outside
the lock, so `owed` and `EmitEnabledChanged` separate the two; `slot` says that a
closure is in the middle of emitting and its slots may call the session, which is how
the second check of the failure closure matters. `view` is an observer that reads
`isEnabled()` on `enabledChanged`. The owner calls the public functions in any order.

### AnalyticsView

The abstract specification of a session for its owner, without thread, mailboxes, flags,
locks and closures. `working` is the set of accepted frames that may still give a result,
`failing` the set of failed activations whose error is still to be told; activation, `view`
and the histories `taken` and `errors` are those of `AnalyticsSession`. The refinement
mapping (`Owner` in `AnalyticsSession`) reads `working` off the two mailboxes and the
thread's item, of which only those of the activation in force count, and `failing` off the
queued closures and the slot. Its actions say what the session may do with them: a result
given out is of the oldest frame in work (`TakeResult`), a frame gives no result only
because a newer one does or at the end (`Skip`), a failure needs a frame of the activation
in force and ends that activation (`Fail`), an error is told of the newest activation while
it is off (`ReportError`) and forgotten only when another one has replaced it
(`ForgetError`). `Progress` is what the owner may wait for. It has no bound on how much is
in work and does not know that a frame in the thread may belong to an earlier activation:
that neither shows is what the refinement says.

### AnalyticsOverlay

Instantiates `AnalyticsSession` as `Analytics`, with its own variables, and drives it as
the bootstrap does: the `Tick...` actions are the branches of the timer's callback
(camera gone; no run or not connected; a run not attached yet; the attached run), with
`TickSubmit` as the second half, because the detector thread may fail between `enable()`
and `submitFrame()`. `ShowResult` and `ReportError` are the slots; each contains the
session's own step (`TakeLatestResult`, `ConfirmFailure`). `Deliver`, `Emit` and `Detect`
are the session's remaining steps. The stream is reduced to what the callbacks read:
`run`, `stopped`, `connected`, `snapshot`; `StateChanged` also clears the detections, as
`CameraStreamViewModel::onStateChanged` does. `state` is `OverlayState`, with
`displayedFrameTime` as the frame it is the time of and `lastRevision` as the flag `seen`
of the snapshot. Time is an age per frame that `Elapse` increases.

### CameraManagement

Three layers in one module, because every command goes through all of them in one call
on the GUI thread: `table` (SQLite), `sessions`, `wanted` and `startedWith` (the manager
and its sessions), `cameras`, `selectedIndex`, `form`, `validationError` (the management
view model), `viewModels`, `panelStream`, `pictures` (the live view). Every SQL statement
may fail where it stands; the code carries on, and so does the action. `Restart` builds
everything from the table again, as `ApplicationBootstrap::initialize` does; because each
statement commits by itself, a crash inside a handler leaves the table as a failure of the
statements after it does. Its two queries fail separately, so the sessions are those of
the rows that the first one found. The guards that QML puts on the buttons are guards of the
actions. `orphans`, `unserved`, `upToDate` and `formOf` are history: sessions whose INSERT
failed, rows whose session a failed DELETE or SELECT took away, cameras not updated since
their session was last started, and the camera the form was loaded from. `StartedAsStored`
says that these `upToDate` sessions run with the URL in the table: a Connect after an
update replaces the URL that the session holds, whether or not the session was started
before.

### OnnxDetector

`Construct` is `validateConfiguration`, loading and `validateModel`; `TakeFrame` the
refusals of `processAnalyticsFrame`; `PrepareImage` the scale and the size of the resized
image; `CopyPixel`, `NextRow`, `EndCopy` the loops that fill the three planes of the
tensor; `RunInference`, `CheckOutput` and `Decode` the rest of `detect`, whose result
`YoloxPostprocessing` works out. The scale is a fraction. The product of a length and the
rounded scale may fall just below an integer and be truncated to one less, so `Truncated`
is a choice where that can happen. A pixel is its place and colour; interpolation is
external.

### YoloxPostprocessing

One step per loop iteration of `decodeDetections` and `applyNms`, on integers in half
pixels. `exp()`, the product of scores and the division by the image scale are part of the
input row or a factor; rounding is not modelled, so "exactly at the threshold" is exact.
Any infinity or NaN is `NotFinite`. `std::stable_sort` is defined by the rank of an
element. `index` only tells detections apart.

## 3. Runs

| Run | Configuration | Shows |
| --- | --- | --- |
| `streaming` | 3 runs, 2 retries, 3 frames, 4 queued signals | one camera's live view: it implements `StreamView`; only the newest run is live, the retry budget is exact, the newest frame is never lost, stops and starts are answered |
| `streaming_doc_diagram`, `streaming_doc_stop` | 2 runs, 1 retry, 1 frame, 3 queued signals | two disagreements with docs/streaming-pipeline.md |
| `recording` | 2 runs, 2 attempts, 2 seconds with 2 presses each, 3 queued signals | recorder and attempt agree, nothing of an attempt outlives it, a file ends once and with its trailer attempted, a stop wins, the view settles, stopping a stream closes its file |
| `recording_doc_file_name` | the same | a disagreement with docs/recording.md |
| `recording_doc_resources` | the same with 1 run | a disagreement with docs/streaming-pipeline.md |
| `decoding` | 2 formats, 2 contexts, 2 attempts, 2 packets, 2 frames ready, 2 seconds, 1 signal of a kind | complete statistics, a converter that leaks no context and uses none that was freed or made for another format, a decoder emptied before it is fed, the recording's length |
| `analytics` | 3 activations, 2 runs, 3 frames | activations, mailboxes, notifications, errors; it implements `AnalyticsView`, so results and failures arrive, in order; the destructor returns |
| `overlay` | 2 activations, 2 runs, 2 frames, detections kept for one unit of time | what is shown belongs to the connected run and goes away; a connected run is analysed |
| `detector` | an input of 3 by 2, 39 frames | the tensor holds the frame, positions map back, no exception for an ordinary frame |
| `postprocessing` | 5 cells in 2 strides, 7 kinds of rows, 2 classes | decoding and suppression agree with definitions that do not follow the loops |
| `camera_safety` | 2 cameras, 2 names, 4 URLs | the registry, the list, the panel and the pictures follow the table; a session runs with the stored URL |

**Bounds.** `MaxRunId` and `MaxGeneration` are also the code's own limit (the counter's
maximum, where `start` and `enable` throw), brought near. Three runs are needed for the
run in progress, a queued one and the newest to differ; three activations for a failure,
the activation that overtakes it and the next failure. `MaxRetries` is the policy's
parameter (30 in the code). `MaxFrames`, `MaxRevision`, `MaxAttempts`, `MaxPackets`, `MaxSeconds` and `MaxPresses` end
behaviours that repeat; three is one more than the two that any property compares, and an
attempt of `Recording` or `VideoDecoding` only leaves something to the next one, so two of them do. Two
seconds with two presses let a file be pending beside an active or a finished one, and let
two presses name one file.
`MaxEvents` bounds the event queue by making the poster wait, which is only a delay of
the worker: nothing is lost. Two cameras are enough for a neighbour to move into a
removed row; the URLs are an empty one, one of a scheme that the validator refuses, and
two that it accepts and no property tells apart, so they are symmetric. In the overlay two
runs let a result or a failure of one meet the next, and runs start and connect only while
an activation is left for them (`ActivationLeft`). In the detector, all frames up to 5 by 5, one too long, one too high and one of another format are smaller
and larger than the input in either direction, of its own shape, and empty; products that
are integers, where truncation may lose one, occur among them. In the postprocessing,
boxes of one and two pixels over neighbouring cells give every relation of two boxes, an overlap of exactly
the threshold included. Deadlock is checked everywhere but in `postprocessing`, `detector`
and `decoding`, where it means the end: the suppression returns, a detector ends with an
exception, and `VideoDecoding` stops when its attempts are used up. The state after destruction has a stuttering step of its own.

**Fairness.** Both threads keep running their event loops, so the delivery of queued
signals and closures and the worker's own steps are weakly fair. Nothing makes the user
act. A camera may block an attempt or stream for ever, so leaving initialisation or the
packet loop is fair only when the run is cancelled: FFmpeg's interrupt callback and the
token read before each packet give that. In the overlay the timer fires and time passes;
closures are delivered under strong fairness, since the timer's callback keeps taking its
turn in the same event loop, which sends the posted events in every round. The camera may
connect or not. In `AnalyticsSession` the slot of
`resultAvailable` is assumed to call `takeLatestResult`, as the overlay's does.

**Violations.** Each is one disagreement between a document and the code, quoted under
`findings` in PROJECT.json: a stop while connecting makes the session Disconnected,
which the state diagram does not draw; a stop in Error changes nothing; the
`SwsContext` is not released before an attempt ends; the file name shown is
that of the last press, not of the recording.

Some more things met while modelling, which no document plainly contradicts. A recording
command that is pending when an attempt ends stays in the mailbox: `cleanup()` stops the
recorder only, and the next attempt, be it of a later start of the stream, begins the
recording. A trailer that could not be written is only logged and the recorder goes to
Stopped, as after a complete recording (docs/recording.md:73 promises the attempt). With no camera stored
the management page still selects row 0 of the empty list (CameraManagementPage.qml:11), so
the form is in edit mode and Save Camera does nothing until "+" is pressed. And a failed
INSERT or DELETE is only logged: the registry differs from the table until the next start,
by exactly those statements (`SessionsFollowTable`).

## 4. Proofs

Every safety property of the runs is a theorem, and so is the safety part of each of the
two refinements; the proofs assume only the named assumptions on the constants. Some
theorems state more than the runs check: `IdleMeansSettled`, `ErrorIsFinal`,
`NoVideoWithoutStream`, `FilesBeginWithKeyframe`, `ListIsTable`, `OverlayDrivesSession`,
`EveryRowRead`, `CandidateCountOfModel`.

*StreamingSession_proofs.* `TypeInv` types the variables. `RunInv` strengthens
`OneLiveRun`: calls are queued in increasing order, above the worker's run and at most
the session's, and a run that is not the newest has been stopped. `BudgetInv` ties
`failedAttempts` to `retryCount` at each place of the worker's loop, which makes
`GivesUpOnlyWhenSpent` inductive. `SignalInv` says what the queued signals and the
worker's place imply of the last state emitted, `FrameInv` that neither the view's
picture nor the exchange's is from the future and what must hold for a picture to
be shown, and `ObservableInv` where the signal of the newest frame is while the view
does not show it. The view properties follow from these.

Its last part, `SessionImplementsView`, is the refinement without its fairness:
`Spec => View!Spec`. `PlaceInv` says what the worker emitted last at each place of its
loop, and `ChainInv` that the queued states lead, each by a transition of the abstract
diagram, from what the view says to that last one; so the state that is handled next is
one that `Say` allows. `Show` needs the frame invariants.

*Recording_proofs.* The invariant is `TypeOK`, `RecorderConsistent`, `NoDanglingStream`
and `KeyframeFirst` with `AttemptInv` (what an attempt holds at each place, and that a
recorder with a stream only exists in the packet loop or in cleanup) and `FreshInv`
(a file named by one press has not been opened while it is pending or configured).
`ReportInv` says that the newest recording state queued or delivered is the recorder's,
at every moment; `RecordingViewSettles` follows. `GoneInv` (a deleted service has no
attempt and holds nothing) completes `NothingOutlivesAttempt`; what it leaves between two
attempts is at most the `SwsContext`. `StopWins` and `FilesEndOnce` are action properties
proved from the invariant; `FilesEndOnce` promises that the trailer is attempted, not that
it is written.

*VideoDecoding_proofs.* The invariant has a part for each property: `CountedInv`
(the service's counters are those of the history) and `ToldInv` (outside the loop, what
was told last is what was counted), `PublishedInv` (the length published last is the
length the view has or will have), `FrameInv` (what is converted has a format), which
with `EnsuredContext`, what the scaler may make of the converter's one context, makes
`ConverterOwnsContext` inductive, and `DrainedInv` (frames are left in a
decoder only inside the loop over them, or after taking one has failed).

*OnnxDetector_proofs.* Two parts. The geometry: a truncated length lies between the exact
product minus one and the product (`TruncatedLength`), hence the resized image fits
(`FitsSide`) and every column maps back to within one pixel (`ShortMapsBack`), for every
input and every frame. The layout: an index of the tensor is one plane, row and column
(`UniqueDivision`, `PlacesApart`), so that `CopyInv`, which says that all cells before
(`x`, `y`) are filled rightly, survives each write.

*AnalyticsSession_proofs.* `TypeInv` adds that only proper identities are in use.
`ViewInv` says what the queued failures and `owed` imply of `view`; `RevInv` orders
the revisions given out, waiting, worked on and submitted; `ErrorsInv` orders the
generations reported, being reported, queued and in force.
`SessionImplementsAnalyticsView` (`Spec => Owner!Spec`) rests on all of them: `RevInv` makes
the frame in the result mailbox the oldest in work, so that taking it is `TakeResult` and
publishing over it is `Skip`; `ErrorsInv` and `RunsInv` (a queued failure of the newest
activation is of its run) make a failure that is not told one of an activation replaced;
`WorkInv` says that the thread holds nothing of a later activation, so that `Enable` begins
with nothing in work. `WorkingIs`, `FailingIs`, `QueuedAppend` and `QueuedTail` say how the
mapping changes with its parts; then each action is one of the view's or a stutter.

*YoloxPostprocessing_proofs.* The buffer, the strides and the input may have any size, so
the loops are counted rather than unrolled. `CursorInv` gives the index by the place in the
three loops, and `PastInv` says that it is the number of cells read: the cells before the
cursor, in the order of the loops, form a finite set of that cardinality
(`PastAfterCell`, `PastAfterRow`). Two cells never share an index (`IndexInjective`), so
`DecodedInv` survives each row: the detections are what the cells before the cursor predict.
What the recursive functions `Count` and `Best` compute is shown by taking the least place
where a claim fails (`LeastElement`, `IntervalInduction`, `Iteration`), because the library's
induction theorems cannot be instantiated here. The sort is by rank: ranks of different
detections differ, they lie in 1 .. n, and an injection of a finite set into itself is onto
(`SortedRearranges`), so nothing is lost or doubled. `SuppressesSameObject` equates the
code's arithmetic on boxes with the number of pixels two boxes share (`SharedPixels`), and
`SuppressInv` says of the candidates before `position` what `StrongestKept` says of all.

*AnalyticsOverlay_proofs.* The composition. `OverlayDrivesSession` shows that every step
of the overlay is a step of its session or leaves it alone, so that the session's
theorems, taken with `INSTANCE AnalyticsSession_proofs`, hold inside the overlay
(`SessionInvariant`), its refinement of `AnalyticsView` included
(`OverlaySeesAnalyticsView`). On top, `ActivationInv` (an activation in force is the one the
overlay remembers, is of a run, and its timer runs), `ShownInv` (what is shown was given
out by the session, which is why a later result is newer) and `FailureIsFinal` are
preserved by each action.

*CameraManagement_proofs.* The invariant adds two parts to the properties: `RowsInv` (stored
rows have distinct ids given out before and valid entries, and none is an orphan's) and
`PanelInv` (the panel's stream and form belong to the selected camera and its view model).
Lemmas say what appending, updating and removing a row do to the ids and to the selection,
one per statement; each command is then the composition of at most four of them.
`StartInv` (an up-to-date session was started with what the table holds) is kept by each
statement, because the list that Connect reads shows the stored row.

**Only model-checked:** every liveness property, also the fairness of `StreamView` and
`Progress` of `AnalyticsView` in the refinements (fairness and `ENABLED` are out of the
prover's reach).

## 5. Not modelled

The table of class names, interpolation and inference, texts and their format; the fixed
in-memory repository and the mock service, which the program does not construct; list
models and QML, whose guards are part of the commands; the demonstration programs.
PROJECT.json lists every component with the reason.

A blocking read: `av_read_frame` has no timeout of its own, so while a camera is silent
nothing in the loop happens, a command to stop recording included, until the stream is
stopped. The models let a camera be silent for ever; no property promises an answer then.
A recorder in Error stays there, as its documentation says, for the service's life.

## 6. Plan

1. `Recording` and `VideoDecoding` as implementations of the attempt that
   `StreamingSession` reduces to its outcomes.
2. Loading of QML and the order of destruction at exit, in the bootstrap.
3. The live demonstration (`src/apps/analytics-live-demo/src/main.cpp`), a second client of
   `AnalyticsSession`.
