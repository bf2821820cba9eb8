--------------------------- MODULE StreamingSession ---------------------------
(***************************************************************************)
(* One camera's live view: the StreamingSession object on the GUI thread,  *)
(* its StreamingWorker on a QThread, the FrameExchange the two share, the  *)
(* queued signals the worker posts back, and what CameraStreamViewModel    *)
(* shows of them.                                                          *)
(*                                                                         *)
(* A connection attempt (FFmpegStreamingService::stream) is abstracted to  *)
(* its outcomes and to the places where it reads the stop token; module    *)
(* Recording models its inside.                                            *)
(***************************************************************************)
EXTENDS Integers, Sequences

CONSTANTS
  MaxRunId,     \* the largest m_streamRunId; start() throws at this limit
  MaxRetries,   \* ReconnectPolicy::m_maxRetries
  MaxFrames,    \* bound: frames published by one session
  MaxEvents     \* bound: events waiting in the GUI thread's event queue

ASSUME StreamingAssumption ==
  /\ MaxRunId \in Nat \ {0}
  /\ MaxRetries \in Nat
  /\ MaxFrames \in Nat
  /\ MaxEvents \in Nat \ {0, 1}

ConnectionState ==
  {"Disconnected", "Connecting", "Connected", "Reconnecting", "Error"}

\* The signals of the worker that matter here, as events of the GUI queue.
FrameUpdated == "frameUpdated"
Event == ConnectionState \cup {FrameUpdated}

\* Where the worker thread is: in its event loop, or inside start().
WorkerPc ==
  {"idle", "loop", "init", "connect", "read", "notify", "exit", "wait",
   "end", "finished"}

ExitReason == {"None", "Cancelled", "InitializationFailure", "NetworkFailure"}

RunId == 0 .. MaxRunId

\* A FrameSnapshot without its pixels; revision 0 is the one that is not valid.
Snapshot == [run : RunId, revision : 0 .. MaxFrames]
NoFrame == [run |-> 0, revision |-> 0]

VARIABLES
  life,           \* "alive", "destroying" (in ~StreamingSession), "gone"
  streamRunId,    \* StreamingSession::m_streamRunId
  stopped,        \* run ids whose stop_source has been asked to stop
  sessionState,   \* StreamingSession::m_state, and the view model's copy
  vmFrame,        \* what CameraStreamViewModel shows
  calls,          \* worker->start() calls queued on the worker thread
  wpc,            \* where the worker thread is
  workerRun,      \* StreamingWorker::m_streamRunId
  reason,         \* what stream() returned
  retryCount,     \* ReconnectPolicy::m_retryCount
  snapshot,       \* FrameExchange::m_snapshot
  events,         \* signals queued for the GUI thread
  lastEmitted,    \* history: the last state the worker emitted
  failedAttempts  \* history: attempts failed since start() or "Connected"

sessionVars == <<life, streamRunId, stopped>>
viewVars == <<sessionState, vmFrame>>
workerVars == <<workerRun, reason, retryCount>>
historyVars == <<lastEmitted, failedAttempts>>
vars == <<life, streamRunId, stopped, sessionState, vmFrame, calls, wpc,
          workerRun, reason, retryCount, snapshot, events, lastEmitted,
          failedAttempts>>

Init ==
  /\ life = "alive"
  /\ streamRunId = 0
  /\ stopped = {}
  /\ sessionState = "Disconnected"
  /\ vmFrame = NoFrame
  /\ calls = <<>>
  /\ wpc = "idle"
  /\ workerRun = 0
  /\ reason = "None"
  /\ retryCount = 0
  /\ snapshot = NoFrame
  /\ events = <<>>
  /\ lastEmitted = "Disconnected"
  /\ failedAttempts = 0

-----------------------------------------------------------------------------
(* The GUI thread: the session's interface.                                *)

\* The stop source of the newest run; run 0 is the one made by the constructor.
StopRequested == streamRunId \in stopped

\* StreamingSession::streamRunId(): zero when no run is wanted.
ActiveRunId == IF StopRequested THEN 0 ELSE streamRunId

CurrentFrameOfAnyRun == snapshot  \* mutant: the run is not compared

\* StreamingSession::currentFrame()
CurrentFrame ==
  IF ActiveRunId = 0 \/ snapshot.run # ActiveRunId THEN NoFrame ELSE snapshot

NothingSuperseded == stopped  \* mutant: the old source is only replaced

\* start() asks the source of the run before to stop, then replaces it.
Superseded == stopped \cup {streamRunId}

\* start(): stop the run before, make a fresh stop source, queue the call.
\* At MaxRunId the code throws before it changes anything.
Start ==
  /\ life = "alive"
  /\ streamRunId < MaxRunId
  /\ stopped' = Superseded
  /\ streamRunId' = streamRunId + 1
  /\ calls' = Append(calls, streamRunId + 1)
  /\ UNCHANGED <<life, viewVars, wpc, workerVars, snapshot, events, historyVars>>

Stop ==
  /\ life = "alive"
  /\ stopped' = stopped \cup {streamRunId}
  /\ UNCHANGED <<life, streamRunId, viewVars, calls, wpc, workerVars, snapshot,
                 events, historyVars>>

QuitOnly == stopped  \* mutant: the destructor only quits the event loop

\* The tokens stopped once ~StreamingSession has called request_stop().
StoppedByDestructor == stopped \cup {streamRunId}

\* ~StreamingSession: request_stop(), then quit() the thread's event loop ...
BeginDestroy ==
  /\ life = "alive"
  /\ life' = "destroying"
  /\ stopped' = StoppedByDestructor
  /\ UNCHANGED <<streamRunId, viewVars, calls, wpc, workerVars, snapshot,
                 events, historyVars>>

\* ... and wait(). The events still queued for the session go with it, and
\* the view model drops what it shows (onSessionDestroyed).
EndDestroy ==
  /\ life = "destroying"
  /\ wpc = "finished"
  /\ life' = "gone"
  /\ events' = <<>>
  /\ sessionState' = "Disconnected"
  /\ vmFrame' = NoFrame
  /\ UNCHANGED <<streamRunId, stopped, calls, wpc, workerVars, snapshot,
                 historyVars>>

-----------------------------------------------------------------------------
(* The GUI thread: delivery of the worker's queued signals, in order.      *)

ClearsVideoNotOnConnecting(state) == state = "Disconnected"         \* mutant
ClearsVideoOnReconnect(state) ==                                    \* mutant
  state \in {"Connecting", "Reconnecting", "Disconnected"}

\* The states on which CameraStreamViewModel::onStateChanged drops its frame.
ClearsVideo(state) == state \in {"Connecting", "Disconnected"}

\* StreamingSession::onStateChanged, which forwards only a change.
DeliverState ==
  /\ life = "alive"
  /\ events # <<>>
  /\ Head(events) \in ConnectionState
  /\ events' = Tail(events)
  /\ sessionState' = Head(events)
  /\ vmFrame' = IF Head(events) # sessionState /\ ClearsVideo(Head(events))
                THEN NoFrame ELSE vmFrame
  /\ UNCHANGED <<sessionVars, calls, wpc, workerVars, snapshot, historyVars>>

\* CameraStreamViewModel::onFrameUpdated: show whatever is current by now.
DeliverFrame ==
  /\ life = "alive"
  /\ events # <<>>
  /\ Head(events) = FrameUpdated
  /\ events' = Tail(events)
  /\ vmFrame' = IF CurrentFrame = NoFrame THEN vmFrame ELSE CurrentFrame
  /\ UNCHANGED <<sessionVars, sessionState, calls, wpc, workerVars, snapshot,
                 historyVars>>

-----------------------------------------------------------------------------
(* The worker thread.                                                      *)

Cancelled == workerRun \in stopped

\* Post signals to the GUI thread. Once the destructor runs nobody will
\* handle them, and they are discarded with the session.
Post(signals) ==
  \/ /\ life = "alive"
     /\ Len(events) + Len(signals) <= MaxEvents
     /\ events' = events \o signals
  \/ /\ life # "alive"
     /\ UNCHANGED events

EmitState(state) == Post(<<state>>) /\ lastEmitted' = state

Silent == UNCHANGED <<events, lastEmitted>>

RefuseSilently == Silent  \* mutant: return without a signal

\* What start() says when the token is stopped before it begins.
ReportRefusal == EmitState("Disconnected")

\* The event loop takes a call whose token is stopped already: report, return.
RefuseCall ==
  /\ wpc = "idle"
  /\ calls # <<>>
  /\ Head(calls) \in stopped
  /\ calls' = Tail(calls)
  /\ ReportRefusal
  /\ UNCHANGED <<sessionVars, viewVars, wpc, workerVars, snapshot,
                 failedAttempts>>

\* The event loop takes a live call: StreamingWorker::start up to its loop.
AcceptCall ==
  /\ wpc = "idle"
  /\ calls # <<>>
  /\ Head(calls) \notin stopped
  /\ calls' = Tail(calls)
  /\ workerRun' = Head(calls)
  /\ retryCount' = 0
  /\ failedAttempts' = 0
  /\ EmitState("Connecting")
  /\ wpc' = "loop"
  /\ UNCHANGED <<sessionVars, viewVars, reason, snapshot>>

\* The head of the retry loop, and stream() up to its first look at the token.
BeginAttempt ==
  /\ wpc = "loop"
  /\ wpc' = IF Cancelled THEN "end" ELSE "init"
  /\ Silent
  /\ UNCHANGED <<sessionVars, viewVars, calls, workerVars, snapshot,
                 failedAttempts>>

\* initializeEverything() fails.
FailAttempt ==
  /\ wpc = "init"
  /\ reason' = IF Cancelled THEN "Cancelled" ELSE "InitializationFailure"
  /\ wpc' = "exit"
  /\ Silent
  /\ UNCHANGED <<sessionVars, viewVars, calls, workerRun, retryCount, snapshot,
                 failedAttempts>>

\* initializeEverything() succeeds; the token is read once more.
OpenAttempt ==
  /\ wpc = "init"
  /\ \/ /\ Cancelled
        /\ reason' = "Cancelled"
        /\ wpc' = "exit"
     \/ /\ ~Cancelled
        /\ wpc' = "connect"
        /\ UNCHANGED reason
  /\ Silent
  /\ UNCHANGED <<sessionVars, viewVars, calls, workerRun, retryCount, snapshot,
                 failedAttempts>>

KeepRetryCount == retryCount  \* mutant: connected() does not reset the policy

\* ReconnectPolicy::reset(), called on connected().
RetryCountOnConnect == 0

\* The service emits connected(): the worker resets its policy and reports,
\* even if the run has been stopped since the token was read.
Connect ==
  /\ wpc = "connect"
  /\ retryCount' = RetryCountOnConnect
  /\ failedAttempts' = 0
  /\ EmitState("Connected")
  /\ wpc' = "read"
  /\ UNCHANGED <<sessionVars, viewVars, calls, workerRun, reason, snapshot>>

\* A decoded frame: FrameExchange::publish under its lock ...
PublishFrame ==
  /\ wpc = "read"
  /\ snapshot.revision < MaxFrames
  /\ snapshot' = [run |-> workerRun, revision |-> snapshot.revision + 1]
  /\ wpc' = "notify"
  /\ Silent
  /\ UNCHANGED <<sessionVars, viewVars, calls, workerVars, failedAttempts>>

\* ... then, with the lock released, frameUpdated().
NotifyFrame ==
  /\ wpc = "notify"
  /\ Post(<<FrameUpdated>>)
  /\ wpc' = "read"
  /\ UNCHANGED <<sessionVars, viewVars, calls, workerVars, snapshot,
                 historyVars>>

\* The packet loop ends: a stopped token, the end of the input or an error.
LeaveReadLoop ==
  /\ wpc = "read"
  /\ reason' = IF Cancelled THEN "Cancelled" ELSE "NetworkFailure"
  /\ wpc' = "exit"
  /\ Silent
  /\ UNCHANGED <<sessionVars, viewVars, calls, workerRun, retryCount, snapshot,
                 failedAttempts>>

\* After stream() returned with the run stopped.
ExitCancelled ==
  /\ wpc = "exit"
  /\ Cancelled
  /\ wpc' = "end"
  /\ Silent
  /\ UNCHANGED <<sessionVars, viewVars, calls, workerVars, snapshot,
                 failedAttempts>>

ShouldRetryOnceMore == retryCount <= MaxRetries  \* mutant: off by one

ShouldRetry == retryCount < MaxRetries

\* Where the worker goes when the retry budget is spent: out of its loop.
AfterLastFailure == "end"

\* handleExitReason: a failure is reported and may be retried; a service that
\* says Cancelled is not asked again. (No service returns the other reasons.)
Retryable == reason \in {"InitializationFailure", "NetworkFailure"}

ExitFailed ==
  /\ wpc = "exit"
  /\ ~Cancelled
  /\ failedAttempts' = failedAttempts + 1
  /\ \/ /\ Retryable /\ ShouldRetry
        /\ EmitState("Reconnecting")
        /\ wpc' = "wait"
     \/ /\ Retryable /\ ~ShouldRetry
        /\ Post(<<"Reconnecting", "Error">>)
        /\ lastEmitted' = "Error"
        /\ wpc' = AfterLastFailure
  /\ UNCHANGED <<sessionVars, viewVars, calls, workerVars, snapshot>>

\* waitForRetryDelay: the delay elapses, or the stop request wakes it.
Wait ==
  /\ wpc = "wait"
  /\ \/ /\ Cancelled
        /\ wpc' = "end"
        /\ UNCHANGED retryCount
     \/ /\ ~Cancelled
        /\ retryCount' = retryCount + 1
        /\ wpc' = "loop"
  /\ Silent
  /\ UNCHANGED <<sessionVars, viewVars, calls, workerRun, reason, snapshot,
                 failedAttempts>>

\* A run that ends because it was stopped says so.
ReportEnd == \/ Cancelled /\ EmitState("Disconnected")
             \/ ~Cancelled /\ Silent

\* The last lines of StreamingWorker::start.
EndRun ==
  /\ wpc = "end"
  /\ wpc' = "idle"
  /\ ReportEnd
  /\ UNCHANGED <<sessionVars, viewVars, calls, workerVars, snapshot,
                 failedAttempts>>

\* quit() ends the event loop. Calls still queued are dropped; Qt may also
\* have delivered some of them first (RefuseCall).
FinishThread ==
  /\ life = "destroying"
  /\ wpc = "idle"
  /\ wpc' = "finished"
  /\ calls' = <<>>
  /\ Silent
  /\ UNCHANGED <<sessionVars, viewVars, workerVars, snapshot, failedAttempts>>

-----------------------------------------------------------------------------
\* A session that is gone takes no more steps.
Gone == life = "gone" /\ UNCHANGED vars

Gui == Start \/ Stop \/ BeginDestroy \/ EndDestroy \/ DeliverState \/ DeliverFrame

Worker ==
  \/ RefuseCall \/ AcceptCall
  \/ BeginAttempt \/ FailAttempt \/ OpenAttempt \/ Connect
  \/ PublishFrame \/ NotifyFrame \/ LeaveReadLoop
  \/ ExitCancelled \/ ExitFailed \/ Wait \/ EndRun
  \/ FinishThread

Next == Gui \/ Worker \/ Gone

Spec == Init /\ [][Next]_vars

\* Both threads keep running their event loops. Nothing makes the user act,
\* and a camera may block an attempt or stream for ever: only a stop request
\* forces initialisation and the packet loop to return (the FFmpeg interrupt
\* callback, and the token read before each packet).
Fairness ==
  /\ WF_vars(DeliverState \/ DeliverFrame)
  /\ WF_vars(EndDestroy)
  /\ WF_vars(RefuseCall \/ AcceptCall \/ FinishThread)
  /\ WF_vars(BeginAttempt)
  /\ WF_vars(Cancelled /\ (FailAttempt \/ OpenAttempt))
  /\ WF_vars(Connect)
  /\ WF_vars(NotifyFrame)
  /\ WF_vars(Cancelled /\ LeaveReadLoop)
  /\ WF_vars(ExitCancelled \/ ExitFailed)
  /\ WF_vars(Wait)
  /\ WF_vars(EndRun)

FairSpec == Spec /\ Fairness

-----------------------------------------------------------------------------
(* Properties.                                                             *)

TypeOK ==
  /\ life \in {"alive", "destroying", "gone"}
  /\ streamRunId \in RunId
  /\ stopped \subseteq RunId
  /\ sessionState \in ConnectionState
  /\ vmFrame \in Snapshot
  /\ calls \in Seq(RunId)
  /\ wpc \in WorkerPc
  /\ workerRun \in RunId
  /\ reason \in ExitReason
  /\ retryCount \in 0 .. MaxRetries
  /\ snapshot \in Snapshot
  /\ events \in Seq(Event)
  /\ lastEmitted \in ConnectionState
  /\ failedAttempts \in Nat

InRun == wpc \notin {"idle", "finished"}

\* Only the newest run may be live: whatever the worker is still busy with,
\* and every call still queued for it, has been told to stop unless it is the
\* run start() was last called for (start() stops the source it replaces).
OneLiveRun ==
  /\ InRun => workerRun = streamRunId \/ workerRun \in stopped
  /\ \A i \in 1 .. Len(calls) : calls[i] = streamRunId \/ calls[i] \in stopped

\* The view shows no picture while it says Disconnected or Connecting, even
\* though frame and state signals of a stopped run may be delivered after the
\* next run has begun to publish (onFrameUpdated, onStateChanged).
VideoOnlyWhileStreaming ==
  vmFrame # NoFrame => sessionState \in {"Connected", "Reconnecting", "Error"}

\* Latest-frame contract: once the frame signals are handled, the view shows
\* the newest frame of the wanted run, however many it was too slow to see
\* and whatever late signals of earlier runs cleared in between.
LatestFrameObservable ==
  (/\ life = "alive"
   /\ snapshot # NoFrame
   /\ snapshot.run = ActiveRunId
   /\ wpc # "notify"
   /\ \A i \in 1 .. Len(events) : events[i] # FrameUpdated)
  => vmFrame = snapshot

\* When the worker has nothing to do and its signals are handled, the session
\* does not claim to be connected, connecting or reconnecting.
IdleSettled ==
  (life = "alive" /\ wpc = "idle" /\ calls = <<>> /\ events = <<>>)
  => sessionState \in {"Disconnected", "Error"}

\* The worker gives up after exactly one first attempt and MaxRetries retries
\* that all failed since start() or the last time it was connected.
GivesUpOnlyWhenSpent ==
  /\ failedAttempts <= MaxRetries + 1
  /\ lastEmitted = "Error" => failedAttempts = MaxRetries + 1

\* A run that was given up stays down: after Error the worker's next signal
\* is that it was stopped, or that it begins a newer run.
GivenUpStaysDown ==
  [][lastEmitted = "Error" /\ lastEmitted' # "Error"
     => lastEmitted' = "Disconnected" \/ workerRun' > workerRun]_vars

\* A frame appears on screen only if its run is wanted at that moment, and the
\* picture never goes back to an older frame.
NoStaleFrameShown ==
  [][vmFrame' # vmFrame /\ vmFrame' # NoFrame
     => /\ vmFrame'.run = streamRunId
        /\ streamRunId \notin stopped
        /\ vmFrame'.revision > vmFrame.revision]_vars

RunPending == InRun \/ calls # <<>>

\* A stop request that finds a run in progress or queued is answered: the
\* session becomes Disconnected, unless a new start or destruction comes first.
StoppedRunDisconnects ==
  (life = "alive" /\ StopRequested /\ RunPending)
  ~> (sessionState = "Disconnected" \/ ~StopRequested \/ life # "alive")

\* The newest start request reaches the worker, whatever earlier run it is
\* still busy with, unless it is stopped or superseded first.
NewestRunServed ==
  \A r \in 1 .. MaxRunId :
    (streamRunId = r /\ r \notin stopped) ~> (workerRun = r \/ r \in stopped)

\* Both: whatever the worker is doing, a stop and the newest start are answered.
CommandsAnswered == StoppedRunDisconnects /\ NewestRunServed

\* The session keeps the promises of StreamView: the runs, the states in an order
\* of its diagram, pictures of the wanted run only and never beside a state
\* without a stream; and in time the newest one, an end of what is not wanted,
\* and of its destruction. Worker, calls, signals and retries are hidden.
View == INSTANCE StreamView
          WITH MaxRunId <- MaxRunId, MaxFrames <- MaxFrames, life <- life,
               streamRunId <- streamRunId, stopped <- stopped,
               sessionState <- sessionState, vmFrame <- vmFrame,
               snapshot <- snapshot

ImplementsStreamView == View!FairSpec

\* docs/streaming-pipeline.md, connection states: the transitions it draws.
DocumentedTransition ==
  {<<"Disconnected", "Connecting">>, <<"Connecting", "Connected">>,
   <<"Connecting", "Reconnecting">>, <<"Connected", "Reconnecting">>,
   <<"Reconnecting", "Connected">>, <<"Reconnecting", "Error">>,
   <<"Connected", "Disconnected">>, <<"Reconnecting", "Disconnected">>,
   <<"Error", "Disconnected">>}

\* "Error --> Disconnected: explicit stop/new lifecycle" (the same page): an
\* explicit stop of a session in Error makes it Disconnected.
DocStopLeavesError ==
  (life = "alive" /\ sessionState = "Error" /\ StopRequested)
  ~> (sessionState = "Disconnected" \/ ~StopRequested \/ life # "alive")

\* The session's state changes only as that diagram draws it.
DocConnectionDiagram ==
  [][sessionState' # sessionState /\ life' = "alive"
     => <<sessionState, sessionState'>> \in DocumentedTransition]_vars

=============================================================================
