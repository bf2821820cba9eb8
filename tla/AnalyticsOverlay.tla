---------------------------- MODULE AnalyticsOverlay ----------------------------
(***************************************************************************)
(* The analytics overlay that the bootstrap attaches to the first camera:  *)
(* a 100 ms timer that keeps an AnalyticsSession on the current run and    *)
(* submits the newest frame, and the slots of the session's signals, which *)
(* put detections into the camera's view model and take them out again.    *)
(*                                                                         *)
(* It composes module AnalyticsSession, with its detector thread, and a    *)
(* stream reduced to what the overlay reads of it: its run, whether its    *)
(* state is Connected, and the snapshot in the frame exchange, all of      *)
(* which module StreamingSession explains. Time is the age of a frame in   *)
(* units of which Expiry make up the 750 ms; no age grows past Expiry + 1. *)
(***************************************************************************)
EXTENDS Integers, Sequences

CONSTANTS
  MaxGeneration, MaxRun, MaxRevision,  \* as in AnalyticsSession
  Expiry                               \* the age at which detections are kept

ASSUME OverlayAssumption ==
  /\ MaxGeneration \in Nat \ {0}
  /\ MaxRun \in Nat \ {0}
  /\ MaxRevision \in Nat \ {0}
  /\ Expiry \in Nat

Age == 0 .. Expiry + 1

VARIABLES
  \* the analytics session, see AnalyticsSession
  life, enabled, streamRunId, generation, pending, latest, notificationPending,
  closures, slot, failed, owed, view, wpc, item, detector, revision, taken, errors,
  \* the stream and its view model
  stream,     \* the StreamingSession exists, and so does its view model
  run,        \* its m_streamRunId
  stopped,    \* a stop of that run was requested
  connected,  \* its state, which is also the view model's, is Connected
  snapshot,   \* the frame exchange: run, age, and revision = lastRevision
  shown,      \* the result whose detections the view model shows, or None
  \* the overlay
  state,      \* OverlayState
  timer,      \* the timer is active
  turn,       \* "submit" in the second half of the timer's callback
  age         \* the age of each submitted frame

Analytics == INSTANCE AnalyticsSession
None == Analytics!None

analyticsVars ==
  <<life, enabled, streamRunId, generation, pending, latest, notificationPending,
    closures, slot, failed, owed, view, wpc, item, detector, revision, taken, errors>>
streamVars == <<stream, run, stopped, connected>>
overlayVars == <<state, timer, turn>>
vars == <<analyticsVars, streamVars, snapshot, shown, overlayVars, age>>

Snapshot == [run : 0 .. MaxRun, age : Age, seen : BOOLEAN]

\* displayed is displayedFrameTime, as the frame it is the time of; 0 is nullopt.
OverlayState ==
  [runId : 0 .. MaxRun, generation : 0 .. MaxGeneration, failed : BOOLEAN,
   displayed : 0 .. MaxRevision]

Init ==
  /\ Analytics!Init
  /\ stream = TRUE
  /\ run = 0
  /\ stopped = FALSE
  /\ connected = FALSE
  /\ snapshot = [run |-> 0, age |-> 0, seen |-> FALSE]
  /\ shown = None
  /\ state = [runId |-> 0, generation |-> 0, failed |-> FALSE, displayed |-> 0]
  /\ timer = TRUE
  /\ turn = "idle"
  /\ age = [r \in 1 .. MaxRevision |-> 0]

\* The event loop is between two events.
Idle == slot = "none" /\ ~owed /\ turn = "idle"

LastRequested == run  \* mutant: a stopped run still counts

\* StreamingSession::streamRunId(): zero means no active requested run.
ActiveRun == IF stopped THEN 0 ELSE run

\* Bound: runs start and connect while an activation is left for them.
ActivationLeft == generation < MaxGeneration

-----------------------------------------------------------------------------
(* The stream, its worker, and time.                                       *)

StartStream ==
  /\ Idle /\ stream
  /\ run < MaxRun /\ ActivationLeft
  /\ run' = run + 1
  /\ stopped' = FALSE
  /\ UNCHANGED <<analyticsVars, stream, connected, snapshot, shown, overlayVars, age>>

StopStream ==
  /\ Idle /\ stream
  /\ stopped' = TRUE
  /\ UNCHANGED <<analyticsVars, stream, run, connected, snapshot, shown, overlayVars,
                 age>>

\* onStateChanged() clears the detections in any state but Connected.
ShownInState(isConnected) == IF isConnected THEN shown ELSE None

StateChanged ==
  /\ Idle /\ stream
  /\ run > 0
  /\ connected' \in (IF ActivationLeft THEN BOOLEAN ELSE {FALSE})
  /\ shown' = ShownInState(connected')
  /\ UNCHANGED <<analyticsVars, stream, run, stopped, snapshot, overlayVars, age>>

\* The worker publishes; late frames of an older run are possible.
PublishFrame ==
  /\ stream /\ run > 0
  /\ \E r \in 1 .. run :
       /\ r >= snapshot.run
       /\ snapshot' = [run |-> r, age |-> 0, seen |-> FALSE]
  /\ UNCHANGED <<analyticsVars, streamVars, shown, overlayVars, age>>

\* The camera is removed: session and view model go, the QPointers are null.
RemoveCamera ==
  /\ Idle /\ stream
  /\ stream' = FALSE
  /\ connected' = FALSE
  /\ shown' = None
  /\ UNCHANGED <<analyticsVars, run, stopped, snapshot, overlayVars, age>>

Older(a) == IF a > Expiry THEN a ELSE a + 1

Elapse ==
  /\ snapshot' = [snapshot EXCEPT !.age = Older(@)]
  /\ age' = [r \in 1 .. MaxRevision |-> IF r <= revision THEN Older(age[r]) ELSE 0]
  /\ UNCHANGED <<analyticsVars, streamVars, shown, overlayVars>>

-----------------------------------------------------------------------------
(* The timer's callback. Between its calls the detector thread goes on.    *)

Expired == state.displayed # 0 /\ age[state.displayed] > Expiry

TickWithoutStream ==
  /\ Idle /\ timer /\ ~stream
  /\ timer' = FALSE
  /\ Analytics!Disable
  /\ UNCHANGED <<streamVars, snapshot, shown, state, turn, age>>

KeepRun == [state EXCEPT !.displayed = 0]  \* mutant: the run stays attached

\* A run that connects again is attached again.
ForgetRun == [state EXCEPT !.runId = 0, !.displayed = 0]

\* No run, or not Connected: the activation ends.
TickDetached ==
  /\ Idle /\ timer /\ stream /\ ~state.failed
  /\ ActiveRun = 0 \/ ~connected
  /\ Analytics!Disable
  /\ shown' = None
  /\ state' = ForgetRun
  /\ snapshot' = [snapshot EXCEPT !.seen = FALSE]
  /\ UNCHANGED <<streamVars, timer, turn, age>>

\* A new run: a new activation.
TickAttach ==
  /\ Idle /\ timer /\ stream /\ ~state.failed
  /\ ActiveRun > 0 /\ connected /\ state.runId # ActiveRun
  /\ Analytics!Enable
  /\ streamRunId' = ActiveRun
  /\ shown' = None
  /\ state' = [state EXCEPT !.runId = ActiveRun, !.generation = generation',
                            !.displayed = 0]
  /\ snapshot' = [snapshot EXCEPT !.seen = FALSE]
  /\ turn' = "submit"
  /\ UNCHANGED <<streamVars, timer, age>>

NeverExpires == UNCHANGED <<shown, state>>  \* mutant: old detections stay

ExpireDetections ==
  IF Expired
  THEN shown' = None /\ state' = [state EXCEPT !.displayed = 0]
  ELSE UNCHANGED <<shown, state>>

\* The same run as before: old detections go.
TickAttached ==
  /\ Idle /\ timer /\ stream /\ ~state.failed
  /\ ActiveRun > 0 /\ connected /\ state.runId = ActiveRun
  /\ ExpireDetections
  /\ turn' = "submit"
  /\ UNCHANGED <<analyticsVars, streamVars, snapshot, timer, age>>

\* A frame of this run that was not submitted before; MaxRevision ends it.
Usable ==
  /\ snapshot.run = ActiveRun
  /\ ~snapshot.seen
  /\ revision < MaxRevision

\* submitFrame() refuses when a failure has ended the activation.
TickSubmit ==
  /\ turn = "submit" /\ ~owed
  /\ turn' = "idle"
  /\ \/ /\ Usable
        /\ Analytics!SubmitFrame
        /\ pending'.run = snapshot.run /\ pending'.generation = state.generation
        /\ age' = [age EXCEPT ![revision'] = snapshot.age]
        /\ snapshot' = [snapshot EXCEPT !.seen = TRUE]
     \/ /\ Usable
        /\ ~(enabled /\ streamRunId = snapshot.run /\ generation = state.generation)
        /\ snapshot' = [snapshot EXCEPT !.seen = TRUE]
        /\ UNCHANGED <<analyticsVars, age>>
     \/ ~Usable /\ UNCHANGED <<analyticsVars, snapshot, age>>
  /\ UNCHANGED <<streamVars, shown, state, timer>>

-----------------------------------------------------------------------------
(* The slots of the analytics session's signals.                           *)

ShowableOfAnyRun(result) ==  \* mutant: the run is not compared
  stream /\ connected /\ age[result.revision] <= Expiry

\* The result still fits what the view shows.
Showable(result) ==
  /\ stream /\ connected
  /\ result.run = ActiveRun
  /\ result.generation = state.generation
  /\ age[result.revision] <= Expiry

KeepDisplayedTime(r) == state  \* mutant: the time of the result is not kept

DisplayedSince(r) == [state EXCEPT !.displayed = r]

\* resultAvailable.
ShowResult ==
  /\ slot = "result"
  /\ Analytics!TakeLatestResult
  /\ IF latest # None /\ Analytics!Accepts(latest) /\ Showable(latest)
     THEN shown' = latest /\ state' = DisplayedSince(latest.revision)
     ELSE UNCHANGED <<shown, state>>
  /\ UNCHANGED <<streamVars, snapshot, timer, turn, age>>

KeepShown ==  \* mutant: what is shown stays
  state' = [state EXCEPT !.failed = TRUE] /\ timer' = FALSE /\ shown' = shown

\* The slot of errorOccurred: analytics of this camera is over.
StopOnError ==
  /\ state' = [state EXCEPT !.failed = TRUE]
  /\ timer' = FALSE
  /\ shown' = None

ReportError ==
  /\ Analytics!ConfirmFailure
  /\ IF errors' # errors THEN StopOnError ELSE UNCHANGED <<state, timer, shown>>
  /\ UNCHANGED <<streamVars, snapshot, turn, age>>

\* The session's own steps: its queued closures, its emissions, to which nothing
\* is connected here, and the detector thread.
Unobserved == UNCHANGED <<streamVars, snapshot, shown, overlayVars, age>>

Deliver ==
  /\ turn = "idle"
  /\ Analytics!DeliverResult \/ Analytics!DeliverFailure
  /\ Unobserved

Emit == Analytics!EmitEnabledChanged /\ Unobserved

Detect == Analytics!Worker /\ Unobserved

Tick == TickWithoutStream \/ TickDetached \/ TickAttach \/ TickAttached

Next ==
  \/ StartStream \/ StopStream \/ StateChanged \/ PublishFrame \/ RemoveCamera
  \/ Elapse
  \/ Tick \/ TickSubmit
  \/ ShowResult \/ ReportError \/ Deliver \/ Emit \/ Detect

Spec == Init /\ [][Next]_vars

\* Time passes, the timer fires, the event loop and the detector thread go on.
\* The event loop sends the queued closures in every round, however often the
\* timer's callback has its turn. Nothing makes the stream do anything.
Fairness ==
  /\ WF_vars(Elapse)
  /\ WF_vars(Tick) /\ WF_vars(TickSubmit)
  /\ WF_vars(ShowResult) /\ WF_vars(ReportError)
  /\ SF_vars(Deliver) /\ WF_vars(Emit) /\ WF_vars(Detect)

FairSpec == Spec /\ Fairness

-----------------------------------------------------------------------------
(* Properties.                                                             *)

TypeOK ==
  /\ Analytics!TypeOK
  /\ stream \in BOOLEAN
  /\ run \in 0 .. MaxRun
  /\ stopped \in BOOLEAN
  /\ connected \in BOOLEAN
  /\ snapshot \in Snapshot
  /\ shown \in Analytics!Identity
  /\ state \in OverlayState
  /\ timer \in BOOLEAN
  /\ turn \in {"idle", "submit"}
  /\ age \in [1 .. MaxRevision -> Age]

\* Detections are only shown over a camera that is connected, and will be taken
\* away again when they get old: the timer runs and knows their time.
ShownIsTended ==
  shown # None =>
    stream /\ connected /\ timer /\ state.displayed = shown.revision

\* The overlay knows the activation it started: otherwise every result would
\* be dropped by the comparison with state->generation.
ActivationKnown ==
  enabled => state.runId = streamRunId /\ state.generation = generation

\* After an error nothing is shown and nothing is on its way, for good: queued
\* results of the failed activation do not reach the view.
FailureIsFinal ==
  state.failed => /\ shown = None /\ ~timer
                  /\ ~enabled /\ latest = None /\ pending = None

\* What is put on the screen belongs to the run now streaming, is young, and
\* is newer than what it replaces.
OnlyFreshShown ==
  [][shown' \notin {shown, None} =>
       /\ connected
       /\ shown'.run = run /\ ~stopped
       /\ age[shown'.revision] <= Expiry
       /\ shown = None \/ shown'.revision > shown.revision]_vars

\* Detections do not stay: they are replaced or taken away.
DetectionsExpire ==
  \A r \in 1 .. MaxRevision : (shown.revision = r) ~> (shown.revision # r)

\* A run that is connected gets an activation, unless it stops being so or
\* analytics has failed.
RunIsAnalysed ==
  \A r \in 1 .. MaxRun :
    (stream /\ connected /\ ActiveRun = r)
    ~> (\/ enabled /\ streamRunId = r
        \/ state.failed \/ ~stream \/ ~connected \/ ActiveRun # r)

=============================================================================
