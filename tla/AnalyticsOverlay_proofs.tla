------------------------- MODULE AnalyticsOverlay_proofs -------------------------
(***************************************************************************)
(* Safety of the overlay. It drives the analytics session only as the      *)
(* session allows, so the theorems about AnalyticsSession hold inside it,  *)
(* and the overlay's own invariant is proved with their help.              *)
(***************************************************************************)
EXTENDS AnalyticsOverlay, TLAPS

\* The session with its theorems; its definitions are those of Analytics.
Session == INSTANCE AnalyticsSession_proofs

-----------------------------------------------------------------------------
(* The session inside the overlay.                                         *)

LEMMA SameInit == Analytics!Init => Session!Init
BY DEF Analytics!Init, Session!Init, Analytics!None, Session!None

LEMMA SameCalls ==
  /\ Analytics!Enable => Session!Enable
  /\ Analytics!Disable => Session!Disable
  /\ Analytics!SubmitFrame => Session!SubmitFrame
  /\ Analytics!TakeLatestResult => Session!TakeLatestResult
  /\ Analytics!EmitEnabledChanged => Session!EmitEnabledChanged
<1> USE DEF Analytics!None, Session!None, Analytics!Callable, Session!Callable,
            Analytics!workerVars, Session!workerVars,
            Analytics!historyVars, Session!historyVars
<1>1. Analytics!Enable => Session!Enable
  BY DEF Analytics!Enable, Session!Enable, Analytics!GenerationLeft,
         Session!GenerationLeft, Analytics!NextGeneration, Session!NextGeneration,
         Analytics!FlagAfterClear, Session!FlagAfterClear,
         Analytics!ChangedByEnable, Session!ChangedByEnable
<1>2. Analytics!Disable => Session!Disable
  BY DEF Analytics!Disable, Session!Disable, Analytics!FlagAfterClear,
         Session!FlagAfterClear
<1>3. Analytics!SubmitFrame => Session!SubmitFrame
  BY DEF Analytics!SubmitFrame, Session!SubmitFrame, Analytics!Accepts,
         Session!Accepts, Analytics!activationVars, Session!activationVars,
         Analytics!slotVars, Session!slotVars
<1>4. Analytics!TakeLatestResult => Session!TakeLatestResult
  BY DEF Analytics!TakeLatestResult, Session!TakeLatestResult, Analytics!Accepts,
         Session!Accepts, Analytics!activationVars, Session!activationVars,
         Analytics!ResultAfterTake, Session!ResultAfterTake
<1>5. Analytics!EmitEnabledChanged => Session!EmitEnabledChanged
  BY DEF Analytics!EmitEnabledChanged, Session!EmitEnabledChanged,
         Analytics!activationVars, Session!activationVars,
         Analytics!mailboxVars, Session!mailboxVars
<1> QED
  BY <1>1, <1>2, <1>3, <1>4, <1>5

LEMMA SameClosures ==
  /\ Analytics!DeliverResult => Session!DeliverResult
  /\ Analytics!DeliverFailure => Session!DeliverFailure
  /\ Analytics!ConfirmFailure => Session!ConfirmFailure
<1> USE DEF Analytics!None, Session!None, Analytics!Callable, Session!Callable,
            Analytics!workerVars, Session!workerVars,
            Analytics!historyVars, Session!historyVars,
            Analytics!activationVars, Session!activationVars,
            Analytics!mailboxVars, Session!mailboxVars,
            Analytics!Dequeue, Session!Dequeue,
            Analytics!StillFailed, Session!StillFailed
<1>1. Analytics!DeliverResult => Session!DeliverResult
  BY DEF Analytics!DeliverResult, Session!DeliverResult,
         Analytics!FlagAfterAcknowledge, Session!FlagAfterAcknowledge
<1>2. Analytics!DeliverFailure => Session!DeliverFailure
  BY DEF Analytics!DeliverFailure, Session!DeliverFailure
<1>3. Analytics!ConfirmFailure => Session!ConfirmFailure
  BY DEF Analytics!ConfirmFailure, Session!ConfirmFailure,
         Analytics!ConfirmedFailed, Session!ConfirmedFailed
<1> QED
  BY <1>1, <1>2, <1>3

LEMMA SameWorker == Analytics!Worker => Session!Worker
<1> USE DEF Analytics!None, Session!None, Analytics!Accepts, Session!Accepts,
            Analytics!StopRequested, Session!StopRequested,
            Analytics!activationVars, Session!activationVars,
            Analytics!mailboxVars, Session!mailboxVars,
            Analytics!slotVars, Session!slotVars,
            Analytics!historyVars, Session!historyVars
<1>1. Analytics!WaitAndTake => Session!WaitAndTake
  BY DEF Analytics!WaitAndTake, Session!WaitAndTake, Analytics!StopEndsWait,
         Session!StopEndsWait
<1>2. Analytics!CheckItem => Session!CheckItem
  BY DEF Analytics!CheckItem, Session!CheckItem
<1>3. Analytics!LoadDetector => Session!LoadDetector
  BY DEF Analytics!LoadDetector, Session!LoadDetector
<1>4. Analytics!RecheckItem => Session!RecheckItem
  BY DEF Analytics!RecheckItem, Session!RecheckItem
<1>5. Analytics!Detect => Session!Detect
  BY DEF Analytics!Detect, Session!Detect
<1>6. Analytics!CheckStop => Session!CheckStop
  BY DEF Analytics!CheckStop, Session!CheckStop
<1>7. Analytics!PublishResult => Session!PublishResult
  BY DEF Analytics!PublishResult, Session!PublishResult, Analytics!ResultClosure,
         Session!ResultClosure
<1>8. Analytics!ReportFailure => Session!ReportFailure
  BY DEF Analytics!ReportFailure, Session!ReportFailure, Analytics!FailureClosure,
         Session!FailureClosure, Analytics!FlagAfterClear, Session!FlagAfterClear
<1> QED
  BY <1>1, <1>2, <1>3, <1>4, <1>5, <1>6, <1>7, <1>8
     DEF Analytics!Worker, Session!Worker

LEMMA SameNext == [Analytics!Next]_(Analytics!vars) => [Session!Next]_(Session!vars)
<1> USE DEF Analytics!None, Session!None, Analytics!Callable, Session!Callable,
            Analytics!activationVars, Session!activationVars,
            Analytics!mailboxVars, Session!mailboxVars,
            Analytics!slotVars, Session!slotVars,
            Analytics!workerVars, Session!workerVars,
            Analytics!historyVars, Session!historyVars
<1>1. Analytics!BeginDestroy => Session!BeginDestroy
  BY DEF Analytics!BeginDestroy, Session!BeginDestroy
<1>2. Analytics!EndDestroy => Session!EndDestroy
  BY DEF Analytics!EndDestroy, Session!EndDestroy
<1>3. Analytics!vars = Session!vars
  BY DEF Analytics!vars, Session!vars
<1>4. UNCHANGED Analytics!vars => UNCHANGED Session!vars
  BY DEF Analytics!vars, Session!vars
<1>5. Analytics!Over => Session!Over
  BY DEF Analytics!Over, Session!Over, Analytics!vars, Session!vars
<1>6. Analytics!Gui => Session!Gui
  BY <1>1, <1>2, SameCalls, SameClosures DEF Analytics!Gui, Session!Gui
<1> QED
  BY <1>4, <1>5, <1>6, SameWorker DEF Analytics!Next, Session!Next

LEMMA SameSpec == Analytics!Spec => Session!Spec
BY SameInit, SameNext, PTL DEF Analytics!Spec, Session!Spec

\* Every step of the overlay is one of its session or leaves it alone.
LEMMA SessionStep == [Next]_vars => [Analytics!Next]_(Analytics!vars)
<1> SUFFICES ASSUME [Next]_vars PROVE [Analytics!Next]_(Analytics!vars)
  OBVIOUS
<1> USE DEF Analytics!Next, Analytics!Gui
<1>1. CASE UNCHANGED analyticsVars
  BY <1>1 DEF analyticsVars, Analytics!vars
<1>2. CASE TickWithoutStream \/ TickDetached \/ TickAttach
  BY <1>2 DEF TickWithoutStream, TickDetached, TickAttach
<1>3. CASE TickSubmit
  BY <1>1, <1>3 DEF TickSubmit
<1>4. CASE ShowResult \/ ReportError \/ Deliver \/ Emit \/ Detect
  BY <1>4 DEF ShowResult, ReportError, Deliver, Emit, Detect
<1>5. CASE \/ StartStream \/ StopStream \/ StateChanged \/ PublishFrame \/ RemoveCamera
           \/ Elapse \/ TickAttached \/ UNCHANGED vars
  BY <1>1, <1>5 DEF StartStream, StopStream, StateChanged, PublishFrame, RemoveCamera,
                    Elapse, TickAttached, vars
<1> QED
  BY <1>2, <1>3, <1>4, <1>5 DEF Next, Tick

\* The overlay uses its analytics session only as the session's own
\* specification allows, so whatever holds of a session holds of this one.
THEOREM OverlayDrivesSession == Spec => Analytics!Spec
<1>1. Init => Analytics!Init
  BY DEF Init
<1> QED
  BY <1>1, SessionStep, PTL DEF Spec, Analytics!Spec

\* What the overlay needs to know of its session.
SessionInv ==
  /\ Analytics!TypeOK
  /\ \A id \in {pending, latest} :
       id # None => /\ enabled /\ id.run = streamRunId /\ id.generation = generation
                    /\ id.revision # 0
  /\ latest # None => \A i \in 1 .. Len(taken) : taken[i] < latest.revision

LEMMA SessionInvariant == Spec => []SessionInv
<1>1. Session!Spec => [](Session!TypeInv /\ Session!MailboxesCurrent /\ Session!RevInv)
  <2>1. Session!Spec => []Session!TypeInv
    BY OverlayAssumption, Session!AnalyticsAssumption, Session!TypeInvariant
       DEF Session!TypeInvariant
  <2>2. Session!Spec => []Session!MailboxesCurrent
    BY OverlayAssumption, Session!AnalyticsAssumption,
       Session!NothingOutlivesItsActivation
       DEF Session!NothingOutlivesItsActivation
  <2>3. Session!Spec => [](Session!RevInv /\ Session!ResultsInOrder)
    BY OverlayAssumption, Session!AnalyticsAssumption, Session!RevInvariant
       DEF Session!RevInvariant
  <2> QED
    BY <2>1, <2>2, <2>3, PTL
<1>2. Session!TypeInv /\ Session!MailboxesCurrent /\ Session!RevInv => SessionInv
  <2> SUFFICES ASSUME Session!TypeInv, Session!MailboxesCurrent, Session!RevInv
               PROVE  SessionInv
    OBVIOUS
  <2>1. None = Session!None
    BY DEF None, Analytics!None, Session!None
  <2>2. Analytics!TypeOK
    BY DEF Session!TypeInv, Session!TypeOK, Analytics!TypeOK, Session!Identity,
           Analytics!Identity, Session!Closure, Analytics!Closure, Session!WorkerPc,
           Analytics!WorkerPc
  <2>3. \A id \in {pending, latest} :
          id # None => /\ enabled /\ id.run = streamRunId /\ id.generation = generation
                       /\ id.revision # 0
    BY <2>1 DEF Session!TypeInv, Session!ProperInv, Session!Proper,
                Session!MailboxesCurrent
  <2>4. latest # None => \A i \in 1 .. Len(taken) : taken[i] < latest.revision
    BY <2>3 DEF Session!RevInv, Session!Untaken
  <2> QED
    BY <2>2, <2>3, <2>4 DEF SessionInv
<1> QED
  BY <1>1, <1>2, OverlayDrivesSession, SameSpec, PTL

\* The overlay's session is one of AnalyticsView, too: its calls from the timer and
\* the slots are calls that an owner may make, and it gets what an owner is promised.
THEOREM OverlaySeesAnalyticsView == Spec => Session!Owner!Spec
<1>1. Session!Spec => Session!Owner!Spec
  BY OverlayAssumption, Session!AnalyticsAssumption,
     Session!SessionImplementsAnalyticsView
  DEF Session!SessionImplementsAnalyticsView
<1> QED
  BY <1>1, OverlayDrivesSession, SameSpec, PTL

-----------------------------------------------------------------------------
(* The overlay's invariant.                                                *)

\* The types of what AnalyticsOverlay adds to its session.
OverlayTypes ==
  /\ stream \in BOOLEAN
  /\ run \in 0 .. MaxRun
  /\ stopped \in BOOLEAN
  /\ connected \in BOOLEAN
  /\ snapshot \in Snapshot
  /\ shown \in Analytics!Identity
  /\ state \in OverlayState
  /\ timer \in BOOLEAN
  /\ turn \in {"idle", "submit"}
  /\ age \in [1 .. MaxRevision -> Age]

\* An activation is the overlay's: it is of a run, the timer tends it, and no
\* slot is running in the middle of the timer's callback.
ActivationInv ==
  /\ ActivationKnown
  /\ enabled => timer /\ streamRunId # 0
  /\ slot # "none" => turn = "idle"

\* What is shown has been taken from the session, so later results are newer.
ShownInv ==
  /\ ShownIsTended
  /\ shown # None => \E i \in 1 .. Len(taken) : taken[i] = shown.revision

OverlayInv == OverlayTypes /\ ActivationInv /\ ShownInv /\ FailureIsFinal

LEMMA InitOverlayInv == Init => OverlayInv
<1> SUFFICES ASSUME Init PROVE OverlayInv
  OBVIOUS
<1> USE OverlayAssumption DEF Init, Analytics!Init, None
<1>1. OverlayTypes
  <2>1. 0 \in 0 .. MaxRun /\ 0 \in 0 .. MaxGeneration /\ 0 \in 0 .. MaxRevision
        /\ 0 \in Age
    BY DEF Age
  <2>2. snapshot \in Snapshot /\ state \in OverlayState
    BY <2>1 DEF Snapshot, OverlayState
  <2>3. shown \in Analytics!Identity
    BY <2>1 DEF Analytics!Identity, Analytics!None
  <2>4. age \in [1 .. MaxRevision -> Age]
    BY <2>1
  <2> QED
    BY <2>1, <2>2, <2>3, <2>4 DEF OverlayTypes
<1>2. ActivationInv
  BY DEF ActivationInv, ActivationKnown
<1>3. ShownInv
  BY DEF ShownInv, ShownIsTended
<1>4. FailureIsFinal
  BY DEF FailureIsFinal
<1> QED
  BY <1>1, <1>2, <1>3, <1>4 DEF OverlayInv

\* What the session does by itself never makes an activation.
SessionQuiet ==
  /\ UNCHANGED <<streamRunId, generation, taken>>
  /\ enabled' => enabled
  /\ pending' \in {pending, None}
  /\ enabled \/ latest' \in {latest, None}

LEMMA WorkerQuiet ==
  Analytics!Worker => SessionQuiet /\ slot' = slot
<1> USE DEF SessionQuiet, None, Analytics!None, Analytics!activationVars,
            Analytics!mailboxVars, Analytics!slotVars, Analytics!historyVars
<1>1. Analytics!WaitAndTake \/ Analytics!CheckItem \/ Analytics!LoadDetector
      => SessionQuiet /\ slot' = slot
  BY DEF Analytics!WaitAndTake, Analytics!CheckItem, Analytics!LoadDetector
<1>2. Analytics!RecheckItem \/ Analytics!Detect \/ Analytics!CheckStop
      => SessionQuiet /\ slot' = slot
  BY DEF Analytics!RecheckItem, Analytics!Detect, Analytics!CheckStop
<1>3. Analytics!PublishResult => SessionQuiet /\ slot' = slot
  BY DEF Analytics!PublishResult, Analytics!Accepts
<1>4. Analytics!ReportFailure => SessionQuiet /\ slot' = slot
  BY DEF Analytics!ReportFailure
<1> QED
  BY <1>1, <1>2, <1>3, <1>4 DEF Analytics!Worker

LEMMA ClosuresQuiet ==
  /\ Analytics!DeliverResult => SessionQuiet
  /\ Analytics!DeliverFailure => SessionQuiet
  /\ Analytics!EmitEnabledChanged => SessionQuiet /\ slot' = slot
  /\ Analytics!ConfirmFailure => SessionQuiet /\ slot' = "none"
BY DEF SessionQuiet, Analytics!activationVars, Analytics!mailboxVars,
       Analytics!slotVars, Analytics!historyVars, Analytics!DeliverResult,
       Analytics!DeliverFailure, Analytics!EmitEnabledChanged, Analytics!ConfirmFailure

\* Steps of the session alone, and any step in which nothing more happens.
LEMMA UnobservedStep ==
  ASSUME OverlayInv, Unobserved, SessionQuiet, SessionInv,
         slot' # "none" => turn = "idle"
  PROVE  OverlayInv'
<1> USE DEF OverlayInv, Unobserved, SessionQuiet, streamVars, overlayVars
<1>1. OverlayTypes'
  BY DEF OverlayTypes
<1>2. ActivationInv'
  BY DEF ActivationInv, ActivationKnown
<1>3. ShownInv'
  BY DEF ShownInv, ShownIsTended
<1>4. FailureIsFinal'
  BY DEF FailureIsFinal, None, Analytics!None
<1> QED
  BY <1>1, <1>2, <1>3, <1>4

\* The stream and its worker: detections go when the connection does.
LEMMA StreamStep ==
  ASSUME OverlayInv,
         StartStream \/ StopStream \/ StateChanged \/ PublishFrame \/ RemoveCamera
  PROVE  OverlayInv'
<1> USE DEF OverlayInv, streamVars, overlayVars, analyticsVars
<1>1. OverlayTypes'
  <2> USE OverlayAssumption DEF OverlayTypes
  <2>n. None \in Analytics!Identity
    BY DEF None, Analytics!None, Analytics!Identity
  <2>1. CASE StartStream
    <3>1. run' \in 0 .. MaxRun
      BY <2>1 DEF StartStream
    <3> QED
      BY <2>1, <3>1 DEF StartStream
  <2>2. CASE StopStream
    BY <2>2 DEF StopStream
  <2>3. CASE StateChanged
    <3>1. connected' \in BOOLEAN
      BY <2>3 DEF StateChanged
    <3>2. shown' \in Analytics!Identity
      BY <2>3, <2>n DEF StateChanged, ShownInState
    <3> QED
      BY <2>3, <3>1, <3>2 DEF StateChanged
  <2>4. CASE PublishFrame
    <3>1. PICK r \in 1 .. run : snapshot' = [run |-> r, age |-> 0, seen |-> FALSE]
      BY <2>4 DEF PublishFrame
    <3>2. r \in 0 .. MaxRun /\ 0 \in Age
      BY DEF Age
    <3>3. snapshot' \in Snapshot
      BY <3>1, <3>2 DEF Snapshot
    <3> QED
      BY <2>4, <3>3 DEF PublishFrame
  <2>5. CASE RemoveCamera
    BY <2>5, <2>n DEF RemoveCamera
  <2> QED
    BY <2>1, <2>2, <2>3, <2>4, <2>5
<1>2. UNCHANGED analyticsVars /\ UNCHANGED overlayVars
  BY DEF StartStream, StopStream, StateChanged, PublishFrame, RemoveCamera
<1>3. ActivationInv'
  BY <1>2 DEF ActivationInv, ActivationKnown
<1>4. ShownInv'
  <2>1. \/ shown' = shown /\ stream' = stream /\ connected' = connected
        \/ shown' = shown /\ stream' = stream /\ connected'
        \/ shown' = None
    BY DEF StartStream, StopStream, StateChanged, ShownInState, PublishFrame,
           RemoveCamera
  <2> QED
    BY <1>2, <2>1 DEF ShownInv, ShownIsTended, None, Analytics!None
<1>5. FailureIsFinal'
  <2>1. shown' \in {shown, None}
    BY DEF StartStream, StopStream, StateChanged, ShownInState, PublishFrame,
           RemoveCamera
  <2> QED
    BY <1>2, <2>1 DEF FailureIsFinal, None, Analytics!None
<1> QED
  BY <1>1, <1>3, <1>4, <1>5

LEMMA ElapseStep ==
  ASSUME OverlayInv, Elapse
  PROVE  OverlayInv'
<1> USE DEF OverlayInv, streamVars, overlayVars, analyticsVars
<1>1. \A a \in Age : Older(a) \in Age
  BY OverlayAssumption DEF Age, Older
<1>2. OverlayTypes'
  <2>1. snapshot' \in Snapshot
    <3>1. snapshot' = [run |-> snapshot.run, age |-> Older(snapshot.age),
                       seen |-> snapshot.seen]
      BY DEF Elapse, OverlayTypes, Snapshot
    <3> QED
      BY <1>1, <3>1 DEF OverlayTypes, Snapshot
  <2>2. age' \in [1 .. MaxRevision -> Age]
    <3>1. 0 \in Age
      BY OverlayAssumption DEF Age
    <3>2. \A r \in 1 .. MaxRevision :
            (IF r <= revision THEN Older(age[r]) ELSE 0) \in Age
      BY <1>1, <3>1 DEF OverlayTypes
    <3> QED
      BY <3>2 DEF Elapse
  <2> QED
    BY <2>1, <2>2 DEF Elapse, OverlayTypes
<1>3. UNCHANGED <<analyticsVars, streamVars, shown, overlayVars>>
  BY DEF Elapse
<1>4. ActivationInv' /\ ShownInv' /\ FailureIsFinal'
  BY <1>3 DEF ActivationInv, ActivationKnown, ShownInv, ShownIsTended, FailureIsFinal,
              None, Analytics!None
<1> QED
  BY <1>2, <1>4

\* The timer's callback.
LEMMA TickStep ==
  ASSUME OverlayInv, SessionInv, SessionInv', Tick
  PROVE  OverlayInv'
<1> USE DEF OverlayInv, streamVars, overlayVars, analyticsVars
<1>1. None \in Analytics!Identity /\ 0 \in 0 .. MaxRun /\ 0 \in 0 .. MaxRevision
  BY OverlayAssumption DEF None, Analytics!None, Analytics!Identity
<1>2. snapshot.seen \in BOOLEAN
      /\ [snapshot EXCEPT !.seen = FALSE] \in Snapshot
  BY DEF OverlayTypes, Snapshot
<1>3. CASE TickWithoutStream
  <2>1. shown = None
    BY <1>3 DEF TickWithoutStream, ShownInv, ShownIsTended
  <2> QED
    BY <1>3, <2>1 DEF TickWithoutStream, Analytics!Disable, OverlayTypes, ActivationInv,
       ActivationKnown, ShownInv, ShownIsTended, FailureIsFinal, None, Analytics!None,
       Idle
<1>4. CASE TickDetached
  <2>1. OverlayTypes'
    <3>1. ForgetRun \in OverlayState
      BY <1>1 DEF ForgetRun, OverlayTypes, OverlayState
    <3> QED
      BY <1>1, <1>2, <1>4, <3>1 DEF TickDetached, OverlayTypes
  <2>2. ForgetRun.failed = state.failed
    BY DEF ForgetRun, OverlayTypes, OverlayState
  <2> QED
    BY <1>4, <2>1, <2>2 DEF TickDetached, Analytics!Disable, ActivationInv, Idle,
       ActivationKnown, ShownInv, ShownIsTended, FailureIsFinal, None, Analytics!None
<1>5. CASE TickAttach
  <2>1. generation' \in 0 .. MaxGeneration /\ ActiveRun \in 0 .. MaxRun
    BY <1>1 DEF SessionInv, Analytics!TypeOK, ActiveRun, OverlayTypes
  <2>2. state' = [runId |-> ActiveRun, generation |-> generation',
                  failed |-> state.failed, displayed |-> 0]
    BY <1>5 DEF TickAttach, OverlayTypes, OverlayState
  <2>3. OverlayTypes'
    <3>1. state' \in OverlayState
      BY <1>1, <2>1, <2>2 DEF OverlayTypes, OverlayState
    <3> QED
      BY <1>1, <1>2, <1>5, <3>1 DEF TickAttach, OverlayTypes
  <2>4. ActivationInv'
    BY <1>5, <2>1, <2>2 DEF TickAttach, Analytics!Enable, ActivationInv, ActivationKnown,
       Idle
  <2>5. ShownInv' /\ FailureIsFinal'
    BY <1>5, <2>2 DEF TickAttach, ShownInv, ShownIsTended, FailureIsFinal
  <2> QED
    BY <2>3, <2>4, <2>5
<1>6. CASE TickAttached
  <2>1. \/ shown' = None /\ state' = [state EXCEPT !.displayed = 0]
        \/ UNCHANGED <<shown, state>>
    BY <1>6 DEF TickAttached, ExpireDetections
  <2>2. state' \in OverlayState /\ state'.runId = state.runId
        /\ state'.generation = state.generation /\ state'.failed = state.failed
    BY <1>1, <2>1 DEF OverlayTypes, OverlayState
  <2>3. OverlayTypes'
    BY <1>1, <1>6, <2>1, <2>2 DEF TickAttached, OverlayTypes
  <2>4. ActivationInv'
    BY <1>6, <2>2 DEF TickAttached, ActivationInv, ActivationKnown, Idle
  <2>5. ShownInv' /\ FailureIsFinal'
    BY <1>6, <2>1, <2>2 DEF TickAttached, ShownInv, ShownIsTended, FailureIsFinal, None,
       Analytics!None
  <2> QED
    BY <2>3, <2>4, <2>5
<1> QED
  BY <1>3, <1>4, <1>5, <1>6 DEF Tick

LEMMA SubmitStep ==
  ASSUME OverlayInv, SessionInv, SessionInv', TickSubmit
  PROVE  OverlayInv'
<1> USE DEF OverlayInv, streamVars, analyticsVars
<1>1. CASE Analytics!SubmitFrame
  <2>1. /\ UNCHANGED <<enabled, streamRunId, generation, latest, taken, slot>>
        /\ enabled
    BY <1>1 DEF Analytics!SubmitFrame, Analytics!Accepts, Analytics!activationVars,
       Analytics!slotVars, Analytics!historyVars
  <2>2. /\ snapshot' \in Snapshot /\ age' \in [1 .. MaxRevision -> Age]
    <3>1. /\ \/ snapshot' = snapshot
             \/ snapshot' = [snapshot EXCEPT !.seen = TRUE]
          /\ \/ age' = age
             \/ age' = [age EXCEPT ![revision'] = snapshot.age]
      BY <1>1, <2>1 DEF TickSubmit
    <3> QED
      BY <3>1 DEF OverlayTypes, Snapshot
  <2>3. OverlayTypes'
    BY <2>2 DEF TickSubmit, OverlayTypes
  <2>4. ActivationInv' /\ ShownInv' /\ FailureIsFinal'
    BY <2>1 DEF TickSubmit, ActivationInv, ActivationKnown, ShownInv, ShownIsTended,
       FailureIsFinal
  <2> QED
    BY <2>3, <2>4
<1>2. CASE ~Analytics!SubmitFrame
  <2>1. UNCHANGED <<enabled, streamRunId, generation, pending, latest, taken, slot, age>>
        /\ (snapshot' = [snapshot EXCEPT !.seen = TRUE] \/ snapshot' = snapshot)
    BY <1>2 DEF TickSubmit
  <2>2. snapshot' \in Snapshot
    BY <2>1 DEF OverlayTypes, Snapshot
  <2>3. OverlayTypes'
    BY <2>1, <2>2 DEF TickSubmit, OverlayTypes
  <2>4. ActivationInv' /\ ShownInv' /\ FailureIsFinal'
    BY <2>1 DEF TickSubmit, ActivationInv, ActivationKnown, ShownInv, ShownIsTended,
       FailureIsFinal
  <2> QED
    BY <2>3, <2>4
<1> QED
  BY <1>1, <1>2

\* The slot of resultAvailable shows what it has taken, or leaves things alone.
LEMMA ShowStep ==
  ASSUME OverlayInv, SessionInv, SessionInv', ShowResult
  PROVE  OverlayInv'
<1> USE DEF OverlayInv, streamVars
<1>1. /\ UNCHANGED <<enabled, streamRunId, generation, pending>>
      /\ latest' = None /\ slot' = "none"
      /\ taken' = IF latest # None /\ Analytics!Accepts(latest)
                  THEN Append(taken, latest.revision) ELSE taken
  BY DEF ShowResult, Analytics!TakeLatestResult, Analytics!ResultAfterTake,
     Analytics!activationVars, None
<1>2. CASE latest # None /\ Analytics!Accepts(latest) /\ Showable(latest)
  <2>1. /\ latest \in Analytics!Identity
        /\ enabled /\ latest.revision # 0
        /\ taken \in Seq(1 .. MaxRevision)
    BY <1>2 DEF SessionInv, Analytics!TypeOK
  <2>2. latest.revision \in 1 .. MaxRevision
    BY <2>1, OverlayAssumption DEF Analytics!Identity
  <2>3. /\ shown' = latest
        /\ state' = [state EXCEPT !.displayed = latest.revision]
    BY <1>2 DEF ShowResult, DisplayedSince
  <2>4. /\ state' \in OverlayState
        /\ state'.runId = state.runId /\ state'.generation = state.generation
        /\ state'.failed = state.failed /\ state'.displayed = latest.revision
    BY <2>2, <2>3 DEF OverlayTypes, OverlayState
  <2>5. OverlayTypes'
    BY <2>1, <2>3, <2>4 DEF ShowResult, OverlayTypes
  <2>6. ActivationInv'
    BY <1>1, <2>4 DEF ShowResult, ActivationInv, ActivationKnown
  <2>7. ShownInv'
    <3>1. stream /\ connected /\ timer
      BY <1>2, <2>1 DEF Showable, ActivationInv
    <3>2. \E i \in 1 .. Len(taken') : taken'[i] = latest.revision
      <4>1. taken' = Append(taken, latest.revision)
        BY <1>1, <1>2
      <4> QED
        BY <2>1, <2>2, <4>1
    <3> QED
      BY <2>3, <2>4, <3>1, <3>2 DEF ShowResult, ShownInv, ShownIsTended
  <2>8. FailureIsFinal'
    BY <2>1, <2>4 DEF FailureIsFinal
  <2> QED
    BY <2>5, <2>6, <2>7, <2>8
<1>3. CASE ~(latest # None /\ Analytics!Accepts(latest) /\ Showable(latest))
  <2>1. UNCHANGED <<shown, state>>
    BY <1>3 DEF ShowResult
  <2>2. OverlayTypes' /\ ActivationInv' /\ FailureIsFinal'
    BY <1>1, <2>1 DEF ShowResult, OverlayTypes, ActivationInv, ActivationKnown,
       FailureIsFinal
  <2>3. ShownInv'
    <3>1. shown # None => \E i \in 1 .. Len(taken') : taken'[i] = shown.revision
      <4>1. SUFFICES ASSUME NEW i \in 1 .. Len(taken), taken[i] = shown.revision
                     PROVE  \E j \in 1 .. Len(taken') : taken'[j] = shown.revision
        BY DEF ShownInv
      <4>2. taken \in Seq(1 .. MaxRevision)
        BY DEF SessionInv, Analytics!TypeOK
      <4>3. CASE latest # None /\ Analytics!Accepts(latest)
        <5>1. latest \in Analytics!Identity /\ latest.revision # 0
          BY <4>3 DEF SessionInv, Analytics!TypeOK
        <5>2. latest.revision \in 1 .. MaxRevision
          BY <5>1, OverlayAssumption DEF Analytics!Identity
        <5>3. taken' = Append(taken, latest.revision)
          BY <1>1, <4>3
        <5>4. i \in 1 .. Len(taken') /\ taken'[i] = taken[i]
          BY <4>2, <5>2, <5>3
        <5> QED
          BY <4>1, <5>4
      <4>4. CASE ~(latest # None /\ Analytics!Accepts(latest))
        BY <1>1, <4>1, <4>4
      <4> QED
        BY <4>3, <4>4
    <3> QED
      BY <2>1, <3>1 DEF ShowResult, ShownInv, ShownIsTended
  <2> QED
    BY <2>2, <2>3
<1> QED
  BY <1>2, <1>3

\* The slot of errorOccurred.
LEMMA ErrorStep ==
  ASSUME OverlayInv, SessionInv, ReportError
  PROVE  OverlayInv'
<1> USE DEF OverlayInv, streamVars
<1>1. /\ UNCHANGED <<enabled, streamRunId, generation, pending, latest, taken>>
      /\ slot' = "none"
  BY DEF ReportError, Analytics!ConfirmFailure, Analytics!activationVars,
     Analytics!mailboxVars
<1>2. CASE errors' # errors
  <2>1. ~enabled
    BY <1>2 DEF ReportError, Analytics!ConfirmFailure, Analytics!ConfirmedFailed,
       Analytics!StillFailed
  <2>2. pending = None /\ latest = None
    BY <2>1 DEF SessionInv
  <2>3. shown' = None /\ ~timer' /\ state' = [state EXCEPT !.failed = TRUE]
    BY <1>2 DEF ReportError, StopOnError
  <2>4. None \in Analytics!Identity
    BY OverlayAssumption DEF None, Analytics!None, Analytics!Identity
  <2>5. state' \in OverlayState
    BY <2>3 DEF OverlayTypes, OverlayState
  <2>6. OverlayTypes'
    BY <2>3, <2>4, <2>5, <1>2 DEF ReportError, StopOnError, OverlayTypes
  <2>7. ActivationInv' /\ ShownInv' /\ FailureIsFinal'
    BY <1>1, <2>1, <2>2, <2>3 DEF ActivationInv, ActivationKnown, ShownInv,
       ShownIsTended, FailureIsFinal, None, Analytics!None
  <2> QED
    BY <2>6, <2>7
<1>3. CASE errors' = errors
  <2>1. UNCHANGED <<streamVars, snapshot, shown, state, timer, turn, age>>
    BY <1>3 DEF ReportError
  <2> QED
    BY <1>1, <2>1 DEF OverlayTypes, ActivationInv, ActivationKnown, ShownInv,
       ShownIsTended, FailureIsFinal, None, Analytics!None
<1> QED
  BY <1>2, <1>3

LEMMA StepOverlayInv ==
  ASSUME OverlayInv, SessionInv, SessionInv', [Next]_vars
  PROVE  OverlayInv'
<1>1. CASE Deliver \/ Emit \/ Detect
  <2>1. SessionQuiet /\ Unobserved
    BY <1>1, WorkerQuiet, ClosuresQuiet DEF Deliver, Emit, Detect
  <2>2. slot' # "none" => turn = "idle"
    BY <1>1, WorkerQuiet, ClosuresQuiet DEF Deliver, Emit, Detect, OverlayInv,
       ActivationInv
  <2> QED
    BY <2>1, <2>2, UnobservedStep
<1>2. CASE UNCHANGED vars
  <2>1. SessionQuiet /\ Unobserved /\ slot' = slot
    BY <1>2 DEF vars, analyticsVars, SessionQuiet, Unobserved
  <2> QED
    BY <2>1, UnobservedStep DEF OverlayInv, ActivationInv
<1> QED
  BY <1>1, <1>2, StreamStep, ElapseStep, TickStep, SubmitStep, ShowStep, ErrorStep
     DEF Next

LEMMA OverlayInvariant == Spec => [](OverlayInv /\ SessionInv)
<1>1. Init => OverlayInv
  BY InitOverlayInv
<1>2. OverlayInv /\ SessionInv /\ SessionInv' /\ [Next]_vars => OverlayInv'
  BY StepOverlayInv
<1> QED
  BY <1>1, <1>2, SessionInvariant, PTL DEF Spec

-----------------------------------------------------------------------------
(* The properties.                                                         *)

\* Every variable keeps its type, those of the session included.
THEOREM TypeCorrect == Spec => []TypeOK
<1>1. OverlayInv /\ SessionInv => TypeOK
  BY DEF OverlayInv, OverlayTypes, SessionInv, TypeOK
<1> QED
  BY <1>1, OverlayInvariant, PTL

\* attachAnalyticsOverlay: whenever detections are on the screen, the camera is
\* connected and the timer runs that will take them away.
THEOREM DetectionsAreTended == Spec => []ShownIsTended
<1>1. OverlayInv => ShownIsTended
  BY DEF OverlayInv, ShownInv
<1> QED
  BY <1>1, OverlayInvariant, PTL

\* The activation in force is the one the overlay compares results with.
THEOREM ActivationIsKnown == Spec => []ActivationKnown
<1>1. OverlayInv => ActivationKnown
  BY DEF OverlayInv, ActivationInv
<1> QED
  BY <1>1, OverlayInvariant, PTL

\* After errorOccurred the overlay never shows or submits anything again.
THEOREM FailureStays == Spec => []FailureIsFinal
<1>1. OverlayInv => FailureIsFinal
  BY DEF OverlayInv
<1> QED
  BY <1>1, OverlayInvariant, PTL

\* Whatever appears on the screen is of the run now streaming, young, and newer
\* than what it replaces.
THEOREM FreshResultsOnly == Spec => OnlyFreshShown
<1> DEFINE Fresh ==
      shown' \notin {shown, None} =>
       /\ connected
       /\ shown'.run = run /\ ~stopped
       /\ age[shown'.revision] <= Expiry
       /\ shown = None \/ shown'.revision > shown.revision
<1>1. OverlayInv /\ SessionInv /\ [Next]_vars => [Fresh]_vars
  <2> SUFFICES ASSUME OverlayInv, SessionInv, [Next]_vars, shown' \notin {shown, None}
               PROVE  Fresh
    OBVIOUS
  <2>1. ShowResult
    BY DEF Next, StartStream, StopStream, StateChanged, ShownInState, PublishFrame,
       RemoveCamera, Elapse, Tick, TickWithoutStream, TickDetached, TickAttach,
       TickAttached, ExpireDetections, TickSubmit, ReportError, StopOnError, Deliver,
       Emit, Detect, Unobserved, vars
  <2>2. shown' = latest /\ latest # None /\ Showable(latest)
    BY <2>1 DEF ShowResult
  <2>3. /\ enabled /\ latest.run = streamRunId /\ streamRunId # 0
        /\ latest \in Analytics!Identity
        /\ \A i \in 1 .. Len(taken) : taken[i] < latest.revision
    BY <2>2 DEF SessionInv, OverlayInv, ActivationInv, Analytics!TypeOK
  <2>4. latest.run = run /\ ~stopped
    BY <2>2, <2>3 DEF Showable, ActiveRun
  <2>5. shown = None \/ latest.revision > shown.revision
    <3>1. CASE shown # None
      <4>1. PICK i \in 1 .. Len(taken) : taken[i] = shown.revision
        BY <3>1 DEF OverlayInv, ShownInv
      <4>2. shown.revision < latest.revision
        BY <2>3, <4>1
      <4>3. shown.revision \in Int /\ latest.revision \in Int
        BY <2>3 DEF OverlayInv, OverlayTypes, Analytics!Identity
      <4> QED
        BY <4>2, <4>3
    <3> QED
      BY <3>1
  <2> QED
    BY <2>2, <2>4, <2>5 DEF Showable
<1> QED
  BY <1>1, OverlayInvariant, PTL DEF Spec, OnlyFreshShown

=============================================================================
