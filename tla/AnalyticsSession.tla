--------------------------- MODULE AnalyticsSession ---------------------------
(***************************************************************************)
(* AnalyticsSession: the object on the GUI thread, its detector thread,    *)
(* the frame mailbox and the result mailbox between them, and the closures *)
(* the detector thread queues on the GUI thread.                           *)
(*                                                                         *)
(* A frame and a result are only the identity they carry. The owner of the *)
(* session may call it in any order, also from the slots of its signals:   *)
(* "A connected slot could destroy the session", or enable it again.       *)
(***************************************************************************)
EXTENDS Integers, Sequences

CONSTANTS
  MaxGeneration,  \* the largest m_generation; enable() throws at this limit
  MaxRun,         \* bound: run ids given to enable()
  MaxRevision     \* bound: frames submitted to one session

ASSUME AnalyticsAssumption ==
  /\ MaxGeneration \in Nat \ {0}
  /\ MaxRun \in Nat \ {0}
  /\ MaxRevision \in Nat \ {0}

\* AnalyticsFrameIdentity. Revision 0 belongs to no frame: an empty optional.
Identity == [run : 0 .. MaxRun, generation : 0 .. MaxGeneration,
             revision : 0 .. MaxRevision]
None == [run |-> 0, generation |-> 0, revision |-> 0]

\* The closures queued on the GUI thread; a failure captures its identity.
Closure == [kind : {"result", "failure"}, identity : Identity]
ResultClosure == [kind |-> "result", identity |-> None]
FailureClosure(id) == [kind |-> "failure", identity |-> id]

\* Where the detector thread is in run().
WorkerPc == {"wait", "check", "load", "recheck", "detect", "detected",
             "publish", "fail", "stopped"}

VARIABLES
  life,                \* "alive", "destroying" (in ~AnalyticsSession), "gone"
  enabled,             \* m_enabled
  streamRunId,         \* m_streamRunId
  generation,          \* m_generation
  pending,             \* AnalyticsFrameMailbox::m_pending
  latest,              \* AnalyticsResultMailbox::m_latest
  notificationPending, \* AnalyticsResultMailbox::m_notificationPending
  closures,            \* closures queued on the GUI thread
  slot,                \* the closure whose slots run: "none", "result", "failure"
  failed,              \* the identity captured by the failure being reported
  owed,                \* enable() or disable() has yet to emit enabledChanged
  view,                \* what an observer of enabledChanged last read
  wpc,                 \* where the detector thread is
  item,                \* the frame, then the result, it works on
  detector,            \* it holds a detector
  revision,            \* frames accepted so far
  taken,               \* history: revisions given out by takeLatestResult()
  errors               \* history: generations told of by errorOccurred

activationVars == <<enabled, streamRunId, generation>>
mailboxVars == <<pending, latest, notificationPending>>
slotVars == <<slot, failed, owed, view>>
workerVars == <<item, detector>>
historyVars == <<taken, errors>>
vars == <<life, enabled, streamRunId, generation, pending, latest,
          notificationPending, closures, slot, failed, owed, view, wpc, item,
          detector, revision, taken, errors>>

Init ==
  /\ life = "alive"
  /\ enabled = FALSE
  /\ streamRunId = 0
  /\ generation = 0
  /\ pending = None
  /\ latest = None
  /\ notificationPending = FALSE
  /\ closures = <<>>
  /\ slot = "none"
  /\ failed = None
  /\ owed = FALSE
  /\ view = FALSE
  /\ wpc = "wait"
  /\ item = None
  /\ detector = FALSE
  /\ revision = 0
  /\ taken = <<>>
  /\ errors = <<>>

AcceptsRunOnly(id) == enabled /\ id.run = streamRunId  \* mutant

\* accepts(): the identity belongs to the activation in force.
Accepts(id) ==
  /\ enabled
  /\ id.run = streamRunId
  /\ id.generation = generation

-----------------------------------------------------------------------------
(* The GUI thread: the session's interface. The owner may call it between  *)
(* two closures and in the slots of one.                                   *)

Callable == life = "alive" /\ ~owed

KeptFlag == FALSE  \* mutant: clear() also forgets the queued notification

\* AnalyticsResultMailbox::clear() leaves m_notificationPending alone.
FlagAfterClear == notificationPending

ReusedGeneration == IF generation = 0 THEN 1 ELSE generation  \* mutant

NextGeneration == generation + 1

OneGenerationMore == generation <= MaxGeneration  \* mutant: off by one

\* enable() throws, before it changes anything, at the last generation.
GenerationLeft == generation < MaxGeneration

FirstActivation == generation = 0  \* mutant: only the first one is told of

\* enable() emits enabledChanged if it changed m_enabled.
ChangedByEnable == ~enabled

\* A new activation: whatever belongs to the one before is cleared.
Enable ==
  /\ Callable
  /\ GenerationLeft
  /\ generation' = NextGeneration
  /\ streamRunId' \in 1 .. MaxRun
  /\ enabled' = TRUE
  /\ pending' = None
  /\ latest' = None
  /\ notificationPending' = FlagAfterClear
  /\ owed' = ChangedByEnable
  /\ UNCHANGED <<life, closures, slot, failed, view, wpc, workerVars, revision,
                 historyVars>>

Disable ==
  /\ Callable
  /\ enabled' = FALSE
  /\ pending' = None
  /\ latest' = None
  /\ notificationPending' = FlagAfterClear
  /\ owed' = enabled
  /\ UNCHANGED <<life, streamRunId, generation, closures, slot, failed, view,
                 wpc, workerVars, revision, historyVars>>

\* The last lines of enable() and disable(), outside the lock. The slots read
\* isEnabled(); what they call is one of the next steps.
EmitEnabledChanged ==
  /\ life = "alive"
  /\ owed
  /\ owed' = FALSE
  /\ view' = enabled
  /\ UNCHANGED <<life, activationVars, mailboxVars, closures, slot, failed, wpc,
                 workerVars, revision, historyVars>>

\* submitFrame(): a frame of the current activation replaces the one waiting;
\* any other is refused. The owner's frames carry growing revisions.
SubmitFrame ==
  /\ Callable
  /\ revision < MaxRevision
  /\ revision' = revision + 1
  /\ \E r \in 1 .. MaxRun, g \in 1 .. generation :
       LET id == [run |-> r, generation |-> g, revision |-> revision + 1]
       IN  Accepts(id) /\ pending' = id
  /\ UNCHANGED <<life, activationVars, latest, notificationPending, closures,
                 slotVars, wpc, workerVars, historyVars>>

KeptAfterTake == latest  \* mutant: the result is copied, not taken

\* m_latest once takeLatest() has moved it out.
ResultAfterTake == None

\* takeLatestResult(), which the slot of resultAvailable calls; the owner may
\* call it at other times too.
TakeLatestResult ==
  /\ Callable
  /\ latest' = ResultAfterTake
  /\ taken' = IF latest # None /\ Accepts(latest)
              THEN Append(taken, latest.revision) ELSE taken
  /\ slot' = IF slot = "result" THEN "none" ELSE slot
  /\ UNCHANGED <<life, activationVars, pending, notificationPending, closures,
                 failed, owed, view, wpc, workerVars, revision, errors>>

\* ~AnalyticsSession: request_stop() ...
BeginDestroy ==
  /\ Callable
  /\ life' = "destroying"
  /\ UNCHANGED <<activationVars, mailboxVars, closures, slotVars, wpc, workerVars,
                 revision, historyVars>>

\* ... and join(). Closures that are still queued are discarded with the
\* object; one that is running finds its owner gone and returns.
EndDestroy ==
  /\ life = "destroying"
  /\ wpc = "stopped"
  /\ life' = "gone"
  /\ closures' = <<>>
  /\ slot' = "none"
  /\ failed' = None
  /\ UNCHANGED <<activationVars, mailboxVars, owed, view, wpc, workerVars,
                 revision, historyVars>>

-----------------------------------------------------------------------------
(* The GUI thread: the closures queued by the detector thread.             *)

\* The event loop runs the next closure of that kind.
Dequeue(kind) ==
  /\ Callable
  /\ slot = "none"
  /\ closures # <<>>
  /\ Head(closures).kind = kind
  /\ closures' = Tail(closures)

NeverAcknowledged == notificationPending  \* mutant: the flag stays set

\* m_notificationPending after acknowledgeNotification().
FlagAfterAcknowledge == FALSE

\* The result closure: announce a result if one is still there.
DeliverResult ==
  /\ Dequeue("result")
  /\ notificationPending' = FlagAfterAcknowledge
  /\ slot' = IF enabled /\ latest # None THEN "result" ELSE "none"
  /\ UNCHANGED <<life, activationVars, pending, latest, failed, owed, view, wpc,
                 workerVars, revision, historyVars>>

StillAccepted(id) == Accepts(id)  \* mutant: accepts() wants it enabled

\* A failure still concerns the activation that failed.
StillFailed(id) ==
  /\ id.run = streamRunId
  /\ id.generation = generation
  /\ ~enabled

\* The failure closure up to its enabledChanged, whose slots may run next.
DeliverFailure ==
  /\ Dequeue("failure")
  /\ LET id == Head(closures).identity IN
       \/ /\ StillFailed(id)
          /\ slot' = "failure"
          /\ failed' = id
          /\ view' = enabled
       \/ /\ ~StillFailed(id)
          /\ UNCHANGED <<slot, failed, view>>
  /\ UNCHANGED <<life, activationVars, mailboxVars, owed, wpc, workerVars,
                 revision, historyVars>>

CheckedOnce(id) == TRUE  \* mutant: the slots are trusted

\* The closure looks again once the slots of enabledChanged have run.
ConfirmedFailed(id) == StillFailed(id)

\* The rest of the failure closure: errorOccurred.
ConfirmFailure ==
  /\ Callable
  /\ slot = "failure"
  /\ slot' = "none"
  /\ failed' = None
  /\ errors' = IF ConfirmedFailed(failed) THEN Append(errors, failed.generation)
               ELSE errors
  /\ UNCHANGED <<life, activationVars, mailboxVars, closures, owed, view, wpc,
                 workerVars, revision, taken>>

-----------------------------------------------------------------------------
(* The detector thread.                                                    *)

StopRequested == life # "alive"

StopNotSeen == FALSE  \* mutant: waitAndTake waits without the stop token

\* What ends the wait for a frame besides a frame.
StopEndsWait == StopRequested

\* waitAndTake(): a stop comes before the frame that waits.
WaitAndTake ==
  /\ wpc = "wait"
  /\ \/ /\ StopEndsWait
        /\ wpc' = "stopped"
        /\ UNCHANGED <<pending, item>>
     \/ /\ ~StopEndsWait
        /\ pending # None
        /\ item' = pending
        /\ pending' = None
        /\ wpc' = "check"
  /\ UNCHANGED <<life, activationVars, latest, notificationPending, closures,
                 slotVars, detector, revision, historyVars>>

\* The frame may belong to an activation that is over by now.
CheckItem ==
  /\ wpc = "check"
  /\ \/ Accepts(item) /\ wpc' = "load" /\ UNCHANGED item
     \/ ~Accepts(item) /\ wpc' = "wait" /\ item' = None
  /\ UNCHANGED <<life, activationVars, mailboxVars, closures, slotVars, detector,
                 revision, historyVars>>

\* A thread without a detector makes one, or fails to; this may take long.
LoadDetector ==
  /\ wpc = "load"
  /\ \/ detector' = TRUE /\ wpc' = "recheck"
     \/ ~detector /\ detector' = FALSE /\ wpc' = "fail"
  /\ UNCHANGED <<life, activationVars, mailboxVars, closures, slotVars, item,
                 revision, historyVars>>

RecheckItem ==
  /\ wpc = "recheck"
  /\ \/ StopRequested /\ wpc' = "stopped" /\ item' = None
     \/ ~StopRequested /\ Accepts(item) /\ wpc' = "detect" /\ UNCHANGED item
     \/ ~StopRequested /\ ~Accepts(item) /\ wpc' = "wait" /\ item' = None
  /\ UNCHANGED <<life, activationVars, mailboxVars, closures, slotVars, detector,
                 revision, historyVars>>

\* processAnalyticsFrame() returns a result of the frame's identity or throws;
\* the catch blocks destroy the detector.
Detect ==
  /\ wpc = "detect"
  /\ \/ wpc' = "detected" /\ UNCHANGED detector
     \/ wpc' = "fail" /\ detector' = FALSE
  /\ UNCHANGED <<life, activationVars, mailboxVars, closures, slotVars, item,
                 revision, historyVars>>

CheckStop ==
  /\ wpc = "detected"
  /\ \/ StopRequested /\ wpc' = "stopped" /\ item' = None
     \/ ~StopRequested /\ wpc' = "publish" /\ UNCHANGED item
  /\ UNCHANGED <<life, activationVars, mailboxVars, closures, slotVars, detector,
                 revision, historyVars>>

\* publishResult(): one closure is queued for all the results it can announce.
PublishResult ==
  /\ wpc = "publish"
  /\ IF Accepts(item)
     THEN /\ latest' = item
          /\ notificationPending' = TRUE
          /\ closures' = IF notificationPending THEN closures
                         ELSE Append(closures, ResultClosure)
     ELSE UNCHANGED <<latest, notificationPending, closures>>
  /\ item' = None
  /\ wpc' = "wait"
  /\ UNCHANGED <<life, activationVars, pending, slotVars, detector, revision,
                 historyVars>>

\* reportFailure(): the activation ends here and now; the GUI is told later.
ReportFailure ==
  /\ wpc = "fail"
  /\ IF Accepts(item)
     THEN /\ enabled' = FALSE
          /\ pending' = None
          /\ latest' = None
          /\ notificationPending' = FlagAfterClear
          /\ closures' = Append(closures, FailureClosure(item))
     ELSE UNCHANGED <<enabled, mailboxVars, closures>>
  /\ item' = None
  /\ wpc' = "wait"
  /\ UNCHANGED <<life, streamRunId, generation, slotVars, detector, revision,
                 historyVars>>

-----------------------------------------------------------------------------
\* The owner is blocked in join(), or the session is gone. That join() returns
\* is DestructorReturns.
Over == life # "alive" /\ UNCHANGED vars

Gui ==
  \/ Enable \/ Disable \/ EmitEnabledChanged \/ SubmitFrame \/ TakeLatestResult
  \/ BeginDestroy \/ EndDestroy \/ DeliverResult \/ DeliverFailure \/ ConfirmFailure

Worker ==
  \/ WaitAndTake \/ CheckItem \/ LoadDetector \/ RecheckItem \/ Detect \/ CheckStop
  \/ PublishResult \/ ReportFailure

Next == Gui \/ Worker \/ Over

Spec == Init /\ [][Next]_vars

\* Both threads go on, a model loads and an inference ends; the slot of
\* resultAvailable calls takeLatestResult(). Nothing makes the owner call.
Fairness ==
  /\ WF_vars(DeliverResult \/ DeliverFailure)
  /\ WF_vars(slot = "result" /\ TakeLatestResult)
  /\ WF_vars(ConfirmFailure)
  /\ WF_vars(EmitEnabledChanged)
  /\ WF_vars(EndDestroy)
  /\ WF_vars(Worker)

FairSpec == Spec /\ Fairness

-----------------------------------------------------------------------------
(* Properties.                                                             *)

TypeOK ==
  /\ life \in {"alive", "destroying", "gone"}
  /\ enabled \in BOOLEAN
  /\ streamRunId \in 0 .. MaxRun
  /\ generation \in 0 .. MaxGeneration
  /\ pending \in Identity
  /\ latest \in Identity
  /\ notificationPending \in BOOLEAN
  /\ closures \in Seq(Closure)
  /\ slot \in {"none", "result", "failure"}
  /\ failed \in Identity
  /\ owed \in BOOLEAN
  /\ view \in BOOLEAN
  /\ wpc \in WorkerPc
  /\ item \in Identity
  /\ detector \in BOOLEAN
  /\ revision \in 0 .. MaxRevision
  /\ taken \in Seq(1 .. MaxRevision)
  /\ errors \in Seq(1 .. MaxGeneration)

\* Nothing in either mailbox outlives its activation, although the detector
\* thread may still work for an older one.
MailboxesCurrent ==
  \A id \in {pending, latest} :
    id # None => enabled /\ id.run = streamRunId /\ id.generation = generation

\* While the session lives, exactly one closure is queued when the flag says
\* so and none otherwise: no announcement is lost, none is doubled.
OneNotification ==
  life # "gone" =>
    /\ notificationPending <=> \E i \in 1 .. Len(closures) : closures[i].kind = "result"
    /\ \A i, j \in 1 .. Len(closures) :
         closures[i].kind = "result" /\ closures[j].kind = "result" => i = j

\* A result that waits will be announced, or is being taken.
ResultAnnounced ==
  life = "alive" /\ latest # None => notificationPending \/ slot = "result"

\* What waits in a mailbox is of the current activation, and a result that waits
\* is announced, and once.
MailboxesSound == MailboxesCurrent /\ OneNotification /\ ResultAnnounced

\* An observer of enabledChanged is right about isEnabled() whenever no signal
\* is under way, in spite of failures that race with enable() and disable().
EnabledViewSettles ==
  (/\ life = "alive" /\ ~owed
   /\ \A i \in 1 .. Len(closures) : closures[i].kind # "failure")
  => view = enabled

\* Results are given out in the order of their frames, none of them twice.
ResultsInOrder ==
  \A i, j \in 1 .. Len(taken) : i < j => taken[i] < taken[j]

\* Each activation reports at most one error, in the order of activations.
ErrorsInOrder ==
  \A i, j \in 1 .. Len(errors) : i < j => errors[i] < errors[j]

\* Both: the owner is told of results and errors in order, and never twice.
ReportsInOrder == ResultsInOrder /\ ErrorsInOrder

\* No error is reported of an activation that has been replaced, not even by a
\* slot of the enabledChanged that the error itself causes.
NoErrorAfterRestart ==
  [][errors' # errors =>
       /\ ~enabled
       /\ errors'[Len(errors')] = generation]_vars

\* The accepted frames on their way through the thread and the mailboxes, and
\* the activations whose failure is queued or being reported.
Working ==
  {id.revision : id \in {i \in {pending, item, latest} : i # None /\ Accepts(i)}}

Failing ==
  {closures[i].identity.generation :
     i \in {j \in 1 .. Len(closures) : closures[j].kind = "failure"}}
  \cup (IF slot = "failure" THEN {failed.generation} ELSE {})

Owner == INSTANCE AnalyticsView
           WITH MaxGeneration <- MaxGeneration, MaxRevision <- MaxRevision,
                life <- life, enabled <- enabled, generation <- generation,
                view <- view, revision <- revision, working <- Working,
                failing <- Failing, taken <- taken, errors <- errors

\* The session keeps the promises of AnalyticsView: of the frames accepted, only
\* for a newer one or a new activation does one give no result; each failure ends
\* the activation and is told unless that is replaced; and what the detector
\* thread finds out does not get lost on its way.
ImplementsAnalyticsView == Owner!FairSpec

\* ~AnalyticsSession returns: the detector thread sees the stop wherever it is.
DestructorReturns == (life = "destroying") ~> (life = "gone")

=============================================================================
