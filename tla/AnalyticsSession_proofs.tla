----------------------- MODULE AnalyticsSession_proofs -----------------------
(***************************************************************************)
(* Safety of AnalyticsSession for every number of activations, runs and    *)
(* frames.                                                                 *)
(***************************************************************************)
EXTENDS AnalyticsSession, SequenceTheorems, TLAPS

-----------------------------------------------------------------------------
(* Sequences: what adding at the end and removing at the front do.         *)

LEMMA Appended ==
  ASSUME NEW S, NEW q \in Seq(S), NEW x \in S
  PROVE  /\ Append(q, x) \in Seq(S)
         /\ Len(q) \in Nat
         /\ Len(Append(q, x)) = Len(q) + 1
         /\ \A i \in 1 .. Len(q) : i \in 1 .. Len(Append(q, x)) /\ Append(q, x)[i] = q[i]
         /\ Append(q, x)[Len(q) + 1] = x
         /\ \A i \in 1 .. Len(Append(q, x)) : i \in 1 .. Len(q) \/ i = Len(q) + 1
<1>1. /\ Append(q, x) \in Seq(S)
      /\ Len(Append(q, x)) = Len(q) + 1
      /\ \A i \in 1 .. Len(q) : Append(q, x)[i] = q[i]
      /\ Append(q, x)[Len(q) + 1] = x
  BY AppendProperties
<1>2. Len(q) \in Nat
  BY LenProperties
<1>3. QED
  BY <1>1, <1>2

LEMMA Dequeued ==
  ASSUME NEW S, NEW q \in Seq(S), q # <<>>
  PROVE  /\ Tail(q) \in Seq(S)
         /\ Head(q) \in S
         /\ 1 \in 1 .. Len(q) /\ Head(q) = q[1]
         /\ \A i \in 1 .. Len(Tail(q)) : i + 1 \in 1 .. Len(q) /\ Tail(q)[i] = q[i + 1]
         /\ \A i \in 1 .. Len(q) :
              i = 1 \/ (i - 1 \in 1 .. Len(Tail(q)) /\ q[i] = Tail(q)[i - 1])
<1>1. /\ Tail(q) \in Seq(S)
      /\ Head(q) \in S
      /\ Len(Tail(q)) = Len(q) - 1
      /\ \A i \in 1 .. Len(Tail(q)) : Tail(q)[i] = q[i + 1]
  BY HeadTailProperties
<1>2. Len(q) \in Nat /\ Len(q) # 0
  BY LenProperties, EmptySeq
<1>3. Head(q) = q[1]
  OBVIOUS
<1>4. \A i \in 1 .. Len(q) :
        i = 1 \/ (i - 1 \in 1 .. Len(Tail(q)) /\ q[i] = Tail(q)[i - 1])
  <2> SUFFICES ASSUME NEW i \in 1 .. Len(q), i # 1
               PROVE  i - 1 \in 1 .. Len(Tail(q)) /\ q[i] = Tail(q)[i - 1]
    OBVIOUS
  <2>1. i - 1 \in 1 .. Len(Tail(q)) /\ (i - 1) + 1 = i
    BY <1>1, <1>2
  <2>2. QED
    BY <1>1, <2>1
<1>5. QED
  BY <1>1, <1>2, <1>3, <1>4

-----------------------------------------------------------------------------
(* Types, and the identities that are at hand.                             *)

\* An identity is None or has a frame and an activation.
Proper(id) == id = None \/ (id.generation # 0 /\ id.revision # 0)

\* The identities of an announced failure are never None.
ProperInv ==
  /\ Proper(pending) /\ Proper(latest) /\ Proper(item)
  /\ wpc \notin {"wait", "stopped"} => item # None
  /\ slot = "failure" => failed.generation # 0
  /\ \A i \in 1 .. Len(closures) :
       closures[i].kind = "failure" => closures[i].identity.generation # 0

TypeInv == TypeOK /\ ProperInv

LEMMA InitTypeInv == Init => TypeInv
<1> SUFFICES ASSUME Init PROVE TypeInv
  OBVIOUS
<1>1. None \in Identity /\ Proper(None)
  BY AnalyticsAssumption DEF None, Identity, Proper
<1>2. TypeOK
  <2>1. closures \in Seq(Closure) /\ taken \in Seq(1 .. MaxRevision)
        /\ errors \in Seq(1 .. MaxGeneration)
    BY EmptySeq DEF Init
  <2>2. 0 \in 0 .. MaxRun /\ 0 \in 0 .. MaxGeneration /\ 0 \in 0 .. MaxRevision
    BY AnalyticsAssumption
  <2>3. QED
    BY <1>1, <2>1, <2>2 DEF Init, TypeOK, WorkerPc
<1>3. ProperInv
  BY <1>1 DEF Init, ProperInv
<1>4. QED
  BY <1>2, <1>3 DEF TypeInv

\* The steps that touch neither the closures nor the histories.
LEMMA LocalTypes ==
  ASSUME TypeInv, UNCHANGED <<closures, taken, errors>>,
         \/ Enable \/ Disable \/ EmitEnabledChanged \/ SubmitFrame \/ BeginDestroy
         \/ WaitAndTake \/ CheckItem \/ LoadDetector \/ RecheckItem \/ Detect
         \/ CheckStop \/ UNCHANGED vars
  PROVE  TypeInv'
<1> USE DEF TypeInv, TypeOK, ProperInv, activationVars, mailboxVars, slotVars,
            workerVars
<1>n. None \in Identity /\ Proper(None)
  BY AnalyticsAssumption DEF None, Identity, Proper
<1>p. Proper(pending)' = Proper(pending') /\ Proper(latest)' = Proper(latest')
      /\ Proper(item)' = Proper(item')
  BY DEF Proper, None
<1>1. CASE Enable
  <2>1. generation' \in 0 .. MaxGeneration /\ streamRunId' \in 0 .. MaxRun
    BY <1>1, AnalyticsAssumption DEF Enable, GenerationLeft, NextGeneration
  <2>2. owed' \in BOOLEAN /\ notificationPending' \in BOOLEAN
    BY <1>1 DEF Enable, ChangedByEnable, FlagAfterClear
  <2>3. QED
    BY <1>1, <1>n, <1>p, <2>1, <2>2 DEF Enable
<1>2. CASE Disable
  BY <1>2, <1>n, <1>p DEF Disable, FlagAfterClear
<1>3. CASE EmitEnabledChanged
  BY <1>3, <1>p DEF EmitEnabledChanged
<1>4. CASE SubmitFrame
  <2>1. PICK r \in 1 .. MaxRun, g \in 1 .. generation :
          pending' = [run |-> r, generation |-> g, revision |-> revision + 1]
    BY <1>4 DEF SubmitFrame
  <2>2. revision' \in 0 .. MaxRevision /\ revision' = revision + 1 /\ revision' # 0
    BY <1>4, AnalyticsAssumption DEF SubmitFrame
  <2>3. r \in 0 .. MaxRun /\ g \in 0 .. MaxGeneration /\ g # 0
    BY AnalyticsAssumption
  <2>4. pending' \in Identity
    BY <2>1, <2>2, <2>3 DEF Identity
  <2>5. Proper(pending')
    BY <2>1, <2>2, <2>3 DEF Proper
  <2>6. QED
    BY <1>4, <1>p, <2>2, <2>4, <2>5 DEF SubmitFrame
<1>5. CASE BeginDestroy
  BY <1>5, <1>p DEF BeginDestroy
<1>6. CASE WaitAndTake
  BY <1>6, <1>n, <1>p DEF WaitAndTake, WorkerPc
<1>7. CASE CheckItem
  BY <1>7, <1>n, <1>p DEF CheckItem, WorkerPc
<1>8. CASE LoadDetector
  BY <1>8, <1>p DEF LoadDetector, WorkerPc
<1>9. CASE RecheckItem
  BY <1>9, <1>n, <1>p DEF RecheckItem, WorkerPc
<1>10. CASE Detect
  BY <1>10, <1>p DEF Detect, WorkerPc
<1>11. CASE CheckStop
  BY <1>11, <1>n, <1>p DEF CheckStop, WorkerPc
<1>12. CASE UNCHANGED vars
  BY <1>12, <1>p DEF vars
<1>13. QED
  BY <1>1, <1>2, <1>3, <1>4, <1>5, <1>6, <1>7, <1>8, <1>9, <1>10, <1>11, <1>12

\* The steps that queue a closure.
LEMMA QueueingTypes ==
  ASSUME TypeInv, PublishResult \/ ReportFailure
  PROVE  TypeInv'
<1>1. closures \in Seq(Closure) /\ item \in Identity /\ Proper(item) /\ item # None
  BY DEF TypeInv, TypeOK, ProperInv, PublishResult, ReportFailure
<1>2. None \in Identity /\ Proper(None)
  BY AnalyticsAssumption DEF None, Identity, Proper
<1>3. ResultClosure \in Closure /\ FailureClosure(item) \in Closure
  BY <1>1, <1>2 DEF ResultClosure, FailureClosure, Closure
<1>4. /\ ResultClosure.kind = "result"
      /\ FailureClosure(item).kind = "failure"
      /\ FailureClosure(item).identity.generation # 0
  BY <1>1 DEF ResultClosure, FailureClosure, Proper
<1>5. closures' \in {closures, Append(closures, ResultClosure),
                    Append(closures, FailureClosure(item))}
  BY DEF PublishResult, ReportFailure
<1>6. /\ closures' \in Seq(Closure)
      /\ \A i \in 1 .. Len(closures') :
           closures'[i].kind = "failure" => closures'[i].identity.generation # 0
  <2>0. \A i \in 1 .. Len(closures) :
          closures[i].kind = "failure" => closures[i].identity.generation # 0
    BY DEF TypeInv, ProperInv
  <2>1. ASSUME NEW c \in {ResultClosure, FailureClosure(item)},
               closures' = Append(closures, c)
        PROVE  /\ closures' \in Seq(Closure)
               /\ \A i \in 1 .. Len(closures') :
                    closures'[i].kind = "failure" => closures'[i].identity.generation # 0
    BY <1>1, <1>3, <1>4, <2>0, <2>1, Appended
  <2>2. QED
    BY <1>1, <1>5, <2>0, <2>1
<1>7. Proper(pending') /\ Proper(latest') /\ Proper(item')
  BY <1>1, <1>2 DEF PublishResult, ReportFailure, TypeInv, ProperInv, mailboxVars
<1>8. /\ enabled' \in BOOLEAN
      /\ notificationPending' \in BOOLEAN
      /\ pending' \in Identity /\ latest' \in Identity /\ item' \in Identity
  BY <1>1, <1>2
  DEF PublishResult, ReportFailure, TypeInv, TypeOK, mailboxVars, activationVars,
      FlagAfterClear
<1>9. TypeOK'
  BY <1>6, <1>8
  DEF PublishResult, ReportFailure, TypeInv, TypeOK, activationVars, slotVars,
      historyVars, WorkerPc
<1>10. ProperInv'
  <2>1. wpc' = "wait" /\ slot' = slot /\ failed' = failed
    BY DEF PublishResult, ReportFailure, slotVars
  <2>2. (Proper(pending) /\ Proper(latest) /\ Proper(item))'
    BY <1>7 DEF Proper, None
  <2>3. QED
    BY <1>6, <2>1, <2>2 DEF TypeInv, ProperInv
<1>11. QED
  BY <1>9, <1>10 DEF TypeInv

\* The steps that run a closure, and the end of the session.
LEMMA DeliveryTypes ==
  ASSUME TypeInv, DeliverResult \/ DeliverFailure \/ EndDestroy
  PROVE  TypeInv'
<1>1. closures \in Seq(Closure)
  BY DEF TypeInv, TypeOK
<1>2. None \in Identity
  BY AnalyticsAssumption DEF None, Identity
<1>3. /\ closures' \in Seq(Closure)
      /\ \A i \in 1 .. Len(closures') :
           closures'[i].kind = "failure" => closures'[i].identity.generation # 0
  <2>0. \A i \in 1 .. Len(closures) :
          closures[i].kind = "failure" => closures[i].identity.generation # 0
    BY DEF TypeInv, ProperInv
  <2>1. CASE EndDestroy
    BY <2>1, EmptySeq DEF EndDestroy
  <2>2. CASE DeliverResult \/ DeliverFailure
    <3>1. closures # <<>> /\ closures' = Tail(closures)
      BY <2>2 DEF DeliverResult, DeliverFailure, Dequeue
    <3>2. QED
      BY <1>1, <2>0, <3>1, Dequeued
  <2>3. QED
    BY <2>1, <2>2
<1>4. /\ failed' \in Identity
      /\ slot' \in {"none", "result", "failure"}
      /\ slot' = "failure" => failed'.generation # 0
  <2>1. CASE EndDestroy
    BY <1>2, <2>1 DEF EndDestroy
  <2>2. CASE DeliverResult
    BY <2>2 DEF DeliverResult, TypeInv, TypeOK
  <2>3. CASE DeliverFailure
    <3>1. /\ slot = "none" /\ closures # <<>> /\ Head(closures).kind = "failure"
          /\ \/ slot' = "failure" /\ failed' = Head(closures).identity
             \/ slot' = slot /\ failed' = failed
      BY <2>3 DEF DeliverFailure, Dequeue
    <3>2. Head(closures) \in Closure /\ 1 \in 1 .. Len(closures)
          /\ Head(closures) = closures[1]
      BY <1>1, <3>1, Dequeued
    <3>3. Head(closures).identity \in Identity
      BY <3>2 DEF Closure
    <3>4. Head(closures).identity.generation # 0
      BY <3>1, <3>2 DEF TypeInv, ProperInv
    <3>5. QED
      BY <3>1, <3>3, <3>4 DEF TypeInv, TypeOK
  <2>4. QED
    BY <2>1, <2>2, <2>3
<1>5. view' \in BOOLEAN /\ notificationPending' \in BOOLEAN
  BY DEF EndDestroy, DeliverResult, DeliverFailure, FlagAfterAcknowledge, TypeInv,
         TypeOK, mailboxVars
<1>6. TypeOK'
  BY <1>3, <1>4, <1>5
  DEF EndDestroy, DeliverResult, DeliverFailure, TypeInv, TypeOK, activationVars,
      mailboxVars, workerVars, historyVars
<1>7. ProperInv'
  <2>1. UNCHANGED <<pending, latest, item, wpc>>
    BY DEF EndDestroy, DeliverResult, DeliverFailure, mailboxVars, workerVars
  <2>2. (Proper(pending) /\ Proper(latest) /\ Proper(item))'
    BY <2>1 DEF Proper, None, TypeInv, ProperInv
  <2>3. QED
    BY <1>3, <1>4, <2>1, <2>2 DEF TypeInv, ProperInv
<1>8. QED
  BY <1>6, <1>7 DEF TypeInv

\* The steps that give out a result or report an error.
LEMMA HistoryTypes ==
  ASSUME TypeInv, TakeLatestResult \/ ConfirmFailure
  PROVE  TypeInv'
<1>1. taken' \in Seq(1 .. MaxRevision)
  <2>1. taken \in Seq(1 .. MaxRevision) /\ latest \in Identity
    BY DEF TypeInv, TypeOK
  <2>2. latest # None => latest.revision \in 1 .. MaxRevision
    BY <2>1, AnalyticsAssumption DEF Identity, TypeInv, ProperInv, Proper
  <2>3. taken' = taken \/ (latest # None /\ taken' = Append(taken, latest.revision))
    BY DEF TakeLatestResult, ConfirmFailure
  <2> DEFINE S == 1 .. MaxRevision
  <2>4. taken \in Seq(S) /\ (latest # None => latest.revision \in S)
    BY <2>1, <2>2
  <2> HIDE DEF S
  <2>5. taken' \in Seq(S)
    BY <2>3, <2>4, Appended
  <2>6. QED
    BY <2>5 DEF S
<1>2. errors' \in Seq(1 .. MaxGeneration)
  <2>1. errors \in Seq(1 .. MaxGeneration) /\ failed \in Identity
    BY DEF TypeInv, TypeOK
  <2>2. slot = "failure" => failed.generation \in 1 .. MaxGeneration
    BY <2>1, AnalyticsAssumption DEF Identity, TypeInv, ProperInv
  <2>3. errors' = errors \/ (slot = "failure" /\ errors' = Append(errors, failed.generation))
    BY DEF TakeLatestResult, ConfirmFailure
  <2> DEFINE S == 1 .. MaxGeneration
  <2>4. errors \in Seq(S) /\ (slot = "failure" => failed.generation \in S)
    BY <2>1, <2>2
  <2> HIDE DEF S
  <2>5. errors' \in Seq(S)
    BY <2>3, <2>4, Appended
  <2>6. QED
    BY <2>5 DEF S
<1>3. None \in Identity /\ Proper(None)
  BY AnalyticsAssumption DEF None, Identity, Proper
<1>4. /\ closures' = closures /\ wpc' = wpc /\ item' = item /\ pending' = pending
      /\ latest' \in {latest, None}
      /\ slot' \in {slot, "none"}
      /\ failed' = failed \/ (failed' = None /\ slot' = "none")
  BY DEF TakeLatestResult, ConfirmFailure, mailboxVars, workerVars, ResultAfterTake
<1>5. TypeOK'
  BY <1>1, <1>2, <1>3, <1>4
  DEF TakeLatestResult, ConfirmFailure, TypeInv, TypeOK, activationVars,
      mailboxVars, workerVars
<1>6. ProperInv'
  <2>1. (Proper(pending) /\ Proper(latest) /\ Proper(item))'
    BY <1>3, <1>4 DEF Proper, None, TypeInv, ProperInv
  <2>2. QED
    BY <1>4, <2>1 DEF TypeInv, ProperInv
<1>7. QED
  BY <1>5, <1>6 DEF TypeInv

LEMMA NextTypeInv == TypeInv /\ [Next]_vars => TypeInv'
<1> SUFFICES ASSUME TypeInv, [Next]_vars PROVE TypeInv'
  OBVIOUS
<1>1. CASE \/ Enable \/ Disable \/ EmitEnabledChanged \/ SubmitFrame \/ BeginDestroy
           \/ WaitAndTake \/ CheckItem \/ LoadDetector \/ RecheckItem \/ Detect
           \/ CheckStop \/ UNCHANGED vars
  <2>1. UNCHANGED <<closures, taken, errors>>
    BY <1>1
    DEF Enable, Disable, EmitEnabledChanged, SubmitFrame, BeginDestroy, WaitAndTake,
        CheckItem, LoadDetector, RecheckItem, Detect, CheckStop, vars, historyVars
  <2>2. QED
    BY <1>1, <2>1, LocalTypes
<1>2. CASE PublishResult \/ ReportFailure
  BY <1>2, QueueingTypes
<1>3. CASE DeliverResult \/ DeliverFailure \/ EndDestroy
  BY <1>3, DeliveryTypes
<1>4. CASE TakeLatestResult \/ ConfirmFailure
  BY <1>4, HistoryTypes
<1>5. QED
  BY <1>1, <1>2, <1>3, <1>4 DEF Next, Gui, Worker, Over

LEMMA TypeInvariant == Spec => []TypeInv
BY InitTypeInv, NextTypeInv, PTL DEF Spec

\* Every variable keeps its type; the generation counter never wraps.
THEOREM TypeCorrect == Spec => []TypeOK
<1>1. TypeInv => TypeOK
  BY DEF TypeInv
<1>2. QED
  BY <1>1, TypeInvariant, PTL

-----------------------------------------------------------------------------
(* The mailboxes and the notification.                                     *)

LEMMA NextMailboxes == TypeInv /\ MailboxesCurrent /\ [Next]_vars => MailboxesCurrent'
<1> SUFFICES ASSUME TypeInv, MailboxesCurrent, [Next]_vars PROVE MailboxesCurrent'
  OBVIOUS
<1> USE DEF MailboxesCurrent
<1>1. CASE \/ UNCHANGED vars \/ EmitEnabledChanged \/ BeginDestroy \/ EndDestroy
           \/ DeliverResult \/ DeliverFailure \/ ConfirmFailure \/ CheckItem
           \/ LoadDetector \/ RecheckItem \/ Detect \/ CheckStop
  BY <1>1
  DEF vars, EmitEnabledChanged, BeginDestroy, EndDestroy, DeliverResult,
      DeliverFailure, ConfirmFailure, CheckItem, LoadDetector, RecheckItem, Detect,
      CheckStop, activationVars, mailboxVars
<1>2. CASE Enable \/ Disable
  BY <1>2 DEF Enable, Disable
<1>3. CASE SubmitFrame
  <2>1. UNCHANGED <<latest, enabled, streamRunId, generation>>
    BY <1>3 DEF SubmitFrame, activationVars
  <2>2. Accepts(pending')
    BY <1>3 DEF SubmitFrame
  <2>3. QED
    BY <2>1, <2>2 DEF Accepts
<1>4. CASE TakeLatestResult
  BY <1>4 DEF TakeLatestResult, ResultAfterTake, activationVars
<1>5. CASE WaitAndTake
  BY <1>5 DEF WaitAndTake, activationVars
<1>6. CASE PublishResult
  BY <1>6 DEF PublishResult, Accepts, activationVars
<1>7. CASE ReportFailure
  BY <1>7 DEF ReportFailure, mailboxVars
<1>8. QED
  BY <1>1, <1>2, <1>3, <1>4, <1>5, <1>6, <1>7 DEF Next, Gui, Worker, Over

\* Neither mailbox holds anything of an earlier activation, run or of none.
THEOREM NothingOutlivesItsActivation == Spec => []MailboxesCurrent
<1>1. Init => MailboxesCurrent
  BY DEF Init, MailboxesCurrent
<1>2. QED
  BY <1>1, NextMailboxes, TypeInvariant, PTL DEF Spec

\* Queueing the only result closure, or a failure.
LEMMA QueuedNotification ==
  ASSUME TypeInv, OneNotification, life # "gone", PublishResult \/ ReportFailure
  PROVE  OneNotification'
<1>1. closures \in Seq(Closure) /\ ResultClosure \in Closure /\ FailureClosure(item) \in Closure
  BY AnalyticsAssumption
  DEF TypeInv, TypeOK, ResultClosure, FailureClosure, Closure, None, Identity
<1>2. ResultClosure.kind = "result" /\ FailureClosure(item).kind = "failure"
  BY DEF ResultClosure, FailureClosure
<1>3. /\ notificationPending <=> \E i \in 1 .. Len(closures) : closures[i].kind = "result"
      /\ \A i, j \in 1 .. Len(closures) :
           closures[i].kind = "result" /\ closures[j].kind = "result" => i = j
  BY DEF OneNotification
<1>4. CASE closures' = closures /\ notificationPending' = notificationPending
  BY <1>3, <1>4 DEF OneNotification
<1>5. CASE closures' = Append(closures, ResultClosure) /\ ~notificationPending
           /\ notificationPending' = TRUE
  <2>1. \A i \in 1 .. Len(closures') : closures'[i].kind = "result" => i = Len(closures) + 1
    BY <1>1, <1>3, <1>5, Appended
  <2>2. Len(closures) + 1 \in 1 .. Len(closures')
        /\ closures'[Len(closures) + 1].kind = "result"
    BY <1>1, <1>2, <1>5, Appended
  <2>3. QED
    BY <1>5, <2>1, <2>2 DEF OneNotification
<1>6. CASE closures' = Append(closures, FailureClosure(item))
           /\ notificationPending' = notificationPending
  <2>1. \A i \in 1 .. Len(closures') :
          closures'[i].kind = "result"
          => i \in 1 .. Len(closures) /\ closures[i].kind = "result"
    BY <1>1, <1>2, <1>6, Appended
  <2>2. \A i \in 1 .. Len(closures) :
          i \in 1 .. Len(closures') /\ closures'[i] = closures[i]
    BY <1>1, <1>6, Appended
  <2>3. QED
    BY <1>3, <1>6, <2>1, <2>2 DEF OneNotification
<1>7. CASE closures' = closures /\ notificationPending /\ notificationPending' = TRUE
  BY <1>3, <1>7 DEF OneNotification
<1>8. QED
  BY <1>4, <1>5, <1>6, <1>7
  DEF PublishResult, ReportFailure, FlagAfterClear, mailboxVars, TypeInv, TypeOK

\* Running the only result closure, or a failure.
LEMMA DeliveredNotification ==
  ASSUME TypeInv, OneNotification, life # "gone", DeliverResult \/ DeliverFailure
  PROVE  OneNotification'
<1>1. closures \in Seq(Closure) /\ closures # <<>> /\ closures' = Tail(closures)
  BY DEF TypeInv, TypeOK, DeliverResult, DeliverFailure, Dequeue
<1>2. /\ 1 \in 1 .. Len(closures) /\ Head(closures) = closures[1]
      /\ \A i \in 1 .. Len(closures') :
           i \in Nat /\ i + 1 \in 1 .. Len(closures) /\ closures'[i] = closures[i + 1]
      /\ \A i \in 1 .. Len(closures) :
           i = 1 \/ (i - 1 \in 1 .. Len(closures') /\ closures[i] = closures'[i - 1])
  BY <1>1, Dequeued
<1>3. /\ notificationPending <=> \E i \in 1 .. Len(closures) : closures[i].kind = "result"
      /\ \A i, j \in 1 .. Len(closures) :
           closures[i].kind = "result" /\ closures[j].kind = "result" => i = j
  BY DEF OneNotification
<1>4. CASE DeliverResult
  <2>1. closures[1].kind = "result" /\ notificationPending' = FALSE
    BY <1>2, <1>4 DEF DeliverResult, Dequeue, FlagAfterAcknowledge
  <2>2. \A i \in 1 .. Len(closures') : closures'[i].kind # "result"
    BY <1>2, <1>3, <2>1
  <2>3. QED
    BY <2>1, <2>2 DEF OneNotification
<1>5. CASE DeliverFailure
  <2>1. closures[1].kind # "result" /\ notificationPending' = notificationPending
    BY <1>2, <1>5 DEF DeliverFailure, Dequeue, mailboxVars
  <2>2. (\E i \in 1 .. Len(closures') : closures'[i].kind = "result")
        <=> \E i \in 1 .. Len(closures) : closures[i].kind = "result"
    BY <1>2, <2>1
  <2>3. ASSUME NEW i \in 1 .. Len(closures'), NEW j \in 1 .. Len(closures'),
               closures'[i].kind = "result", closures'[j].kind = "result"
        PROVE  i = j
    <3>1. i + 1 = j + 1
      BY <1>2, <1>3, <2>3
    <3>2. QED
      BY <3>1, <1>2
  <2>4. QED
    BY <1>3, <2>1, <2>2, <2>3 DEF OneNotification
<1>6. QED
  BY <1>4, <1>5

LEMMA NextOneNotification == TypeInv /\ OneNotification /\ [Next]_vars => OneNotification'
<1> SUFFICES ASSUME TypeInv, OneNotification, [Next]_vars PROVE OneNotification'
  OBVIOUS
<1>1. CASE \/ UNCHANGED vars \/ Enable \/ Disable \/ EmitEnabledChanged \/ SubmitFrame
           \/ TakeLatestResult \/ BeginDestroy \/ ConfirmFailure \/ WaitAndTake
           \/ CheckItem \/ LoadDetector \/ RecheckItem \/ Detect \/ CheckStop
  <2>1. UNCHANGED <<closures, notificationPending>> /\ (life' # "gone" => life # "gone")
    BY <1>1
    DEF vars, Enable, Disable, EmitEnabledChanged, SubmitFrame, TakeLatestResult,
        BeginDestroy, ConfirmFailure, WaitAndTake, CheckItem, LoadDetector,
        RecheckItem, Detect, CheckStop, mailboxVars, FlagAfterClear, Callable
  <2>2. QED
    BY <2>1 DEF OneNotification
<1>2. CASE PublishResult \/ ReportFailure
  <2>1. life' = life
    BY <1>2 DEF PublishResult, ReportFailure
  <2>2. QED
    BY <1>2, <2>1, QueuedNotification DEF OneNotification
<1>3. CASE DeliverResult \/ DeliverFailure
  <2>1. life # "gone"
    BY <1>3 DEF DeliverResult, DeliverFailure, Dequeue, Callable
  <2>2. QED
    BY <1>3, <2>1, DeliveredNotification
<1>4. CASE EndDestroy
  BY <1>4 DEF EndDestroy, OneNotification
<1>5. QED
  BY <1>1, <1>2, <1>3, <1>4 DEF Next, Gui, Worker, Over

\* A notification is never lost and never doubled, through clears, failures
\* and re-entrant calls.
THEOREM ExactlyOneNotification == Spec => []OneNotification
<1>1. Init => OneNotification
  BY DEF Init, OneNotification
<1>2. QED
  BY <1>1, NextOneNotification, TypeInvariant, PTL DEF Spec

LEMMA NextResultAnnounced ==
  MailboxesCurrent /\ ResultAnnounced /\ [Next]_vars => ResultAnnounced'
<1> SUFFICES ASSUME MailboxesCurrent, ResultAnnounced, [Next]_vars
             PROVE  ResultAnnounced'
  OBVIOUS
<1> USE DEF ResultAnnounced
<1>1. CASE \/ UNCHANGED vars \/ EmitEnabledChanged \/ SubmitFrame \/ BeginDestroy
           \/ WaitAndTake \/ CheckItem \/ LoadDetector \/ RecheckItem \/ Detect
           \/ CheckStop
  BY <1>1
  DEF vars, EmitEnabledChanged, SubmitFrame, BeginDestroy, WaitAndTake, CheckItem,
      LoadDetector, RecheckItem, Detect, CheckStop, mailboxVars, slotVars
<1>2. CASE Enable \/ Disable \/ TakeLatestResult \/ EndDestroy
  BY <1>2 DEF Enable, Disable, TakeLatestResult, EndDestroy, ResultAfterTake
<1>3. CASE DeliverResult
  <2>1. latest # None => enabled
    BY DEF MailboxesCurrent
  <2>2. QED
    BY <1>3, <2>1 DEF DeliverResult
<1>4. CASE DeliverFailure \/ ConfirmFailure
  <2>1. slot # "result"
    BY <1>4 DEF DeliverFailure, Dequeue, ConfirmFailure
  <2>2. QED
    BY <1>4, <2>1 DEF DeliverFailure, ConfirmFailure, mailboxVars
<1>5. CASE PublishResult \/ ReportFailure
  BY <1>5 DEF PublishResult, ReportFailure, slotVars, mailboxVars
<1>6. QED
  BY <1>1, <1>2, <1>3, <1>4, <1>5 DEF Next, Gui, Worker, Over

\* A result that waits in its mailbox has its announcement ahead of it.
THEOREM WaitingResultIsAnnounced == Spec => []ResultAnnounced
<1>1. Init => ResultAnnounced
  BY DEF Init, ResultAnnounced
<1>2. Init => MailboxesCurrent
  BY DEF Init, MailboxesCurrent
<1>3. QED
  BY <1>1, <1>2, NextMailboxes, NextResultAnnounced, TypeInvariant, PTL DEF Spec

\* The mailboxes hold nothing of an activation that is over, and every waiting
\* result is announced, and only once.
THEOREM MailboxesAreSound == Spec => []MailboxesSound
<1>1. MailboxesCurrent /\ OneNotification /\ ResultAnnounced => MailboxesSound
  BY DEF MailboxesSound
<1>2. QED
  BY <1>1, NothingOutlivesItsActivation, ExactlyOneNotification,
     WaitingResultIsAnnounced, PTL

-----------------------------------------------------------------------------
(* What an observer of enabledChanged knows.                               *)

\* The closure reports the failure of the activation in force.
Concerns(c) ==
  /\ c.kind = "failure"
  /\ c.identity.run = streamRunId
  /\ c.identity.generation = generation

\* An observer that is wrong is about to be told.
ViewInv ==
  life = "alive" /\ ~owed /\ view # enabled =>
    ~enabled /\ \E i \in 1 .. Len(closures) : Concerns(closures[i])

\* reportFailure() disables the session and queues the closure that says so.
LEMMA FailureSeen ==
  ASSUME TypeInv, ReportFailure, Accepts(item)
  PROVE  ~enabled' /\ \E i \in 1 .. Len(closures') : Concerns(closures[i])'
<1>1. closures \in Seq(Closure) /\ FailureClosure(item) \in Closure
  BY DEF TypeInv, TypeOK, FailureClosure, Closure
<1>2. closures' = Append(closures, FailureClosure(item)) /\ enabled' = FALSE
      /\ UNCHANGED <<streamRunId, generation>>
  BY DEF ReportFailure
<1>3. Len(closures) + 1 \in 1 .. Len(closures')
      /\ closures'[Len(closures) + 1] = FailureClosure(item)
  BY <1>1, <1>2, Appended
<1>4. /\ FailureClosure(item).kind = "failure"
      /\ FailureClosure(item).identity.run = streamRunId
      /\ FailureClosure(item).identity.generation = generation
  BY DEF FailureClosure, Accepts
<1>5. QED
  BY <1>2, <1>3, <1>4 DEF Concerns

LEMMA NextViewInv == TypeInv /\ ViewInv /\ [Next]_vars => ViewInv'
<1> SUFFICES ASSUME TypeInv, ViewInv, [Next]_vars PROVE ViewInv'
  OBVIOUS
<1>0. enabled \in BOOLEAN /\ view \in BOOLEAN /\ closures \in Seq(Closure)
  BY DEF TypeInv, TypeOK
<1>1. CASE \/ UNCHANGED vars \/ SubmitFrame \/ TakeLatestResult \/ BeginDestroy
           \/ ConfirmFailure \/ WaitAndTake \/ CheckItem \/ LoadDetector
           \/ RecheckItem \/ Detect \/ CheckStop
  <2>1. /\ UNCHANGED <<enabled, streamRunId, generation, view, owed, closures>>
        /\ life' = "alive" => life = "alive"
    BY <1>1
    DEF vars, SubmitFrame, TakeLatestResult, BeginDestroy, ConfirmFailure,
        WaitAndTake, CheckItem, LoadDetector, RecheckItem, Detect, CheckStop,
        activationVars, slotVars
  <2>2. QED
    BY <2>1 DEF ViewInv, Concerns
<1>2. CASE Enable
  BY <1>0, <1>2 DEF Enable, ChangedByEnable, Callable, ViewInv
<1>3. CASE Disable
  <2>1. CASE enabled
    BY <1>3, <2>1 DEF Disable, ViewInv
  <2>2. CASE ~enabled
    <3>1. UNCHANGED <<enabled, streamRunId, generation, view, owed, closures, life>>
      BY <1>0, <1>3, <2>2 DEF Disable, Callable, TypeInv, TypeOK
    <3>2. QED
      BY <3>1 DEF ViewInv, Concerns
  <2>3. QED
    BY <2>1, <2>2
<1>4. CASE EmitEnabledChanged
  BY <1>4 DEF EmitEnabledChanged, activationVars, ViewInv
<1>5. CASE EndDestroy
  BY <1>5 DEF EndDestroy, ViewInv
<1>6. CASE DeliverResult \/ DeliverFailure
  <2>1. /\ life = "alive" /\ ~owed /\ closures # <<>> /\ closures' = Tail(closures)
        /\ UNCHANGED <<enabled, streamRunId, generation, owed, life>>
    BY <1>6 DEF DeliverResult, DeliverFailure, Dequeue, Callable, activationVars
  <2>2. /\ Head(closures) = closures[1]
        /\ \A i \in 1 .. Len(closures) :
             i = 1 \/ (i - 1 \in 1 .. Len(closures') /\ closures[i] = closures'[i - 1])
    BY <1>0, <2>1, Dequeued
  <2>3. CASE view' = enabled
    BY <2>1, <2>3 DEF ViewInv
  <2>4. CASE view' # enabled
    <3>1. view' = view /\ ~Concerns(closures[1])
      <4>1. CASE DeliverResult
        BY <2>2, <4>1 DEF DeliverResult, Dequeue, Concerns
      <4>2. CASE DeliverFailure
        <5>1. Head(closures).kind = "failure" /\ view' = view
              /\ ~StillFailed(Head(closures).identity)
          BY <2>4, <4>2 DEF DeliverFailure, Dequeue
        <5>2. ~enabled
          BY <1>0, <2>1, <2>4, <5>1 DEF ViewInv
        <5>3. QED
          BY <2>2, <5>1, <5>2 DEF StillFailed, Concerns
      <4>3. QED
        BY <1>6, <4>1, <4>2
    <3>2. PICK i \in 1 .. Len(closures) : Concerns(closures[i])
      BY <2>1, <2>4, <3>1 DEF ViewInv
    <3>3. i - 1 \in 1 .. Len(closures') /\ closures[i] = closures'[i - 1]
      BY <2>2, <3>1, <3>2
    <3>4. Concerns(closures[i - 1])'
      BY <2>1, <3>2, <3>3 DEF Concerns
    <3>5. ~enabled
      BY <2>1, <2>4, <3>1 DEF ViewInv
    <3>6. QED
      BY <2>1, <3>3, <3>4, <3>5 DEF ViewInv
  <2>5. QED
    BY <2>3, <2>4
<1>7. CASE PublishResult
  <2>1. UNCHANGED <<enabled, streamRunId, generation, view, owed, life>>
    BY <1>7 DEF PublishResult, activationVars, slotVars
  <2>2. closures' = closures \/ closures' = Append(closures, ResultClosure)
    BY <1>7 DEF PublishResult
  <2>3. ResultClosure \in Closure
    BY AnalyticsAssumption DEF ResultClosure, Closure, None, Identity
  <2>4. \A i \in 1 .. Len(closures) :
          i \in 1 .. Len(closures') /\ closures'[i] = closures[i]
    BY <1>0, <2>2, <2>3, Appended
  <2>5. QED
    BY <2>1, <2>4 DEF ViewInv, Concerns
<1>8. CASE ReportFailure
  <2>1. CASE Accepts(item)
    BY <1>8, <2>1, FailureSeen DEF ViewInv
  <2>2. CASE ~Accepts(item)
    <3>1. UNCHANGED <<enabled, streamRunId, generation, view, owed, closures, life>>
      BY <1>8, <2>2 DEF ReportFailure, slotVars
    <3>2. QED
      BY <3>1 DEF ViewInv, Concerns
  <2>3. QED
    BY <2>1, <2>2
<1>9. QED
  BY <1>1, <1>2, <1>3, <1>4, <1>5, <1>6, <1>7, <1>8 DEF Next, Gui, Worker, Over

\* An observer of enabledChanged is never left with a wrong isEnabled().
THEOREM ObserversAreTold == Spec => []EnabledViewSettles
<1>1. Init => ViewInv
  BY DEF Init, ViewInv
<1>2. TypeInv /\ ViewInv => EnabledViewSettles
  BY DEF ViewInv, EnabledViewSettles, Concerns, TypeInv, TypeOK
<1>3. QED
  BY <1>1, <1>2, NextViewInv, TypeInvariant, PTL DEF Spec

-----------------------------------------------------------------------------
(* The order of results: each stage of the pipeline holds a newer frame     *)
(* than the stage after it.                                                *)

\* The frame precedes the later one, where both exist.
Before(id, later) ==
  id.revision # 0 /\ later.revision # 0 => id.revision < later.revision

\* The frame has not been given out, nor has any newer one.
Untaken(id) ==
  /\ id.revision <= revision
  /\ id.revision # 0 => \A i \in 1 .. Len(taken) : taken[i] < id.revision

RevInv ==
  /\ \A i \in 1 .. Len(taken) : taken[i] <= revision
  /\ Untaken(pending) /\ Untaken(item) /\ Untaken(latest)
  /\ Before(latest, item) /\ Before(latest, pending) /\ Before(item, pending)

\* Frames move along the pipeline or are dropped; nothing is given out.
LEMMA MoveFrames ==
  ASSUME TypeInv, RevInv, ResultsInOrder, taken' = taken, revision' = revision,
         \/ UNCHANGED <<pending, item, latest>>
         \/ pending' = None /\ item' = pending /\ latest' = latest
         \/ pending' = pending /\ item' = None /\ latest' \in {latest, item}
         \/ pending' = None /\ item' = item /\ latest' \in {latest, None}
         \/ pending' = None /\ item' = None /\ latest' = None
  PROVE  RevInv' /\ ResultsInOrder'
<1>1. None.revision = 0 /\ revision \in Nat /\ 0 <= revision
  BY AnalyticsAssumption DEF None, TypeInv, TypeOK
<1>2. Untaken(None)
  BY <1>1 DEF Untaken
<1>3. \A id, later : id = None \/ later = None => Before(id, later)
  BY <1>1 DEF Before
<1>4. Untaken(pending') /\ Untaken(item') /\ Untaken(latest')
  BY <1>2 DEF RevInv
<1>5. Before(latest', item') /\ Before(latest', pending') /\ Before(item', pending')
  BY <1>3 DEF RevInv
<1>6. (Untaken(pending) /\ Untaken(item) /\ Untaken(latest))'
  BY <1>4 DEF Untaken
<1>7. (Before(latest, item) /\ Before(latest, pending) /\ Before(item, pending))'
  BY <1>5 DEF Before
<1>8. (\A i \in 1 .. Len(taken) : taken[i] <= revision)'
  BY DEF RevInv
<1>9. ResultsInOrder'
  BY DEF ResultsInOrder
<1>10. QED
  BY <1>6, <1>7, <1>8, <1>9 DEF RevInv

LEMMA SubmitRev ==
  ASSUME TypeInv, RevInv, ResultsInOrder, SubmitFrame
  PROVE  RevInv' /\ ResultsInOrder'
<1>1. /\ revision \in Nat /\ revision' = revision + 1
      /\ pending'.revision = revision + 1
      /\ UNCHANGED <<item, latest, taken>>
  BY AnalyticsAssumption
  DEF SubmitFrame, TypeInv, TypeOK, workerVars, historyVars
<1>2. item.revision \in Nat /\ latest.revision \in Nat
      /\ taken \in Seq(1 .. MaxRevision)
  BY AnalyticsAssumption DEF TypeInv, TypeOK, Identity
<1>3. \A i \in 1 .. Len(taken) : taken[i] \in Nat /\ taken[i] <= revision
  <2>1. \A i \in 1 .. Len(taken) : taken[i] \in 1 .. MaxRevision
    BY <1>2, ElementOfSeq
  <2>2. QED
    BY <2>1, AnalyticsAssumption DEF RevInv
<1>4. /\ item.revision <= revision /\ latest.revision <= revision
      /\ item.revision # 0 => \A i \in 1 .. Len(taken) : taken[i] < item.revision
      /\ latest.revision # 0 => \A i \in 1 .. Len(taken) : taken[i] < latest.revision
  BY DEF RevInv, Untaken
<1>5. (Untaken(pending) /\ Untaken(item) /\ Untaken(latest))'
  BY <1>1, <1>2, <1>3, <1>4 DEF Untaken
<1>6. (Before(latest, item) /\ Before(latest, pending) /\ Before(item, pending))'
  BY <1>1, <1>2, <1>4 DEF RevInv, Before
<1>7. (\A i \in 1 .. Len(taken) : taken[i] <= revision)'
  BY <1>1, <1>3
<1>8. ResultsInOrder'
  BY <1>1 DEF ResultsInOrder
<1>9. QED
  BY <1>5, <1>6, <1>7, <1>8 DEF RevInv

LEMMA TakeRev ==
  ASSUME TypeInv, RevInv, ResultsInOrder, TakeLatestResult
  PROVE  RevInv' /\ ResultsInOrder'
<1>1. /\ UNCHANGED <<pending, item, revision>>
      /\ latest' = None
      /\ taken' = taken \/ (latest # None /\ taken' = Append(taken, latest.revision))
  BY DEF TakeLatestResult, ResultAfterTake, workerVars
<1>2. CASE taken' = taken
  <2>1. None.revision = 0 /\ 0 <= revision
    BY AnalyticsAssumption DEF None, TypeInv, TypeOK
  <2>2. (Untaken(pending) /\ Untaken(item) /\ Untaken(latest))'
    BY <1>1, <1>2, <2>1 DEF RevInv, Untaken
  <2>3. (Before(latest, item) /\ Before(latest, pending) /\ Before(item, pending))'
    BY <1>1, <2>1 DEF RevInv, Before
  <2>4. QED
    BY <1>1, <1>2, <2>2, <2>3 DEF RevInv, ResultsInOrder
<1>3. CASE latest # None /\ taken' = Append(taken, latest.revision)
  <2> DEFINE r == latest.revision
             S == 1 .. MaxRevision
  <2>p. latest \in Identity /\ Proper(latest) /\ taken \in Seq(S)
    BY DEF TypeInv, TypeOK, ProperInv
  <2>q. r \in 0 .. MaxRevision /\ r # 0
    BY <1>3, <2>p DEF Proper, Identity
  <2>r. r \in S /\ None.revision = 0
    BY <2>q, AnalyticsAssumption DEF None
  <2>1. r \in S /\ taken \in Seq(S) /\ None.revision = 0
    BY <2>p, <2>r
  <2>2. r \in Nat /\ r # 0 /\ r <= revision /\ revision \in Nat
        /\ pending.revision \in Nat /\ item.revision \in Nat
    BY <2>1, AnalyticsAssumption DEF RevInv, Untaken, TypeInv, TypeOK, Identity
  <2>3. \A i \in 1 .. Len(taken) : taken[i] < r
    BY <2>2 DEF RevInv, Untaken
  <2>4. /\ item.revision # 0 => r < item.revision
        /\ pending.revision # 0 => r < pending.revision
    BY <2>2 DEF RevInv, Before
  <2>a. \A i \in 1 .. Len(taken) : taken[i] \in S
    BY <2>1, ElementOfSeq
  <2>s. S \subseteq Nat
    OBVIOUS
  <2> HIDE DEF r, S
  <2>b. /\ Len(taken) \in Nat
        /\ \A i \in 1 .. Len(taken') : i \in 1 .. Len(taken) \/ i = Len(taken) + 1
        /\ \A i \in 1 .. Len(taken) : taken'[i] = taken[i]
        /\ taken'[Len(taken) + 1] = r
    BY <1>3, <2>1, Appended DEF r
  <2>5. ASSUME NEW i \in 1 .. Len(taken')
        PROVE  taken'[i] \in Nat /\ taken'[i] <= r
    <3>1. CASE i \in 1 .. Len(taken)
      <4>1. taken[i] \in Nat /\ taken[i] < r
        BY <2>3, <2>a, <2>s, <3>1
      <4>2. taken'[i] = taken[i]
        BY <2>b, <3>1
      <4>3. QED
        BY <2>2, <4>1, <4>2
    <3>2. CASE i = Len(taken) + 1
      BY <2>2, <2>b, <3>2
    <3>3. QED
      BY <2>b, <3>1, <3>2
  <2>6. ResultsInOrder'
    <3> SUFFICES ASSUME NEW i \in 1 .. Len(taken'), NEW j \in 1 .. Len(taken'), i < j
                 PROVE  taken'[i] < taken'[j]
      BY DEF ResultsInOrder
    <3>1. i \in 1 .. Len(taken)
      BY <2>b
    <3>2. CASE j \in 1 .. Len(taken)
      BY <2>b, <3>1, <3>2 DEF ResultsInOrder
    <3>3. CASE j = Len(taken) + 1
      BY <2>3, <2>b, <3>1, <3>3
    <3>4. QED
      BY <2>b, <3>2, <3>3
  <2>7. (Untaken(pending) /\ Untaken(item) /\ Untaken(latest))'
    <3>1. /\ item.revision # 0 => \A i \in 1 .. Len(taken') : taken'[i] < item.revision
          /\ pending.revision # 0 => \A i \in 1 .. Len(taken') : taken'[i] < pending.revision
      BY <2>2, <2>4, <2>5
    <3>2. pending.revision <= revision /\ item.revision <= revision
      BY DEF RevInv, Untaken
    <3>3. QED
      BY <1>1, <2>1, <2>2, <3>1, <3>2 DEF Untaken
  <2>8. (Before(latest, item) /\ Before(latest, pending) /\ Before(item, pending))'
    BY <1>1, <2>1 DEF RevInv, Before
  <2>9. (\A i \in 1 .. Len(taken) : taken[i] <= revision)'
    BY <1>1, <2>2, <2>5
  <2>10. QED
    BY <2>6, <2>7, <2>8, <2>9 DEF RevInv
<1>4. QED
  BY <1>1, <1>2, <1>3

LEMMA NextRevInv ==
  TypeInv /\ RevInv /\ ResultsInOrder /\ [Next]_vars => RevInv' /\ ResultsInOrder'
<1> SUFFICES ASSUME TypeInv, RevInv, ResultsInOrder, [Next]_vars
             PROVE  RevInv' /\ ResultsInOrder'
  OBVIOUS
<1>1. CASE SubmitFrame
  BY <1>1, SubmitRev
<1>2. CASE TakeLatestResult
  BY <1>2, TakeRev
<1>3. CASE \/ UNCHANGED vars \/ EmitEnabledChanged \/ BeginDestroy \/ EndDestroy
           \/ DeliverResult \/ DeliverFailure \/ ConfirmFailure \/ LoadDetector
           \/ Detect
  <2>1. UNCHANGED <<pending, item, latest, taken, revision>>
    BY <1>3
    DEF vars, EmitEnabledChanged, BeginDestroy, EndDestroy, DeliverResult,
        DeliverFailure, ConfirmFailure, LoadDetector, Detect, mailboxVars, workerVars,
        historyVars
  <2>2. QED
    BY <2>1, MoveFrames
<1>4. CASE Enable \/ Disable
  <2>1. pending' = None /\ latest' = None /\ UNCHANGED <<item, taken, revision>>
    BY <1>4 DEF Enable, Disable, workerVars, historyVars
  <2>2. QED
    BY <2>1, MoveFrames
<1>5. CASE WaitAndTake \/ CheckItem \/ RecheckItem \/ CheckStop
  <2>1. /\ latest' = latest /\ UNCHANGED <<taken, revision>>
        /\ \/ UNCHANGED <<pending, item>>
           \/ pending' = None /\ item' = pending
           \/ pending' = pending /\ item' = None
    BY <1>5
    DEF WaitAndTake, CheckItem, RecheckItem, CheckStop, mailboxVars, historyVars
  <2>2. QED
    BY <2>1, MoveFrames
<1>6. CASE PublishResult \/ ReportFailure
  <2>1. /\ item' = None /\ UNCHANGED <<taken, revision>>
        /\ \/ pending' = pending /\ latest' \in {latest, item}
           \/ pending' = None /\ latest' = None
    BY <1>6 DEF PublishResult, ReportFailure, mailboxVars, historyVars
  <2>2. QED
    BY <2>1, MoveFrames
<1>7. QED
  BY <1>1, <1>2, <1>3, <1>4, <1>5, <1>6 DEF Next, Gui, Worker, Over

LEMMA RevInvariant == Spec => [](RevInv /\ ResultsInOrder)
<1>1. Init => RevInv /\ ResultsInOrder
  <2> SUFFICES ASSUME Init PROVE RevInv /\ ResultsInOrder
    OBVIOUS
  <2>1. taken = <<>> /\ revision = 0 /\ pending = None /\ item = None /\ latest = None
        /\ None.revision = 0
    BY DEF Init, None
  <2>2. Len(taken) = 0
    BY <2>1
  <2>3. QED
    BY <2>1, <2>2 DEF RevInv, ResultsInOrder, Untaken, Before
<1>2. QED
  BY <1>1, NextRevInv, TypeInvariant, PTL DEF Spec

\* Results are given out in the order of their frames, and each at most once.
THEOREM ResultsGivenInOrder == Spec => []ResultsInOrder
BY RevInvariant, PTL

-----------------------------------------------------------------------------
(* The order of errors.                                                    *)

\* Failures that are queued or being reported are in the order of their
\* activations, after the errors already told of; while the session is enabled
\* its activation has not failed.
ErrorInv ==
  /\ \A i \in 1 .. Len(errors) : errors[i] <= generation
  /\ enabled => \A i \in 1 .. Len(errors) : errors[i] < generation
  /\ slot = "failure" =>
       /\ failed.generation <= generation
       /\ enabled => failed.generation < generation
       /\ \A i \in 1 .. Len(errors) : errors[i] < failed.generation

\* Its part about the closures that are queued.
QueuedFailure(i) == i \in 1 .. Len(closures) /\ closures[i].kind = "failure"

FailureQueueInv ==
  \A i \in 1 .. Len(closures) : QueuedFailure(i) =>
    /\ closures[i].identity.generation <= generation
    /\ enabled => closures[i].identity.generation < generation
    /\ slot = "failure" => failed.generation < closures[i].identity.generation
    /\ \A k \in 1 .. Len(errors) : errors[k] < closures[i].identity.generation
    /\ \A j \in 1 .. Len(closures) : QueuedFailure(j) /\ i < j =>
         closures[i].identity.generation < closures[j].identity.generation

ErrorsInv == ErrorInv /\ FailureQueueInv /\ ErrorsInOrder

\* What the parts of the invariant range over are numbers.
LEMMA ErrorNumbers ==
  ASSUME TypeInv
  PROVE  /\ generation \in Nat /\ failed.generation \in Nat /\ item.generation \in Nat
         /\ \A i \in 1 .. Len(errors) : errors[i] \in Nat
         /\ \A i \in 1 .. Len(closures) : closures[i].identity.generation \in Nat
         /\ Len(errors) \in Nat /\ Len(closures) \in Nat
<1>1. /\ generation \in 0 .. MaxGeneration /\ failed \in Identity /\ item \in Identity
      /\ errors \in Seq(1 .. MaxGeneration) /\ closures \in Seq(Closure)
  BY DEF TypeInv, TypeOK
<1>2. \A i \in 1 .. Len(errors) : errors[i] \in 1 .. MaxGeneration
  BY <1>1, ElementOfSeq
<1>3. \A i \in 1 .. Len(closures) : closures[i] \in Closure
  BY <1>1, ElementOfSeq
<1>4. \A c \in Closure : c.identity.generation \in Nat
  BY AnalyticsAssumption DEF Closure, Identity
<1>5. generation \in Nat /\ failed.generation \in Nat /\ item.generation \in Nat
  BY <1>1, AnalyticsAssumption DEF Identity
<1>6. Len(errors) \in Nat /\ Len(closures) \in Nat
  BY <1>1, LenProperties
<1>7. QED
  BY <1>2, <1>3, <1>4, <1>5, <1>6, AnalyticsAssumption

\* Steps that touch none of it, or end the activation or start another.
LEMMA QuietErrors ==
  ASSUME TypeInv, ErrorsInv, UNCHANGED <<closures, errors, failed>>,
         slot' = "failure" => slot = "failure",
         \/ generation' = generation /\ (enabled' => enabled)
         \/ generation' = generation + 1
  PROVE  ErrorsInv'
<1>1. generation \in Nat /\ failed.generation \in Nat
      /\ (\A i \in 1 .. Len(errors) : errors[i] \in Nat)
      /\ (\A i \in 1 .. Len(closures) : closures[i].identity.generation \in Nat)
  BY ErrorNumbers
<1>2. ErrorInv'
  BY <1>1 DEF ErrorsInv, ErrorInv
<1>3. FailureQueueInv'
  BY <1>1 DEF ErrorsInv, FailureQueueInv, QueuedFailure
<1>4. ErrorsInOrder'
  BY DEF ErrorsInv, ErrorsInOrder
<1>5. QED
  BY <1>2, <1>3, <1>4 DEF ErrorsInv

\* A new closure: a result, or the failure of the activation in force.
LEMMA QueuedErrors ==
  ASSUME TypeInv, ErrorsInv, PublishResult \/ ReportFailure
  PROVE  ErrorsInv'
<1>1. UNCHANGED <<generation, errors, failed, slot>> /\ (enabled' => enabled)
  BY DEF PublishResult, ReportFailure, activationVars, slotVars, historyVars
<1>2. CASE closures' = closures
  BY <1>1, <1>2, QuietErrors
<1>3. CASE closures' # closures
  <2>1. PICK c \in Closure :
          /\ closures' = Append(closures, c)
          /\ \/ c.kind = "result"
             \/ c.kind = "failure" /\ c.identity.generation = generation
                /\ enabled /\ ~enabled'
    <3>1. CASE PublishResult
      <4>1. ResultClosure \in Closure /\ ResultClosure.kind = "result"
        BY AnalyticsAssumption DEF ResultClosure, Closure, None, Identity
      <4>2. QED
        BY <1>3, <3>1, <4>1 DEF PublishResult
    <3>2. CASE ReportFailure
      <4>1. FailureClosure(item) \in Closure /\ FailureClosure(item).kind = "failure"
            /\ FailureClosure(item).identity = item
        BY DEF FailureClosure, Closure, TypeInv, TypeOK
      <4>2. closures' = Append(closures, FailureClosure(item)) /\ Accepts(item) /\ ~enabled'
        BY <1>3, <3>2 DEF ReportFailure
      <4>3. QED
        BY <4>1, <4>2 DEF Accepts
    <3>3. QED
      BY <3>1, <3>2
  <2>2. /\ generation \in Nat /\ failed.generation \in Nat
        /\ \A i \in 1 .. Len(errors) : errors[i] \in Nat
        /\ Len(closures) \in Nat
    BY ErrorNumbers
  <2>3. closures \in Seq(Closure)
    BY DEF TypeInv, TypeOK
  <2>4. /\ \A i \in 1 .. Len(closures) :
             i \in 1 .. Len(closures') /\ closures'[i] = closures[i]
        /\ closures'[Len(closures) + 1] = c
        /\ \A i \in 1 .. Len(closures') : i \in 1 .. Len(closures) \/ i = Len(closures) + 1
    BY <2>1, <2>3, Appended
  <2>5. ErrorInv'
    BY <1>1 DEF ErrorsInv, ErrorInv
  <2>6. ErrorsInOrder'
    BY <1>1 DEF ErrorsInv, ErrorsInOrder
  <2>7. FailureQueueInv'
    <3> SUFFICES ASSUME NEW i \in 1 .. Len(closures'), QueuedFailure(i)'
                 PROVE  /\ closures'[i].identity.generation <= generation'
                        /\ enabled' => closures'[i].identity.generation < generation'
                        /\ slot' = "failure"
                             => failed'.generation < closures'[i].identity.generation
                        /\ \A k \in 1 .. Len(errors') :
                             errors'[k] < closures'[i].identity.generation
                        /\ \A j \in 1 .. Len(closures') : QueuedFailure(j)' /\ i < j =>
                             closures'[i].identity.generation < closures'[j].identity.generation
      BY DEF FailureQueueInv
    <3>1. CASE i \in 1 .. Len(closures)
      <4>1. QueuedFailure(i) /\ closures'[i] = closures[i]
        BY <2>4, <3>1 DEF QueuedFailure
      <4>2. /\ closures[i].identity.generation <= generation
            /\ enabled => closures[i].identity.generation < generation
            /\ slot = "failure" => failed.generation < closures[i].identity.generation
            /\ \A k \in 1 .. Len(errors) : errors[k] < closures[i].identity.generation
            /\ \A j \in 1 .. Len(closures) : QueuedFailure(j) /\ i < j =>
                 closures[i].identity.generation < closures[j].identity.generation
        BY <3>1, <4>1 DEF ErrorsInv, FailureQueueInv
      <4>3. ASSUME NEW j \in 1 .. Len(closures'), QueuedFailure(j)', i < j
            PROVE  closures'[i].identity.generation < closures'[j].identity.generation
        <5>1. CASE j \in 1 .. Len(closures)
          <6>1. QueuedFailure(j) /\ closures'[j] = closures[j]
            BY <2>4, <4>3, <5>1 DEF QueuedFailure
          <6>2. QED
            BY <4>1, <4>2, <4>3, <5>1, <6>1
        <5>2. CASE j = Len(closures) + 1
          <6>1. closures'[j] = c /\ c.kind = "failure"
            BY <2>4, <4>3, <5>2 DEF QueuedFailure
          <6>2. enabled /\ c.identity.generation = generation
            BY <2>1, <6>1
          <6>3. QED
            BY <4>1, <4>2, <6>1, <6>2
        <5>3. QED
          BY <2>4, <5>1, <5>2
      <4>4. QED
        BY <1>1, <4>1, <4>2, <4>3
    <3>2. CASE i = Len(closures) + 1
      <4>1. closures'[i] = c /\ c.kind = "failure"
        BY <2>4, <3>2 DEF QueuedFailure
      <4>2. enabled /\ ~enabled' /\ c.identity.generation = generation
        BY <2>1, <4>1
      <4>3. \A j \in 1 .. Len(closures') : ~(i < j)
        BY <2>2, <2>4, <3>2
      <4>4. /\ slot = "failure" => failed.generation < generation
            /\ \A k \in 1 .. Len(errors) : errors[k] < generation
        BY <4>2 DEF ErrorsInv, ErrorInv
      <4>5. QED
        BY <1>1, <2>2, <4>1, <4>2, <4>3, <4>4
    <3>3. QED
      BY <2>4, <3>1, <3>2
  <2>8. QED
    BY <2>5, <2>6, <2>7 DEF ErrorsInv
<1>4. QED
  BY <1>2, <1>3

\* Running a closure: a failure that still concerns its activation goes ahead
\* of those that stay queued.
LEMMA DeliveredErrors ==
  ASSUME TypeInv, ErrorsInv, DeliverResult \/ DeliverFailure
  PROVE  ErrorsInv'
<1>1. /\ closures \in Seq(Closure) /\ closures # <<>> /\ closures' = Tail(closures)
      /\ slot = "none"
      /\ UNCHANGED <<generation, enabled, errors>>
  BY DEF TypeInv, TypeOK, DeliverResult, DeliverFailure, Dequeue, activationVars,
         historyVars
<1>2. /\ generation \in Nat
      /\ \A i \in 1 .. Len(errors) : errors[i] \in Nat
      /\ \A i \in 1 .. Len(closures) : closures[i].identity.generation \in Nat
  BY ErrorNumbers
<1>3. /\ 1 \in 1 .. Len(closures) /\ Head(closures) = closures[1]
      /\ \A i \in 1 .. Len(closures') :
           i + 1 \in 1 .. Len(closures) /\ closures'[i] = closures[i + 1]
  BY <1>1, Dequeued
<1>4. \/ slot' # "failure"
      \/ slot' = "failure" /\ QueuedFailure(1) /\ failed' = closures[1].identity /\ ~enabled
  BY <1>1, <1>3
  DEF DeliverResult, DeliverFailure, Dequeue, StillFailed, QueuedFailure
<1>5. \A i \in 1 .. Len(closures) : QueuedFailure(i) =>
        /\ closures[i].identity.generation <= generation
        /\ enabled => closures[i].identity.generation < generation
        /\ \A k \in 1 .. Len(errors) : errors[k] < closures[i].identity.generation
        /\ \A j \in 1 .. Len(closures) : QueuedFailure(j) /\ i < j =>
             closures[i].identity.generation < closures[j].identity.generation
  BY DEF ErrorsInv, FailureQueueInv
<1>6. ErrorInv'
  <2>1. slot' = "failure" =>
          /\ failed'.generation <= generation
          /\ \A i \in 1 .. Len(errors) : errors[i] < failed'.generation
    BY <1>3, <1>4, <1>5
  <2>2. QED
    BY <1>1, <1>4, <2>1 DEF ErrorsInv, ErrorInv
<1>7. FailureQueueInv'
  <2> SUFFICES ASSUME NEW i \in 1 .. Len(closures'), QueuedFailure(i)'
               PROVE  /\ closures'[i].identity.generation <= generation'
                      /\ enabled' => closures'[i].identity.generation < generation'
                      /\ slot' = "failure"
                           => failed'.generation < closures'[i].identity.generation
                      /\ \A k \in 1 .. Len(errors') :
                           errors'[k] < closures'[i].identity.generation
                      /\ \A j \in 1 .. Len(closures') : QueuedFailure(j)' /\ i < j =>
                           closures'[i].identity.generation < closures'[j].identity.generation
    BY DEF FailureQueueInv
  <2>1. /\ i + 1 \in 1 .. Len(closures) /\ closures'[i] = closures[i + 1]
        /\ QueuedFailure(i + 1) /\ 1 < i + 1
    BY <1>3 DEF QueuedFailure
  <2>2. slot' = "failure" => failed'.generation < closures'[i].identity.generation
    BY <1>3, <1>4, <1>5, <2>1
  <2>3. ASSUME NEW j \in 1 .. Len(closures'), QueuedFailure(j)', i < j
        PROVE  closures'[i].identity.generation < closures'[j].identity.generation
    <3>1. /\ j + 1 \in 1 .. Len(closures) /\ closures'[j] = closures[j + 1]
          /\ QueuedFailure(j + 1) /\ i + 1 < j + 1
      BY <1>3, <2>3 DEF QueuedFailure
    <3>2. QED
      BY <1>5, <2>1, <3>1
  <2>4. /\ closures'[i].identity.generation <= generation'
        /\ enabled' => closures'[i].identity.generation < generation'
        /\ \A k \in 1 .. Len(errors') : errors'[k] < closures'[i].identity.generation
    BY <1>1, <1>5, <2>1
  <2>5. QED
    BY <2>2, <2>3, <2>4
<1>8. ErrorsInOrder'
  BY <1>1 DEF ErrorsInv, ErrorsInOrder
<1>9. QED
  BY <1>6, <1>7, <1>8 DEF ErrorsInv

\* errorOccurred.
LEMMA ConfirmedErrors ==
  ASSUME TypeInv, ErrorsInv, ConfirmFailure
  PROVE  ErrorsInv'
<1>1. /\ slot = "failure" /\ slot' = "none"
      /\ UNCHANGED <<generation, enabled, streamRunId, closures>>
  BY DEF ConfirmFailure, activationVars
<1>2. /\ generation \in Nat /\ failed.generation \in Nat
      /\ \A i \in 1 .. Len(errors) : errors[i] \in Nat
      /\ \A i \in 1 .. Len(closures) : closures[i].identity.generation \in Nat
      /\ Len(errors) \in Nat
  BY ErrorNumbers
<1>3. CASE errors' = errors
  <2>1. ErrorInv'
    BY <1>1, <1>3 DEF ErrorsInv, ErrorInv
  <2>2. FailureQueueInv'
    BY <1>1, <1>3 DEF ErrorsInv, FailureQueueInv, QueuedFailure
  <2>3. ErrorsInOrder'
    BY <1>3 DEF ErrorsInv, ErrorsInOrder
  <2>4. QED
    BY <2>1, <2>2, <2>3 DEF ErrorsInv
<1>4. CASE errors' # errors
  <2> DEFINE g == failed.generation
             S == 1 .. MaxGeneration
  <2>1. errors' = Append(errors, g) /\ ~enabled /\ g = generation
    BY <1>4 DEF ConfirmFailure, ConfirmedFailed, StillFailed
  <2>2. errors \in Seq(S) /\ g \in S
    BY <1>1, AnalyticsAssumption DEF TypeInv, TypeOK, ProperInv, Identity
  <2>3. \A i \in 1 .. Len(errors) : errors[i] < g
    BY <1>1 DEF ErrorsInv, ErrorInv
  <2>4. g \in Nat
    BY <1>2
  <2>c. \A i \in 1 .. Len(closures) : QueuedFailure(i) =>
          /\ closures[i].identity.generation <= generation
          /\ g < closures[i].identity.generation
          /\ \A k \in 1 .. Len(errors) : errors[k] < closures[i].identity.generation
          /\ \A j \in 1 .. Len(closures) : QueuedFailure(j) /\ i < j =>
               closures[i].identity.generation < closures[j].identity.generation
    BY <1>1 DEF ErrorsInv, FailureQueueInv
  <2> HIDE DEF g, S
  <2>5. /\ \A i \in 1 .. Len(errors') : i \in 1 .. Len(errors) \/ i = Len(errors) + 1
        /\ \A i \in 1 .. Len(errors) : errors'[i] = errors[i]
        /\ errors'[Len(errors) + 1] = g
    BY <2>1, <2>2, Appended
  <2>6. ASSUME NEW i \in 1 .. Len(errors')
        PROVE  errors'[i] \in Nat /\ errors'[i] <= g
    <3>1. CASE i \in 1 .. Len(errors)
      <4>1. errors[i] \in Nat /\ errors[i] < g /\ errors'[i] = errors[i]
        BY <1>2, <2>3, <2>5, <3>1
      <4>2. QED
        BY <2>4, <4>1
    <3>2. CASE i = Len(errors) + 1
      BY <2>4, <2>5, <3>2
    <3>3. QED
      BY <2>5, <3>1, <3>2
  <2>7. ErrorInv'
    BY <1>1, <2>1, <2>6 DEF ErrorInv
  <2>8. ErrorsInOrder'
    <3> SUFFICES ASSUME NEW i \in 1 .. Len(errors'), NEW j \in 1 .. Len(errors'), i < j
                 PROVE  errors'[i] < errors'[j]
      BY DEF ErrorsInOrder
    <3>1. i \in 1 .. Len(errors)
      BY <1>2, <2>5
    <3>2. CASE j \in 1 .. Len(errors)
      BY <2>5, <3>1, <3>2 DEF ErrorsInv, ErrorsInOrder
    <3>3. CASE j = Len(errors) + 1
      BY <2>3, <2>5, <3>1, <3>3
    <3>4. QED
      BY <2>5, <3>2, <3>3
  <2>9. FailureQueueInv'
    <3>1. \A i \in 1 .. Len(closures) : ~QueuedFailure(i)
      BY <1>2, <2>1, <2>c
    <3>2. QED
      BY <1>1, <3>1 DEF FailureQueueInv, QueuedFailure
  <2>10. QED
    BY <2>7, <2>8, <2>9 DEF ErrorsInv
<1>5. QED
  BY <1>3, <1>4

LEMMA NextErrorsInv == TypeInv /\ ErrorsInv /\ [Next]_vars => ErrorsInv'
<1> SUFFICES ASSUME TypeInv, ErrorsInv, [Next]_vars PROVE ErrorsInv'
  OBVIOUS
<1>1. CASE \/ UNCHANGED vars \/ Enable \/ Disable \/ EmitEnabledChanged \/ SubmitFrame
           \/ TakeLatestResult \/ BeginDestroy \/ WaitAndTake \/ CheckItem
           \/ LoadDetector \/ RecheckItem \/ Detect \/ CheckStop
  <2>1. /\ UNCHANGED <<closures, errors, failed>>
        /\ slot' = "failure" => slot = "failure"
        /\ \/ generation' = generation /\ (enabled' => enabled)
           \/ generation' = generation + 1
    BY <1>1
    DEF vars, Enable, NextGeneration, Disable, EmitEnabledChanged, SubmitFrame,
        TakeLatestResult, BeginDestroy, WaitAndTake, CheckItem, LoadDetector,
        RecheckItem, Detect, CheckStop, activationVars, slotVars, historyVars
  <2>2. QED
    BY <2>1, QuietErrors
<1>2. CASE PublishResult \/ ReportFailure
  BY <1>2, QueuedErrors
<1>3. CASE DeliverResult \/ DeliverFailure
  BY <1>3, DeliveredErrors
<1>4. CASE ConfirmFailure
  BY <1>4, ConfirmedErrors
<1>5. CASE EndDestroy
  <2>1. Len(closures') = 0 /\ slot' = "none" /\ UNCHANGED <<errors, generation, enabled>>
    BY <1>5 DEF EndDestroy, activationVars, historyVars
  <2>2. QED
    BY <2>1 DEF ErrorsInv, ErrorInv, FailureQueueInv, ErrorsInOrder, QueuedFailure
<1>6. QED
  BY <1>1, <1>2, <1>3, <1>4, <1>5 DEF Next, Gui, Worker, Over

LEMMA ErrorsInvariant == Spec => []ErrorsInv
<1>1. Init => ErrorsInv
  <2> SUFFICES ASSUME Init PROVE ErrorsInv
    OBVIOUS
  <2>1. Len(errors) = 0 /\ Len(closures) = 0 /\ slot = "none"
    BY DEF Init
  <2>2. QED
    BY <2>1 DEF ErrorsInv, ErrorInv, FailureQueueInv, ErrorsInOrder, QueuedFailure
<1>2. QED
  BY <1>1, NextErrorsInv, TypeInvariant, PTL DEF Spec

\* An activation reports at most one error, and never after a later one has.
THEOREM ErrorsReportedInOrder == Spec => []ErrorsInOrder
<1>1. ErrorsInv => ErrorsInOrder
  BY DEF ErrorsInv
<1>2. QED
  BY <1>1, ErrorsInvariant, PTL

\* The owner hears of results and errors in order and never twice.
THEOREM ReportsGivenInOrder == Spec => []ReportsInOrder
<1>1. ResultsInOrder /\ ErrorsInOrder => ReportsInOrder
  BY DEF ReportsInOrder
<1>2. QED
  BY <1>1, ResultsGivenInOrder, ErrorsReportedInOrder, PTL

\* errorOccurred speaks of the activation in force, which is disabled, even if
\* the slots of its own enabledChanged have called the session.
THEOREM NoLateError == Spec => NoErrorAfterRestart
<1>1. TypeInv /\ [Next]_vars
        => [errors' # errors => ~enabled /\ errors'[Len(errors')] = generation]_vars
  <2> SUFFICES ASSUME TypeInv, Next, errors' # errors
               PROVE  ~enabled /\ errors'[Len(errors')] = generation
    OBVIOUS
  <2>1. ConfirmFailure
    BY DEF Next, Gui, Worker, Over, Enable, Disable, EmitEnabledChanged, SubmitFrame,
           TakeLatestResult, BeginDestroy, EndDestroy, DeliverResult, DeliverFailure,
           WaitAndTake, CheckItem, LoadDetector, RecheckItem, Detect, CheckStop,
           PublishResult, ReportFailure, historyVars, vars
  <2>2. errors' = Append(errors, failed.generation) /\ ~enabled
        /\ failed.generation = generation
    BY <2>1 DEF ConfirmFailure, ConfirmedFailed, StillFailed
  <2> DEFINE S == 1 .. MaxGeneration
  <2>3. errors \in Seq(S) /\ failed.generation \in S
    <3>1. slot = "failure"
      BY <2>1 DEF ConfirmFailure
    <3>2. QED
      BY <3>1, AnalyticsAssumption DEF TypeInv, TypeOK, ProperInv, Identity
  <2> HIDE DEF S
  <2>4. Len(errors') = Len(errors) + 1 /\ errors'[Len(errors) + 1] = failed.generation
    BY <2>2, <2>3, Appended
  <2>5. QED
    BY <2>2, <2>4
<1>2. QED
  BY <1>1, TypeInvariant, PTL DEF Spec, NoErrorAfterRestart

-----------------------------------------------------------------------------
(* The session implements AnalyticsView.                                   *)

\* Between two frames the detector thread holds none, it holds none of a later
\* activation, and it is joined before the session is gone.
WorkInv ==
  /\ wpc \in {"wait", "stopped"} => item = None
  /\ item.generation <= generation
  /\ life = "gone" => wpc = "stopped"

\* A failure of the newest activation is of its run.
OfRun(id) == id.generation = generation => id.run = streamRunId

RunsInv ==
  /\ slot = "failure" => OfRun(failed)
  /\ \A i \in 1 .. Len(closures) : QueuedFailure(i) => OfRun(closures[i].identity)

LEMMA NextWorkInv ==
  TypeInv /\ MailboxesCurrent /\ WorkInv /\ [Next]_vars => WorkInv'
<1> SUFFICES ASSUME TypeInv, MailboxesCurrent, WorkInv, [Next]_vars PROVE WorkInv'
  OBVIOUS
<1>1. generation \in Nat /\ item.generation \in Nat /\ None.generation = 0
  BY ErrorNumbers DEF None
<1>2. CASE Enable
  BY <1>1, <1>2 DEF Enable, NextGeneration, Callable, workerVars, WorkInv
<1>3. CASE WaitAndTake
  <2>1. pending # None => pending.generation = generation
    BY DEF MailboxesCurrent
  <2>2. QED
    BY <1>1, <1>3, <2>1
    DEF WaitAndTake, activationVars, WorkInv, StopEndsWait, StopRequested
<1>4. CASE \/ CheckItem \/ LoadDetector \/ RecheckItem \/ Detect \/ CheckStop
           \/ PublishResult \/ ReportFailure
  <2>1. /\ UNCHANGED <<life, generation>>
        /\ item' = item \/ item' = None
        /\ wpc' \in {"wait", "stopped"} => item' = None
        /\ wpc # "stopped"
    BY <1>4
    DEF CheckItem, LoadDetector, RecheckItem, Detect, CheckStop, PublishResult,
        ReportFailure, activationVars
  <2>2. QED
    BY <1>1, <2>1 DEF WorkInv
<1>5. CASE \/ Disable \/ EmitEnabledChanged \/ SubmitFrame \/ TakeLatestResult
           \/ BeginDestroy \/ EndDestroy \/ DeliverResult \/ DeliverFailure
           \/ ConfirmFailure \/ UNCHANGED vars
  <2>1. /\ UNCHANGED <<item, wpc, generation>>
        /\ life' = "gone" => life = "gone" \/ wpc = "stopped"
    BY <1>5
    DEF Disable, EmitEnabledChanged, SubmitFrame, TakeLatestResult, BeginDestroy,
        EndDestroy, DeliverResult, DeliverFailure, ConfirmFailure, vars,
        activationVars, workerVars
  <2>2. QED
    BY <2>1 DEF WorkInv
<1>6. QED
  BY <1>2, <1>3, <1>4, <1>5 DEF Next, Gui, Worker, Over

\* Steps that leave the queue and its activation alone, or start another.
LEMMA QuietRuns ==
  ASSUME TypeInv, ErrorsInv, RunsInv, UNCHANGED <<closures, failed>>,
         slot' = "failure" => slot = "failure",
         \/ UNCHANGED <<generation, streamRunId>>
         \/ generation' = generation + 1
  PROVE  RunsInv'
<1>1. generation \in Nat /\ failed.generation \in Nat
      /\ (\A i \in 1 .. Len(closures) : closures[i].identity.generation \in Nat)
  BY ErrorNumbers
<1>2. \A i \in 1 .. Len(closures) : QueuedFailure(i) =>
        OfRun(closures[i].identity) /\ closures[i].identity.generation <= generation
  BY DEF RunsInv, ErrorsInv, FailureQueueInv
<1>3. slot = "failure" => OfRun(failed) /\ failed.generation <= generation
  BY DEF RunsInv, ErrorsInv, ErrorInv
<1>4. (slot = "failure" => OfRun(failed))'
  BY <1>1, <1>3 DEF OfRun
<1>5. ASSUME NEW i \in 1 .. Len(closures'), QueuedFailure(i)'
      PROVE  closures'[i].identity.generation = generation'
               => closures'[i].identity.run = streamRunId'
  <2>1. QueuedFailure(i) /\ i \in 1 .. Len(closures) /\ closures'[i] = closures[i]
    BY <1>5 DEF QueuedFailure
  <2>2. QED
    BY <1>1, <1>2, <2>1 DEF OfRun
<1>6. QED
  BY <1>4, <1>5 DEF RunsInv, OfRun

LEMMA NextRunsInv ==
  TypeInv /\ ErrorsInv /\ RunsInv /\ [Next]_vars => RunsInv'
<1> SUFFICES ASSUME TypeInv, ErrorsInv, RunsInv, [Next]_vars PROVE RunsInv'
  OBVIOUS
<1>0. closures \in Seq(Closure)
  BY DEF TypeInv, TypeOK
<1>1. CASE \/ UNCHANGED vars \/ Enable \/ Disable \/ EmitEnabledChanged \/ SubmitFrame
           \/ TakeLatestResult \/ BeginDestroy \/ WaitAndTake \/ CheckItem
           \/ LoadDetector \/ RecheckItem \/ Detect \/ CheckStop
  <2>1. /\ UNCHANGED <<closures, failed>>
        /\ slot' = "failure" => slot = "failure"
        /\ \/ UNCHANGED <<generation, streamRunId>>
           \/ generation' = generation + 1
    BY <1>1
    DEF vars, Enable, NextGeneration, Disable, EmitEnabledChanged, SubmitFrame,
        TakeLatestResult, BeginDestroy, WaitAndTake, CheckItem, LoadDetector,
        RecheckItem, Detect, CheckStop, activationVars, slotVars
  <2>2. QED
    BY <2>1, QuietRuns
<1>2. CASE PublishResult \/ ReportFailure
  <2>1. UNCHANGED <<slot, failed, generation, streamRunId>>
    BY <1>2 DEF PublishResult, ReportFailure, activationVars, slotVars
  <2>2. CASE closures' = closures
    BY <2>1, <2>2, QuietRuns
  <2>3. CASE closures' # closures
    <3>1. PICK c \in Closure : closures' = Append(closures, c)
                               /\ (c.kind = "failure" => OfRun(c.identity))
      <4>1. CASE PublishResult
        <5>1. ResultClosure \in Closure /\ ResultClosure.kind = "result"
          BY AnalyticsAssumption DEF ResultClosure, Closure, None, Identity
        <5>2. QED
          BY <2>3, <4>1, <5>1 DEF PublishResult
      <4>2. CASE ReportFailure
        <5>1. FailureClosure(item) \in Closure /\ FailureClosure(item).identity = item
          BY DEF FailureClosure, Closure, TypeInv, TypeOK
        <5>2. QED
          BY <2>3, <4>2, <5>1 DEF ReportFailure, Accepts, OfRun
      <4>3. QED
        BY <1>2, <4>1, <4>2
    <3>2. /\ \A i \in 1 .. Len(closures) : closures'[i] = closures[i]
          /\ closures'[Len(closures) + 1] = c
          /\ \A i \in 1 .. Len(closures') : i \in 1 .. Len(closures) \/ i = Len(closures) + 1
      BY <1>0, <3>1, Appended
    <3>3. ASSUME NEW i \in 1 .. Len(closures'), QueuedFailure(i)'
          PROVE  OfRun(closures[i].identity)'
      BY <2>1, <3>1, <3>2, <3>3 DEF QueuedFailure, OfRun, RunsInv
    <3>4. (slot = "failure" => OfRun(failed))'
      BY <2>1 DEF RunsInv, OfRun
    <3>5. QED
      BY <3>3, <3>4 DEF RunsInv
  <2>4. QED
    BY <2>2, <2>3
<1>3. CASE DeliverResult \/ DeliverFailure
  <2>1. /\ closures # <<>> /\ closures' = Tail(closures) /\ slot = "none"
        /\ UNCHANGED <<generation, streamRunId>>
    BY <1>3 DEF DeliverResult, DeliverFailure, Dequeue, activationVars
  <2>2. \A i \in 1 .. Len(closures') :
          i + 1 \in 1 .. Len(closures) /\ closures'[i] = closures[i + 1]
    BY <1>0, <2>1, Dequeued
  <2>3. ASSUME NEW i \in 1 .. Len(closures'), QueuedFailure(i)'
        PROVE  OfRun(closures[i].identity)'
    BY <2>1, <2>2, <2>3 DEF QueuedFailure, OfRun, RunsInv
  <2>4. (slot = "failure" => OfRun(failed))'
    BY <1>3, <2>1 DEF DeliverResult, DeliverFailure, StillFailed, OfRun
  <2>5. QED
    BY <2>3, <2>4 DEF RunsInv
<1>4. CASE ConfirmFailure
  BY <1>4 DEF ConfirmFailure, activationVars, RunsInv, QueuedFailure, OfRun
<1>5. CASE EndDestroy
  <2>1. Len(closures') = 0 /\ slot' = "none"
    BY <1>5 DEF EndDestroy
  <2>2. QED
    BY <2>1 DEF RunsInv, QueuedFailure
<1>6. QED
  BY <1>1, <1>2, <1>3, <1>4, <1>5 DEF Next, Gui, Worker, Over

\* The frame that an identity stands for while its activation is in force.
Held(id, on, run, gen) ==
  IF id # None /\ on /\ id.run = run /\ id.generation = gen THEN {id.revision} ELSE {}

LEMMA WorkingIs ==
  /\ Working = Held(pending, enabled, streamRunId, generation)
                 \cup Held(item, enabled, streamRunId, generation)
                 \cup Held(latest, enabled, streamRunId, generation)
  /\ Working' = Held(pending', enabled', streamRunId', generation')
                  \cup Held(item', enabled', streamRunId', generation')
                  \cup Held(latest', enabled', streamRunId', generation')
BY DEF Working, Held, Accepts

\* The activations whose failure is queued, and the one whose failure is told.
Queued(q) == {q[i].identity.generation : i \in {j \in 1 .. Len(q) : q[j].kind = "failure"}}
Told(s, id) == IF s = "failure" THEN {id.generation} ELSE {}
Failure(c) == IF c.kind = "failure" THEN {c.identity.generation} ELSE {}

LEMMA FailingIs ==
  /\ Failing = Queued(closures) \cup Told(slot, failed)
  /\ Failing' = Queued(closures') \cup Told(slot', failed')
BY DEF Failing, Queued, Told

LEMMA QueuedAppend ==
  ASSUME NEW q \in Seq(Closure), NEW c \in Closure
  PROVE  Queued(Append(q, c)) = Queued(q) \cup Failure(c)
<1> DEFINE p == Append(q, c)
<1>1. /\ \A i \in 1 .. Len(q) : i \in 1 .. Len(p) /\ p[i] = q[i]
      /\ p[Len(q) + 1] = c /\ Len(q) + 1 \in 1 .. Len(p)
      /\ \A i \in 1 .. Len(p) : i \in 1 .. Len(q) \/ i = Len(q) + 1
  BY Appended
<1> HIDE DEF p
<1>2. Queued(p) \subseteq Queued(q) \cup Failure(c)
  BY <1>1 DEF Queued, Failure
<1>3. Queued(q) \subseteq Queued(p)
  BY <1>1 DEF Queued
<1>4. Failure(c) \subseteq Queued(p)
  BY <1>1 DEF Queued, Failure
<1>5. QED
  BY <1>2, <1>3, <1>4 DEF p

LEMMA QueuedTail ==
  ASSUME NEW q \in Seq(Closure), q # <<>>
  PROVE  Queued(q) = Failure(Head(q)) \cup Queued(Tail(q))
<1> DEFINE p == Tail(q)
<1>1. /\ 1 \in 1 .. Len(q) /\ Head(q) = q[1]
      /\ \A i \in 1 .. Len(p) : i + 1 \in 1 .. Len(q) /\ p[i] = q[i + 1]
      /\ \A i \in 1 .. Len(q) :
           i = 1 \/ (i - 1 \in 1 .. Len(p) /\ q[i] = p[i - 1])
  BY Dequeued
<1> HIDE DEF p
<1>2. Queued(q) \subseteq Failure(Head(q)) \cup Queued(p)
  BY <1>1 DEF Queued, Failure
<1>3. Queued(p) \subseteq Queued(q)
  BY <1>1 DEF Queued
<1>4. Failure(Head(q)) \subseteq Queued(q)
  BY <1>1 DEF Queued, Failure
<1>5. QED
  BY <1>2, <1>3, <1>4 DEF p

\* A frame is ahead of the frames of the earlier stages, wherever it is.
LEMMA WorkOrder ==
  ASSUME TypeInv, RevInv, MailboxesCurrent
  PROVE  /\ pending # None => Accepts(pending)
         /\ latest # None => Accepts(latest)
         /\ pending # None => pending.revision \in Nat /\ pending.revision # 0
         /\ item # None => item.revision \in Nat /\ item.revision # 0
         /\ latest # None => latest.revision \in Nat /\ latest.revision # 0
         /\ latest # None /\ item # None => latest.revision < item.revision
         /\ latest # None /\ pending # None => latest.revision < pending.revision
         /\ item # None /\ pending # None => item.revision < pending.revision
<1>1. /\ pending.revision \in Nat /\ item.revision \in Nat /\ latest.revision \in Nat
  BY AnalyticsAssumption DEF TypeInv, TypeOK, Identity
<1>2. /\ pending # None => pending.revision # 0
      /\ item # None => item.revision # 0
      /\ latest # None => latest.revision # 0
  BY DEF TypeInv, ProperInv, Proper
<1>3. QED
  BY <1>1, <1>2 DEF RevInv, Before, MailboxesCurrent, Accepts

\* The owner's calls, and the ends of the session.
LEMMA OwnerSteps ==
  ASSUME TypeInv, RevInv, MailboxesCurrent, WorkInv,
         Enable \/ Disable \/ SubmitFrame \/ TakeLatestResult
  PROVE  [Owner!Next]_(Owner!vars)
<1>1. UNCHANGED <<life, view, failed, closures, errors>> /\ life = "alive"
      /\ (slot' = slot \/ (slot # "failure" /\ slot' # "failure"))
  BY DEF Enable, Disable, SubmitFrame, TakeLatestResult, Callable, slotVars,
         historyVars
<1>2. Failing' = Failing
  BY <1>1, FailingIs DEF Told
<1>3. CASE Enable
  <2>1. generation \in Nat /\ item.generation \in Nat /\ item.generation <= generation
    BY ErrorNumbers DEF WorkInv
  <2>2. /\ pending' = None /\ latest' = None /\ item' = item
        /\ generation' = generation + 1 /\ generation < MaxGeneration /\ enabled' = TRUE
        /\ UNCHANGED <<revision, taken>>
    BY <1>3 DEF Enable, NextGeneration, GenerationLeft, workerVars, historyVars
  <2>3. Working' = {}
    BY <2>1, <2>2, WorkingIs DEF Held
  <2>4. Owner!Enable
    BY <1>1, <1>2, <2>2, <2>3 DEF Owner!Enable
  <2>5. QED
    BY <2>4 DEF Owner!Next
<1>4. CASE Disable
  <2>1. Working' = {}
    BY <1>4, WorkingIs DEF Disable, Held
  <2>2. Owner!Disable
    BY <1>1, <1>2, <1>4, <2>1 DEF Disable, historyVars, Owner!Disable
  <2>3. QED
    BY <2>2 DEF Owner!Next
<1>5. CASE SubmitFrame
  <2> DEFINE P == Held(pending, enabled, streamRunId, generation)
             I == Held(item, enabled, streamRunId, generation)
             L == Held(latest, enabled, streamRunId, generation)
  <2>1. /\ enabled /\ revision < MaxRevision /\ revision' = revision + 1
        /\ UNCHANGED <<enabled, streamRunId, generation, item, latest, taken>>
        /\ pending'.revision = revision + 1
        /\ pending'.run = streamRunId /\ pending'.generation = generation
    BY <1>5 DEF SubmitFrame, Accepts, activationVars, workerVars, historyVars
  <2>2. revision \in Nat /\ pending' # None
    BY <2>1, AnalyticsAssumption DEF TypeInv, TypeOK, None
  <2>3. Working = P \cup I \cup L /\ Working' = {revision + 1} \cup I \cup L
    BY <2>1, <2>2, WorkingIs DEF Held
  <2>4. /\ \A r, s \in P : r = s
        /\ \A r \in P : r \notin I \cup L
    BY WorkOrder DEF Held
  <2>5. P \in SUBSET Working /\ Working' = (Working \ P) \cup {revision + 1}
    BY <2>3, <2>4
  <2> HIDE DEF P, I, L
  <2>6. Owner!SubmitFrame
    BY <1>1, <1>2, <2>1, <2>4, <2>5 DEF Owner!SubmitFrame
  <2>7. QED
    BY <2>6 DEF Owner!Next
<1>6. CASE TakeLatestResult
  <2> DEFINE P == Held(pending, enabled, streamRunId, generation)
             I == Held(item, enabled, streamRunId, generation)
  <2>1. /\ UNCHANGED <<enabled, streamRunId, generation, pending, item, revision>>
        /\ latest' = None
    BY <1>6 DEF TakeLatestResult, ResultAfterTake, activationVars, workerVars
  <2>2. /\ Working = P \cup I \cup Held(latest, enabled, streamRunId, generation)
        /\ Working' = P \cup I
    BY <2>1, WorkingIs DEF Held
  <2>3. CASE latest = None
    <3>1. Working' = Working
      BY <2>2, <2>3 DEF Held
    <3>2. taken' = taken
      BY <1>6, <2>3 DEF TakeLatestResult
    <3>3. QED
      BY <1>1, <1>2, <2>1, <3>1, <3>2 DEF Owner!vars
  <2>4. CASE latest # None
    <3>1. Accepts(latest) /\ taken' = Append(taken, latest.revision)
      BY <1>6, <2>4, WorkOrder DEF TakeLatestResult
    <3>2. Working = P \cup I \cup {latest.revision} /\ enabled
      BY <2>2, <2>4, <3>1 DEF Held, Accepts
    <3>3. latest.revision \in Nat /\ \A r \in P \cup I : r \in Nat /\ latest.revision < r
      BY <2>4, WorkOrder DEF Held
    <3> HIDE DEF P, I
    <3>4. /\ latest.revision \in Working
          /\ \A r \in Working : latest.revision <= r
          /\ Working' = Working \ {latest.revision}
      <4>1. latest.revision \notin P \cup I
        BY <3>3
      <4>2. \A r \in Working : latest.revision <= r
        BY <3>2, <3>3
      <4>3. QED
        BY <2>2, <3>2, <4>1, <4>2
    <3>5. Owner!TakeResult
      BY <1>1, <1>2, <2>1, <3>1, <3>2, <3>4 DEF Owner!TakeResult
    <3>6. QED
      BY <3>5 DEF Owner!Next
  <2>5. QED
    BY <2>3, <2>4
<1>7. QED
  BY <1>3, <1>4, <1>5, <1>6

\* The detector thread moves a frame on, or drops it.
LEMMA WorkerSteps ==
  ASSUME TypeInv, RevInv, MailboxesCurrent, WorkInv,
         \/ WaitAndTake \/ CheckItem \/ LoadDetector \/ RecheckItem \/ Detect
         \/ CheckStop \/ PublishResult
  PROVE  [Owner!Next]_(Owner!vars)
<1> DEFINE P == Held(pending, enabled, streamRunId, generation)
           I == Held(item, enabled, streamRunId, generation)
           L == Held(latest, enabled, streamRunId, generation)
<1>1. UNCHANGED <<life, enabled, streamRunId, generation, view, revision, taken,
                  errors, slot, failed>>
  BY DEF WaitAndTake, CheckItem, LoadDetector, RecheckItem, Detect, CheckStop,
         PublishResult, activationVars, slotVars, historyVars
<1>2. Failing' = Failing
  <2>1. CASE closures' = closures
    BY <1>1, <2>1, FailingIs
  <2>2. CASE closures' # closures
    <3>1. closures' = Append(closures, ResultClosure)
      BY <2>2
      DEF WaitAndTake, CheckItem, LoadDetector, RecheckItem, Detect, CheckStop,
          PublishResult
    <3>2. closures \in Seq(Closure) /\ ResultClosure \in Closure
          /\ Failure(ResultClosure) = {}
      BY AnalyticsAssumption
      DEF TypeInv, TypeOK, ResultClosure, Closure, None, Identity, Failure
    <3>3. Queued(closures') = Queued(closures)
      BY <3>1, <3>2, QueuedAppend
    <3>4. QED
      BY <1>1, <3>3, FailingIs
  <2>3. QED
    BY <2>1, <2>2
<1>3. Working = P \cup I \cup L
  BY WorkingIs
<1>4. CASE WaitAndTake
  <2>1. item = None /\ latest' = latest
        /\ (\/ UNCHANGED <<pending, item>>
            \/ pending' = None /\ item' = pending)
    BY <1>4 DEF WaitAndTake, WorkInv
  <2>2. Working' = Working
    BY <1>1, <2>1, WorkingIs DEF Held
  <2>3. QED
    BY <1>1, <1>2, <2>2 DEF Owner!vars
<1>5. CASE /\ UNCHANGED <<pending, latest>>
           /\ item' = item \/ (~Accepts(item) /\ item' = None)
  <2>1. Working' = Working
    BY <1>1, <1>5, WorkingIs DEF Held, Accepts
  <2>2. QED
    BY <1>1, <1>2, <2>1 DEF Owner!vars
<1>6. CASE /\ UNCHANGED <<pending, latest>>
           /\ life # "alive" /\ item # None /\ Accepts(item) /\ item' = None
  <2>1. I = {item.revision} /\ Working' = P \cup L
    BY <1>1, <1>6, WorkingIs DEF Held, Accepts
  <2>2. item.revision \notin P \cup L
    BY <1>6, WorkOrder DEF Held
  <2> HIDE DEF P, I, L
  <2>3. item.revision \in Working /\ Working' = Working \ {item.revision}
    BY <1>3, <2>1, <2>2
  <2>4. Owner!Skip
    BY <1>1, <1>2, <1>6, <2>3 DEF Owner!Skip
  <2>5. QED
    BY <2>4 DEF Owner!Next
<1>7. CASE /\ pending' = pending /\ latest' = item /\ item' = None
           /\ item # None /\ Accepts(item)
  <2>1. I = {item.revision} /\ Working' = P \cup I
    BY <1>1, <1>7, WorkingIs DEF Held, Accepts
  <2>2. CASE latest = None
    <3>1. Working' = Working
      BY <1>3, <2>1, <2>2 DEF Held
    <3>2. QED
      BY <1>1, <1>2, <3>1 DEF Owner!vars
  <2>3. CASE latest # None
    <3>1. L = {latest.revision} /\ latest.revision < item.revision
      BY <1>7, <2>3, WorkOrder DEF Held, Accepts
    <3>2. latest.revision \notin P \cup I
      BY <1>7, <2>3, WorkOrder DEF Held
    <3> HIDE DEF P, I, L
    <3>3. /\ latest.revision \in Working /\ item.revision \in Working
          /\ Working' = Working \ {latest.revision}
      BY <1>3, <2>1, <3>1, <3>2
    <3>4. Owner!Skip
      <4>1. \E s \in Working : s > latest.revision
        BY <3>1, <3>3, <1>7, <2>3, WorkOrder
      <4>2. QED
        BY <1>1, <1>2, <3>3, <4>1 DEF Owner!Skip
    <3>5. QED
      BY <3>4 DEF Owner!Next
  <2>4. QED
    BY <2>2, <2>3
<1>8. item # None \/ WaitAndTake
  BY DEF TypeInv, ProperInv, CheckItem, LoadDetector, RecheckItem, Detect, CheckStop,
         PublishResult
<1>9. CASE PublishResult
  BY <1>5, <1>7, <1>8, <1>9 DEF PublishResult, WaitAndTake
<1>10. CASE CheckItem \/ LoadDetector \/ RecheckItem \/ Detect \/ CheckStop
  <2>1. /\ UNCHANGED <<pending, latest>>
        /\ \/ item' = item
           \/ item' = None /\ (~Accepts(item) \/ life # "alive")
    BY <1>10
    DEF CheckItem, LoadDetector, RecheckItem, Detect, CheckStop, mailboxVars,
        StopRequested
  <2>2. QED
    BY <1>4, <1>5, <1>6, <1>8, <2>1
<1>11. QED
  BY <1>4, <1>9, <1>10

\* The detector thread ends the activation.
LEMMA FailureStep ==
  ASSUME TypeInv, MailboxesCurrent, WorkInv, ReportFailure
  PROVE  [Owner!Next]_(Owner!vars)
<1>1. /\ UNCHANGED <<life, streamRunId, generation, view, revision, taken, errors,
                     slot, failed>>
      /\ item' = None /\ item # None /\ life # "gone"
  BY DEF ReportFailure, slotVars, historyVars, TypeInv, ProperInv, WorkInv
<1>2. CASE Accepts(item)
  <2>1. enabled /\ enabled' = FALSE /\ item.generation = generation
        /\ closures' = Append(closures, FailureClosure(item))
    BY <1>2 DEF ReportFailure, Accepts
  <2>2. Working' = {} /\ item.revision \in Working
    BY <1>1, <1>2, <2>1, WorkingIs DEF Held, Accepts
  <2>3. closures \in Seq(Closure) /\ FailureClosure(item) \in Closure
        /\ Failure(FailureClosure(item)) = {generation}
    BY <2>1 DEF TypeInv, TypeOK, FailureClosure, Closure, Failure
  <2>4. Queued(closures') = Queued(closures) \cup {generation}
    BY <2>1, <2>3, QueuedAppend
  <2>5. Failing' = Failing \cup {generation}
    BY <1>1, <2>4, FailingIs
  <2>6. Owner!Fail
    BY <1>1, <2>1, <2>2, <2>5 DEF Owner!Fail
  <2>7. QED
    BY <2>6 DEF Owner!Next
<1>3. CASE ~Accepts(item)
  <2>1. UNCHANGED <<enabled, pending, latest, closures>>
    BY <1>3 DEF ReportFailure, mailboxVars
  <2>2. Working' = Working
    BY <1>1, <1>3, <2>1, WorkingIs DEF Held, Accepts
  <2>3. Failing' = Failing
    BY <1>1, <2>1, FailingIs
  <2>4. QED
    BY <1>1, <2>1, <2>2, <2>3 DEF Owner!vars
<1>4. QED
  BY <1>2, <1>3

\* The closures, the signals and the destructor.
LEMMA ClosureSteps ==
  ASSUME TypeInv, ErrorsInv, RunsInv, DeliverResult \/ DeliverFailure \/ ConfirmFailure
  PROVE  [Owner!Next]_(Owner!vars)
<1>1. /\ UNCHANGED <<life, enabled, streamRunId, generation, revision, taken, pending,
                     item, latest>>
      /\ life = "alive"
  BY DEF DeliverResult, DeliverFailure, ConfirmFailure, Dequeue, Callable,
         activationVars, mailboxVars, workerVars, historyVars
<1>2. Working' = Working
  BY <1>1, WorkingIs
<1>3. /\ generation \in Nat /\ failed.generation \in Nat
      /\ \A i \in 1 .. Len(closures) : closures[i].identity.generation \in Nat
      /\ enabled \in BOOLEAN /\ closures \in Seq(Closure)
  BY ErrorNumbers DEF TypeInv, TypeOK
<1>4. \A g \in Queued(closures) :
        /\ g \in Nat /\ g <= generation
        /\ slot = "failure" => failed.generation < g
  BY <1>3 DEF Queued, QueuedFailure, ErrorsInv, FailureQueueInv
<1>5. CASE DeliverResult \/ DeliverFailure
  <2>1. /\ closures # <<>> /\ closures' = Tail(closures) /\ slot = "none"
        /\ UNCHANGED <<errors>>
    BY <1>5 DEF DeliverResult, DeliverFailure, Dequeue, historyVars
  <2>2. Queued(closures) = Failure(Head(closures)) \cup Queued(closures')
    BY <1>3, <2>1, QueuedTail
  <2>3. Failing = Queued(closures)
    BY <2>1, FailingIs DEF Told
  <2>4. CASE DeliverResult
    <3>1. Failure(Head(closures)) = {} /\ slot' # "failure" /\ view' = view
      BY <2>4 DEF DeliverResult, Dequeue, Failure
    <3>2. Failing' = Failing
      BY <2>2, <2>3, <3>1, FailingIs DEF Told
    <3>3. QED
      BY <1>1, <1>2, <2>1, <3>1, <3>2 DEF Owner!vars
  <2>5. CASE DeliverFailure
    <3> DEFINE c == Head(closures)
               g == c.identity.generation
    <3>1. c.kind = "failure" /\ Failure(c) = {g}
      BY <2>5 DEF DeliverFailure, Dequeue, Failure
    <3>2. CASE StillFailed(c.identity)
      <4>1. slot' = "failure" /\ failed' = c.identity /\ view' = enabled
        BY <2>5, <3>2 DEF DeliverFailure
      <4>2. Failing' = Failing
        BY <2>2, <2>3, <3>1, <4>1, FailingIs DEF Told
      <4>3. Owner!Tell
        BY <1>1, <1>2, <2>1, <4>1, <4>2 DEF Owner!Tell
      <4>4. QED
        BY <4>3 DEF Owner!Next
    <3>3. CASE ~StillFailed(c.identity)
      <4>1. slot' # "failure" /\ view' = view
        BY <2>1, <2>5, <3>3 DEF DeliverFailure
      <4>2. /\ 1 \in 1 .. Len(closures) /\ c = closures[1]
            /\ \A i \in 1 .. Len(closures') :
                 i + 1 \in 1 .. Len(closures) /\ closures'[i] = closures[i + 1]
        BY <1>3, <2>1, Dequeued
      <4>3. QueuedFailure(1) /\ g \in Nat
        BY <1>3, <3>1, <4>2 DEF QueuedFailure
      <4>4. g < generation
        <5>1. /\ g <= generation
              /\ enabled => g < generation
              /\ g = generation => c.identity.run = streamRunId
          BY <4>2, <4>3 DEF ErrorsInv, FailureQueueInv, RunsInv, OfRun
        <5>2. QED
          BY <1>3, <3>3, <4>3, <5>1 DEF StillFailed
      <4>5. g \notin Queued(closures')
        <5>1. ASSUME NEW i \in 1 .. Len(closures'), closures'[i].kind = "failure"
              PROVE  closures'[i].identity.generation # g
          <6>1. i + 1 \in 1 .. Len(closures) /\ closures'[i] = closures[i + 1]
                /\ QueuedFailure(i + 1) /\ 1 < i + 1
            BY <4>2, <5>1 DEF QueuedFailure
          <6>2. g < closures[i + 1].identity.generation
            BY <4>2, <4>3, <6>1 DEF ErrorsInv, FailureQueueInv
          <6>3. QED
            BY <1>3, <4>3, <6>1, <6>2
        <5>2. QED
          BY <5>1 DEF Queued
      <4>6. Failing = {g} \cup Queued(closures') /\ Failing' = Queued(closures')
        BY <2>2, <2>3, <3>1, <4>1, FailingIs DEF Told
      <4> HIDE DEF g, c
      <4>7. g \in Failing /\ Failing' = Failing \ {g}
        BY <4>5, <4>6
      <4>8. Owner!ForgetError
        BY <1>1, <1>2, <2>1, <4>1, <4>4, <4>7 DEF Owner!ForgetError
      <4>9. QED
        BY <4>8 DEF Owner!Next
    <3>4. QED
      BY <3>2, <3>3
  <2>6. QED
    BY <1>5, <2>4, <2>5
<1>6. CASE ConfirmFailure
  <2> DEFINE g == failed.generation
  <2>1. slot = "failure" /\ slot' = "none" /\ UNCHANGED <<closures, view>>
    BY <1>6 DEF ConfirmFailure
  <2>2. Failing = Queued(closures) \cup {g} /\ Failing' = Queued(closures)
    BY <2>1, FailingIs DEF Told
  <2>3. g \notin Queued(closures)
    BY <1>3, <1>4, <2>1
  <2>4. g \in Failing /\ Failing' = Failing \ {g}
    BY <2>2, <2>3
  <2>5. CASE ConfirmedFailed(failed)
    <3>1. errors' = Append(errors, g) /\ ~enabled /\ g = generation
      BY <1>6, <2>5 DEF ConfirmFailure, ConfirmedFailed, StillFailed
    <3>2. Owner!ReportError
      BY <1>1, <1>2, <2>1, <2>4, <3>1 DEF Owner!ReportError
    <3>3. QED
      BY <3>2 DEF Owner!Next
  <2>6. CASE ~ConfirmedFailed(failed)
    <3>1. errors' = errors
      BY <1>6, <2>6 DEF ConfirmFailure
    <3>2. g < generation
      <4>1. /\ g <= generation
            /\ enabled => g < generation
            /\ g = generation => failed.run = streamRunId
        BY <2>1 DEF ErrorsInv, ErrorInv, RunsInv, OfRun
      <4>2. QED
        BY <1>3, <2>6, <4>1 DEF ConfirmedFailed, StillFailed
    <3>3. Owner!ForgetError
      BY <1>1, <1>2, <2>1, <2>4, <3>1, <3>2 DEF Owner!ForgetError
    <3>4. QED
      BY <3>3 DEF Owner!Next
  <2>7. QED
    BY <2>5, <2>6
<1>7. QED
  BY <1>5, <1>6

LEMMA StepOwner ==
  ASSUME TypeInv, RevInv, MailboxesCurrent, WorkInv, ErrorsInv, RunsInv, [Next]_vars
  PROVE  [Owner!Next]_(Owner!vars)
<1>1. CASE Enable \/ Disable \/ SubmitFrame \/ TakeLatestResult
  BY <1>1, OwnerSteps
<1>2. CASE \/ WaitAndTake \/ CheckItem \/ LoadDetector \/ RecheckItem \/ Detect
           \/ CheckStop \/ PublishResult
  BY <1>2, WorkerSteps
<1>3. CASE ReportFailure
  BY <1>3, FailureStep
<1>4. CASE DeliverResult \/ DeliverFailure \/ ConfirmFailure
  BY <1>4, ClosureSteps
<1>5. CASE EmitEnabledChanged \/ BeginDestroy \/ EndDestroy
  <2>1. /\ UNCHANGED <<enabled, streamRunId, generation, revision, taken, errors,
                       pending, item, latest>>
    BY <1>5
    DEF EmitEnabledChanged, BeginDestroy, EndDestroy, activationVars, mailboxVars,
        workerVars, historyVars
  <2>2. Working' = Working
    BY <2>1, WorkingIs
  <2>3. CASE EmitEnabledChanged \/ BeginDestroy
    <3>1. Failing' = Failing
      BY <2>3, FailingIs DEF EmitEnabledChanged, BeginDestroy, slotVars
    <3>2. Owner!Tell \/ Owner!BeginDestroy
      BY <2>1, <2>2, <2>3, <3>1
      DEF EmitEnabledChanged, BeginDestroy, Callable, slotVars, Owner!Tell,
          Owner!BeginDestroy
    <3>3. QED
      BY <3>2 DEF Owner!Next
  <2>4. CASE EndDestroy
    <3>1. Len(closures') = 0 /\ slot' = "none"
      BY <2>4 DEF EndDestroy
    <3>2. Failing' = {}
      BY <3>1, FailingIs DEF Queued, Told
    <3>3. Owner!EndDestroy
      BY <2>1, <2>2, <2>4, <3>2 DEF EndDestroy, Owner!EndDestroy
    <3>4. QED
      BY <3>3 DEF Owner!Next
  <2>5. QED
    BY <1>5, <2>3, <2>4
<1>6. CASE UNCHANGED vars
  <2>1. Working' = Working /\ Failing' = Failing
    BY <1>6, WorkingIs, FailingIs DEF vars
  <2>2. QED
    BY <1>6, <2>1 DEF vars, Owner!vars
<1>7. QED
  BY <1>1, <1>2, <1>3, <1>4, <1>5, <1>6 DEF Next, Gui, Worker, Over

LEMMA InitOwner == Init => WorkInv /\ RunsInv /\ Owner!Init
<1> SUFFICES ASSUME Init PROVE WorkInv /\ RunsInv /\ Owner!Init
  OBVIOUS
<1>1. Len(closures) = 0 /\ slot = "none" /\ item = None /\ pending = None
      /\ latest = None /\ None.generation = 0
  BY DEF Init, None
<1>2. Working = {}
  BY <1>1, WorkingIs DEF Held
<1>3. Failing = {}
  BY <1>1, FailingIs DEF Queued, Told
<1>4. WorkInv /\ RunsInv
  BY <1>1 DEF Init, WorkInv, RunsInv, QueuedFailure
<1>5. QED
  BY <1>2, <1>3, <1>4 DEF Init, Owner!Init

\* Whatever the detector thread, the mailboxes and the queued closures do, the
\* owner sees a behaviour of AnalyticsView: results of frames in order, a frame
\* given up only for a newer one, a failure that ends the activation it is of,
\* and an error forgotten only when its activation has been replaced. (What must
\* happen in the end, the other part of ImplementsAnalyticsView, is left to TLC.)
THEOREM SessionImplementsAnalyticsView == Spec => Owner!Spec
<1>1. TypeInv /\ RevInv /\ MailboxesCurrent /\ WorkInv /\ ErrorsInv /\ RunsInv
        /\ [Next]_vars => [Owner!Next]_(Owner!vars)
  BY StepOwner
<1>2. QED
  BY <1>1, InitOwner, NextWorkInv, NextRunsInv, TypeInvariant, RevInvariant,
     NothingOutlivesItsActivation, ErrorsInvariant, PTL
  DEF Spec, Owner!Spec

=============================================================================
