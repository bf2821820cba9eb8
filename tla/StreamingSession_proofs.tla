------------------------ MODULE StreamingSession_proofs ------------------------
(***************************************************************************)
(* Safety of StreamingSession, and the safety part of its refinement of    *)
(* StreamView, for every number of runs, retries, frames and queued events. *)
(***************************************************************************)
EXTENDS StreamingSession, SequenceTheorems, TLAPS

\* The worker retries only within its budget.
RetryInv == wpc = "wait" => retryCount < MaxRetries

TypeInv == TypeOK /\ RetryInv

LEMMA InitTypeInv == Init => TypeInv
BY StreamingAssumption
DEF Init, TypeInv, TypeOK, RetryInv, ConnectionState, WorkerPc, ExitReason,
    RunId, Snapshot, NoFrame

\* Posting signals keeps the GUI queue a sequence of events.
LEMMA PostType ==
  ASSUME events \in Seq(Event), NEW signals \in Seq(Event), Post(signals)
  PROVE  events' \in Seq(Event)
BY ConcatProperties DEF Post

LEMMA NextTypeInv == TypeInv /\ [Next]_vars => TypeInv'
<1> SUFFICES ASSUME TypeInv, [Next]_vars PROVE TypeInv'
    OBVIOUS
<1> USE StreamingAssumption
    DEF TypeInv, TypeOK, RetryInv, ConnectionState, WorkerPc, ExitReason,
        RunId, Snapshot, NoFrame
<1>s. \A s \in Event : <<s>> \in Seq(Event)
    OBVIOUS
<1>1. CASE Start
    BY <1>1 DEF Start, Superseded, viewVars, workerVars, historyVars
<1>2. CASE Stop
    BY <1>2 DEF Stop, viewVars, workerVars, historyVars
<1>3. CASE BeginDestroy
    BY <1>3 DEF BeginDestroy, StoppedByDestructor, viewVars, workerVars, historyVars
<1>4. CASE EndDestroy
    BY <1>4 DEF EndDestroy, workerVars, historyVars
<1>5. CASE DeliverState
    BY <1>5 DEF DeliverState, sessionVars, workerVars, historyVars
<1>6. CASE DeliverFrame
    BY <1>6 DEF DeliverFrame, CurrentFrame, sessionVars, workerVars, historyVars
<1>7. CASE RefuseCall
  <2>1. events' \in Seq(Event)
    BY <1>7, <1>s, PostType DEF RefuseCall, ReportRefusal, EmitState, Event
  <2>2. QED
    BY <1>7, <2>1 DEF RefuseCall, ReportRefusal, EmitState, sessionVars, viewVars, workerVars
<1>8. CASE AcceptCall
  <2>1. events' \in Seq(Event)
    BY <1>8, <1>s, PostType DEF AcceptCall, EmitState, Event
  <2>2. QED
    BY <1>8, <2>1 DEF AcceptCall, EmitState, sessionVars, viewVars
<1>9. CASE BeginAttempt
    BY <1>9 DEF BeginAttempt, Silent, sessionVars, viewVars, workerVars
<1>10. CASE FailAttempt
    BY <1>10 DEF FailAttempt, Silent, sessionVars, viewVars
<1>11. CASE OpenAttempt
    BY <1>11 DEF OpenAttempt, Silent, sessionVars, viewVars
<1>12. CASE Connect
  <2>1. events' \in Seq(Event)
    BY <1>12, <1>s, PostType DEF Connect, EmitState, Event
  <2>2. QED
    BY <1>12, <2>1 DEF Connect, RetryCountOnConnect, EmitState, sessionVars, viewVars
<1>13. CASE PublishFrame
    BY <1>13 DEF PublishFrame, Silent, sessionVars, viewVars, workerVars
<1>14. CASE NotifyFrame
  <2>1. events' \in Seq(Event)
    BY <1>14, <1>s, PostType DEF NotifyFrame, Event, FrameUpdated
  <2>2. QED
    BY <1>14, <2>1 DEF NotifyFrame, sessionVars, viewVars, workerVars, historyVars
<1>15. CASE LeaveReadLoop
    BY <1>15 DEF LeaveReadLoop, Silent, sessionVars, viewVars
<1>16. CASE ExitCancelled
    BY <1>16 DEF ExitCancelled, Silent, sessionVars, viewVars, workerVars
<1>17. CASE ExitFailed
  <2>1. <<"Reconnecting">> \in Seq(Event) /\ <<"Reconnecting", "Error">> \in Seq(Event)
    BY DEF Event
  <2>2. events' \in Seq(Event)
    BY <1>17, <2>1, PostType DEF ExitFailed, EmitState
  <2>3. QED
    BY <1>17, <2>2 DEF ExitFailed, EmitState, AfterLastFailure, ShouldRetry,
       sessionVars, viewVars, workerVars
<1>18. CASE Wait
    BY <1>18 DEF Wait, Silent, sessionVars, viewVars
<1>19. CASE EndRun
  <2>1. events' \in Seq(Event)
    BY <1>19, <1>s, PostType DEF EndRun, ReportEnd, EmitState, Silent, Event
  <2>2. QED
    BY <1>19, <2>1 DEF EndRun, ReportEnd, EmitState, Silent, sessionVars, viewVars, workerVars
<1>20. CASE FinishThread
    BY <1>20 DEF FinishThread, Silent, sessionVars, viewVars, workerVars
<1>21. CASE UNCHANGED vars
    BY <1>21 DEF vars
<1>22. QED
    BY <1>1, <1>2, <1>3, <1>4, <1>5, <1>6, <1>7, <1>8, <1>9, <1>10, <1>11,
       <1>12, <1>13, <1>14, <1>15, <1>16, <1>17, <1>18, <1>19, <1>20, <1>21
    DEF Next, Gui, Worker, Gone

LEMMA TypeInvariant == Spec => []TypeInv
<1>1. QED
    BY InitTypeInv, NextTypeInv, PTL DEF Spec

\* Type correctness: in particular the retry counter never passes its limit
\* and the run counter never wraps (ReconnectPolicy, StreamingSession::start).
THEOREM TypeCorrect == Spec => []TypeOK
<1>1. TypeInv => TypeOK
    BY DEF TypeInv
<1>2. QED
    BY <1>1, TypeInvariant, PTL

-----------------------------------------------------------------------------
(* Runs. Every run older than the newest has been stopped, and calls reach  *)
(* the worker in the order of their run ids.                                *)

RunInv ==
  /\ \A r \in RunId : r < streamRunId => r \in stopped
  /\ workerRun <= streamRunId
  /\ \A i \in 1 .. Len(calls) : workerRun < calls[i] /\ calls[i] <= streamRunId
  /\ \A i, j \in 1 .. Len(calls) : i < j => calls[i] < calls[j]
  /\ snapshot.run <= workerRun
  /\ InRun => workerRun > 0
  /\ snapshot # NoFrame => snapshot.run > 0

\* Taking the first call off the queue.
LEMMA TakeCall ==
  ASSUME calls \in Seq(RunId), calls # <<>>, calls' = Tail(calls)
  PROVE  /\ Len(calls') = Len(calls) - 1
         /\ Len(calls) \in Nat \ {0}
         /\ Head(calls) = calls[1]
         /\ Head(calls) \in RunId
         /\ \A i \in 1 .. Len(calls') : calls'[i] = calls[i + 1]
BY HeadTailProperties

\* Queueing the call of the next run.
LEMMA AddCall ==
  ASSUME calls \in Seq(RunId), streamRunId \in RunId, streamRunId < MaxRunId,
         workerRun \in RunId, workerRun <= streamRunId,
         \A i \in 1 .. Len(calls) : workerRun < calls[i] /\ calls[i] <= streamRunId,
         \A i, j \in 1 .. Len(calls) : i < j => calls[i] < calls[j],
         calls' = Append(calls, streamRunId + 1)
  PROVE  /\ \A i \in 1 .. Len(calls') : workerRun < calls'[i] /\ calls'[i] <= streamRunId + 1
         /\ \A i, j \in 1 .. Len(calls') : i < j => calls'[i] < calls'[j]
<1>1. streamRunId + 1 \in RunId
  BY StreamingAssumption DEF RunId
<1>2. /\ Len(calls') = Len(calls) + 1
      /\ Len(calls) \in Nat
      /\ \A i \in 1 .. Len(calls) : calls'[i] = calls[i]
      /\ calls'[Len(calls) + 1] = streamRunId + 1
  BY <1>1, AppendProperties, LenProperties
<1>3. streamRunId \in Nat /\ workerRun \in Nat /\ \A i \in 1 .. Len(calls) : calls[i] \in Nat
  BY StreamingAssumption, ElementOfSeq DEF RunId
<1>4. \A i \in 1 .. Len(calls') :
        \/ i \in 1 .. Len(calls) /\ calls'[i] = calls[i]
        \/ i = Len(calls) + 1 /\ calls'[i] = streamRunId + 1
  BY <1>2
<1>5. ASSUME NEW i \in 1 .. Len(calls')
      PROVE  workerRun < calls'[i] /\ calls'[i] <= streamRunId + 1
  BY <1>3, <1>4
<1>6. ASSUME NEW i \in 1 .. Len(calls'), NEW j \in 1 .. Len(calls'), i < j
      PROVE  calls'[i] < calls'[j]
  <2>1. i \in 1 .. Len(calls) /\ calls'[i] = calls[i]
    BY <1>2, <1>4, <1>6
  <2>2. QED
    BY <1>3, <1>4, <1>6, <2>1
<1>7. QED
  BY <1>5, <1>6

LEMMA InitRunInv == Init => RunInv
BY DEF Init, RunInv, RunId, NoFrame, InRun

LEMMA NextRunInv == TypeInv /\ RunInv /\ [Next]_vars => RunInv'
<1> SUFFICES ASSUME TypeInv, RunInv, [Next]_vars PROVE RunInv'
    OBVIOUS
<1> USE StreamingAssumption
    DEF TypeInv, TypeOK, RunInv, RunId, Snapshot, InRun
<1>1. CASE Start
  <2>1. /\ calls' = Append(calls, streamRunId + 1)
        /\ streamRunId' = streamRunId + 1
        /\ stopped' = stopped \cup {streamRunId}
        /\ UNCHANGED <<workerRun, wpc, snapshot>>
        /\ streamRunId < MaxRunId
    BY <1>1 DEF Start, Superseded, workerVars
  <2>2. /\ \A i \in 1 .. Len(calls') : workerRun < calls'[i] /\ calls'[i] <= streamRunId + 1
        /\ \A i, j \in 1 .. Len(calls') : i < j => calls'[i] < calls'[j]
    BY <2>1, AddCall
  <2>3. \A r \in RunId : r < streamRunId + 1 => r \in stopped'
    BY <2>1
  <2>4. workerRun <= streamRunId + 1 /\ snapshot.run <= workerRun
    OBVIOUS
  <2>5. /\ InRun' => workerRun' > 0
        /\ snapshot' # NoFrame => snapshot'.run > 0
    BY <2>1
  <2>6. streamRunId' = streamRunId + 1 /\ UNCHANGED <<workerRun, snapshot>>
    BY <2>1
  <2>7. QED
    BY <2>2, <2>3, <2>4, <2>5, <2>6
<1>2. CASE Stop \/ BeginDestroy
    BY <1>2 DEF Stop, BeginDestroy, StoppedByDestructor, workerVars
<1>3. CASE RefuseCall
    BY <1>3, TakeCall DEF RefuseCall, sessionVars, workerVars
<1>4. CASE AcceptCall
    BY <1>4, TakeCall DEF AcceptCall, sessionVars
<1>5. CASE PublishFrame
    BY <1>5 DEF PublishFrame, sessionVars, workerVars
<1>6. CASE FinishThread
    BY <1>6 DEF FinishThread, sessionVars, workerVars
<1>7. CASE \/ EndDestroy \/ DeliverState \/ DeliverFrame \/ BeginAttempt
           \/ FailAttempt \/ OpenAttempt \/ Connect \/ NotifyFrame
           \/ LeaveReadLoop \/ ExitCancelled \/ ExitFailed \/ Wait \/ EndRun
           \/ UNCHANGED vars
    BY <1>7
    DEF EndDestroy, DeliverState, DeliverFrame, BeginAttempt, FailAttempt,
        OpenAttempt, Connect, NotifyFrame, LeaveReadLoop, ExitCancelled,
        ExitFailed, Wait, EndRun, vars, sessionVars, workerVars
<1>8. QED
    BY <1>1, <1>2, <1>3, <1>4, <1>5, <1>6, <1>7 DEF Next, Gui, Worker, Gone

LEMMA RunInvariant == Spec => []RunInv
<1>1. QED
    BY TypeInvariant, InitRunInv, NextRunInv, PTL DEF Spec

\* Only the newest run is live: the worker can never be held by an older one
\* that nothing told to stop (StreamingSession::start).
THEOREM OnlyNewestRunLive == Spec => []OneLiveRun
<1>1. TypeInv /\ RunInv => OneLiveRun
    BY StreamingAssumption, ElementOfSeq
    DEF TypeInv, TypeOK, RunInv, OneLiveRun, RunId
<1>2. QED
    BY <1>1, TypeInvariant, RunInvariant, PTL

-----------------------------------------------------------------------------
(* The retry budget.                                                       *)

BudgetInv ==
  /\ wpc \in {"loop", "init", "connect", "read", "notify", "exit"}
     => failedAttempts = retryCount /\ lastEmitted # "Error"
  /\ wpc = "wait" => failedAttempts = retryCount + 1 /\ lastEmitted # "Error"
  /\ wpc \in {"read", "notify"} => retryCount = 0

LEMMA InitBudgetInv == Init => BudgetInv /\ GivesUpOnlyWhenSpent
BY StreamingAssumption DEF Init, BudgetInv, GivesUpOnlyWhenSpent

LEMMA NextBudgetInv ==
  TypeInv /\ BudgetInv /\ GivesUpOnlyWhenSpent /\ [Next]_vars
  => BudgetInv' /\ GivesUpOnlyWhenSpent'
<1> SUFFICES ASSUME TypeInv, BudgetInv, GivesUpOnlyWhenSpent, [Next]_vars
             PROVE  BudgetInv' /\ GivesUpOnlyWhenSpent'
    OBVIOUS
<1> USE StreamingAssumption
    DEF TypeInv, TypeOK, RetryInv, BudgetInv, GivesUpOnlyWhenSpent
<1>1. CASE Gui \/ Gone \/ UNCHANGED vars
    BY <1>1
    DEF Gui, Start, Stop, BeginDestroy, EndDestroy, DeliverState, DeliverFrame,
        Gone, vars, workerVars, historyVars
<1>2. CASE RefuseCall \/ AcceptCall
    BY <1>2 DEF RefuseCall, AcceptCall, ReportRefusal, EmitState, workerVars
<1>3. CASE BeginAttempt \/ FailAttempt \/ OpenAttempt
    BY <1>3 DEF BeginAttempt, FailAttempt, OpenAttempt, Silent, workerVars
<1>4. CASE Connect
    BY <1>4 DEF Connect, RetryCountOnConnect, EmitState
<1>5. CASE PublishFrame \/ NotifyFrame \/ LeaveReadLoop
    BY <1>5 DEF PublishFrame, NotifyFrame, LeaveReadLoop, Silent, workerVars,
                historyVars
<1>6. CASE ExitCancelled
    BY <1>6 DEF ExitCancelled, Silent, workerVars
<1>7. CASE ExitFailed
    BY <1>7 DEF ExitFailed, ShouldRetry, AfterLastFailure, EmitState, workerVars
<1>8. CASE Wait
    BY <1>8 DEF Wait, Silent
<1>9. CASE EndRun \/ FinishThread
    BY <1>9 DEF EndRun, FinishThread, ReportEnd, EmitState, Silent, workerVars
<1>10. QED
    BY <1>1, <1>2, <1>3, <1>4, <1>5, <1>6, <1>7, <1>8, <1>9 DEF Next, Worker

LEMMA BudgetInvariant == Spec => [](BudgetInv /\ GivesUpOnlyWhenSpent)
<1>1. QED
    BY TypeInvariant, InitBudgetInv, NextBudgetInv, PTL DEF Spec

\* Error is reported after exactly MaxRetries failed retries in a row, for
\* every budget (ReconnectPolicy, StreamingWorker::start).
THEOREM ExactRetryBudget == Spec => []GivesUpOnlyWhenSpent
<1>1. QED
    BY BudgetInvariant, PTL

LEMMA GivenUpStep ==
  ASSUME TypeInv, RunInv, BudgetInv, [Next]_vars,
         lastEmitted = "Error", lastEmitted' # "Error"
  PROVE  lastEmitted' = "Disconnected" \/ workerRun' > workerRun
<1> USE DEF TypeInv, TypeOK, RunInv, BudgetInv, RunId
<1>1. CASE AcceptCall
  <2>1. calls # <<>> /\ calls' = Tail(calls) /\ workerRun' = Head(calls)
    BY <1>1 DEF AcceptCall
  <2>2. QED
    BY <2>1, TakeCall
<1>2. CASE RefuseCall \/ EndRun
    BY <1>2 DEF RefuseCall, EndRun, ReportRefusal, ReportEnd, EmitState, Silent
<1>3. CASE Connect \/ ExitFailed
    BY <1>3 DEF Connect, ExitFailed
<1>4. CASE \/ Gui \/ BeginAttempt \/ FailAttempt \/ OpenAttempt \/ PublishFrame
           \/ NotifyFrame \/ LeaveReadLoop \/ ExitCancelled \/ Wait
           \/ FinishThread \/ Gone \/ UNCHANGED vars
    BY <1>4
    DEF Gui, Start, Stop, BeginDestroy, EndDestroy, DeliverState, DeliverFrame,
        BeginAttempt, FailAttempt, OpenAttempt, PublishFrame, NotifyFrame,
        LeaveReadLoop, ExitCancelled, Wait, FinishThread, Gone, vars, Silent,
        historyVars
<1>5. QED
    BY <1>1, <1>2, <1>3, <1>4 DEF Next, Worker

\* No run is retried after its budget is spent: the next signal after Error
\* belongs to a stop request or to a newer run.
THEOREM ErrorIsFinal == Spec => GivenUpStaysDown
<1>1. TypeInv /\ RunInv /\ BudgetInv /\ [Next]_vars
      => [lastEmitted = "Error" /\ lastEmitted' # "Error"
          => lastEmitted' = "Disconnected" \/ workerRun' > workerRun]_vars
    BY GivenUpStep
<1>2. QED
    BY <1>1, TypeInvariant, RunInvariant, BudgetInvariant, PTL
    DEF Spec, GivenUpStaysDown

-----------------------------------------------------------------------------
(* The queue of signals. Delivered in order, the queued states end in the   *)
(* last one the worker emitted, and every frame signal follows a Connected. *)

QueueInv ==
  life = "alive" =>
    /\ (\A i \in 1 .. Len(events) : events[i] = FrameUpdated)
       => sessionState = lastEmitted
    /\ \A i \in 1 .. Len(events) :
         (/\ events[i] # FrameUpdated
          /\ \A j \in i + 1 .. Len(events) : events[j] = FrameUpdated)
         => events[i] = lastEmitted

WorkerStateInv ==
  /\ wpc = "idle" => lastEmitted \in {"Disconnected", "Error"}
  /\ wpc = "end" => workerRun \in stopped \/ lastEmitted = "Error"
  /\ wpc \in {"read", "notify"} => lastEmitted = "Connected"

FrameSignalInv ==
  life = "alive" =>
    /\ \A i \in 1 .. Len(events) :
         events[i] = FrameUpdated
         => IF i = 1 THEN sessionState = "Connected"
                     ELSE events[i - 1] \in {FrameUpdated, "Connected"}
    /\ wpc \in {"read", "notify"}
       => IF events = <<>> THEN sessionState = "Connected"
                           ELSE events[Len(events)] \in {FrameUpdated, "Connected"}

SignalInv == QueueInv /\ WorkerStateInv /\ FrameSignalInv

\* What posting one signal does to the queue while the session lives, ...
LEMMA PostOne ==
  ASSUME events \in Seq(Event), NEW e \in Event, Post(<<e>>), life = "alive"
  PROVE  /\ Len(events) \in Nat
         /\ Len(events') = Len(events) + 1
         /\ \A i \in 1 .. Len(events) : events'[i] = events[i]
         /\ events'[Len(events) + 1] = e
<1>1. events' = Append(events, e)
  BY AppendIsConcat DEF Post
<1>2. QED
  BY <1>1, AppendProperties

\* ... what posting two does, ...
LEMMA PostTwo ==
  ASSUME events \in Seq(Event), NEW d \in Event, NEW e \in Event,
         Post(<<d, e>>), life = "alive"
  PROVE  /\ Len(events) \in Nat
         /\ Len(events') = Len(events) + 2
         /\ \A i \in 1 .. Len(events) : events'[i] = events[i]
         /\ events'[Len(events) + 1] = d
         /\ events'[Len(events) + 2] = e
<1>1. /\ <<d, e>> \in Seq(Event) /\ Len(<<d, e>>) = 2
      /\ <<d, e>>[1] = d /\ <<d, e>>[2] = e
  OBVIOUS
<1>2. events' = events \o <<d, e>>
  BY DEF Post
<1>3. /\ Len(events) \in Nat
      /\ Len(events') = Len(events) + 2
      /\ \A i \in 1 .. Len(events) + 2 :
           events'[i] = IF i <= Len(events) THEN events[i] ELSE <<d, e>>[i - Len(events)]
  BY <1>1, <1>2, ConcatProperties, LenProperties
<1>4. /\ events'[Len(events) + 1] = <<d, e>>[(Len(events) + 1) - Len(events)]
      /\ events'[Len(events) + 2] = <<d, e>>[(Len(events) + 2) - Len(events)]
  BY <1>3
<1>5. /\ (Len(events) + 1) - Len(events) = 1
      /\ (Len(events) + 2) - Len(events) = 2
  BY <1>3
<1>6. QED
  BY <1>1, <1>3, <1>4, <1>5

\* ... and what delivering its first event does.
LEMMA DeliveredEvent ==
  ASSUME events \in Seq(Event), events # <<>>, events' = Tail(events)
  PROVE  /\ Len(events) \in Nat \ {0}
         /\ Len(events') = Len(events) - 1
         /\ Head(events) = events[1]
         /\ \A i \in 1 .. Len(events') : events'[i] = events[i + 1]
         /\ \A i \in 2 .. Len(events) : events[i] = events'[i - 1]
<1>1. /\ Len(events) \in Nat \ {0}
      /\ Len(events') = Len(events) - 1
      /\ Head(events) = events[1]
      /\ \A i \in 1 .. Len(events') : events'[i] = events[i + 1]
  BY HeadTailProperties
<1>2. ASSUME NEW i \in 2 .. Len(events) PROVE events[i] = events'[i - 1]
  <2>1. i - 1 \in 1 .. Len(events') /\ (i - 1) + 1 = i
    BY <1>1
  <2>2. QED
    BY <1>1, <2>1
<1>3. QED
  BY <1>1, <1>2

LEMMA InitSignalInv == Init => SignalInv /\ VideoOnlyWhileStreaming
BY DEF Init, SignalInv, QueueInv, WorkerStateInv, FrameSignalInv,
       VideoOnlyWhileStreaming

\* A step that posts one state and records it.
LEMMA EmitStateSignals ==
  ASSUME TypeInv, SignalInv, NEW s \in ConnectionState, EmitState(s),
         UNCHANGED <<life, sessionState>>, wpc' \notin {"read", "notify"} \/ s = "Connected"
  PROVE  QueueInv' /\ FrameSignalInv'
<1> USE DEF TypeInv, TypeOK, SignalInv, QueueInv, FrameSignalInv
<1>1. CASE life # "alive"
    BY <1>1
<1>2. CASE life = "alive"
  <2>1. s \in Event /\ Post(<<s>>) /\ lastEmitted' = s /\ s # FrameUpdated
    BY DEF EmitState, Event, ConnectionState, FrameUpdated
  <2>2. /\ Len(events) \in Nat
        /\ Len(events') = Len(events) + 1
        /\ \A i \in 1 .. Len(events) : events'[i] = events[i]
        /\ events'[Len(events) + 1] = s
    BY <1>2, <2>1, PostOne
  <2>3. QueueInv'
    BY <1>2, <2>1, <2>2
  <2>4. FrameSignalInv'
    BY <1>2, <2>1, <2>2
  <2>5. QED
    BY <2>3, <2>4
<1>3. QED
    BY <1>1, <1>2

\* Delivering the head of the queue.
LEMMA DeliverQueueInv ==
  ASSUME events \in Seq(Event), events # <<>>, events' = Tail(events), QueueInv,
         life = "alive", UNCHANGED <<life, lastEmitted>>,
         sessionState' = IF events[1] = FrameUpdated THEN sessionState ELSE events[1]
  PROVE  QueueInv'
<1>1. ASSUME \A i \in 1 .. Len(events') : events'[i] = FrameUpdated
      PROVE  sessionState' = lastEmitted
  <2>1. \A j \in 2 .. Len(events) : events[j] = FrameUpdated
    <3>1. SUFFICES ASSUME NEW j \in 2 .. Len(events) PROVE events[j] = FrameUpdated
      OBVIOUS
    <3>2. events[j] = events'[j - 1] /\ j - 1 \in 1 .. Len(events')
      BY DeliveredEvent
    <3>3. QED
      BY <1>1, <3>2
  <2>2. 1 \in 1 .. Len(events)
    BY DeliveredEvent
  <2>3. CASE events[1] = FrameUpdated
    <3>1. \A i \in 1 .. Len(events) : events[i] = FrameUpdated
      BY <2>1, <2>2, <2>3, DeliveredEvent
    <3>2. QED
      BY <2>3, <3>1 DEF QueueInv
  <2>4. CASE events[1] # FrameUpdated
    BY <2>1, <2>2, <2>4 DEF QueueInv
  <2>5. QED
    BY <2>3, <2>4
<1>2. ASSUME NEW i \in 1 .. Len(events'), events'[i] # FrameUpdated,
             \A j \in i + 1 .. Len(events') : events'[j] = FrameUpdated
      PROVE  events'[i] = lastEmitted
  <2>1. /\ i + 1 \in 1 .. Len(events) /\ events'[i] = events[i + 1]
        /\ Len(events') = Len(events) - 1 /\ Len(events) \in Nat
    BY DeliveredEvent
  <2>2. ASSUME NEW j \in (i + 1) + 1 .. Len(events) PROVE events[j] = FrameUpdated
    <3>1. j \in 2 .. Len(events) /\ j - 1 \in i + 1 .. Len(events')
      BY <2>1
    <3>2. QED
      BY <1>2, <3>1, DeliveredEvent
  <2>3. QED
    BY <1>2, <2>1, <2>2 DEF QueueInv
<1>3. QED
  BY <1>1, <1>2 DEF QueueInv

\* Posting a frame signal.
LEMMA FrameQueueInv ==
  ASSUME events \in Seq(Event), QueueInv, FrameSignalInv, Post(<<FrameUpdated>>),
         UNCHANGED <<life, sessionState, lastEmitted>>,
         life = "alive", wpc = "notify"
  PROVE  QueueInv' /\ FrameSignalInv'
<1>1. /\ Len(events) \in Nat
      /\ Len(events') = Len(events) + 1
      /\ \A i \in 1 .. Len(events) : events'[i] = events[i]
      /\ events'[Len(events) + 1] = FrameUpdated
  BY PostOne DEF Event
<1>2. events = <<>> <=> Len(events) = 0
  BY EmptySeq
<1>3. events' # <<>> /\ events'[Len(events')] = FrameUpdated
  BY <1>1, EmptySeq
<1>4. QueueInv'
  <2>1. (\A i \in 1 .. Len(events') : events'[i] = FrameUpdated)
        => \A i \in 1 .. Len(events) : events[i] = FrameUpdated
    BY <1>1
  <2>2. ASSUME NEW i \in 1 .. Len(events'), events'[i] # FrameUpdated,
               \A j \in i + 1 .. Len(events') : events'[j] = FrameUpdated
        PROVE  events'[i] = lastEmitted
    <3>1. i \in 1 .. Len(events) /\ events'[i] = events[i]
      BY <1>1, <2>2
    <3>2. \A j \in i + 1 .. Len(events) : events[j] = FrameUpdated
      BY <1>1, <2>2, <3>1
    <3>3. QED
      BY <2>2, <3>1, <3>2 DEF QueueInv
  <2>3. QED
    BY <2>1, <2>2 DEF QueueInv
<1>5. FrameSignalInv'
  <2>1. ASSUME NEW i \in 1 .. Len(events'), events'[i] = FrameUpdated
        PROVE  IF i = 1 THEN sessionState = "Connected"
               ELSE events'[i - 1] \in {FrameUpdated, "Connected"}
    <3>1. CASE i = Len(events) + 1
      BY <1>1, <1>2, <3>1 DEF FrameSignalInv
    <3>2. CASE i \in 1 .. Len(events)
      <4>1. i = 1 \/ (i - 1 \in 1 .. Len(events) /\ events'[i - 1] = events[i - 1])
        BY <1>1, <3>2
      <4>2. QED
        BY <1>1, <2>1, <3>2, <4>1 DEF FrameSignalInv
    <3>3. QED
      BY <1>1, <3>1, <3>2
  <2>2. QED
    BY <1>3, <2>1 DEF FrameSignalInv
<1>6. QED
  BY <1>4, <1>5

LEMMA NextSignalInv ==
  TypeInv /\ SignalInv /\ BudgetInv /\ VideoOnlyWhileStreaming /\ [Next]_vars
  => SignalInv' /\ VideoOnlyWhileStreaming'
<1> SUFFICES ASSUME TypeInv, SignalInv, BudgetInv, VideoOnlyWhileStreaming,
                    [Next]_vars
             PROVE  SignalInv' /\ VideoOnlyWhileStreaming'
    OBVIOUS
<1> USE DEF TypeInv, TypeOK, SignalInv, QueueInv, WorkerStateInv,
            FrameSignalInv, VideoOnlyWhileStreaming
<1>1. CASE Start \/ Stop \/ BeginDestroy \/ EndDestroy \/ Gone \/ UNCHANGED vars
    BY <1>1
    DEF Start, Superseded, Stop, BeginDestroy, StoppedByDestructor, EndDestroy,
        Gone, vars, viewVars, workerVars, historyVars
<1>2. CASE DeliverState
  <2>1. /\ events # <<>> /\ events' = Tail(events)
        /\ sessionState' = events[1] /\ events[1] # FrameUpdated
        /\ UNCHANGED <<life, wpc, workerRun, stopped, lastEmitted>>
    BY <1>2, DeliveredEvent
    DEF DeliverState, ConnectionState, FrameUpdated, sessionVars, workerVars,
        historyVars
  <2>2. QueueInv'
    BY <1>2, <2>1, DeliverQueueInv DEF DeliverState
  <2>3. FrameSignalInv'
    <3>1. events' = <<>> <=> Len(events') = 0
      BY <2>1, HeadTailProperties, EmptySeq
    <3>2. QED
      BY <2>1, <3>1, DeliveredEvent
  <2>4. VideoOnlyWhileStreaming'
    BY <1>2 DEF DeliverState, ClearsVideo, ConnectionState
  <2>5. WorkerStateInv'
    BY <2>1
  <2>6. QED
    BY <2>2, <2>3, <2>4, <2>5
<1>3. CASE DeliverFrame
  <2>1. /\ events # <<>> /\ events' = Tail(events) /\ events[1] = FrameUpdated
        /\ UNCHANGED <<life, wpc, workerRun, stopped, lastEmitted, sessionState>>
    BY <1>3, DeliveredEvent
    DEF DeliverFrame, sessionVars, workerVars, historyVars
  <2>2. sessionState = "Connected"
    BY <1>3, <2>1, DeliveredEvent DEF DeliverFrame
  <2>3. QueueInv'
    BY <1>3, <2>1, DeliverQueueInv DEF DeliverFrame
  <2>4. FrameSignalInv'
    <3>1. events' = <<>> <=> Len(events') = 0
      BY <2>1, HeadTailProperties, EmptySeq
    <3>2. QED
      BY <1>3, <2>1, <2>2, <3>1, DeliveredEvent DEF FrameUpdated
  <2>5. QED
    BY <2>1, <2>2, <2>3, <2>4
<1>4. CASE RefuseCall
  <2>1. EmitState("Disconnected") /\ UNCHANGED <<life, sessionState, vmFrame, wpc>>
    BY <1>4 DEF RefuseCall, ReportRefusal, sessionVars, viewVars
  <2>2. QueueInv' /\ FrameSignalInv'
    BY <1>4, <2>1, EmitStateSignals DEF ConnectionState, RefuseCall
  <2>3. QED
    BY <1>4, <2>1, <2>2 DEF RefuseCall, EmitState
<1>5. CASE AcceptCall
  <2>1. /\ EmitState("Connecting") /\ UNCHANGED <<life, sessionState, vmFrame>>
        /\ wpc' = "loop"
    BY <1>5 DEF AcceptCall, sessionVars, viewVars
  <2>2. QueueInv' /\ FrameSignalInv'
    BY <2>1, EmitStateSignals DEF ConnectionState
  <2>3. QED
    BY <2>1, <2>2
<1>6. CASE Connect
  <2>1. /\ EmitState("Connected") /\ UNCHANGED <<life, sessionState, vmFrame>>
        /\ wpc' = "read"
    BY <1>6 DEF Connect, sessionVars, viewVars
  <2>2. QueueInv' /\ FrameSignalInv'
    BY <2>1, EmitStateSignals DEF ConnectionState
  <2>3. QED
    BY <2>1, <2>2 DEF EmitState
<1>7. CASE NotifyFrame
  <2>1. /\ Post(<<FrameUpdated>>) /\ FrameUpdated \in Event
        /\ UNCHANGED <<life, sessionState, vmFrame, lastEmitted, workerRun, stopped>>
        /\ wpc = "notify" /\ wpc' = "read"
    BY <1>7
    DEF NotifyFrame, Event, sessionVars, viewVars, workerVars, historyVars
  <2>2. CASE life # "alive"
    BY <2>1, <2>2
  <2>3. CASE life = "alive"
    <3>1. QueueInv' /\ FrameSignalInv'
      BY <2>1, <2>3, FrameQueueInv
    <3>2. QED
      BY <2>1, <3>1
  <2>4. QED
    BY <2>2, <2>3
<1>8. CASE ExitFailed
  <2>1. /\ UNCHANGED <<life, sessionState, vmFrame, workerRun, stopped>>
        /\ wpc' \in {"wait", "end"}
    BY <1>8 DEF ExitFailed, AfterLastFailure, sessionVars, viewVars, workerVars
  <2>2. CASE EmitState("Reconnecting") /\ wpc' = "wait"
    <3>1. QueueInv' /\ FrameSignalInv'
      BY <2>1, <2>2, EmitStateSignals DEF ConnectionState
    <3>2. QED
      BY <2>1, <2>2, <3>1
  <2>3. CASE Post(<<"Reconnecting", "Error">>) /\ lastEmitted' = "Error"
    <3>1. "Reconnecting" \in Event /\ "Error" \in Event
      BY DEF Event, ConnectionState
    <3>2. CASE life # "alive"
      BY <2>1, <2>3, <3>2
    <3>3. CASE life = "alive"
      <4>1. /\ Len(events) \in Nat
            /\ Len(events') = Len(events) + 2
            /\ \A i \in 1 .. Len(events) : events'[i] = events[i]
            /\ events'[Len(events) + 1] = "Reconnecting"
            /\ events'[Len(events) + 2] = "Error"
        BY <2>3, <3>1, <3>3, PostTwo
      <4>2. QueueInv'
        BY <2>1, <2>3, <3>3, <4>1 DEF FrameUpdated
      <4>3. FrameSignalInv'
        <5>1. ASSUME NEW i \in 1 .. Len(events'), events'[i] = FrameUpdated
              PROVE  IF i = 1 THEN sessionState = "Connected"
                     ELSE events'[i - 1] \in {FrameUpdated, "Connected"}
          <6>1. i \in 1 .. Len(events)
            BY <4>1, <5>1 DEF FrameUpdated
          <6>2. i = 1 \/ (i - 1 \in 1 .. Len(events) /\ events'[i - 1] = events[i - 1])
            BY <4>1, <6>1
          <6>3. QED
            BY <3>3, <4>1, <5>1, <6>1, <6>2
        <5>2. QED
          BY <2>1, <5>1
      <4>4. QED
        BY <2>1, <2>3, <4>2, <4>3
    <3>4. QED
      BY <3>2, <3>3
  <2>4. QED
    BY <1>8, <2>2, <2>3 DEF ExitFailed, AfterLastFailure
<1>9. CASE EndRun
  <2>1. UNCHANGED <<life, sessionState, vmFrame>> /\ wpc' = "idle"
    BY <1>9 DEF EndRun, sessionVars, viewVars
  <2>2. CASE EmitState("Disconnected")
    <3>1. QueueInv' /\ FrameSignalInv'
      BY <2>1, <2>2, EmitStateSignals DEF ConnectionState
    <3>2. QED
      BY <2>1, <2>2, <3>1 DEF EmitState
  <2>3. CASE ~Cancelled /\ Silent
    BY <1>9, <2>1, <2>3 DEF EndRun, Cancelled, Silent
  <2>4. QED
    BY <1>9, <2>2, <2>3 DEF EndRun, ReportEnd
<1>10. CASE \/ BeginAttempt \/ FailAttempt \/ OpenAttempt \/ PublishFrame
            \/ LeaveReadLoop \/ ExitCancelled \/ Wait \/ FinishThread
    BY <1>10
    DEF BeginAttempt, FailAttempt, OpenAttempt, PublishFrame, LeaveReadLoop,
        ExitCancelled, Wait, FinishThread, Cancelled, Silent, sessionVars,
        viewVars, workerVars
<1>11. QED
    BY <1>1, <1>2, <1>3, <1>4, <1>5, <1>6, <1>7, <1>8, <1>9, <1>10
    DEF Next, Gui, Worker

LEMMA SignalInvariant == Spec => [](SignalInv /\ VideoOnlyWhileStreaming)
<1>1. QED
    BY TypeInvariant, BudgetInvariant, InitSignalInv, NextSignalInv, PTL DEF Spec

\* No picture under "Disconnected" or "Connecting", however late the signals
\* of earlier runs arrive (CameraStreamViewModel).
THEOREM NoVideoWithoutStream == Spec => []VideoOnlyWhileStreaming
<1>1. QED
    BY SignalInvariant, PTL

\* An idle worker leaves the session Disconnected or in Error.
THEOREM IdleMeansSettled == Spec => []IdleSettled
<1>1. SignalInv => IdleSettled
    BY DEF SignalInv, QueueInv, WorkerStateInv, IdleSettled
<1>2. QED
    BY <1>1, SignalInvariant, PTL

-----------------------------------------------------------------------------
(* The frame on screen. It is never ahead of the exchange, and the newest   *)
(* frame of the wanted run is on screen or announced by a signal that no    *)
(* clearing state follows.                                                  *)

FrameInv ==
  /\ vmFrame.revision <= snapshot.revision
  /\ vmFrame.revision = snapshot.revision => vmFrame = snapshot
  /\ snapshot.revision = 0 => snapshot = NoFrame

NotCleared(i) == ~ClearsVideo(events[i])

\* The newest frame is announced, or shown already; nothing later clears it.
Observable ==
  \/ \E i \in 1 .. Len(events) :
       /\ events[i] = FrameUpdated
       /\ \A j \in i + 1 .. Len(events) : NotCleared(j)
  \/ /\ vmFrame = snapshot
     /\ \A j \in 1 .. Len(events) : NotCleared(j)

Wanted ==
  /\ life = "alive"
  /\ snapshot # NoFrame
  /\ snapshot.run = ActiveRunId
  /\ wpc # "notify"

ObservableInv == Wanted => Observable

LEMMA InitFrameInv == Init => FrameInv /\ ObservableInv
BY DEF Init, FrameInv, NoFrame, ObservableInv, Wanted

LEMMA NextFrameInv == TypeInv /\ FrameInv /\ [Next]_vars => FrameInv'
<1> SUFFICES ASSUME TypeInv, FrameInv, [Next]_vars PROVE FrameInv'
    OBVIOUS
<1> USE StreamingAssumption
    DEF TypeInv, TypeOK, FrameInv, NoFrame, Snapshot, RunId
<1>1. CASE PublishFrame
    BY <1>1 DEF PublishFrame, viewVars
<1>2. CASE DeliverState \/ DeliverFrame \/ EndDestroy
    BY <1>2 DEF DeliverState, DeliverFrame, EndDestroy, CurrentFrame
<1>3. CASE UNCHANGED <<vmFrame, snapshot>>
    BY <1>3
<1>4. QED
    BY <1>1, <1>2, <1>3
    DEF Next, Gui, Worker, Gone, vars, Start, Stop, BeginDestroy, RefuseCall,
        AcceptCall, BeginAttempt, FailAttempt, OpenAttempt, Connect,
        NotifyFrame, LeaveReadLoop, ExitCancelled, ExitFailed, Wait, EndRun,
        FinishThread, viewVars

LEMMA FrameInvariant == Spec => []FrameInv
<1>1. QED
    BY TypeInvariant, InitFrameInv, NextFrameInv, PTL DEF Spec

LEMMA FreshFrameStep ==
  ASSUME TypeInv, FrameInv, [Next]_vars, vmFrame' # vmFrame, vmFrame' # NoFrame
  PROVE  /\ vmFrame'.run = streamRunId
         /\ streamRunId \notin stopped
         /\ vmFrame'.revision > vmFrame.revision
<1> USE StreamingAssumption DEF TypeInv, TypeOK, FrameInv, Snapshot, RunId
<1>1. DeliverFrame
    BY DEF Next, Gui, Worker, Gone, vars, Start, Stop, BeginDestroy, EndDestroy,
        DeliverState, RefuseCall, AcceptCall, BeginAttempt, FailAttempt,
        OpenAttempt, Connect, PublishFrame, NotifyFrame, LeaveReadLoop,
        ExitCancelled, ExitFailed, Wait, EndRun, FinishThread, viewVars
<1>2. /\ vmFrame' = snapshot
      /\ ActiveRunId # 0
      /\ snapshot.run = ActiveRunId
    BY <1>1 DEF DeliverFrame, CurrentFrame
<1>3. QED
    BY <1>2 DEF ActiveRunId, StopRequested

\* A frame that appears is a newer one of the run wanted at that moment
\* (StreamingSession::currentFrame, for every interleaving of the threads).
THEOREM OnlyFreshFrames == Spec => NoStaleFrameShown
<1>1. TypeInv /\ FrameInv /\ [Next]_vars
      => [vmFrame' # vmFrame /\ vmFrame' # NoFrame
          => /\ vmFrame'.run = streamRunId
             /\ streamRunId \notin stopped
             /\ vmFrame'.revision > vmFrame.revision]_vars
    BY FreshFrameStep
<1>2. QED
    BY <1>1, TypeInvariant, FrameInvariant, PTL DEF Spec, NoStaleFrameShown

\* A wanted frame's run is the worker's and the newest, and none is queued.
LEMMA WantedRun ==
  ASSUME TypeInv, RunInv, snapshot # NoFrame, snapshot.run = ActiveRunId
  PROVE  workerRun = streamRunId /\ streamRunId \notin stopped /\ calls = <<>>
<1> USE StreamingAssumption DEF TypeInv, TypeOK, RunInv, RunId, Snapshot
<1>1. workerRun = streamRunId /\ streamRunId \notin stopped
    BY DEF ActiveRunId, StopRequested
<1>2. ASSUME calls # <<>> PROVE FALSE
  <2>1. Len(calls) \in Nat /\ Len(calls) # 0
    BY <1>2, EmptySeq, LenProperties
  <2>2. workerRun < calls[1] /\ calls[1] <= streamRunId /\ calls[1] \in RunId
    BY <2>1, ElementOfSeq
  <2>3. QED
    BY <1>1, <2>2
<1>3. QED
    BY <1>1, <1>2

\* Posting a state that clears nothing keeps the newest frame observable.
LEMMA PostHarmless ==
  ASSUME events \in Seq(Event), Observable, UNCHANGED <<vmFrame, snapshot>>,
         NEW n \in Nat, Len(events') = Len(events) + n,
         \A i \in 1 .. Len(events) : events'[i] = events[i],
         \A i \in Len(events) + 1 .. Len(events) + n : ~ClearsVideo(events'[i])
  PROVE  Observable'
<1>1. Len(events) \in Nat
  BY LenProperties
<1>2. CASE \E i \in 1 .. Len(events) :
             /\ events[i] = FrameUpdated
             /\ \A j \in i + 1 .. Len(events) : NotCleared(j)
  <2>1. PICK i \in 1 .. Len(events) :
             /\ events[i] = FrameUpdated
             /\ \A j \in i + 1 .. Len(events) : NotCleared(j)
    BY <1>2
  <2>2. i \in 1 .. Len(events') /\ events'[i] = FrameUpdated
    BY <1>1, <2>1
  <2>3. \A j \in i + 1 .. Len(events') : NotCleared(j)'
    BY <1>1, <2>1 DEF NotCleared
  <2>4. QED
    BY <2>2, <2>3 DEF Observable
<1>3. CASE vmFrame = snapshot /\ \A j \in 1 .. Len(events) : NotCleared(j)
  <2>1. \A j \in 1 .. Len(events') : NotCleared(j)'
    BY <1>1, <1>3 DEF NotCleared
  <2>2. QED
    BY <1>3, <2>1 DEF Observable
<1>4. QED
  BY <1>2, <1>3 DEF Observable

LEMMA NextObservableInv ==
  TypeInv /\ RunInv /\ ObservableInv /\ [Next]_vars => ObservableInv'
<1> SUFFICES ASSUME TypeInv, RunInv, ObservableInv, [Next]_vars, Wanted'
             PROVE  Observable'
    BY DEF ObservableInv
<1>t. /\ events \in Seq(Event)
      /\ snapshot.run \in Nat /\ snapshot.run <= workerRun
      /\ streamRunId \in Nat /\ workerRun \in Nat /\ workerRun <= streamRunId
      /\ snapshot # NoFrame => snapshot.run > 0
    BY StreamingAssumption DEF TypeInv, TypeOK, RunInv, Snapshot, RunId
<1>1. CASE Start \/ Stop \/ BeginDestroy \/ EndDestroy
    BY <1>1, <1>t
    DEF Start, Superseded, Stop, BeginDestroy, EndDestroy, Wanted, ActiveRunId,
        StopRequested
<1>2. CASE PublishFrame \/ FinishThread
    BY <1>2 DEF PublishFrame, FinishThread, Wanted, sessionVars
<1>3. ASSUME UNCHANGED <<sessionVars, snapshot>>, wpc # "notify"
      PROVE  /\ Wanted /\ Observable /\ workerRun = streamRunId
             /\ ~Cancelled /\ calls = <<>>
  <2>1. Wanted
    BY <1>3 DEF Wanted, ActiveRunId, StopRequested, sessionVars
  <2>2. QED
    BY <2>1, WantedRun DEF ObservableInv, Wanted, Cancelled
<1>4. CASE RefuseCall \/ AcceptCall
    BY <1>3, <1>4 DEF RefuseCall, AcceptCall
<1>5. CASE DeliverState
  <2>1. /\ Observable
        /\ events # <<>> /\ events' = Tail(events)
        /\ events[1] # FrameUpdated
        /\ ClearsVideo(events[1]) \/ vmFrame' = vmFrame
        /\ snapshot' = snapshot
    <3>1. UNCHANGED <<sessionVars, snapshot>> /\ wpc # "notify"
      BY <1>5 DEF DeliverState, Wanted
    <3>2. QED
      BY <1>3, <1>5, <1>t, <3>1, DeliveredEvent
      DEF DeliverState, ConnectionState, FrameUpdated
  <2>2. CASE \E i \in 1 .. Len(events) :
               /\ events[i] = FrameUpdated
               /\ \A j \in i + 1 .. Len(events) : NotCleared(j)
    <3>1. PICK i \in 1 .. Len(events) :
               /\ events[i] = FrameUpdated
               /\ \A j \in i + 1 .. Len(events) : NotCleared(j)
      BY <2>2
    <3>2. i \in 2 .. Len(events)
      BY <2>1, <3>1
    <3>3. i - 1 \in 1 .. Len(events') /\ events'[i - 1] = FrameUpdated
      BY <1>t, <2>1, <3>1, <3>2, DeliveredEvent
    <3>4. ASSUME NEW j \in (i - 1) + 1 .. Len(events') PROVE NotCleared(j)'
      <4>1. j + 1 \in i + 1 .. Len(events) /\ events'[j] = events[j + 1]
        BY <1>t, <2>1, <3>2, DeliveredEvent
      <4>2. QED
        BY <3>1, <4>1 DEF NotCleared
    <3>5. QED
      BY <3>3, <3>4 DEF Observable
  <2>3. CASE vmFrame = snapshot /\ \A j \in 1 .. Len(events) : NotCleared(j)
    <3>1. 1 \in 1 .. Len(events)
      BY <1>t, <2>1, DeliveredEvent
    <3>2. vmFrame' = snapshot'
      BY <2>1, <2>3, <3>1 DEF NotCleared
    <3>3. ASSUME NEW j \in 1 .. Len(events') PROVE NotCleared(j)'
      <4>1. j + 1 \in 1 .. Len(events) /\ events'[j] = events[j + 1]
        BY <1>t, <2>1, DeliveredEvent
      <4>2. QED
        BY <2>3, <4>1 DEF NotCleared
    <3>4. QED
      BY <3>2, <3>3 DEF Observable
  <2>4. QED
    BY <2>1, <2>2, <2>3 DEF Observable
<1>6. CASE DeliverFrame
  <2>1. /\ Observable /\ Wanted
        /\ events # <<>> /\ events' = Tail(events)
        /\ snapshot' = snapshot
    <3>1. UNCHANGED <<sessionVars, snapshot>> /\ wpc # "notify"
      BY <1>6 DEF DeliverFrame, Wanted
    <3>2. QED
      BY <1>3, <1>6, <3>1 DEF DeliverFrame
  <2>2. vmFrame' = snapshot'
    BY <1>6, <1>t, <2>1 DEF DeliverFrame, CurrentFrame, Wanted
  <2>3. PICK i \in 0 .. Len(events) :
             /\ i # 0 => events[i] = FrameUpdated
             /\ \A j \in i + 1 .. Len(events) : NotCleared(j)
    BY <1>t, <2>1, LenProperties DEF Observable
  <2>4. CASE i \in {0, 1}
    <3>1. ASSUME NEW j \in 1 .. Len(events') PROVE NotCleared(j)'
      <4>1. j + 1 \in i + 1 .. Len(events) /\ events'[j] = events[j + 1]
        BY <1>t, <2>1, <2>4, DeliveredEvent
      <4>2. QED
        BY <2>3, <4>1 DEF NotCleared
    <3>2. QED
      BY <2>2, <3>1 DEF Observable
  <2>5. CASE i \in 2 .. Len(events)
    <3>1. i - 1 \in 1 .. Len(events') /\ events'[i - 1] = FrameUpdated
      BY <1>t, <2>1, <2>3, <2>5, DeliveredEvent
    <3>2. ASSUME NEW j \in (i - 1) + 1 .. Len(events') PROVE NotCleared(j)'
      <4>1. j + 1 \in i + 1 .. Len(events) /\ events'[j] = events[j + 1]
        BY <1>t, <2>1, <2>5, DeliveredEvent
      <4>2. QED
        BY <2>3, <4>1 DEF NotCleared
    <3>3. QED
      BY <3>1, <3>2 DEF Observable
  <2>6. QED
    BY <1>t, <2>3, <2>4, <2>5, LenProperties
<1>7. CASE Connect
  <2>1. /\ Post(<<"Connected">>) /\ "Connected" \in Event /\ life = "alive"
        /\ Observable /\ UNCHANGED <<vmFrame, snapshot>>
    BY <1>3, <1>7
    DEF Connect, EmitState, Event, ConnectionState, Wanted, sessionVars, viewVars
  <2>2. QED
    BY <1>t, <2>1, PostOne, PostHarmless DEF ClearsVideo
<1>8. CASE NotifyFrame
  <2>1. Post(<<FrameUpdated>>) /\ FrameUpdated \in Event /\ life = "alive"
    BY <1>8 DEF NotifyFrame, Event, Wanted, sessionVars
  <2>2. /\ Len(events) \in Nat /\ Len(events') = Len(events) + 1
        /\ events'[Len(events) + 1] = FrameUpdated
    BY <1>t, <2>1, PostOne
  <2>3. QED
    BY <2>2 DEF Observable
<1>9. CASE ExitFailed
  <2>1. /\ life = "alive" /\ Observable /\ UNCHANGED <<vmFrame, snapshot>>
        /\ "Reconnecting" \in Event /\ "Error" \in Event
    BY <1>3, <1>9
    DEF ExitFailed, Event, ConnectionState, Wanted, sessionVars, viewVars
  <2>2. CASE Post(<<"Reconnecting">>)
    BY <1>t, <2>1, <2>2, PostOne, PostHarmless DEF ClearsVideo
  <2>3. CASE Post(<<"Reconnecting", "Error">>)
    <3>1. /\ Len(events') = Len(events) + 2
          /\ Len(events) \in Nat
          /\ \A i \in 1 .. Len(events) : events'[i] = events[i]
          /\ \A i \in Len(events) + 1 .. Len(events) + 2 : ~ClearsVideo(events'[i])
      BY <1>t, <2>1, <2>3, PostTwo DEF ClearsVideo
    <3>2. QED
      BY <1>t, <2>1, <3>1, PostHarmless
  <2>4. QED
    BY <1>9, <2>2, <2>3 DEF ExitFailed, EmitState
<1>10. CASE EndRun
  <2>1. Observable /\ UNCHANGED <<vmFrame, snapshot>> /\ UNCHANGED events
    BY <1>3, <1>10 DEF EndRun, ReportEnd, Silent, viewVars
  <2>2. QED
    BY <2>1 DEF Observable, NotCleared
<1>11. CASE \/ BeginAttempt \/ FailAttempt \/ OpenAttempt \/ LeaveReadLoop
            \/ ExitCancelled \/ Wait \/ Gone \/ UNCHANGED vars
  <2>1. /\ UNCHANGED <<sessionVars, snapshot, vmFrame, events>>
        /\ wpc # "notify"
    BY <1>11
    DEF BeginAttempt, FailAttempt, OpenAttempt, LeaveReadLoop, ExitCancelled,
        Wait, Gone, vars, Silent, sessionVars, viewVars, Wanted
  <2>2. QED
    BY <1>3, <2>1 DEF Observable, NotCleared
<1>12. QED
    BY <1>1, <1>2, <1>4, <1>5, <1>6, <1>7, <1>8, <1>9, <1>10, <1>11
    DEF Next, Gui, Worker

LEMMA ObservableInvariant == Spec => []ObservableInv
<1>1. QED
    BY TypeInvariant, RunInvariant, InitFrameInv, NextObservableInv, PTL DEF Spec

\* The latest-frame contract: a frame signal may be late, and a state signal of
\* an earlier run may clear the view, but the newest frame is never lost.
THEOREM LatestFrameNeverLost == Spec => []LatestFrameObservable
<1>1. ObservableInv => LatestFrameObservable
    BY DEF ObservableInv, Observable, Wanted, LatestFrameObservable
<1>2. QED
    BY <1>1, ObservableInvariant, PTL

-----------------------------------------------------------------------------
(* StreamView: the states that are queued.                                 *)

\* The view's state once the first i queued signals are handled. Frame
\* signals are only posted, and handled, while it is Connected.
After(i) ==
  IF i = 0 THEN sessionState
  ELSE IF events[i] = FrameUpdated THEN "Connected" ELSE events[i]

Follows(s, t) == s = t \/ <<s, t>> \in View!Transition

\* The queued states lead, by steps of the diagram, from what the view says to
\* what the worker said last.
ChainInv ==
  life = "alive" =>
    /\ \A i \in 1 .. Len(events) : Follows(After(i - 1), After(i))
    /\ After(Len(events)) = lastEmitted

\* What the worker said last, by its place in the retry loop.
PlaceInv ==
  /\ wpc \in {"loop", "init", "connect"} => lastEmitted \in {"Connecting", "Reconnecting"}
  /\ wpc = "exit" => lastEmitted \in {"Connecting", "Connected", "Reconnecting"}
  /\ wpc = "wait" => lastEmitted = "Reconnecting"

LEMMA InitChainInv == Init => ChainInv /\ PlaceInv
BY DEF Init, ChainInv, PlaceInv, After

LEMMA NextPlaceInv ==
  TypeInv /\ SignalInv /\ PlaceInv /\ [Next]_vars => PlaceInv'
<1> SUFFICES ASSUME TypeInv, SignalInv, PlaceInv, [Next]_vars PROVE PlaceInv'
    OBVIOUS
<1> USE DEF PlaceInv
<1>1. CASE Gui \/ Gone \/ UNCHANGED vars
    BY <1>1
    DEF Gui, Start, Stop, BeginDestroy, EndDestroy, DeliverState, DeliverFrame,
        Gone, vars, workerVars, historyVars
<1>2. CASE RefuseCall \/ AcceptCall
    BY <1>2 DEF RefuseCall, AcceptCall, EmitState
<1>3. CASE BeginAttempt \/ FailAttempt \/ OpenAttempt \/ Connect
    BY <1>3 DEF BeginAttempt, FailAttempt, OpenAttempt, Connect, Silent, EmitState
<1>4. CASE PublishFrame \/ NotifyFrame \/ LeaveReadLoop
    BY <1>4 DEF PublishFrame, NotifyFrame, LeaveReadLoop, Silent, historyVars,
                SignalInv, WorkerStateInv
<1>5. CASE ExitCancelled \/ ExitFailed
    BY <1>5 DEF ExitCancelled, ExitFailed, AfterLastFailure, EmitState
<1>6. CASE Wait \/ EndRun \/ FinishThread
    BY <1>6 DEF Wait, EndRun, FinishThread, Silent
<1>7. QED
    BY <1>1, <1>2, <1>3, <1>4, <1>5, <1>6 DEF Next, Worker

\* Posting one signal that may follow the last one.
LEMMA PostFollowing ==
  ASSUME ChainInv, events \in Seq(Event), life = "alive", NEW e \in Event,
         Post(<<e>>), UNCHANGED <<life, sessionState>>,
         lastEmitted' = IF e = FrameUpdated THEN "Connected" ELSE e,
         Follows(lastEmitted, lastEmitted')
  PROVE  ChainInv'
<1>1. /\ Len(events) \in Nat
      /\ Len(events') = Len(events) + 1
      /\ \A i \in 1 .. Len(events) : events'[i] = events[i]
      /\ events'[Len(events) + 1] = e
  BY PostOne
<1>2. \A i \in 0 .. Len(events) : After(i)' = After(i)
  BY <1>1 DEF After
<1>3. After(Len(events))' = lastEmitted'
  BY <1>1 DEF After
<1>4. ASSUME NEW i \in 1 .. Len(events') PROVE Follows(After(i - 1)', After(i)')
  <2>1. CASE i \in 1 .. Len(events)
    BY <1>1, <1>2, <2>1 DEF ChainInv
  <2>2. CASE i = Len(events) + 1
    BY <1>1, <1>2, <1>3, <2>2 DEF ChainInv
  <2>3. QED
    BY <1>1, <2>1, <2>2
<1>5. QED
  BY <1>3, <1>4 DEF ChainInv, Follows

\* Handling the first signal.
LEMMA HandleFirst ==
  ASSUME ChainInv, events \in Seq(Event), events # <<>>, events' = Tail(events),
         life = "alive", UNCHANGED <<life, lastEmitted>>,
         sessionState' = After(1)
  PROVE  ChainInv'
<1>1. /\ Len(events) \in Nat \ {0}
      /\ Len(events') = Len(events) - 1
      /\ \A i \in 1 .. Len(events') : events'[i] = events[i + 1]
  BY DeliveredEvent
<1>2. ASSUME NEW i \in 0 .. Len(events') PROVE After(i)' = After(i + 1)
  BY <1>1 DEF After
<1>3. ASSUME NEW i \in 1 .. Len(events') PROVE Follows(After(i - 1)', After(i)')
  <2>1. After(i - 1)' = After(i) /\ After(i)' = After(i + 1)
    BY <1>1, <1>2
  <2>2. Follows(After((i + 1) - 1), After(i + 1)) /\ (i + 1) - 1 = i
    BY <1>1 DEF ChainInv
  <2>3. QED
    BY <2>1, <2>2
<1>4. After(Len(events))' = lastEmitted'
  BY <1>1, <1>2 DEF ChainInv
<1>5. QED
  BY <1>3, <1>4 DEF ChainInv, Follows

LEMMA NextChainInv ==
  TypeInv /\ SignalInv /\ PlaceInv /\ ChainInv /\ [Next]_vars => ChainInv'
<1> SUFFICES ASSUME TypeInv, SignalInv, PlaceInv, ChainInv, [Next]_vars,
                    life' = "alive"
             PROVE  ChainInv'
    BY DEF ChainInv
<1>a. life = "alive" /\ events \in Seq(Event) /\ lastEmitted \in ConnectionState
    BY DEF TypeInv, TypeOK, Next, Gui, Worker, Gone, vars, Start, Stop,
       BeginDestroy, EndDestroy, DeliverState, DeliverFrame, RefuseCall,
       AcceptCall, BeginAttempt, FailAttempt, OpenAttempt, Connect, PublishFrame,
       NotifyFrame, LeaveReadLoop, ExitCancelled, ExitFailed, Wait, EndRun,
       FinishThread, sessionVars
<1>b. \A s \in ConnectionState : s \in Event /\ s # FrameUpdated
    BY DEF Event, ConnectionState, FrameUpdated
<1>q. ASSUME UNCHANGED <<life, sessionState, events, lastEmitted>> PROVE ChainInv'
    BY <1>q DEF ChainInv, After, Follows
<1>1. CASE Start \/ Stop \/ BeginDestroy \/ EndDestroy \/ Gone \/ UNCHANGED vars
    BY <1>1, <1>a, <1>q
    DEF Start, Stop, BeginDestroy, EndDestroy, Gone, vars, viewVars, historyVars
<1>2. CASE DeliverState
    BY <1>2, <1>a, <1>b, HandleFirst, DeliveredEvent
    DEF DeliverState, After, historyVars, sessionVars
<1>3. CASE DeliverFrame
  <2>1. sessionState = "Connected" /\ events[1] = FrameUpdated
    BY <1>3, <1>a, DeliveredEvent DEF DeliverFrame, SignalInv, FrameSignalInv
  <2>2. QED
    BY <1>3, <1>a, <2>1, HandleFirst DEF DeliverFrame, After, historyVars, sessionVars
<1>4. CASE RefuseCall \/ AcceptCall
  <2>1. lastEmitted \in {"Disconnected", "Error"}
    BY <1>4 DEF RefuseCall, AcceptCall, SignalInv, WorkerStateInv
  <2>2. PICK s \in {"Disconnected", "Connecting"} :
          EmitState(s) /\ UNCHANGED <<life, sessionState>>
    BY <1>4 DEF RefuseCall, AcceptCall, ReportRefusal, sessionVars, viewVars
  <2>3. Follows(lastEmitted, s)
    BY <2>1 DEF Follows, View!Transition
  <2>4. s \in ConnectionState
    BY DEF ConnectionState
  <2>5. QED
    BY <1>a, <1>b, <2>2, <2>3, <2>4, PostFollowing DEF EmitState
<1>5. CASE Connect
  <2>1. Follows(lastEmitted, "Connected")
    BY <1>5 DEF Connect, PlaceInv, Follows, View!Transition
  <2>2. QED
    BY <1>5, <1>a, <1>b, <2>1, PostFollowing
    DEF Connect, EmitState, ConnectionState, sessionVars, viewVars
<1>6. CASE NotifyFrame
  <2>1. lastEmitted = "Connected" /\ FrameUpdated \in Event
    BY <1>6 DEF NotifyFrame, SignalInv, WorkerStateInv, Event
  <2>2. QED
    BY <1>6, <1>a, <2>1, PostFollowing
    DEF NotifyFrame, Follows, sessionVars, viewVars, historyVars
<1>7. CASE ExitFailed
  <2>1. lastEmitted \in {"Connecting", "Connected", "Reconnecting"}
        /\ UNCHANGED <<life, sessionState>>
    BY <1>7 DEF ExitFailed, PlaceInv, sessionVars, viewVars
  <2>2. Follows(lastEmitted, "Reconnecting") /\ Follows("Reconnecting", "Error")
    BY <2>1 DEF Follows, View!Transition
  <2>3. CASE EmitState("Reconnecting")
    BY <1>a, <1>b, <2>1, <2>2, <2>3, PostFollowing DEF EmitState, ConnectionState
  <2>4. CASE Post(<<"Reconnecting", "Error">>) /\ lastEmitted' = "Error"
    <3>1. "Reconnecting" \in Event /\ "Error" \in Event
          /\ "Reconnecting" # FrameUpdated /\ "Error" # FrameUpdated
      BY <1>b DEF ConnectionState
    <3>2. /\ Len(events) \in Nat
          /\ Len(events') = Len(events) + 2
          /\ \A i \in 1 .. Len(events) : events'[i] = events[i]
          /\ events'[Len(events) + 1] = "Reconnecting"
          /\ events'[Len(events) + 2] = "Error"
      BY <1>a, <2>4, <3>1, PostTwo
    <3>3. /\ \A i \in 0 .. Len(events) : After(i)' = After(i)
          /\ \A i \in Nat : i = Len(events) + 1 => After(i)' = "Reconnecting"
          /\ \A i \in Nat : i = Len(events) + 2 => After(i)' = "Error"
      BY <2>1, <3>1, <3>2 DEF After
    <3>4. ASSUME NEW i \in 1 .. Len(events') PROVE Follows(After(i - 1)', After(i)')
      <4>1. CASE i \in 1 .. Len(events)
        BY <1>a, <3>2, <3>3, <4>1 DEF ChainInv
      <4>2. CASE i = Len(events) + 1
        <5>1. i - 1 = Len(events) /\ After(i - 1)' = lastEmitted
          BY <1>a, <3>2, <3>3, <4>2 DEF ChainInv
        <5>2. QED
          BY <2>2, <3>2, <3>3, <4>2, <5>1
      <4>3. CASE i = Len(events) + 2
        <5>1. After(i - 1)' = "Reconnecting" /\ After(i)' = "Error"
          BY <3>2, <3>3, <4>3
        <5>2. QED
          BY <2>2, <5>1
      <4>4. QED
        BY <3>2, <4>1, <4>2, <4>3
    <3>5. After(Len(events))' = lastEmitted'
      BY <2>4, <3>2, <3>3
    <3>6. QED
      BY <3>4, <3>5 DEF ChainInv, Follows
  <2>5. QED
    BY <1>7, <2>3, <2>4 DEF ExitFailed
<1>8. CASE EndRun
  <2>1. UNCHANGED <<life, sessionState>>
    BY <1>8 DEF EndRun, sessionVars, viewVars
  <2>2. CASE EmitState("Disconnected")
    <3>1. Follows(lastEmitted, "Disconnected")
      BY <1>a DEF ConnectionState, Follows, View!Transition
    <3>2. QED
      BY <1>a, <1>b, <2>1, <2>2, <3>1, PostFollowing DEF EmitState, ConnectionState
  <2>3. CASE Silent
    BY <1>q, <2>1, <2>3 DEF Silent
  <2>4. QED
    BY <1>8, <2>2, <2>3 DEF EndRun, ReportEnd
<1>9. CASE \/ BeginAttempt \/ FailAttempt \/ OpenAttempt \/ PublishFrame
           \/ LeaveReadLoop \/ ExitCancelled \/ Wait \/ FinishThread
    BY <1>9, <1>q
    DEF BeginAttempt, FailAttempt, OpenAttempt, PublishFrame, LeaveReadLoop,
        ExitCancelled, Wait, FinishThread, Silent, sessionVars, viewVars
<1>10. QED
    BY <1>1, <1>2, <1>3, <1>4, <1>5, <1>6, <1>7, <1>8, <1>9
    DEF Next, Gui, Worker

LEMMA ChainInvariant == Spec => [](ChainInv /\ PlaceInv)
<1>1. QED
    BY TypeInvariant, SignalInvariant, InitChainInv, NextPlaceInv, NextChainInv,
       PTL DEF Spec

-----------------------------------------------------------------------------
(* The refinement.                                                         *)

LEMMA InitView == Init => View!Init
BY DEF Init, View!Init, NoFrame, View!NoFrame

LEMMA StepView ==
  ASSUME TypeInv, RunInv, SignalInv, ChainInv, [Next]_vars
  PROVE  [View!Next]_(View!vars)
<1> USE DEF View!vars
<1>1. CASE Start
  BY <1>1 DEF Start, Superseded, viewVars, View!Next, View!Start
<1>2. CASE Stop
  BY <1>2 DEF Stop, viewVars, View!Next, View!Stop
<1>3. CASE BeginDestroy
  BY <1>3 DEF BeginDestroy, StoppedByDestructor, viewVars, View!Next, View!BeginDestroy
<1>4. CASE EndDestroy
  BY <1>4 DEF EndDestroy, NoFrame, View!NoFrame, View!Next, View!EndDestroy
<1>5. CASE DeliverState
  <2>1. /\ life = "alive" /\ events[1] \in ConnectionState
        /\ sessionState' = events[1]
        /\ vmFrame' = IF events[1] # sessionState /\ ClearsVideo(events[1])
                      THEN NoFrame ELSE vmFrame
        /\ UNCHANGED <<life, streamRunId, stopped, snapshot>>
    BY <1>5, DeliveredEvent DEF DeliverState, sessionVars, TypeInv, TypeOK
  <2>2. Follows(sessionState, events[1])
    <3>1. 1 \in 1 .. Len(events) /\ events[1] # FrameUpdated
      BY <1>5, <2>1, DeliveredEvent
      DEF DeliverState, TypeInv, TypeOK, ConnectionState, FrameUpdated
    <3>2. Follows(After(1 - 1), After(1))
      BY <2>1, <3>1 DEF ChainInv
    <3>3. QED
      BY <3>1, <3>2 DEF After
  <2>3. CASE events[1] = sessionState
    BY <2>1, <2>3
  <2>4. CASE events[1] # sessionState
    <3>1. View!Say(events[1])
      BY <2>1, <2>2, <2>4
      DEF View!Say, View!Streaming, View!NoFrame, NoFrame, Follows, ClearsVideo,
          ConnectionState
    <3>2. QED
      BY <2>1, <3>1 DEF View!Next, ConnectionState
  <2>5. QED
    BY <2>3, <2>4
<1>6. CASE DeliverFrame
  <2>1. sessionState = "Connected"
    BY <1>6, DeliveredEvent
    DEF DeliverFrame, TypeInv, TypeOK, SignalInv, FrameSignalInv
  <2>2. CASE CurrentFrame = NoFrame
    BY <1>6, <2>2 DEF DeliverFrame, sessionVars
  <2>3. CASE CurrentFrame # NoFrame
    <3>1. /\ CurrentFrame = snapshot /\ snapshot.run = streamRunId
          /\ streamRunId # 0 /\ streamRunId \notin stopped
      BY <2>3 DEF CurrentFrame, ActiveRunId, StopRequested
    <3>2. View!Show
      BY <1>6, <2>1, <2>3, <3>1, StreamingAssumption
      DEF DeliverFrame, View!Show, View!Wanted, View!Streaming, sessionVars,
          TypeInv, TypeOK, RunId
    <3>3. QED
      BY <3>2 DEF View!Next
  <2>4. QED
    BY <2>2, <2>3
<1>7. CASE PublishFrame
  <2>1. workerRun \in 1 .. streamRunId /\ workerRun \in 1 .. MaxRunId
        /\ snapshot.run <= workerRun
    BY <1>7, StreamingAssumption
    DEF PublishFrame, RunInv, InRun, TypeInv, TypeOK, RunId
  <2>2. View!Produce(workerRun)
    BY <1>7, <2>1 DEF PublishFrame, View!Produce, sessionVars, viewVars
  <2>3. QED
    BY <2>1, <2>2 DEF View!Next
<1>8. CASE \/ RefuseCall \/ AcceptCall \/ BeginAttempt \/ FailAttempt
           \/ OpenAttempt \/ Connect \/ NotifyFrame \/ LeaveReadLoop
           \/ ExitCancelled \/ ExitFailed \/ Wait \/ EndRun \/ FinishThread
           \/ Gone \/ UNCHANGED vars
  BY <1>8
  DEF RefuseCall, AcceptCall, BeginAttempt, FailAttempt, OpenAttempt, Connect,
      NotifyFrame, LeaveReadLoop, ExitCancelled, ExitFailed, Wait, EndRun,
      FinishThread, Gone, vars, sessionVars, viewVars
<1>9. QED
  BY <1>1, <1>2, <1>3, <1>4, <1>5, <1>6, <1>7, <1>8 DEF Next, Gui, Worker

\* Whatever the worker, its queue of calls and the queue of its signals do, the
\* observers of a session see a behaviour of StreamView (its fairness, the other
\* part of ImplementsStreamView, is left to TLC).
THEOREM SessionImplementsView == Spec => View!Spec
<1>1. TypeInv /\ RunInv /\ SignalInv /\ ChainInv /\ [Next]_vars
      => [View!Next]_(View!vars)
    BY StepView
<1>2. QED
    BY <1>1, InitView, TypeInvariant, RunInvariant, SignalInvariant,
       ChainInvariant, PTL
    DEF Spec, View!Spec

=============================================================================
