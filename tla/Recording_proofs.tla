--------------------------- MODULE Recording_proofs ---------------------------
(***************************************************************************)
(* Safety of Recording for every number of runs, attempts, seconds,        *)
(* presses and queued events.                                              *)
(***************************************************************************)
EXTENDS Recording, SequenceTheorems, TLAPS

-----------------------------------------------------------------------------
(* What the recorder's operations return.                                  *)

LEMMA IdleIsRecorder == IdleRecorder \in Recorder
BY RecordingAssumption DEF IdleRecorder, Recorder, RecordingState, NoFile

\* A requested recorder is Starting with a configuration and a stream, or is
\* the recorder that refused.
LEMMA RequestResult ==
  ASSUME NEW r \in Recorder, NEW f \in File, attempt \in 1 .. MaxAttempts
  PROVE  /\ RequestRecording(r, f) \in Recorder
         /\ \/ RequestRecording(r, f) = r /\ r.state # "Stopped"
            \/ /\ RequestRecording(r, f).state = "Starting"
               /\ RequestRecording(r, f).config = f
               /\ RequestRecording(r, f).stream = attempt
               /\ RequestRecording(r, f).output = r.output
               /\ r.state = "Stopped"
<1>1. CASE r.state = "Stopped"
  <2>1. RequestRecording(r, f)
          = [r EXCEPT !.state = "Starting", !.config = f, !.stream = attempt]
    BY <1>1 DEF RequestRecording
  <2>2. r = [state |-> r.state, config |-> r.config, stream |-> r.stream,
             output |-> r.output]
    BY DEF Recorder
  <2>3. RequestRecording(r, f)
          = [state |-> "Starting", config |-> f, stream |-> attempt,
             output |-> r.output]
    BY <2>1, <2>2
  <2>4. attempt \in 0 .. MaxAttempts /\ r.output \in {NoFile} \cup File
    BY RecordingAssumption DEF Recorder
  <2>5. [state |-> "Starting", config |-> f, stream |-> attempt, output |-> r.output]
          \in Recorder
    BY <2>4 DEF Recorder, RecordingState
  <2>6. QED
    BY <1>1, <2>3, <2>5
<1>2. CASE r.state # "Stopped"
  BY <1>2 DEF RequestRecording
<1>3. QED
  BY <1>1, <1>2

LEMMA StopResult ==
  ASSUME NEW r \in Recorder
  PROVE  /\ StopRecording(r) \in Recorder
         /\ \/ StopRecording(r) = IdleRecorder /\ r.state \in {"Starting", "Recording"}
            \/ StopRecording(r) = r /\ r.state \in {"Stopped", "Error"}
BY IdleIsRecorder DEF StopRecording, Recorder, RecordingState

LEMMA FailedResult ==
  /\ Failed(rec) \in Recorder
  /\ Failed(rec).state = "Error"
  /\ Failed(rec).config = NoFile
  /\ Failed(rec).stream = 0
  /\ Failed(rec).output = NoFile
BY RecordingAssumption DEF Failed, IdleRecorder, Recorder, RecordingState, NoFile

LEMMA OpenedResult ==
  ASSUME NEW r \in Recorder
  PROVE  /\ Opened(r) \in Recorder
         /\ Opened(r).state = "Recording"
         /\ Opened(r).config = NoFile
         /\ Opened(r).stream = r.stream
         /\ Opened(r).output = r.config
BY DEF Opened, Recorder, RecordingState, NoFile

-----------------------------------------------------------------------------
(* The inductive invariant.                                                *)

\* Where the service is decides what the attempt and the recorder hold.
AttemptInv ==
  /\ pc \in {"none", "init", "release"} => rec.state \in {"Stopped", "Error"}
  /\ pc \in {"head", "poll", "read"} => attempt > 0 /\ "input" \in resources
  /\ pc = "cleanup" /\ rec.state \in {"Starting", "Recording"} => "input" \in resources
  /\ pc \in {"none", "init"} => resources \subseteq {"converter"}
  /\ run >= attemptRun

\* A path named once is pending, or being opened, or has been opened.
FreshInv ==
  \A f \in File :
    /\ presses[f] = 0 =>
         files[f].end = "absent" /\ pendingStart # f /\ rec.config # f
    /\ presses[f] <= 1 =>
         /\ pendingStart = f => files[f].end = "absent" /\ rec.config # f
         /\ rec.config = f => files[f].end = "absent"

IInv ==
  TypeOK /\ RecorderConsistent /\ NoDanglingStream /\ AttemptInv /\ FreshInv
  /\ KeyframeFirst

LEMMA InitIInv == Init => IInv
<1> SUFFICES ASSUME Init PROVE IInv
  OBVIOUS
<1>1. /\ 0 \in 0 .. MaxRunId
      /\ 0 \in 0 .. MaxAttempts
      /\ 0 \in 0 .. MaxPresses
      /\ 1 \in File
  BY RecordingAssumption DEF File
<1>2. files \in [File -> FileState]
  BY DEF Init, FileState
<1>3. events \in Seq(Event)
  BY EmptySeq DEF Init
<1>4. TypeOK
  <2>1. presses \in [File -> 0 .. MaxPresses] /\ clock \in File
    BY <1>1 DEF Init
  <2>2. QED
    BY <1>1, <1>2, <1>3, <2>1, IdleIsRecorder DEF Init, TypeOK, Pc, RecordingState
<1>5. RecorderConsistent
  BY <1>1 DEF Init, RecorderConsistent, IdleRecorder, NoFile, File
<1>6. NoDanglingStream /\ AttemptInv
  BY DEF Init, NoDanglingStream, AttemptInv, IdleRecorder
<1>7. FreshInv
  BY DEF Init, FreshInv, IdleRecorder, NoFile, File
<1>8. KeyframeFirst
  BY DEF Init, KeyframeFirst
<1>9. QED
  BY <1>4, <1>5, <1>6, <1>7, <1>8 DEF IInv

\* Posting signals keeps the GUI queue a sequence of events.
LEMMA PostType ==
  ASSUME events \in Seq(Event), NEW signals \in Seq(Event), Post(signals)
  PROVE  events' \in Seq(Event)
BY ConcatProperties DEF Post

\* The batch of commands: what it makes of the recorder.
LEMMA CommandsResult ==
  ASSUME IInv, pc = "poll"
  PROVE  /\ ApplyCommands(rec) \in Recorder
         /\ \/ ApplyCommands(rec) = rec /\ (pendingStop => rec.state \in {"Stopped", "Error"})
            \/ /\ ApplyCommands(rec) = IdleRecorder
               /\ pendingStop
            \/ /\ ApplyCommands(rec).state = "Starting"
               /\ ApplyCommands(rec).config = pendingStart
               /\ ApplyCommands(rec).stream = attempt
               /\ ApplyCommands(rec).output = NoFile
               /\ pendingStart # NoFile
               /\ ~pendingStop
               /\ rec.state = "Stopped"
         /\ pendingStop => ApplyCommands(rec).state \notin {"Starting", "Recording"}
<1> DEFINE started == IF pendingStart # NoFile THEN RequestRecording(rec, pendingStart)
                      ELSE rec
<1>1. rec \in Recorder /\ attempt \in 1 .. MaxAttempts /\ pendingStart \in {NoFile} \cup File
  BY RecordingAssumption DEF IInv, TypeOK, AttemptInv
<1>2. /\ started \in Recorder
      /\ \/ started = rec
         \/ /\ started.state = "Starting"
            /\ started.config = pendingStart
            /\ started.stream = attempt
            /\ started.output = NoFile
            /\ pendingStart # NoFile
            /\ rec.state = "Stopped"
  <2>1. rec.state = "Stopped" => rec.output = NoFile
    BY DEF IInv, RecorderConsistent
  <2>2. QED
    BY <1>1, <2>1, RequestResult
<1>3. ApplyCommands(rec) = IF pendingStop THEN StopRecording(started) ELSE started
  BY DEF ApplyCommands
<1> HIDE DEF started
<1>4. CASE pendingStop
  <2>1. \/ StopRecording(started) = IdleRecorder
        \/ StopRecording(started) = started /\ started.state \in {"Stopped", "Error"}
    BY <1>2, StopResult
  <2>2. StopRecording(started) \in Recorder
    BY <1>2, StopResult
  <2>3. QED
    BY <1>2, <1>3, <1>4, <2>1, <2>2 DEF IdleRecorder
<1>5. CASE ~pendingStop
  BY <1>2, <1>3, <1>5
<1>6. QED
  BY <1>4, <1>5

-----------------------------------------------------------------------------
(* The invariant is preserved: the GUI thread.                             *)

\* A step that leaves the recorder, its files, the mailbox and the attempt
\* alone and keeps the types preserves the invariant.
LEMMA QuietStep ==
  ASSUME IInv, TypeOK', run' >= run,
         UNCHANGED <<attemptVars, pc, pendingStart, recorderVars, presses>>
  PROVE  IInv'
<1>1. RecorderConsistent' /\ NoDanglingStream' /\ KeyframeFirst'
  BY DEF IInv, RecorderConsistent, NoDanglingStream, KeyframeFirst, recorderVars,
         attemptVars
<1>2. AttemptInv'
  BY DEF IInv, TypeOK, AttemptInv, recorderVars, attemptVars
<1>3. FreshInv'
  BY DEF IInv, FreshInv, recorderVars
<1>4. QED
  BY <1>1, <1>2, <1>3 DEF IInv

LEMMA GuiIInv == ASSUME IInv, Gui PROVE IInv'
<1>1. CASE StartStream
  <2>1. run' \in 0 .. MaxRunId /\ run' >= run
    BY <1>1, RecordingAssumption DEF StartStream, IInv, TypeOK
  <2>2. TypeOK'
    BY <1>1, <2>1
    DEF StartStream, IInv, TypeOK, attemptVars, mailbox, recorderVars, uiVars, clockVars
  <2>3. QED
    BY <1>1, <2>1, <2>2, QuietStep DEF StartStream, mailbox, uiVars, clockVars
<1>2. CASE StopStream
  <2>1. TypeOK' /\ run' >= run
    BY <1>2
    DEF StopStream, IInv, TypeOK, attemptVars, mailbox, recorderVars, uiVars, clockVars
  <2>2. QED
    BY <1>2, <2>1, QuietStep DEF StopStream, mailbox, uiVars, clockVars
<1>3. CASE PressRecord
  <2>1. /\ presses \in [File -> 0 .. MaxPresses] /\ clock \in File
        /\ presses[clock] < MaxPresses
        /\ presses' = [presses EXCEPT ![clock] = presses[clock] + 1]
        /\ UNCHANGED <<recorderVars, clock>>
    BY <1>3 DEF PressRecord, IInv, TypeOK
  <2>2. pendingStart' = pendingStart \/ (pendingStart = NoFile /\ pendingStart' = clock)
    BY <1>3 DEF PressRecord, FileName
  <2>3. presses' \in [File -> 0 .. MaxPresses]
    BY <2>1, RecordingAssumption
  <2>4. shownFile' = clock
    BY <1>3 DEF PressRecord, FileName
  <2>6. TypeOK'
    BY <1>3, <2>1, <2>2, <2>3, <2>4
    DEF PressRecord, IInv, TypeOK, sessionVars, attemptVars, recorderVars
  <2>7. RecorderConsistent' /\ NoDanglingStream' /\ KeyframeFirst' /\ AttemptInv'
    BY <1>3
    DEF PressRecord, IInv, RecorderConsistent, NoDanglingStream, KeyframeFirst,
        AttemptInv, sessionVars, attemptVars, recorderVars
  <2>8. FreshInv'
    <3> SUFFICES ASSUME NEW f \in File
                 PROVE  /\ presses'[f] = 0 =>
                             /\ files[f].end = "absent"
                             /\ pendingStart' # f /\ rec.config # f
                        /\ presses'[f] <= 1 =>
                             /\ pendingStart' = f =>
                                  files[f].end = "absent" /\ rec.config # f
                             /\ rec.config = f => files[f].end = "absent"
      BY <2>1 DEF FreshInv, recorderVars
    <3>1. presses[f] \in Nat /\ NoFile # f
      BY <2>1, RecordingAssumption DEF NoFile, File
    <3>2. FreshInv
      BY DEF IInv
    <3>3. CASE f = clock
      <4>1. presses'[f] = presses[f] + 1
        BY <2>1, <3>3
      <4>2. QED
        BY <2>2, <3>1, <3>2, <3>3, <4>1 DEF FreshInv
    <3>4. CASE f # clock
      <4>1. presses'[f] = presses[f]
        BY <2>1, <3>4
      <4>2. QED
        BY <2>2, <3>1, <3>2, <3>4, <4>1 DEF FreshInv
    <3>5. QED
      BY <3>3, <3>4
  <2>9. QED
    BY <2>6, <2>7, <2>8 DEF IInv
<1>4. CASE PressStop
  <2>1. TypeOK' /\ run' >= run
    BY <1>4
    DEF PressStop, IInv, TypeOK, sessionVars, attemptVars, recorderVars, uiVars, clockVars
  <2>2. QED
    BY <1>4, <2>1, QuietStep DEF PressStop, sessionVars, uiVars, clockVars
<1>5. CASE Deliver
  <2>1. events \in Seq(Event) /\ events # <<>>
    BY <1>5 DEF Deliver, IInv, TypeOK
  <2>2. Tail(events) \in Seq(Event)
    BY <2>1, HeadTailProperties
  <2>3. uiConnected' \in BOOLEAN
    BY <1>5, Zenon DEF Deliver, IInv, TypeOK
  <2>4. sessionRec' \in RecordingState
    BY <1>5 DEF Deliver, IInv, TypeOK
  <2>5. TypeOK'
    BY <1>5, <2>2, <2>3, <2>4
    DEF Deliver, IInv, TypeOK, sessionVars, attemptVars, mailbox, recorderVars, clockVars
  <2>6. run' >= run
    BY <1>5 DEF Deliver, IInv, TypeOK, sessionVars
  <2>7. QED
    BY <1>5, <2>5, <2>6, QuietStep DEF Deliver, sessionVars, mailbox, clockVars
<1>6. CASE BeginDestroy
  <2>1. TypeOK' /\ run' >= run
    BY <1>6
    DEF BeginDestroy, IInv, TypeOK, attemptVars, mailbox, recorderVars, uiVars, clockVars
  <2>2. QED
    BY <1>6, <2>1, QuietStep DEF BeginDestroy, mailbox, uiVars, clockVars
<1>7. CASE EndDestroy
  <2>1. rec.state \in {"Stopped", "Error"} /\ files' = files /\ rec' = IdleRecorder
    BY <1>7 DEF EndDestroy, IInv, AttemptInv, FilesOnStop
  <2>2. /\ rec.output = NoFile /\ rec.config = NoFile
        /\ resources' \subseteq Resource /\ pc' = "none" /\ attempt' = attempt
    BY <1>7, <2>1 DEF EndDestroy, IInv, TypeOK, RecorderConsistent
  <2>3. TypeOK'
    BY <1>7, <2>1, <2>2, IdleIsRecorder, EmptySeq
    DEF EndDestroy, IInv, TypeOK, mailbox, clockVars, RecordingState
  <2>4. RecorderConsistent' /\ NoDanglingStream' /\ KeyframeFirst'
    BY <2>1, <2>2
    DEF IInv, RecorderConsistent, NoDanglingStream, KeyframeFirst, IdleRecorder
  <2>5. AttemptInv'
    <3>1. resources' \subseteq {"converter"} /\ run' >= attemptRun'
      BY <1>7 DEF EndDestroy, IInv, AttemptInv
    <3>2. QED
      BY <2>1, <2>2, <3>1 DEF AttemptInv, IdleRecorder
  <2>6. FreshInv'
    BY <1>7, <2>1
    DEF EndDestroy, IInv, FreshInv, IdleRecorder, mailbox, clockVars, NoFile, File
  <2>7. QED
    BY <2>3, <2>4, <2>5, <2>6 DEF IInv
<1>8. CASE Tick
  <2>1. clock' \in File
    BY <1>8, RecordingAssumption DEF Tick, IInv, TypeOK, File
  <2>2. TypeOK'
    BY <1>8, <2>1
    DEF Tick, IInv, TypeOK, sessionVars, attemptVars, mailbox, recorderVars
  <2>3. run' >= run
    BY <1>8 DEF Tick, IInv, TypeOK, sessionVars
  <2>4. QED
    BY <1>8, <2>2, <2>3, QuietStep DEF Tick, mailbox
<1>9. QED
  BY <1>1, <1>2, <1>3, <1>4, <1>5, <1>6, <1>7, <1>8 DEF Gui

-----------------------------------------------------------------------------
(* The invariant is preserved: the streaming thread.                       *)

\* A step of the attempt that leaves the recorder alone.
LEMMA AttemptStep ==
  ASSUME IInv, TypeOK', UNCHANGED <<pendingStart, recorderVars, presses>>,
         NoDanglingStream', AttemptInv'
  PROVE  IInv'
BY DEF IInv, RecorderConsistent, FreshInv, KeyframeFirst, recorderVars

\* The states of a recorder and its reports are events.
LEMMA StateIsEvent ==
  ASSUME NEW r \in Recorder
  PROVE  /\ <<r.state>> \in Seq(Event)
         /\ <<"connected">> \in Seq(Event)
         /\ <<"lost">> \in Seq(Event)
         /\ <<"Starting">> \in Seq(Event)
         /\ <<>> \in Seq(Event)
<1>1. r.state \in Event /\ "connected" \in Event /\ "lost" \in Event
      /\ "Starting" \in Event
  BY DEF Recorder, Event, ConnectionEvent, RecordingState
<1>2. QED
  BY <1>1

LEMMA AttemptIInv ==
  ASSUME IInv,
         \/ BeginAttempt \/ OpenAttempt \/ FailAttempt
         \/ CheckToken \/ LeaveLoop \/ ReleaseInput
  PROVE  IInv'
<1>1. CASE BeginAttempt
  <2>1. TypeOK'
    BY <1>1
    DEF BeginAttempt, IInv, TypeOK, Pc, sessionVars, mailbox, recorderVars, uiVars, clockVars
  <2>2. NoDanglingStream' /\ AttemptInv'
    BY <1>1
    DEF BeginAttempt, IInv, TypeOK, NoDanglingStream, AttemptInv, sessionVars,
        recorderVars
  <2>3. QED
    BY <1>1, <2>1, <2>2, AttemptStep DEF BeginAttempt, mailbox, uiVars, clockVars
<1>2. CASE OpenAttempt
  <2>1. events' \in Seq(Event)
    <3>1. UNCHANGED events \/ Post(<<"connected">>)
      BY <1>2 DEF OpenAttempt
    <3>2. QED
      BY <3>1, PostType, StateIsEvent, IdleIsRecorder DEF IInv, TypeOK
  <2>2. attempt' \in 0 .. MaxAttempts /\ attempt' > 0 /\ "input" \in resources'
    BY <1>2, RecordingAssumption DEF OpenAttempt, IInv, TypeOK, AttemptResource
  <2>8. resources' \subseteq Resource
    BY <1>2 DEF OpenAttempt, IInv, TypeOK, Resource
  <2>3. TypeOK'
    BY <1>2, <2>1, <2>2, <2>8
    DEF OpenAttempt, IInv, TypeOK, Pc, sessionVars, mailbox, recorderVars, uiVars, clockVars
  <2>4. rec.stream = 0
    BY <1>2 DEF OpenAttempt, IInv, AttemptInv, RecorderConsistent
  <2>5. NoDanglingStream'
    BY <1>2, <2>4 DEF OpenAttempt, NoDanglingStream, recorderVars
  <2>6. AttemptInv'
    BY <1>2, <2>2 DEF OpenAttempt, IInv, AttemptInv, sessionVars, recorderVars
  <2>7. QED
    BY <1>2, <2>3, <2>5, <2>6, AttemptStep DEF OpenAttempt, mailbox, uiVars, clockVars
<1>3. CASE FailAttempt
  <2>1. resources' \subseteq Resource
    <3>1. PICK part \in DOMAIN HeldOnFailure :
            resources' = resources \cup HeldOnFailure[part]
      BY <1>3 DEF FailAttempt
    <3>2. HeldOnFailure[part] \subseteq AttemptResource
      BY DEF HeldOnFailure, AttemptResource
    <3>3. QED
      BY <3>1, <3>2 DEF IInv, TypeOK, Resource
  <2>2. TypeOK'
    BY <1>3, <2>1
    DEF FailAttempt, IInv, TypeOK, Pc, sessionVars, mailbox, recorderVars, uiVars, clockVars
  <2>3. rec.stream = 0 /\ rec.state \in {"Stopped", "Error"}
    BY <1>3 DEF FailAttempt, IInv, AttemptInv, RecorderConsistent
  <2>4. NoDanglingStream' /\ AttemptInv'
    BY <1>3, <2>3
    DEF FailAttempt, IInv, NoDanglingStream, AttemptInv, sessionVars, recorderVars
  <2>5. QED
    BY <1>3, <2>2, <2>4, AttemptStep DEF FailAttempt, mailbox, uiVars, clockVars
<1>4. CASE CheckToken \/ LeaveLoop
  <2>1. TypeOK'
    BY <1>4
    DEF CheckToken, LeaveLoop, IInv, TypeOK, Pc, sessionVars, attemptVars, mailbox,
        recorderVars, uiVars, clockVars
  <2>2. NoDanglingStream' /\ AttemptInv'
    BY <1>4
    DEF CheckToken, LeaveLoop, IInv, NoDanglingStream, AttemptInv, sessionVars, attemptVars,
        recorderVars
  <2>3. QED
    BY <1>4, <2>1, <2>2, AttemptStep DEF CheckToken, LeaveLoop, mailbox, uiVars, clockVars
<1>5. CASE ReleaseInput
  <2>1. events' \in Seq(Event)
    BY <1>5, PostType, StateIsEvent, IdleIsRecorder DEF ReleaseInput, IInv, TypeOK
  <2>2. resources' \subseteq {"converter"} /\ resources' \subseteq Resource
    BY <1>5 DEF ReleaseInput, IInv, TypeOK, AttemptResource, Resource, Released
  <2>3. TypeOK'
    BY <1>5, <2>1, <2>2
    DEF ReleaseInput, IInv, TypeOK, Pc, sessionVars, mailbox, recorderVars, uiVars, clockVars
  <2>4. rec.stream = 0 /\ rec.state \in {"Stopped", "Error"}
    BY <1>5 DEF ReleaseInput, IInv, AttemptInv, RecorderConsistent
  <2>5. NoDanglingStream' /\ AttemptInv'
    BY <1>5, <2>2, <2>4
    DEF ReleaseInput, IInv, NoDanglingStream, AttemptInv, sessionVars, recorderVars
  <2>6. QED
    BY <1>5, <2>3, <2>5, AttemptStep DEF ReleaseInput, mailbox, uiVars, clockVars
<1>6. QED
  BY <1>1, <1>2, <1>3, <1>4, <1>5

\* Stopping an active recorder closes its file, whatever becomes of its trailer.
LEMMA FilesOnStopResult ==
  ASSUME IInv, NEW fs \in FilesOnStop(rec)
  PROVE  /\ fs \in [File -> FileState]
         /\ \A f \in File :
              /\ fs[f].first = files[f].first
              /\ files[f].end # "open" => fs[f] = files[f]
              /\ files[f].end = "open" => fs[f].end \in {"trailer", "noTrailer"}
<1>1. rec \in Recorder /\ files \in [File -> FileState]
  BY DEF IInv, TypeOK
<1>2. \A f \in File : files[f].end = "open" <=> rec.output = f
  BY DEF IInv, RecorderConsistent
<1>3. rec.output # NoFile <=> rec.state = "Recording"
  BY DEF IInv, RecorderConsistent
<1>4. NoFile \notin File
  BY DEF NoFile, File
<1>5. CASE rec.state = "Recording"
  <2>1. rec.output \in File
    BY <1>1, <1>3, <1>5 DEF Recorder
  <2>2. files[rec.output] \in FileState
    BY <1>1, <2>1
  <2>3. PICK end \in {"trailer", "noTrailer"} :
          fs = [files EXCEPT ![rec.output].end = end]
    BY <1>5 DEF FilesOnStop
  <2>4. [files[rec.output] EXCEPT !.end = end]
          = [first |-> files[rec.output].first, end |-> end]
    BY <2>2 DEF FileState
  <2>5. fs = [files EXCEPT ![rec.output] =
                [first |-> files[rec.output].first, end |-> end]]
    BY <2>3, <2>4
  <2>6. [first |-> files[rec.output].first, end |-> end] \in FileState
    BY <2>2 DEF FileState, Ended
  <2>7. QED
    BY <1>1, <1>2, <2>1, <2>5, <2>6
<1>6. CASE rec.state # "Recording"
  <2>1. fs = files
    BY <1>6 DEF FilesOnStop
  <2>2. \A f \in File : files[f].end # "open"
    BY <1>2, <1>3, <1>4, <1>6
  <2>3. QED
    BY <1>1, <2>1, <2>2
<1>7. QED
  BY <1>5, <1>6

\* Stopping the recorder and closing its file together.
LEMMA StopIInv ==
  ASSUME IInv, files' \in FilesOnStop(rec),
         rec' = IdleRecorder
            \/ (rec' = rec /\ rec.state \in {"Stopped", "Error"}),
         presses' = presses, pendingStart' \in {NoFile, pendingStart}
  PROVE  /\ rec' \in Recorder /\ files' \in [File -> FileState]
         /\ rec'.state \in {"Stopped", "Error"}
         /\ RecorderConsistent' /\ NoDanglingStream' /\ KeyframeFirst' /\ FreshInv'
<1>1. rec \in Recorder /\ pendingStart \in {NoFile} \cup File
  BY DEF IInv, TypeOK
<1>2. /\ rec' \in Recorder
      /\ rec'.state \in {"Stopped", "Error"}
      /\ rec'.config = NoFile
      /\ rec'.stream = 0
      /\ rec'.output = NoFile
  BY <1>1, IdleIsRecorder DEF IInv, RecorderConsistent, IdleRecorder, NoFile
<1>3. files' \in [File -> FileState]
  BY FilesOnStopResult
<1>4. \A f \in File :
        /\ files'[f].first = files[f].first
        /\ files[f].end = "absent" => files'[f].end = "absent"
        /\ files'[f].end # "open"
  BY FilesOnStopResult
<1>5. NoFile \notin File
  BY DEF NoFile, File
<1>6. RecorderConsistent'
  BY <1>2, <1>4, <1>5 DEF RecorderConsistent
<1>7. NoDanglingStream' /\ KeyframeFirst'
  BY <1>2, <1>4 DEF IInv, NoDanglingStream, KeyframeFirst
<1>8. FreshInv'
  <2>1. FreshInv
    BY DEF IInv
  <2>2. QED
    BY <1>2, <1>4, <1>5, <2>1 DEF FreshInv
<1>9. QED
  BY <1>2, <1>3, <1>6, <1>7, <1>8

LEMMA CleanupIInv == ASSUME IInv, CleanupRecorder PROVE IInv'
<1>1. rec' = StopRecording(rec) /\ files' \in FilesOnStop(rec) /\ pc' = "release"
      /\ UNCHANGED <<pendingStart, presses>>
  BY DEF CleanupRecorder, mailbox, uiVars, clockVars
<1>2. rec' = IdleRecorder \/ (rec' = rec /\ rec.state \in {"Stopped", "Error"})
  BY <1>1, StopResult DEF IInv, TypeOK
<1>3. /\ rec' \in Recorder /\ files' \in [File -> FileState]
      /\ rec'.state \in {"Stopped", "Error"}
      /\ RecorderConsistent' /\ NoDanglingStream' /\ KeyframeFirst' /\ FreshInv'
  BY <1>1, <1>2, StopIInv
<1>4. events' \in Seq(Event)
  <2>1. <<rec'.state>> \in Seq(Event)
    BY <1>3, StateIsEvent
  <2>2. Post(<<rec'.state>>) /\ events \in Seq(Event)
    BY DEF CleanupRecorder, IInv, TypeOK
  <2>3. QED
    BY <2>1, <2>2, PostType
<1>5. TypeOK'
  BY <1>1, <1>3, <1>4
  DEF CleanupRecorder, IInv, TypeOK, Pc, sessionVars, attemptVars, mailbox, uiVars,
      clockVars
<1>6. AttemptInv'
  BY <1>1, <1>3 DEF CleanupRecorder, IInv, AttemptInv, sessionVars, attemptVars
<1>7. QED
  BY <1>3, <1>5, <1>6 DEF IInv

LEMMA PollIInv == ASSUME IInv, Poll PROVE IInv'
<1>1. /\ pc = "poll" /\ pc' = "read"
      /\ rec' = ApplyCommands(rec)
      /\ files' \in IF pendingStop THEN FilesOnStop(rec) ELSE {files}
      /\ pendingStart' = NoFile
      /\ pendingStop' = FALSE
      /\ UNCHANGED <<life, run, stopRequested, attemptRun, attempt, resources,
                     uiConnected, sessionRec, shownFile, clock, presses>>
  BY DEF Poll, StartAfterPoll, sessionVars, attemptVars, uiVars, clockVars
<1>2. rec \in Recorder /\ pendingStart \in {NoFile} \cup File /\ events \in Seq(Event)
  BY DEF IInv, TypeOK
<1>3. attempt > 0 /\ "input" \in resources
  BY <1>1 DEF IInv, AttemptInv
<1>4. rec' \in Recorder
  BY <1>1, CommandsResult
<1>5. events' \in Seq(Event)
  <2> DEFINE report == IF pendingStart # NoFile /\ rec.state = "Stopped"
                       THEN <<"Starting">> ELSE <<>>
             answer == IF pendingStop THEN <<ApplyCommands(rec).state>> ELSE <<>>
  <2>1. report \in Seq(Event)
    BY StateIsEvent, IdleIsRecorder
  <2>2. answer \in Seq(Event)
    BY <1>1, <1>4, StateIsEvent
  <2>3. CommandSignals = report \o answer
    BY DEF CommandSignals
  <2> HIDE DEF report, answer
  <2>4. CommandSignals \in Seq(Event)
    BY <2>1, <2>2, <2>3, ConcatProperties
  <2>5. Post(CommandSignals)
    BY DEF Poll
  <2>6. QED
    BY <1>2, <2>4, <2>5, PostType
<1>6. /\ files' \in [File -> FileState]
      /\ RecorderConsistent' /\ NoDanglingStream' /\ KeyframeFirst' /\ FreshInv'
  <2>1. CASE pendingStop
    <3>1. rec' = IdleRecorder \/ (rec' = rec /\ rec.state \in {"Stopped", "Error"})
      BY <1>1, <2>1, CommandsResult
    <3>2. QED
      BY <1>1, <2>1, <3>1, StopIInv
  <2>2. CASE ~pendingStop /\ rec' = rec
    <3>1. NoFile \notin File
      BY DEF NoFile, File
    <3>2. QED
      BY <1>1, <2>2, <3>1
      DEF IInv, TypeOK, RecorderConsistent, NoDanglingStream, KeyframeFirst, FreshInv
  <2>3. CASE ~pendingStop /\ rec' # rec
    <3>1. /\ rec'.state = "Starting"
          /\ rec'.config = pendingStart
          /\ rec'.stream = attempt
          /\ rec'.output = NoFile
          /\ pendingStart # NoFile
          /\ rec.state = "Stopped"
          /\ files' = files
      BY <1>1, <2>3, CommandsResult
    <3>2. rec.output = NoFile
      BY <3>1 DEF IInv, RecorderConsistent
    <3>3. RecorderConsistent'
      <4>1. rec'.config # NoFile <=> rec'.state = "Starting"
        BY <3>1
      <4>2. rec'.stream # 0 <=> rec'.state \in {"Starting", "Recording"}
        BY <1>3, <3>1
      <4>3. rec'.output # NoFile <=> rec'.state = "Recording"
        BY <3>1
      <4>4. \A f \in File : files'[f].end = "open" <=> rec'.output = f
        BY <3>1, <3>2 DEF IInv, RecorderConsistent
      <4>5. QED
        BY <4>1, <4>2, <4>3, <4>4 DEF RecorderConsistent
    <3>4. NoDanglingStream' /\ KeyframeFirst' /\ files' \in [File -> FileState]
      BY <1>1, <1>3, <3>1 DEF IInv, TypeOK, NoDanglingStream, KeyframeFirst
    <3>5. FreshInv'
      <4>1. NoFile \notin File
        BY DEF NoFile, File
      <4>2. QED
        BY <1>1, <3>1, <4>1 DEF IInv, FreshInv
    <3>6. QED
      BY <3>3, <3>4, <3>5
  <2>4. QED
    BY <2>1, <2>2, <2>3
<1>7. TypeOK'
  BY <1>1, <1>4, <1>5, <1>6 DEF IInv, TypeOK, Pc
<1>8. AttemptInv'
  BY <1>1, <1>3 DEF IInv, AttemptInv
<1>9. QED
  BY <1>6, <1>7, <1>8 DEF IInv

\* A packet may leave the recorder alone; it may open the configured file, only
\* with a keyframe ...
LEMMA OpenInv ==
  ASSUME IInv, NEW key \in BOOLEAN, OpenAndWrite(key), presses' = presses,
         pendingStart' = pendingStart, attempt' = attempt,
         "input" \in resources <=> "input" \in resources'
  PROVE  /\ rec' \in Recorder /\ files' \in [File -> FileState]
         /\ RecorderConsistent' /\ NoDanglingStream' /\ KeyframeFirst' /\ FreshInv'
<1>1. /\ rec \in Recorder /\ files \in [File -> FileState]
      /\ RecorderConsistent /\ FreshInv /\ KeyframeFirst
      /\ pendingStart \in {NoFile} \cup File
  BY DEF IInv, TypeOK
<1>2. rec.state = "Starting" /\ key /\ PacketKind(key) = "key"
  BY DEF OpenAndWrite, Begins, PacketKind
<1>3. rec.config \in File /\ rec.output = NoFile /\ rec.stream # 0
  BY <1>1, <1>2 DEF RecorderConsistent, Recorder
<1>4. /\ rec' \in Recorder
      /\ rec'.state = "Recording"
      /\ rec'.config = NoFile
      /\ rec'.stream = rec.stream
      /\ rec'.output = rec.config
  BY <1>1, OpenedResult DEF OpenAndWrite
<1>5. files' = [files EXCEPT ![rec.config] = [first |-> "key", end |-> "open"]]
  BY <1>2 DEF OpenAndWrite
<1>6. [first |-> "key", end |-> "open"] \in FileState
  BY DEF FileState
<1>7. files' \in [File -> FileState]
  BY <1>1, <1>5, <1>6
<1>8. /\ files'[rec.config].first = "key" /\ files'[rec.config].end = "open"
      /\ \A f \in File : f # rec.config => files'[f] = files[f]
  BY <1>1, <1>3, <1>5
<1>9. NoFile \notin File
  BY DEF NoFile, File
<1>10. RecorderConsistent'
  <2>1. \A f \in File : files'[f].end = "open" <=> rec'.output = f
    BY <1>1, <1>3, <1>4, <1>8, <1>9 DEF RecorderConsistent
  <2>2. QED
    BY <1>3, <1>4, <1>9, <2>1 DEF RecorderConsistent
<1>11. NoDanglingStream'
  BY <1>4 DEF IInv, NoDanglingStream
<1>12. KeyframeFirst'
  BY <1>1, <1>8 DEF KeyframeFirst
<1>13. FreshInv'
  BY <1>1, <1>3, <1>4, <1>8, <1>9 DEF FreshInv
<1>14. QED
  BY <1>4, <1>7, <1>10, <1>11, <1>12, <1>13

\* ... or make it fail, closing at most the file it was about to write.
LEMMA FailInv ==
  ASSUME IInv, NEW key \in BOOLEAN,
         FailToOpen(key) \/ OpenAndFailToWrite(key) \/ FailToWrite(key),
         presses' = presses, pendingStart' = pendingStart
  PROVE  /\ rec' \in Recorder /\ files' \in [File -> FileState]
         /\ rec'.state = "Error"
         /\ RecorderConsistent' /\ NoDanglingStream' /\ KeyframeFirst' /\ FreshInv'
<1>1. /\ rec \in Recorder /\ files \in [File -> FileState]
      /\ RecorderConsistent /\ FreshInv /\ KeyframeFirst
      /\ pendingStart \in {NoFile} \cup File
  BY DEF IInv, TypeOK
<1>2. /\ rec' \in Recorder
      /\ rec'.state = "Error"
      /\ rec'.config = NoFile
      /\ rec'.stream = 0
      /\ rec'.output = NoFile
  BY FailedResult DEF FailToOpen, OpenAndFailToWrite, FailToWrite
<1>3. NoFile \notin File /\ \A f \in File : presses[f] \in Nat
  BY RecordingAssumption DEF IInv, TypeOK, NoFile, File
<1>4. PICK g \in {NoFile} \cup File :
        /\ \/ files' = [files EXCEPT ![g].end = "cut"]
           \/ files' = [files EXCEPT ![g] = [first |-> "none", end |-> "cut"]]
        /\ \A f \in File : f # g => files[f].end # "open"
        /\ g \in File =>
             presses[g] # 0 /\ (presses[g] <= 1 => pendingStart # g)
  <2>1. CASE FailToOpen(key) \/ OpenAndFailToWrite(key)
    <3>1. /\ files' = files \/ files' = Emptied(rec.config)
          /\ rec.state = "Starting"
      BY <2>1 DEF FailToOpen, OpenAndFailToWrite
    <3>2. \A f \in File : files[f].end # "open"
      BY <1>1, <1>3, <3>1 DEF RecorderConsistent
    <3>3. rec.config \in File
      BY <1>1, <3>1 DEF RecorderConsistent, Recorder
    <3>4. presses[rec.config] # 0
          /\ (presses[rec.config] <= 1 => pendingStart # rec.config)
      BY <1>1, <1>3, <3>3 DEF FreshInv
    <3>5. CASE files' = files
      <4>1. files = [files EXCEPT ![NoFile].end = "cut"]
        BY <1>1, <1>3
      <4>2. QED
        BY <1>3, <3>2, <3>5, <4>1
    <3>6. CASE files' = Emptied(rec.config)
      BY <3>2, <3>3, <3>4, <3>6 DEF Emptied
    <3>7. QED
      BY <3>1, <3>5, <3>6
  <2>2. CASE FailToWrite(key)
    <3>1. /\ files' = [files EXCEPT ![rec.output].end = "cut"]
          /\ rec.state = "Recording"
      BY <2>2 DEF FailToWrite
    <3>2. rec.output \in File
      BY <1>1, <3>1 DEF RecorderConsistent, Recorder
    <3>3. \A f \in File : files[f].end = "open" <=> rec.output = f
      BY <1>1 DEF RecorderConsistent
    <3>4. files[rec.output].end = "open"
      BY <3>2, <3>3
    <3>5. presses[rec.output] # 0
          /\ (presses[rec.output] <= 1 => pendingStart # rec.output)
      BY <1>1, <1>3, <3>2, <3>4 DEF FreshInv
    <3>6. \A f \in File : f # rec.output => files[f].end # "open"
      BY <3>3
    <3>7. QED
      BY <3>1, <3>2, <3>5, <3>6
  <2>3. QED
    BY <2>1, <2>2
<1>5. /\ files' \in [File -> FileState]
      /\ \A f \in File : files'[f].first \in {"none", files[f].first}
      /\ \A f \in File : f # g => files'[f] = files[f]
      /\ g \in File => files'[g].end = "cut"
  <2>1. CASE g \in File
    <3>1. files[g] \in FileState
      BY <1>1, <2>1
    <3>2. [files[g] EXCEPT !.end = "cut"] = [first |-> files[g].first, end |-> "cut"]
      BY <3>1 DEF FileState
    <3>3. PICK h \in {"none", files[g].first} :
            files' = [files EXCEPT ![g] = [first |-> h, end |-> "cut"]]
      BY <1>4, <3>2
    <3>4. [first |-> h, end |-> "cut"] \in FileState
      BY <3>1 DEF FileState, Ended
    <3>5. QED
      BY <1>1, <2>1, <3>3, <3>4
  <2>2. CASE g \notin File
    <3>1. files' = files
      BY <1>1, <1>4, <2>2
    <3>2. QED
      BY <1>1, <2>2, <3>1
  <2>3. QED
    BY <2>1, <2>2
<1>6. \A f \in File : files'[f].end # "open"
  BY <1>4, <1>5
<1>7. RecorderConsistent'
  BY <1>2, <1>3, <1>6 DEF RecorderConsistent
<1>8. NoDanglingStream' /\ KeyframeFirst'
  <2>1. NoDanglingStream'
    BY <1>2 DEF NoDanglingStream
  <2>2. KeyframeFirst'
    <3>1. \A f \in File : files'[f].first \in {"none", files[f].first}
      BY <1>5
    <3>2. QED
      BY <1>1, <3>1 DEF KeyframeFirst
  <2>3. QED
    BY <2>1, <2>2
<1>9. FreshInv'
  BY <1>1, <1>2, <1>3, <1>4, <1>5 DEF FreshInv
<1>10. QED
  BY <1>2, <1>5, <1>7, <1>8, <1>9

LEMMA ReadIInv == ASSUME IInv, ReadPacket PROVE IInv'
<1>1. /\ pc = "read" /\ pc' = "head"
      /\ UNCHANGED <<life, run, stopRequested, attemptRun, attempt, pendingStart,
                     pendingStop, uiConnected, sessionRec, shownFile, clock, presses>>
      /\ resources' \in AfterDecoding
  BY DEF ReadPacket, sessionVars, mailbox, uiVars, clockVars
<1>8. /\ resources' \subseteq Resource
      /\ "input" \in resources <=> "input" \in resources'
  BY <1>1 DEF AfterDecoding, Resource, IInv, TypeOK
<1>2. PICK key \in BOOLEAN : HandleVideoPacket(key)
  BY DEF ReadPacket
<1>3. /\ rec' \in Recorder /\ files' \in [File -> FileState]
      /\ RecorderConsistent' /\ NoDanglingStream' /\ KeyframeFirst' /\ FreshInv'
  <2>1. CASE IgnorePacket(key) \/ WritePacket(key)
    BY <1>1, <1>8, <2>1
    DEF IgnorePacket, WritePacket, recorderVars, IInv, TypeOK, RecorderConsistent,
        NoDanglingStream, KeyframeFirst, FreshInv
  <2>2. CASE OpenAndWrite(key)
    BY <1>1, <1>8, <2>2, OpenInv
  <2>3. CASE FailToOpen(key) \/ OpenAndFailToWrite(key) \/ FailToWrite(key)
    BY <1>1, <2>3, FailInv
  <2>4. QED
    BY <1>2, <2>1, <2>2, <2>3 DEF HandleVideoPacket
<1>4. events' \in Seq(Event)
  <2>1. PacketSignals(rec.state, rec'.state) \in Seq(Event)
    BY <1>3, StateIsEvent DEF PacketSignals
  <2>2. Post(PacketSignals(rec.state, rec'.state)) /\ events \in Seq(Event)
    BY DEF ReadPacket, IInv, TypeOK
  <2>3. QED
    BY <2>1, <2>2, PostType
<1>5. TypeOK'
  BY <1>1, <1>3, <1>4, <1>8 DEF IInv, TypeOK, Pc
<1>6. AttemptInv'
  BY <1>1, <1>8 DEF IInv, AttemptInv
<1>7. QED
  BY <1>3, <1>5, <1>6 DEF IInv

LEMMA NextIInv == IInv /\ [Next]_vars => IInv'
<1> SUFFICES ASSUME IInv, [Next]_vars PROVE IInv'
  OBVIOUS
<1>1. CASE Gui
  BY <1>1, GuiIInv
<1>2. CASE Worker
  BY <1>2, AttemptIInv, PollIInv, ReadIInv, CleanupIInv DEF Worker
<1>3. CASE UNCHANGED vars
  <2>1. TypeOK' /\ run' >= run
    BY <1>3 DEF vars, IInv, TypeOK
  <2>2. QED
    BY <1>3, <2>1, QuietStep DEF vars, attemptVars, recorderVars
<1>4. QED
  BY <1>1, <1>2, <1>3 DEF Next, Gone

LEMMA Invariance == Spec => []IInv
BY InitIInv, NextIInv, PTL DEF Spec

-----------------------------------------------------------------------------
(* The theorems.                                                           *)

\* Every variable keeps its type, for every bound.
THEOREM TypeCorrect == Spec => []TypeOK
<1>1. IInv => TypeOK
  BY DEF IInv
<1>2. QED
  BY <1>1, Invariance, PTL

\* The recorder's pointers, configuration and files agree with its state
\* (the assertions of handleVideoPacket).
THEOREM RecorderPointersAgree == Spec => []RecorderConsistent
<1>1. IInv => RecorderConsistent
  BY DEF IInv
<1>2. QED
  BY <1>1, Invariance, PTL

\* m_inputStream never outlives the input it points into.
THEOREM StreamPointerValid == Spec => []NoDanglingStream
<1>1. IInv => NoDanglingStream
  BY DEF IInv
<1>2. QED
  BY <1>1, Invariance, PTL

\* Once the session is being destroyed no attempt begins, and the destructors
\* free what the last one left.
GoneInv ==
  /\ life # "alive" => stopRequested
  /\ life = "gone" => pc = "none" /\ resources = {}

LEMMA GoneStep == IInv /\ GoneInv /\ [Next]_vars => GoneInv'
<1> SUFFICES ASSUME IInv, GoneInv, [Next]_vars PROVE GoneInv'
  OBVIOUS
<1>1. CASE EndDestroy
  BY <1>1
  DEF EndDestroy, GoneInv, IInv, TypeOK, Resource, AttemptResource, Released
<1>2. CASE \/ StartStream \/ StopStream \/ PressRecord \/ PressStop \/ Tick \/ Deliver
           \/ BeginDestroy \/ Gone \/ UNCHANGED vars
  BY <1>2
  DEF StartStream, StopStream, PressRecord, PressStop, Tick, Deliver, BeginDestroy,
      Gone, GoneInv, sessionVars, attemptVars, vars
<1>3. CASE BeginAttempt
  BY <1>3 DEF BeginAttempt, GoneInv, sessionVars
<1>4. CASE \/ OpenAttempt \/ FailAttempt \/ CheckToken \/ Poll \/ ReadPacket
           \/ LeaveLoop \/ CleanupRecorder \/ ReleaseInput
  <2>1. pc # "none" /\ UNCHANGED sessionVars
    BY <1>4
    DEF OpenAttempt, FailAttempt, CheckToken, Poll, ReadPacket, LeaveLoop,
        CleanupRecorder, ReleaseInput
  <2>2. QED
    BY <2>1 DEF GoneInv, sessionVars
<1>5. QED
  BY <1>1, <1>2, <1>3, <1>4 DEF Next, Gui, Worker

\* Between two attempts the service holds at most the converter's context, and
\* a deleted service holds nothing.
THEOREM AttemptsReleaseTheirOwn == Spec => []NothingHeldAfterwards
<1>1. Init => GoneInv
  BY DEF Init, GoneInv
<1>2. IInv /\ GoneInv => NothingHeldAfterwards
  BY DEF IInv, AttemptInv, GoneInv, NothingHeldAfterwards
<1>3. QED
  BY <1>1, <1>2, GoneStep, Invariance, PTL DEF Spec

\* An attempt, however it ends, leaves nothing in use, and nothing held but the
\* converter's context, which goes with the service.
THEOREM AttemptsLeaveNothing == Spec => []NothingOutlivesAttempt
<1>1. NoDanglingStream /\ NothingHeldAfterwards => NothingOutlivesAttempt
  BY DEF NothingOutlivesAttempt
<1>2. QED
  BY <1>1, StreamPointerValid, AttemptsReleaseTheirOwn, PTL

\* No file begins with anything but a keyframe.
THEOREM FilesBeginWithKeyframe == Spec => []KeyframeFirst
<1>1. IInv => KeyframeFirst
  BY DEF IInv
<1>2. QED
  BY <1>1, Invariance, PTL

-----------------------------------------------------------------------------
(* What a step may do to the files.                                        *)

\* The files after each action: the active one closed by a stop, a cut for the
\* one that could not be written, a keyframe for a new one.
LEMMA FileSteps ==
  ASSUME IInv, [Next]_vars
  PROVE  \/ files' = files
         \/ files' \in FilesOnStop(rec)
         \/ /\ rec'.state = "Error"
            /\ \/ /\ rec.output \in File
                  /\ files' = [files EXCEPT ![rec.output].end = "cut"]
               \/ /\ rec.config \in File
                  /\ files' = Emptied(rec.config)
         \/ /\ rec.config \in File
            /\ rec.state = "Starting"
            /\ files' = [files EXCEPT ![rec.config] = [first |-> "key", end |-> "open"]]
<1>1. CASE Gui \/ Gone \/ UNCHANGED vars
  BY <1>1
  DEF Gui, Gone, StartStream, StopStream, PressRecord, PressStop, Deliver,
      Tick, BeginDestroy, EndDestroy, recorderVars, vars
<1>2. CASE \/ BeginAttempt \/ OpenAttempt \/ FailAttempt
           \/ CheckToken \/ LeaveLoop \/ ReleaseInput
  BY <1>2
  DEF BeginAttempt, OpenAttempt, FailAttempt, CheckToken, LeaveLoop, ReleaseInput,
      recorderVars
<1>3. CASE Poll \/ CleanupRecorder
  BY <1>3 DEF Poll, CleanupRecorder
<1>4. CASE ReadPacket
  <2>1. PICK key \in BOOLEAN : HandleVideoPacket(key)
    BY <1>4 DEF ReadPacket
  <2>2. rec \in Recorder /\ RecorderConsistent
    BY DEF IInv, TypeOK
  <2>3. CASE IgnorePacket(key) \/ WritePacket(key)
    BY <2>3 DEF IgnorePacket, WritePacket, recorderVars
  <2>4. CASE OpenAndWrite(key)
    BY <2>2, <2>4
    DEF OpenAndWrite, Begins, PacketKind, RecorderConsistent, Recorder
  <2>5. CASE FailToOpen(key) \/ OpenAndFailToWrite(key)
    <3>1. rec'.state = "Error"
      BY <2>5, FailedResult DEF FailToOpen, OpenAndFailToWrite
    <3>2. rec.config \in File
      BY <2>2, <2>5
      DEF FailToOpen, OpenAndFailToWrite, RecorderConsistent, Recorder
    <3>3. QED
      BY <2>5, <3>1, <3>2 DEF FailToOpen, OpenAndFailToWrite
  <2>6. CASE FailToWrite(key)
    <3>1. rec'.state = "Error"
      BY <2>6, FailedResult DEF FailToWrite
    <3>2. rec.output \in File
      BY <2>2, <2>6 DEF FailToWrite, RecorderConsistent, Recorder
    <3>3. QED
      BY <2>6, <3>1, <3>2 DEF FailToWrite
  <2>7. QED
    BY <2>1, <2>3, <2>4, <2>5, <2>6 DEF HandleVideoPacket
<1>5. QED
  BY <1>1, <1>2, <1>3, <1>4 DEF Next, Worker

\* A finished file is not opened, written or closed again, unless two presses
\* of Record name it.
THEOREM FinishedFilesStay == Spec => FinishedFileUntouched
<1>1. IInv /\ [Next]_vars
        => [\A f \in File :
              files[f].end \in Ended /\ files'[f] # files[f]
              => presses[f] > 1]_vars
  <2> SUFFICES ASSUME IInv, [Next]_vars, NEW f \in File,
                      files[f].end \in Ended, ~ (presses[f] > 1)
               PROVE  files'[f] = files[f]
    OBVIOUS
  <2>1. files \in [File -> FileState] /\ presses[f] \in Nat
    BY RecordingAssumption DEF IInv, TypeOK
  <2>2. f # rec.output
    BY DEF IInv, RecorderConsistent, Ended
  <2>3. f # rec.config
    BY <2>1 DEF IInv, FreshInv, Ended
  <2>4. CASE files' \in FilesOnStop(rec)
    BY <2>4, FilesOnStopResult DEF Ended
  <2>5. CASE files' \notin FilesOnStop(rec)
    BY <2>1, <2>2, <2>3, <2>5, FileSteps DEF Emptied
  <2>6. QED
    BY <2>4, <2>5
<1>2. QED
  BY <1>1, Invariance, PTL DEF Spec, FinishedFileUntouched

\* A file is closed with no call of av_write_trailer only in a step that leaves
\* the recorder in Error.
THEOREM CutMeansError == Spec => CutOnlyOnError
<1>1. IInv /\ [Next]_vars
        => [\A f \in File : files[f].end # "cut" /\ files'[f].end = "cut"
              => rec'.state = "Error"]_vars
  <2> SUFFICES ASSUME IInv, [Next]_vars, NEW f \in File,
                      files[f].end # "cut", files'[f].end = "cut"
               PROVE  rec'.state = "Error"
    OBVIOUS
  <2>1. files \in [File -> FileState]
    BY DEF IInv, TypeOK
  <2>2. files' # files
    OBVIOUS
  <2>3. files' \notin FilesOnStop(rec)
    BY FilesOnStopResult
  <2>4. CASE rec.config \in File
             /\ files' = [files EXCEPT ![rec.config] = [first |-> "key", end |-> "open"]]
    BY <2>1, <2>4
  <2>5. QED
    BY <2>2, <2>3, <2>4, FileSteps
<1>2. QED
  BY <1>1, Invariance, PTL DEF Spec, CutOnlyOnError

\* What is written stays, and is closed without a try at its trailer only in an
\* error.
THEOREM FilesEndForGood == Spec => FilesEndOnce
<1>1. [\A f \in File :
         files[f].end \in Ended /\ files'[f] # files[f]
         => presses[f] > 1]_vars
      /\ [\A f \in File : files[f].end # "cut" /\ files'[f].end = "cut"
            => rec'.state = "Error"]_vars
      => [\A f \in File :
            /\ files[f].end \in Ended /\ files'[f] # files[f]
               => presses[f] > 1
            /\ files[f].end # "cut" /\ files'[f].end = "cut" => rec'.state = "Error"]_vars
  OBVIOUS
<1>2. QED
  BY <1>1, FinishedFilesStay, CutMeansError, PTL
  DEF FinishedFileUntouched, CutOnlyOnError, FilesEndOnce

\* A stop taken from the mailbox leaves no recording behind, whatever start it
\* was batched with.
THEOREM StopBeatsStart == Spec => StopWins
<1>1. IInv /\ [Next]_vars
        => [pendingStop /\ ~pendingStop' => rec'.state \notin {"Starting", "Recording"}]_vars
  <2> SUFFICES ASSUME IInv, Next, pendingStop, ~pendingStop'
               PROVE  rec'.state \notin {"Starting", "Recording"}
    OBVIOUS
  <2>1. CASE Gui \/ Gone
    BY <2>1
    DEF Gui, Gone, StartStream, StopStream, PressRecord, PressStop, Deliver,
        Tick, BeginDestroy, EndDestroy, mailbox, vars
  <2>2. CASE BeginAttempt \/ OpenAttempt \/ FailAttempt \/ CheckToken
               \/ ReadPacket \/ LeaveLoop \/ CleanupRecorder \/ ReleaseInput
    BY <2>2
    DEF BeginAttempt, OpenAttempt, FailAttempt, CheckToken, ReadPacket, LeaveLoop,
        CleanupRecorder, ReleaseInput, mailbox
  <2>3. CASE Poll
    BY <2>3, CommandsResult DEF Poll
  <2>4. QED
    BY <2>1, <2>2, <2>3 DEF Next, Worker
<1>2. QED
  BY <1>1, Invariance, PTL DEF Spec, StopWins

-----------------------------------------------------------------------------
(* What the view is told.                                                  *)

\* Handling these signals would leave the view, which now shows the one state,
\* with the other: the last recorder state among them decides.
Tells(signals, shown, state) ==
  /\ (\A i \in 1 .. Len(signals) : signals[i] \notin RecordingState) => shown = state
  /\ \A i \in 1 .. Len(signals) :
       signals[i] \in RecordingState
         /\ (\A j \in (i + 1) .. Len(signals) : signals[j] \notin RecordingState)
       => signals[i] = state

ReportInv == life = "alive" => Tells(events, sessionRec, rec.state)

\* Signals that end with a recorder state tell that state ...
LEMMA TellsState ==
  ASSUME NEW s \in Seq(Event), NEW t \in Seq(Event), NEW shown,
         NEW state \in RecordingState, t # <<>>, t[Len(t)] = state
  PROVE  Tells(s \o t, shown, state)
<1>1. /\ Len(s \o t) = Len(s) + Len(t) /\ Len(s) \in Nat /\ Len(t) \in Nat \ {0}
      /\ (s \o t)[Len(s) + Len(t)] = state
  BY ConcatProperties, EmptySeq
<1>2. Len(s \o t) \in 1 .. Len(s \o t)
  BY <1>1
<1>3. \A i \in 1 .. Len(s \o t) :
        (\A j \in (i + 1) .. Len(s \o t) : (s \o t)[j] \notin RecordingState)
        => i = Len(s \o t)
  <2> SUFFICES ASSUME NEW i \in 1 .. Len(s \o t), i # Len(s \o t)
               PROVE  \E j \in (i + 1) .. Len(s \o t) : (s \o t)[j] \in RecordingState
    OBVIOUS
  <2>1. Len(s \o t) \in (i + 1) .. Len(s \o t)
    BY <1>1
  <2>2. QED
    BY <1>1, <2>1
<1>4. QED
  BY <1>1, <1>2, <1>3 DEF Tells

\* ... one about the connection tells nothing new ...
LEMMA TellsNothing ==
  ASSUME NEW s \in Seq(Event), NEW e \in ConnectionEvent, NEW shown, NEW state,
         Tells(s, shown, state)
  PROVE  Tells(s \o <<e>>, shown, state)
<1>1. e \in Event /\ e \notin RecordingState
  BY DEF Event, ConnectionEvent, RecordingState
<1>2. /\ Len(s \o <<e>>) = Len(s) + 1 /\ Len(s) \in Nat
      /\ \A i \in 1 .. Len(s) : (s \o <<e>>)[i] = s[i]
      /\ (s \o <<e>>)[Len(s) + 1] = e
  BY <1>1, ConcatProperties
<1>3. (\A i \in 1 .. Len(s \o <<e>>) : (s \o <<e>>)[i] \notin RecordingState)
      => shown = state
  <2>1. \A i \in 1 .. Len(s) : i \in 1 .. Len(s \o <<e>>)
    BY <1>2
  <2>2. QED
    BY <1>2, <2>1 DEF Tells
<1>4. ASSUME NEW i \in 1 .. Len(s \o <<e>>), (s \o <<e>>)[i] \in RecordingState,
             \A j \in (i + 1) .. Len(s \o <<e>>) : (s \o <<e>>)[j] \notin RecordingState
      PROVE  (s \o <<e>>)[i] = state
  <2>1. i \in 1 .. Len(s)
    BY <1>1, <1>2, <1>4
  <2>2. \A j \in (i + 1) .. Len(s) : s[j] \notin RecordingState
    BY <1>2, <1>4, <2>1
  <2>3. QED
    BY <1>2, <1>4, <2>1, <2>2 DEF Tells
<1>5. QED
  BY <1>3, <1>4 DEF Tells

\* ... and handling the first of them leaves the others to tell the rest.
LEMMA TellsRest ==
  ASSUME NEW s \in Seq(Event), s # <<>>, NEW shown, NEW state, Tells(s, shown, state)
  PROVE  /\ Head(s) \in RecordingState => Tells(Tail(s), Head(s), state)
         /\ Head(s) \in ConnectionEvent => Tells(Tail(s), shown, state)
<1>1. /\ Len(s) \in Nat \ {0} /\ Len(Tail(s)) = Len(s) - 1 /\ Head(s) = s[1]
      /\ \A i \in 1 .. Len(Tail(s)) : Tail(s)[i] = s[i + 1]
  BY HeadTailProperties, EmptySeq
<1>2. ASSUME NEW i \in 1 .. Len(Tail(s)), Tail(s)[i] \in RecordingState,
             \A j \in (i + 1) .. Len(Tail(s)) : Tail(s)[j] \notin RecordingState
      PROVE  Tail(s)[i] = state
  <2>1. i + 1 \in 1 .. Len(s) /\ s[i + 1] \in RecordingState
    BY <1>1, <1>2
  <2>2. ASSUME NEW j \in (i + 1 + 1) .. Len(s) PROVE s[j] \notin RecordingState
    <3>1. j - 1 \in (i + 1) .. Len(Tail(s)) /\ j - 1 \in 1 .. Len(Tail(s))
      BY <1>1, <2>2
    <3>2. Tail(s)[j - 1] = s[j - 1 + 1]
      BY <1>1, <3>1
    <3>3. QED
      BY <1>2, <3>1, <3>2
  <2>3. QED
    BY <1>1, <1>2, <2>1, <2>2 DEF Tells
<1>3. ASSUME \A i \in 1 .. Len(Tail(s)) : Tail(s)[i] \notin RecordingState
      PROVE  \A j \in 2 .. Len(s) : s[j] \notin RecordingState
  <2> SUFFICES ASSUME NEW j \in 2 .. Len(s) PROVE s[j] \notin RecordingState
    OBVIOUS
  <2>1. j - 1 \in 1 .. Len(Tail(s))
    BY <1>1
  <2>2. Tail(s)[j - 1] = s[j - 1 + 1]
    BY <1>1, <2>1
  <2>3. QED
    BY <1>3, <2>1, <2>2
<1>4. 1 \in 1 .. Len(s)
  BY <1>1
<1>5. CASE Head(s) \in RecordingState
  <2>1. (\A i \in 1 .. Len(Tail(s)) : Tail(s)[i] \notin RecordingState) => Head(s) = state
    BY <1>1, <1>3, <1>4, <1>5 DEF Tells
  <2>2. Head(s) \notin ConnectionEvent
    BY <1>5 DEF RecordingState, ConnectionEvent
  <2>3. QED
    BY <1>2, <2>1, <2>2 DEF Tells
<1>6. CASE Head(s) \notin RecordingState
  <2>1. (\A i \in 1 .. Len(Tail(s)) : Tail(s)[i] \notin RecordingState) => shown = state
    <3>1. ASSUME \A i \in 1 .. Len(Tail(s)) : Tail(s)[i] \notin RecordingState
          PROVE  \A i \in 1 .. Len(s) : s[i] \notin RecordingState
      BY <1>1, <1>3, <1>6, <3>1
    <3>2. QED
      BY <3>1 DEF Tells
  <2>2. QED
    BY <1>2, <1>6, <2>1 DEF Tells
<1>7. QED
  BY <1>5, <1>6

LEMMA ReportInit == Init => ReportInv
<1>1. Tells(<<>>, "Stopped", "Stopped")
  BY DEF Tells
<1>2. Init => events = <<>> /\ sessionRec = "Stopped" /\ rec.state = "Stopped"
  BY DEF Init, IdleRecorder
<1>3. QED
  BY <1>1, <1>2 DEF ReportInv

\* Each action posts what it did to the recorder.
LEMMA ReportStep == ASSUME IInv, ReportInv, [Next]_vars PROVE ReportInv'
<1> SUFFICES ASSUME life' = "alive" PROVE Tells(events', sessionRec', rec'.state)
  BY DEF ReportInv
<1>1. events \in Seq(Event) /\ rec \in Recorder /\ rec.state \in RecordingState
  BY DEF IInv, TypeOK, Recorder
<1>2. IInv'
  BY NextIInv
<1>3. rec'.state \in RecordingState
  BY <1>2 DEF IInv, TypeOK, Recorder
<1>4. CASE UNCHANGED <<life, events, sessionRec, rec>>
  BY <1>4 DEF ReportInv
<1>5. CASE Deliver
  <2>1. Tells(events, sessionRec, rec.state) /\ events # <<>> /\ events' = Tail(events)
        /\ rec' = rec
    BY <1>5 DEF Deliver, ReportInv, recorderVars
  <2>2. \/ Head(events) \in RecordingState /\ sessionRec' = Head(events)
        \/ Head(events) \in ConnectionEvent /\ sessionRec' = sessionRec
    BY <1>5 DEF Deliver
  <2>3. QED
    BY <1>1, <2>1, <2>2, TellsRest
<1>6. CASE BeginDestroy \/ EndDestroy
  BY <1>6 DEF BeginDestroy, EndDestroy
<1>7. ASSUME NEW e \in ConnectionEvent, Post(<<e>>),
             UNCHANGED <<life, sessionRec, rec>>
      PROVE  Tells(events', sessionRec', rec'.state)
  <2>1. Tells(events, sessionRec, rec.state) /\ events' = events \o <<e>>
    BY <1>7 DEF Post, ReportInv
  <2>2. QED
    BY <1>1, <1>7, <2>1, TellsNothing
<1>8. ASSUME NEW t \in Seq(Event), Post(t), UNCHANGED <<life, sessionRec>>,
             \/ t = <<>> /\ rec'.state = rec.state
             \/ t # <<>> /\ t[Len(t)] = rec'.state
      PROVE  Tells(events', sessionRec', rec'.state)
  <2>1. Tells(events, sessionRec, rec.state) /\ events' = events \o t
    BY <1>8 DEF Post, ReportInv
  <2>2. CASE t = <<>>
    <3>1. events' = events
      BY <1>1, <2>1, <2>2, ConcatEmptySeq
    <3>2. rec'.state = rec.state
      BY <1>8, <2>2
    <3>3. QED
      BY <1>8, <2>1, <3>1, <3>2
  <2>3. CASE t # <<>>
    <3>1. t[Len(t)] = rec'.state
      BY <1>8, <2>3
    <3>2. QED
      BY <1>1, <1>3, <1>8, <2>1, <2>3, <3>1, TellsState
  <2>4. QED
    BY <2>2, <2>3
<1>9. CASE OpenAttempt
  <2>1. /\ UNCHANGED <<life, sessionRec, rec>>
        /\ UNCHANGED events \/ Post(<<"connected">>)
    BY <1>9 DEF OpenAttempt, sessionVars, uiVars, recorderVars
  <2>2. QED
    BY <1>4, <1>7, <2>1 DEF ConnectionEvent
<1>10. CASE ReleaseInput
  <2>1. UNCHANGED <<life, sessionRec, rec>> /\ Post(<<"lost">>)
    BY <1>10 DEF ReleaseInput, sessionVars, uiVars, recorderVars
  <2>2. QED
    BY <1>7, <2>1 DEF ConnectionEvent
<1>11. CASE CleanupRecorder
  <2>1. UNCHANGED <<life, sessionRec>> /\ Post(<<rec'.state>>)
    BY <1>11 DEF CleanupRecorder, sessionVars, uiVars
  <2>2. <<rec'.state>> \in Seq(Event) /\ <<rec'.state>> # <<>>
        /\ <<rec'.state>>[Len(<<rec'.state>>)] = rec'.state
    BY <1>3 DEF Event
  <2>3. QED
    BY <1>8, <2>1, <2>2
<1>12. CASE ReadPacket
  <2>1. UNCHANGED <<life, sessionRec>> /\ Post(PacketSignals(rec.state, rec'.state))
    BY <1>12 DEF ReadPacket, sessionVars, uiVars
  <2> DEFINE report == PacketSignals(rec.state, rec'.state)
  <2>2. CASE rec'.state = rec.state
    <3>1. report = <<>>
      BY <2>2 DEF PacketSignals
    <3>2. report \in Seq(Event)
      BY <3>1
    <3>3. Post(report)
      BY <2>1
    <3> HIDE DEF report
    <3>4. QED
      BY <1>8, <2>1, <2>2, <3>1, <3>2, <3>3
  <2>3. CASE rec'.state # rec.state
    <3>1. report = <<rec'.state>>
      BY <2>3 DEF PacketSignals
    <3>2. report \in Seq(Event) /\ report # <<>> /\ report[Len(report)] = rec'.state
      BY <1>3, <3>1 DEF Event
    <3>3. Post(report)
      BY <2>1
    <3> HIDE DEF report
    <3>4. QED
      BY <1>8, <2>1, <3>2, <3>3
  <2>4. QED
    BY <2>2, <2>3
<1>13. CASE Poll
  <2> DEFINE report == IF pendingStart # NoFile /\ rec.state = "Stopped"
                       THEN <<"Starting">> ELSE <<>>
             answer == IF pendingStop THEN <<rec'.state>> ELSE <<>>
  <2>1. /\ UNCHANGED <<life, sessionRec>> /\ Post(report \o answer)
        /\ rec' = ApplyCommands(rec)
    BY <1>13 DEF Poll, CommandSignals, sessionVars, uiVars
  <2> DEFINE signals == report \o answer
  <2>2. rec'.state \in Event /\ "Starting" \in Event
    BY <1>3 DEF Event, RecordingState
  <2>3. /\ signals \in Seq(Event)
        /\ \/ signals = <<>> /\ rec'.state = rec.state
           \/ signals # <<>> /\ signals[Len(signals)] = rec'.state
    <3>1. CASE pendingStop
      BY <2>2, <3>1
    <3>2. CASE ~pendingStop /\ pendingStart # NoFile /\ rec.state = "Stopped"
      <4>1. signals = <<"Starting">>
        BY <3>2
      <4>2. rec'.state = "Starting"
        BY <1>1, <2>1, <3>2 DEF ApplyCommands, RequestRecording, Recorder
      <4> HIDE DEF signals
      <4>3. QED
        BY <2>2, <4>1, <4>2
    <3>3. CASE ~pendingStop /\ ~ (pendingStart # NoFile /\ rec.state = "Stopped")
      <4>1. signals = <<>>
        BY <3>3
      <4>2. rec' = rec
        BY <2>1, <3>3 DEF ApplyCommands, RequestRecording
      <4> HIDE DEF signals
      <4>3. QED
        BY <4>1, <4>2
    <3>4. QED
      BY <3>1, <3>2, <3>3
  <2>4. Post(signals)
    BY <2>1
  <2> HIDE DEF signals
  <2>5. QED
    BY <1>8, <2>1, <2>3, <2>4
<1>14. CASE StartStream \/ StopStream \/ PressRecord \/ PressStop \/ Tick
  BY <1>4, <1>14
  DEF StartStream, StopStream, PressRecord, PressStop, Tick, sessionVars,
      recorderVars, uiVars
<1>15. CASE BeginAttempt \/ FailAttempt \/ CheckToken \/ LeaveLoop
  BY <1>4, <1>15
  DEF BeginAttempt, FailAttempt, CheckToken, LeaveLoop, sessionVars, recorderVars,
      uiVars
<1>16. CASE UNCHANGED vars
  BY <1>4, <1>16 DEF vars
<1>17. QED
  BY <1>5, <1>6, <1>9, <1>10, <1>11, <1>12, <1>13, <1>14, <1>15, <1>16
  DEF Next, Gui, Worker, Gone

\* Once its signals are handled the view shows the state of the recorder.
THEOREM ViewFollowsRecorder == Spec => []RecordingViewSettles
<1>1. Init => IInv /\ ReportInv
  BY InitIInv, ReportInit
<1>2. IInv /\ ReportInv /\ [Next]_vars => (IInv /\ ReportInv)'
  BY NextIInv, ReportStep
<1>3. ReportInv => RecordingViewSettles
  BY DEF ReportInv, RecordingViewSettles, Tells
<1>4. QED
  BY <1>1, <1>2, <1>3, PTL DEF Spec

=============================================================================
