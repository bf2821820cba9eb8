-------------------------- MODULE VideoDecoding_proofs --------------------------
(***************************************************************************)
(* Safety of VideoDecoding for every number of attempts, packets, frames,  *)
(* seconds, queued signals and formats.                                    *)
(***************************************************************************)
EXTENDS VideoDecoding, SequenceTheorems, TLAPS

-----------------------------------------------------------------------------
(* What the GUI thread has or will have, as its queue grows and shrinks.   *)

LEMMA NewestAppend ==
  ASSUME NEW S, NEW q \in Seq(S), NEW e \in S, NEW copy
  PROVE  /\ Append(q, e) \in Seq(S)
         /\ Newest(Append(q, e), copy) = e
<1>1. Append(q, e) \in Seq(S) /\ Len(Append(q, e)) = Len(q) + 1 /\ Len(q) \in Nat
  OBVIOUS
<1>2. Append(q, e) # <<>> /\ Append(q, e)[Len(q) + 1] = e
  OBVIOUS
<1> QED
  BY <1>1, <1>2 DEF Newest

LEMMA NewestRest ==
  ASSUME NEW S, NEW q \in Seq(S), q # <<>>, NEW copy
  PROVE  /\ Head(q) \in S /\ Tail(q) \in Seq(S)
         /\ Newest(Tail(q), Head(q)) = Newest(q, copy)
<1>1. /\ Head(q) \in S /\ Tail(q) \in Seq(S) /\ Head(q) = q[1]
      /\ Len(q) \in Nat \ {0} /\ Len(Tail(q)) = Len(q) - 1
      /\ \A i \in 1 .. Len(q) - 1 : Tail(q)[i] = q[i + 1]
  OBVIOUS
<1>2. Newest(q, copy) = q[Len(q)]
  BY DEF Newest
<1>3. CASE Len(q) = 1
  <2>1. Len(Tail(q)) = 0
    BY <1>1, <1>3
  <2>2. Tail(q) = <<>>
    BY <1>1, <2>1, EmptySeq
  <2> QED
    BY <1>1, <1>2, <1>3, <2>2 DEF Newest
<1>4. CASE Len(q) > 1
  <2>1. Len(Tail(q)) # 0 /\ Len(<<>>) = 0
    BY <1>1, <1>4
  <2>2. Tail(q) # <<>>
    BY <2>1
  <2>3. Newest(Tail(q), Head(q)) = Tail(q)[Len(Tail(q))]
    BY <2>2 DEF Newest
  <2>4. Tail(q)[Len(q) - 1] = q[Len(q)]
    BY <1>1, <1>4
  <2> QED
    BY <1>1, <1>2, <2>3, <2>4
<1> QED
  BY <1>1, <1>3, <1>4

LEMMA TellStatisticsType ==
  ASSUME TypeOK, NEW s \in StreamStatistics,
         statsQueue' = Append(statsQueue, s), sessionStats' = sessionStats
  PROVE  /\ statsQueue' \in Seq(StreamStatistics) /\ sessionStats' \in StreamStatistics
         /\ Newest(statsQueue', sessionStats') = s
<1>1. statsQueue \in Seq(StreamStatistics) /\ sessionStats \in StreamStatistics
  BY DEF TypeOK
<1>2. /\ Append(statsQueue, s) \in Seq(StreamStatistics)
      /\ Newest(Append(statsQueue, s), sessionStats) = s
  BY <1>1, NewestAppend
<1> QED
  BY <1>1, <1>2

LEMMA TellDurationType ==
  ASSUME TypeOK, NEW n \in Seconds,
         durationQueue' = Append(durationQueue, n), viewDuration' = viewDuration
  PROVE  /\ durationQueue' \in Seq(Seconds) /\ viewDuration' \in Seconds
         /\ Newest(durationQueue', viewDuration') = n
<1>1. durationQueue \in Seq(Seconds) /\ viewDuration \in Seconds
  BY DEF TypeOK
<1>2. /\ Append(durationQueue, n) \in Seq(Seconds)
      /\ Newest(Append(durationQueue, n), viewDuration) = n
  BY <1>1, NewestAppend
<1> QED
  BY <1>1, <1>2

-----------------------------------------------------------------------------
(* The inductive invariant.                                                *)

\* An attempt begins with empty statistics; with a decoder they count what the
\* history counts.
CountedInv ==
  /\ pc = "open" => statistics = NoStatistics
  /\ pc \in {"init", "head", "read", "send", "receive", "convert", "scale", "count",
             "publish", "final"}
       => statistics = seen

\* Outside the loop everything counted has been told.
ToldInv ==
  pc \in {"none", "open", "init", "cleanup"}
    => Newest(statsQueue, sessionStats) = seen

\* The view has, or is about to have, the length published last.
PublishedInv == Newest(durationQueue, viewDuration) = lastPublished

\* Frames are left behind only while they are taken, or after a failure.
DrainedInv ==
  pc \notin {"receive", "convert", "scale", "count"} => ready = 0 \/ receiveFailed

\* There is a frame to convert.
FrameInv == pc = "convert" => frame \in Format

IInv ==
  /\ TypeOK
  /\ CountedInv
  /\ ToldInv
  /\ PublishedInv
  /\ FrameInv
  /\ ConverterOwnsContext
  /\ DrainedInv

LEMMA NoStatisticsType == NoStatistics \in StreamStatistics
BY DecodingAssumption DEF NoStatistics, StreamStatistics

\* The updates of a record of statistics.
LEMMA StatisticsUpdates ==
  ASSUME NEW s \in StreamStatistics
  PROVE  /\ \A a \in 0 .. MaxAttempts : [s EXCEPT !.stream = a] \in StreamStatistics
         /\ s.packetsReceived < MaxPackets =>
              [s EXCEPT !.packetsReceived = @ + 1] \in StreamStatistics
         /\ [s EXCEPT !.framesDecoded = @ + 1] \in StreamStatistics
<1>1. /\ s.stream \in 0 .. MaxAttempts /\ s.packetsReceived \in 0 .. MaxPackets
      /\ s.framesDecoded \in Nat
      /\ s = [stream |-> s.stream, packetsReceived |-> s.packetsReceived,
              framesDecoded |-> s.framesDecoded]
  BY DEF StreamStatistics
<1>2. ASSUME NEW a \in 0 .. MaxAttempts
      PROVE  [s EXCEPT !.stream = a] \in StreamStatistics
  BY <1>1 DEF StreamStatistics
<1>3. ASSUME s.packetsReceived < MaxPackets
      PROVE  [s EXCEPT !.packetsReceived = @ + 1] \in StreamStatistics
  <2>1. s.packetsReceived + 1 \in 0 .. MaxPackets
    BY <1>1, <1>3, DecodingAssumption
  <2> QED
    BY <1>1, <2>1 DEF StreamStatistics
<1>4. [s EXCEPT !.framesDecoded = @ + 1] \in StreamStatistics
  <2>1. s.framesDecoded + 1 \in Nat
    BY <1>1
  <2> QED
    BY <1>1, <2>1 DEF StreamStatistics
<1> QED
  BY <1>2, <1>3, <1>4

LEMMA InitIInv == Init => IInv
<1> SUFFICES ASSUME Init PROVE IInv
  OBVIOUS
<1>1. <<>> \in Seq(StreamStatistics) /\ <<>> \in Seq(Seconds)
  OBVIOUS
<1>2. made \in [Context -> Format \cup {NoFormat}] /\ ConverterOwnsContext
  BY DEF Init, ConverterOwnsContext
<1>3. 0 \in 0 .. MaxAttempts /\ 0 \in 0 .. MaxReady /\ 0 \in Seconds
  BY DecodingAssumption DEF Seconds
<1>4. TypeOK
  BY <1>1, <1>2, <1>3, NoStatisticsType DEF Init, TypeOK, Pc, RecordingState
<1>5. Newest(statsQueue, sessionStats) = seen /\ Newest(durationQueue, viewDuration) = 0
  BY DEF Init, Newest
<1> QED
  BY <1>2, <1>4, <1>5
     DEF Init, IInv, CountedInv, ToldInv, PublishedInv, FrameInv, DrainedInv

-----------------------------------------------------------------------------
(* The scaler's contexts.                                                  *)

\* What sws_getCachedContext makes of the one context that the converter owns.
LEMMA EnsuredContext ==
  ASSUME TypeOK, EnsureContext
  PROVE  /\ context' \in Context \cup {NoContext}
         /\ made' \in [Context -> Format \cup {NoFormat}]
         /\ /\ frame \in Format
            /\ {c \in Context : made[c] # NoFormat} = {context} \ {NoContext}
            => /\ {c \in Context : made'[c] # NoFormat} = {context'} \ {NoContext}
               /\ context' # NoContext => made'[context'] = frame
<1> USE DecodingAssumption
<1>0. /\ frame \in Format \cup {NoFormat} /\ context \in Context \cup {NoContext}
      /\ made \in [Context -> Format \cup {NoFormat}]
  BY DEF TypeOK
<1>1. PICK result \in CachedContext(frame) :
        context' = result.pointer /\ made' = result.made
  BY DEF EnsureContext, Assigned
<1>2. CASE context # NoContext /\ made[context] = frame
  <2>1. result = [pointer |-> context, made |-> made]
    BY <1>1, <1>2 DEF CachedContext
  <2>2. context' = context /\ made' = made
    BY <1>1, <2>1
  <2> QED
    BY <1>0, <1>2, <2>2
<1>3. CASE ~(context # NoContext /\ made[context] = frame)
  <2> DEFINE left == [c \in Context |-> IF c = context THEN NoFormat ELSE made[c]]
  <2>1. left \in [Context -> Format \cup {NoFormat}]
    BY <1>0
  <2>2. \/ result = [pointer |-> NoContext, made |-> left]
        \/ \E c \in Context : /\ left[c] = NoFormat
                              /\ result = [pointer |-> c,
                                           made |-> [left EXCEPT ![c] = frame]]
    BY <1>1, <1>3 DEF CachedContext
  <2>3. ASSUME {c \in Context : made[c] # NoFormat} = {context} \ {NoContext}
        PROVE  \A c \in Context : left[c] = NoFormat
    BY <1>0, <2>3
  <2>4. CASE result = [pointer |-> NoContext, made |-> left]
    <3>1. context' = NoContext /\ made' = left
      BY <1>1, <2>4
    <3> HIDE DEF left
    <3> QED
      BY <2>1, <2>3, <3>1
  <2>5. CASE \E c \in Context : /\ left[c] = NoFormat
                                /\ result = [pointer |-> c,
                                             made |-> [left EXCEPT ![c] = frame]]
    <3>1. PICK c \in Context :
            result = [pointer |-> c, made |-> [left EXCEPT ![c] = frame]]
      BY <2>5
    <3>2. context' = c /\ made' = [left EXCEPT ![c] = frame]
      BY <1>1, <3>1
    <3> HIDE DEF left
    <3> QED
      BY <1>0, <2>1, <2>3, <3>2
  <2> QED
    BY <2>2, <2>4, <2>5
<1> QED
  BY <1>2, <1>3

-----------------------------------------------------------------------------
(* The steps.                                                              *)

LEMMA TypeStep == ASSUME IInv, [Next]_vars PROVE TypeOK'
<1> USE DecodingAssumption
<1>0. TypeOK
  BY DEF IInv
<1>1. CASE BeginAttempt
  <2>1. attempt' \in 0 .. MaxAttempts
    BY <1>0, <1>1 DEF TypeOK, BeginAttempt
  <2> QED
    BY <1>0, <1>1, <2>1, NoStatisticsType
       DEF TypeOK, BeginAttempt, Pc, StatisticsReset, recorderVars, decoderVars,
           pictureVars, statsUi, durationUi
<1>2. CASE OpenDecoder
  <2>1. statistics' \in StreamStatistics
    BY <1>0, <1>2, StatisticsUpdates DEF TypeOK, OpenDecoder
  <2>2. seen' \in StreamStatistics
    BY <1>0, <1>2, StatisticsUpdates, NoStatisticsType DEF TypeOK, OpenDecoder
  <2>3. statsQueue' = Append(statsQueue, statistics') /\ sessionStats' = sessionStats
    BY <1>2 DEF OpenDecoder, TellStatistics
  <2>4. statsQueue' \in Seq(StreamStatistics) /\ sessionStats' \in StreamStatistics
    BY <1>0, <2>1, <2>3, TellStatisticsType
  <2>5. ready' \in 0 .. MaxReady
    BY <1>2 DEF OpenDecoder
  <2> QED
    BY <1>0, <1>2, <2>1, <2>2, <2>4, <2>5
       DEF TypeOK, OpenDecoder, Pc, recorderVars, pictureVars, durationUi
<1>3. CASE FailAttempt \/ Connect \/ LeaveLoop \/ SkipPacket \/ DropPacket \/ EndReceive
  BY <1>0, <1>3
     DEF TypeOK, FailAttempt, Connect, LeaveLoop, SkipPacket, DropPacket, EndReceive, Pc,
         statsVars, recorderVars, decoderVars, pictureVars, statsUi, durationUi
<1>4. CASE ProcessCommands
  <2>1. recorder' \in RecordingState
    BY <1>0, <1>4 DEF TypeOK, ProcessCommands, Commanded, RecordingState
  <2>2. seconds' \in Seconds
    BY <1>0, <1>4 DEF TypeOK, ProcessCommands, Seconds
  <2> QED
    BY <1>0, <1>4, <2>1, <2>2
       DEF TypeOK, ProcessCommands, Pc, statsVars, decoderVars, pictureVars, statsUi,
           durationUi
<1>5. CASE ReadPacket
  <2>1. statistics = seen
    BY <1>5 DEF IInv, CountedInv, ReadPacket
  <2>2. statistics' \in StreamStatistics /\ seen' \in StreamStatistics
    BY <1>0, <1>5, <2>1, StatisticsUpdates DEF TypeOK, ReadPacket
  <2>3. recorder' \in RecordingState
    BY <1>0, <1>5 DEF TypeOK, ReadPacket, Handled, RecordingState
  <2>4. seconds' \in Seconds
    BY <1>0, <1>5 DEF TypeOK, ReadPacket, Seconds
  <2> QED
    BY <1>0, <1>5, <2>2, <2>3, <2>4
       DEF TypeOK, ReadPacket, Pc, decoderVars, pictureVars, statsUi, durationUi
<1>6. CASE SendPacket \/ ReceiveFrame \/ FailReceive
  <2>1. ready' \in 0 .. MaxReady
    BY <1>0, <1>6 DEF TypeOK, SendPacket, ReceiveFrame, FailReceive
  <2>2. frame' \in Format \cup {NoFormat} /\ receiveFailed' \in BOOLEAN /\ pc' \in Pc
    BY <1>0, <1>6
       DEF TypeOK, SendPacket, ReceiveFrame, FailReceive, pictureVars, Pc
  <2>3. UNCHANGED converterVars
    BY <1>6 DEF SendPacket, ReceiveFrame, FailReceive, pictureVars, converterVars
  <2> QED
    BY <1>0, <1>6, <2>1, <2>2, <2>3
       DEF TypeOK, SendPacket, ReceiveFrame, FailReceive, statsVars, recorderVars,
           converterVars, statsUi, durationUi
<1>7. CASE EnsureContext
  <2>1. context' \in Context \cup {NoContext}
        /\ made' \in [Context -> Format \cup {NoFormat}]
    BY <1>0, <1>7, EnsuredContext
  <2> QED
    BY <1>0, <1>7, <2>1
       DEF TypeOK, EnsureContext, Pc, statsVars, recorderVars, decoderVars, statsUi,
           durationUi
<1>8. CASE CountFrame
  <2>1. statistics' \in StreamStatistics /\ seen' \in StreamStatistics
    BY <1>0, <1>8, StatisticsUpdates DEF TypeOK, CountFrame
  <2>2. statsQueue' \in Seq(StreamStatistics) /\ sessionStats' \in StreamStatistics
    <3>1. CASE UNCHANGED statsUi
      BY <1>0, <3>1 DEF TypeOK, statsUi
    <3>2. CASE TellStatistics(statistics')
      <4>1. statsQueue' = Append(statsQueue, statistics') /\ sessionStats' = sessionStats
        BY <3>2 DEF TellStatistics
      <4> QED
        BY <1>0, <2>1, <4>1, TellStatisticsType
    <3> QED
      BY <1>8, <3>1, <3>2 DEF CountFrame
  <2> QED
    BY <1>0, <1>8, <2>1, <2>2
       DEF TypeOK, CountFrame, NextFrame, Pc, converterVars, recorderVars, decoderVars,
           durationUi
<1>9. CASE PublishDuration
  <2>1. durationQueue' \in Seq(Seconds) /\ viewDuration' \in Seconds
    <3>1. CASE UNCHANGED durationUi
      BY <1>0, <3>1 DEF TypeOK, durationUi
    <3>2. CASE TellDuration(seconds)
      BY <1>0, <3>2, TellDurationType DEF TypeOK, TellDuration
    <3> QED
      BY <1>9, <3>1, <3>2 DEF PublishDuration
  <2> QED
    BY <1>0, <1>9, <2>1
       DEF TypeOK, PublishDuration, Pc, statsVars, recorderVars, decoderVars,
           pictureVars, statsUi
<1>10. CASE EndLoop
  <2>1. statsQueue' \in Seq(StreamStatistics) /\ sessionStats' \in StreamStatistics
    BY <1>0, <1>10, TellStatisticsType DEF TypeOK, EndLoop, TellLast, TellStatistics
  <2> QED
    BY <1>0, <1>10, <2>1
       DEF TypeOK, EndLoop, Pc, statsVars, recorderVars, decoderVars, pictureVars,
           durationUi
<1>11. CASE Cleanup
  <2>1. durationQueue' \in Seq(Seconds) /\ viewDuration' \in Seconds
    <3>1. durationQueue' = Append(durationQueue, 0) /\ viewDuration' = viewDuration
      BY <1>11 DEF Cleanup, TellDuration
    <3>2. 0 \in Seconds
      BY DEF Seconds
    <3> QED
      BY <1>0, <3>1, <3>2, TellDurationType
  <2>2. /\ ready' \in 0 .. MaxReady
        /\ seconds' \in Seconds /\ lastPublished' \in Seconds
    BY <1>11 DEF Cleanup, DurationReset, Seconds
  <2> QED
    BY <1>0, <1>11, <2>1, <2>2
       DEF TypeOK, Cleanup, RecordingState, Pc, converterVars, statsVars, statsUi
<1>12. CASE DeliverStatistics
  <2>1. sessionStats' \in StreamStatistics /\ statsQueue' \in Seq(StreamStatistics)
    BY <1>0, <1>12, NewestRest DEF TypeOK, DeliverStatistics
  <2> QED
    BY <1>0, <1>12, <2>1
       DEF TypeOK, DeliverStatistics, statsVars, recorderVars, decoderVars, pictureVars,
           durationUi
<1>13. CASE DeliverDuration
  <2>1. viewDuration' \in Seconds /\ durationQueue' \in Seq(Seconds)
    BY <1>0, <1>13, NewestRest DEF TypeOK, DeliverDuration
  <2> QED
    BY <1>0, <1>13, <2>1
       DEF TypeOK, DeliverDuration, statsVars, recorderVars, decoderVars, pictureVars,
           statsUi
<1>14. CASE RecordingSecond \/ StatisticsSecond
  <2>1. seconds' \in Seconds
    BY <1>0, <1>14
       DEF TypeOK, RecordingSecond, StatisticsSecond, recorderVars, Seconds
  <2>2. due' \in BOOLEAN
    BY <1>0, <1>14 DEF TypeOK, RecordingSecond, StatisticsSecond, statsVars
  <2> QED
    BY <1>0, <1>14, <2>1, <2>2
       DEF TypeOK, RecordingSecond, StatisticsSecond, statsVars, recorderVars,
           decoderVars, pictureVars, statsUi, durationUi
<1>15. CASE ScaleFrame
  BY <1>0, <1>15
     DEF TypeOK, ScaleFrame, Pc, statsVars, recorderVars, decoderVars, pictureVars,
         statsUi, durationUi
<1>16. CASE UNCHANGED vars
  BY <1>0, <1>16 DEF TypeOK, vars
<1> QED
  BY <1>1, <1>2, <1>3, <1>4, <1>5, <1>6, <1>7, <1>8, <1>9, <1>10, <1>11, <1>12, <1>13,
     <1>14, <1>15, <1>16
     DEF Next

LEMMA CountedStep == ASSUME IInv, [Next]_vars PROVE CountedInv'
<1>0. CountedInv
  BY DEF IInv
<1>1. CASE BeginAttempt \/ OpenDecoder
  BY <1>0, <1>1 DEF CountedInv, BeginAttempt, OpenDecoder, StatisticsReset
<1>2. CASE ReadPacket \/ CountFrame
  BY <1>0, <1>2 DEF CountedInv, ReadPacket, CountFrame, NextFrame
<1>3. CASE FailAttempt \/ Connect \/ ProcessCommands \/ LeaveLoop \/ SkipPacket
  BY <1>0, <1>3
     DEF CountedInv, FailAttempt, Connect, ProcessCommands, LeaveLoop, SkipPacket,
         statsVars
<1>4. CASE SendPacket \/ DropPacket \/ ReceiveFrame \/ EndReceive \/ FailReceive
  BY <1>0, <1>4
     DEF CountedInv, SendPacket, DropPacket, ReceiveFrame, EndReceive, FailReceive,
         statsVars
<1>5. CASE EnsureContext \/ ScaleFrame \/ PublishDuration \/ EndLoop \/ Cleanup
  BY <1>0, <1>5
     DEF CountedInv, EnsureContext, ScaleFrame, PublishDuration, EndLoop, Cleanup,
         statsVars
<1>6. CASE DeliverStatistics \/ DeliverDuration \/ RecordingSecond \/ StatisticsSecond
  BY <1>0, <1>6
     DEF CountedInv, DeliverStatistics, DeliverDuration, RecordingSecond,
         StatisticsSecond, statsVars
<1>7. CASE UNCHANGED vars
  BY <1>0, <1>7 DEF CountedInv, vars
<1> QED
  BY <1>1, <1>2, <1>3, <1>4, <1>5, <1>6, <1>7 DEF Next

LEMMA ToldStep == ASSUME IInv, [Next]_vars PROVE ToldInv'
<1>0. TypeOK /\ CountedInv /\ ToldInv /\ TypeOK'
  BY TypeStep DEF IInv
<1>1. CASE OpenDecoder
  <2>1. statistics' = seen'
    BY <1>0, <1>1 DEF CountedInv, OpenDecoder
  <2>2. statsQueue' = Append(statsQueue, statistics') /\ sessionStats' = sessionStats
    BY <1>1 DEF OpenDecoder, TellStatistics
  <2>3. statistics' \in StreamStatistics
    BY <1>0 DEF TypeOK
  <2>4. Newest(statsQueue', sessionStats') = statistics'
    BY <1>0, <2>2, <2>3, TellStatisticsType
  <2> QED
    BY <2>1, <2>4 DEF ToldInv
<1>2. CASE EndLoop
  <2>1. statistics = seen /\ seen' = seen /\ statistics \in StreamStatistics
    BY <1>0, <1>2 DEF CountedInv, EndLoop, statsVars, TypeOK
  <2>2. Newest(statsQueue', sessionStats') = statistics
    BY <1>0, <1>2, <2>1, TellStatisticsType DEF EndLoop, TellLast, TellStatistics
  <2> QED
    BY <2>1, <2>2 DEF ToldInv
<1>3. CASE DeliverStatistics
  <2>1. Newest(statsQueue', sessionStats') = Newest(statsQueue, sessionStats)
    BY <1>0, <1>3, NewestRest DEF DeliverStatistics, TypeOK
  <2> QED
    BY <1>0, <1>3, <2>1 DEF ToldInv, DeliverStatistics, statsVars
<1>4. CASE BeginAttempt \/ FailAttempt \/ Connect \/ ProcessCommands \/ LeaveLoop
  BY <1>0, <1>4
     DEF ToldInv, Newest, BeginAttempt, FailAttempt, Connect, ProcessCommands, LeaveLoop,
         statsVars, statsUi
<1>5. CASE SkipPacket \/ ReadPacket \/ SendPacket \/ DropPacket \/ ReceiveFrame
  BY <1>5
     DEF ToldInv, SkipPacket, ReadPacket, SendPacket, DropPacket, ReceiveFrame
<1>6. CASE EndReceive \/ FailReceive \/ EnsureContext \/ ScaleFrame \/ CountFrame
           \/ PublishDuration
  BY <1>6
     DEF ToldInv, EndReceive, FailReceive, EnsureContext, ScaleFrame, CountFrame,
         NextFrame, PublishDuration
<1>7. CASE Cleanup \/ DeliverDuration \/ RecordingSecond \/ StatisticsSecond
  BY <1>0, <1>7
     DEF ToldInv, Newest, Cleanup, DeliverDuration, RecordingSecond, StatisticsSecond,
         statsVars, statsUi
<1>8. CASE UNCHANGED vars
  BY <1>0, <1>8 DEF ToldInv, Newest, vars
<1> QED
  BY <1>1, <1>2, <1>3, <1>4, <1>5, <1>6, <1>7, <1>8 DEF Next

LEMMA PublishedStep == ASSUME IInv, [Next]_vars PROVE PublishedInv'
<1>0. TypeOK /\ PublishedInv
  BY DEF IInv
<1>1. CASE PublishDuration
  <2>1. CASE recorder = "Recording" /\ seconds # lastPublished
    <3>1. seconds \in Seconds
      BY <1>0 DEF TypeOK
    <3>2. Newest(durationQueue', viewDuration') = seconds
      BY <1>0, <1>1, <2>1, <3>1, TellDurationType DEF PublishDuration, TellDuration
    <3> QED
      BY <1>1, <2>1, <3>2 DEF PublishedInv, PublishDuration
  <2>2. CASE ~(recorder = "Recording" /\ seconds # lastPublished)
    BY <1>0, <1>1, <2>2 DEF PublishedInv, PublishDuration, Newest, durationUi
  <2> QED
    BY <2>1, <2>2
<1>2. CASE Cleanup
  <2>1. 0 \in Seconds
    BY DecodingAssumption DEF Seconds
  <2>2. durationQueue' = Append(durationQueue, 0) /\ viewDuration' = viewDuration
    BY <1>2 DEF Cleanup, TellDuration
  <2>3. Newest(durationQueue', viewDuration') = 0
    BY <1>0, <2>1, <2>2, TellDurationType
  <2> QED
    BY <1>2, <2>3 DEF PublishedInv, Cleanup, DurationReset
<1>3. CASE DeliverDuration
  <2>1. Newest(durationQueue', viewDuration') = Newest(durationQueue, viewDuration)
    BY <1>0, <1>3, NewestRest DEF DeliverDuration, TypeOK
  <2> QED
    BY <1>0, <1>3, <2>1 DEF PublishedInv, DeliverDuration
<1>4. CASE UNCHANGED <<durationUi, lastPublished>>
  BY <1>0, <1>4 DEF PublishedInv, Newest, durationUi
<1>5. CASE BeginAttempt \/ OpenDecoder \/ FailAttempt \/ Connect \/ ProcessCommands
           \/ LeaveLoop \/ SkipPacket \/ ReadPacket
  BY <1>4, <1>5
     DEF BeginAttempt, OpenDecoder, FailAttempt, Connect, ProcessCommands, LeaveLoop,
         SkipPacket, ReadPacket
<1>6. CASE SendPacket \/ DropPacket \/ ReceiveFrame \/ EndReceive \/ FailReceive
           \/ EnsureContext \/ ScaleFrame \/ CountFrame
  BY <1>4, <1>6
     DEF SendPacket, DropPacket, ReceiveFrame, EndReceive, FailReceive, EnsureContext,
         ScaleFrame, CountFrame
<1>7. CASE EndLoop \/ DeliverStatistics \/ RecordingSecond \/ StatisticsSecond
  BY <1>4, <1>7 DEF EndLoop, DeliverStatistics, RecordingSecond, StatisticsSecond
<1>8. CASE UNCHANGED vars
  BY <1>4, <1>8 DEF vars, durationUi
<1> QED
  BY <1>1, <1>2, <1>3, <1>5, <1>6, <1>7, <1>8 DEF Next

LEMMA FrameStep == ASSUME IInv, [Next]_vars PROVE FrameInv'
<1>0. FrameInv
  BY DEF IInv
<1>1. CASE ReceiveFrame
  BY <1>1 DEF FrameInv, ReceiveFrame
<1>2. CASE pc' # "convert"
  BY <1>2 DEF FrameInv
<1>3. CASE BeginAttempt \/ OpenDecoder \/ FailAttempt \/ Connect \/ ProcessCommands
           \/ LeaveLoop \/ SkipPacket \/ ReadPacket \/ SendPacket \/ DropPacket
  BY <1>2, <1>3
     DEF BeginAttempt, OpenDecoder, FailAttempt, Connect, ProcessCommands, LeaveLoop,
         SkipPacket, ReadPacket, SendPacket, DropPacket
<1>4. CASE EndReceive \/ FailReceive \/ EnsureContext \/ ScaleFrame \/ CountFrame
           \/ PublishDuration \/ EndLoop \/ Cleanup
  BY <1>2, <1>4
     DEF EndReceive, FailReceive, EnsureContext, ScaleFrame, CountFrame, NextFrame,
         PublishDuration, EndLoop, Cleanup
<1>5. CASE DeliverStatistics \/ DeliverDuration \/ RecordingSecond \/ StatisticsSecond
  BY <1>0, <1>5
     DEF FrameInv, DeliverStatistics, DeliverDuration, RecordingSecond,
         StatisticsSecond, pictureVars
<1>6. CASE UNCHANGED vars
  BY <1>0, <1>6 DEF FrameInv, vars
<1> QED
  BY <1>1, <1>3, <1>4, <1>5, <1>6 DEF Next

LEMMA ConverterStep == ASSUME IInv, [Next]_vars PROVE ConverterOwnsContext'
<1>0. ConverterOwnsContext /\ TypeOK
  BY DEF IInv
<1>1. CASE EnsureContext
  <2>1. frame \in Format
    BY <1>1 DEF IInv, FrameInv, EnsureContext
  <2>2. {c \in Context : made'[c] # NoFormat} = {context'} \ {NoContext}
        /\ (context' # NoContext => made'[context'] = frame)
    BY <1>0, <1>1, <2>1, EnsuredContext DEF ConverterOwnsContext
  <2>3. frame' = frame /\ (pc' = "scale" => context' # NoContext)
    BY <1>1 DEF EnsureContext
  <2> QED
    BY <2>2, <2>3 DEF ConverterOwnsContext
<1>2. CASE UNCHANGED converterVars /\ pc' # "scale"
  BY <1>0, <1>2 DEF ConverterOwnsContext, converterVars
<1>3. CASE BeginAttempt \/ OpenDecoder \/ FailAttempt \/ Connect \/ ProcessCommands
           \/ LeaveLoop \/ SkipPacket \/ ReadPacket \/ SendPacket \/ DropPacket
  BY <1>2, <1>3
     DEF BeginAttempt, OpenDecoder, FailAttempt, Connect, ProcessCommands, LeaveLoop,
         SkipPacket, ReadPacket, SendPacket, DropPacket, pictureVars, converterVars
<1>4. CASE ReceiveFrame \/ EndReceive \/ FailReceive \/ ScaleFrame \/ CountFrame
           \/ PublishDuration \/ EndLoop \/ Cleanup
  BY <1>2, <1>4
     DEF ReceiveFrame, EndReceive, FailReceive, ScaleFrame, CountFrame, NextFrame,
         PublishDuration, EndLoop, Cleanup, pictureVars, converterVars
<1>5. CASE DeliverStatistics \/ DeliverDuration \/ RecordingSecond \/ StatisticsSecond
  BY <1>0, <1>5
     DEF ConverterOwnsContext, DeliverStatistics, DeliverDuration, RecordingSecond,
         StatisticsSecond, pictureVars
<1>6. CASE UNCHANGED vars
  BY <1>0, <1>6 DEF ConverterOwnsContext, vars
<1> QED
  BY <1>1, <1>3, <1>4, <1>5, <1>6 DEF Next

LEMMA DrainedStep == ASSUME IInv, [Next]_vars PROVE DrainedInv'
<1>0. TypeOK /\ DrainedInv
  BY DEF IInv
<1>1. CASE OpenDecoder \/ Cleanup
  BY <1>1 DEF DrainedInv, OpenDecoder, Cleanup
<1>2. CASE SendPacket \/ ReceiveFrame \/ EndReceive \/ FailReceive
  BY <1>2
     DEF DrainedInv, SendPacket, ReceiveFrame, EndReceive, FailReceive, decoderVars
<1>3. CASE EnsureContext \/ ScaleFrame \/ CountFrame
  BY <1>3 DEF DrainedInv, EnsureContext, ScaleFrame, CountFrame, NextFrame
<1>4. CASE BeginAttempt \/ FailAttempt \/ Connect \/ ProcessCommands \/ LeaveLoop
           \/ SkipPacket \/ ReadPacket \/ DropPacket \/ PublishDuration \/ EndLoop
  BY <1>0, <1>4
     DEF DrainedInv, BeginAttempt, FailAttempt, Connect, ProcessCommands, LeaveLoop,
         SkipPacket, ReadPacket, DropPacket, PublishDuration, EndLoop, decoderVars
<1>5. CASE DeliverStatistics \/ DeliverDuration \/ RecordingSecond \/ StatisticsSecond
  BY <1>0, <1>5
     DEF DrainedInv, DeliverStatistics, DeliverDuration, RecordingSecond,
         StatisticsSecond, decoderVars
<1>6. CASE UNCHANGED vars
  BY <1>0, <1>6 DEF DrainedInv, vars
<1> QED
  BY <1>1, <1>2, <1>3, <1>4, <1>5, <1>6 DEF Next

LEMMA Invariance == Spec => []IInv
<1>1. IInv /\ [Next]_vars => IInv'
  BY TypeStep, CountedStep, ToldStep, PublishedStep, FrameStep, ConverterStep,
     DrainedStep
     DEF IInv
<1> QED
  BY InitIInv, <1>1, PTL DEF Spec

-----------------------------------------------------------------------------
(* The theorems.                                                           *)

\* Every variable keeps its type: no attempt counts more packets than it read.
THEOREM TypeCorrect == Spec => []TypeOK
<1>1. IInv => TypeOK
  BY DEF IInv
<1> QED
  BY Invariance, <1>1, PTL

\* Between attempts the view has, or is about to have, the exact statistics of
\* the last attempt that opened a decoder.
THEOREM StatisticsReachView == Spec => []StatisticsComplete
<1>1. IInv => StatisticsComplete
  BY DEF IInv, ToldInv, StatisticsComplete
<1> QED
  BY Invariance, <1>1, PTL

\* The converter's pointer is null or its only context, none is leaked or used after
\* it was freed, and sws_scale is given one made for the frame at hand.
THEOREM ContextsOwned == Spec => []ConverterOwnsContext
<1>1. IInv => ConverterOwnsContext
  BY DEF IInv
<1> QED
  BY Invariance, <1>1, PTL

\* Without a failure to take a frame, the decoder is drained before each packet.
THEOREM DecoderDrained == Spec => []DecoderKeepsUp
<1>1. IInv => DecoderKeepsUp
  BY DEF IInv, TypeOK, DrainedInv, DecoderKeepsUp
<1> QED
  BY Invariance, <1>1, PTL

\* The length of the recording is told whenever it differs from what the view
\* has, and zero at the end of the attempt.
THEOREM LengthReachesView == Spec => DurationTold
<1> DEFINE Step ==
      /\ pc = "publish" /\ pc' = "head" /\ recorder = "Recording" =>
           Newest(durationQueue', viewDuration') = seconds
      /\ pc = "cleanup" /\ pc' = "none" =>
           Newest(durationQueue', viewDuration') = 0
<1>1. ASSUME IInv, [Next]_vars PROVE [Step]_vars
  <2>1. PublishedInv'
    BY <1>1, PublishedStep
  <2>2. CASE PublishDuration
    BY <2>1, <2>2 DEF PublishDuration, PublishedInv
  <2>3. CASE Cleanup
    BY <2>1, <2>3 DEF Cleanup, DurationReset, PublishedInv
  <2>4. CASE UNCHANGED vars
    BY <2>4
  <2>5. CASE Next /\ ~PublishDuration /\ ~Cleanup
    <3>1. pc \in {"publish", "cleanup"} => pc' = pc
      BY <2>5
         DEF Next, BeginAttempt, OpenDecoder, FailAttempt, Connect, ProcessCommands,
             LeaveLoop, SkipPacket, ReadPacket, SendPacket, DropPacket, ReceiveFrame,
             EndReceive, FailReceive, EnsureContext, ScaleFrame, CountFrame, EndLoop,
             DeliverStatistics, DeliverDuration, RecordingSecond, StatisticsSecond
    <3> QED
      BY <3>1
  <2> QED
    BY <1>1, <2>2, <2>3, <2>4, <2>5
<1> QED
  BY Invariance, <1>1, PTL DEF Spec, DurationTold
=============================================================================
