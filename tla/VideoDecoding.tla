------------------------------ MODULE VideoDecoding ------------------------------
(***************************************************************************)
(* What one FFmpegStreamingService does with the packets of a camera, from *)
(* one connection attempt to the next: it feeds the recorder and the       *)
(* decoder, converts the frames that come out, and tells the session its   *)
(* statistics and the length of the recording.                             *)
(*                                                                         *)
(* When attempts are made is the subject of StreamingSession, what the     *)
(* recorder writes that of Recording. Here an attempt may begin when the   *)
(* last one is over, a stop may be seen wherever the code looks for one,   *)
(* and the recorder is its state and its timer. The decoder is external:   *)
(* the number of frames it has ready and no one has taken. A frame is its  *)
(* format: its size and its pixel format. The scaler is external too: it   *)
(* keeps a context, frees it and makes another, or fails to. Where images  *)
(* go is the subject of StreamingSession.                                  *)
(***************************************************************************)
EXTENDS Integers, Sequences

CONSTANTS
  Format,       \* the formats of decoded frames
  NoFormat,     \* no frame, an address where no context is
  Context,      \* the addresses of SwsContexts
  NoContext,    \* the null pointer
  MaxAttempts,  \* bound: connection attempts
  MaxPackets,   \* bound: video packets in one attempt
  MaxReady,     \* bound: frames that the decoder has ready
  MaxSeconds,   \* bound: the length of a recording
  MaxEvents     \* bound: signals of a kind waiting in the GUI thread's queue

ASSUME DecodingAssumption ==
  /\ NoFormat \notin Format /\ NoContext \notin Context
  /\ MaxAttempts \in Nat /\ MaxPackets \in Nat /\ MaxReady \in Nat
  /\ MaxSeconds \in Nat /\ MaxEvents \in Nat

\* StreamStatistics: the attempt whose codec, resolution, frame rate and bit
\* rate it holds (0: of none), and its two counters.
StreamStatistics ==
  [stream : 0 .. MaxAttempts, packetsReceived : 0 .. MaxPackets, framesDecoded : Nat]

NoStatistics == [stream |-> 0, packetsReceived |-> 0, framesDecoded |-> 0]

\* The length of a recording.
Seconds == 0 .. MaxSeconds

RecordingState == {"Stopped", "Starting", "Recording", "Error"}

VARIABLES
  pc,             \* the place in stream(): see Pc
  attempt,        \* the number of attempts begun
  statistics,     \* m_statistics
  due,            \* m_statisticsTimer has run for a second
  recorder,       \* the recorder's state
  seconds,        \* of m_recordingTimer
  lastPublished,  \* m_lastPublishedDuration
  ready,          \* the decoder: frames not taken yet
  frame,          \* m_frame
  context,        \* FFmpegFrameConverter::m_swsContext
  made,           \* the scaler: the format each allocated context is made for
  statsQueue,     \* statisticsUpdated signals on their way
  sessionStats,   \* StreamingSession::m_statistics
  durationQueue,  \* recordingDurationChanged signals on their way
  viewDuration,   \* CameraStreamViewModel::m_recordingDuration
  seen,           \* history: what the last opened decoder got and gave
  receiveFailed   \* history: taking a frame from it failed

\* Between attempts; opening the input and the decoder; the packet and the frame
\* to be allocated; the head of the loop; reading; sending; receiving; converting,
\* scaling and counting a frame; the end of a round; after the loop; cleanup().
Pc == {"none", "open", "init", "head", "read", "send", "receive", "convert",
       "scale", "count", "publish", "final", "cleanup"}

recorderVars == <<recorder, seconds>>
decoderVars == <<ready, receiveFailed>>
converterVars == <<context, made>>
pictureVars == <<frame, context, made>>
statsVars == <<statistics, due, seen>>
statsUi == <<statsQueue, sessionStats>>
durationUi == <<durationQueue, viewDuration>>
vars == <<pc, attempt, statistics, due, recorder, seconds, lastPublished, ready,
          frame, context, made, statsQueue, sessionStats, durationQueue,
          viewDuration, seen, receiveFailed>>

Init ==
  /\ pc = "none"
  /\ attempt = 0
  /\ statistics = NoStatistics
  /\ due = FALSE
  /\ recorder = "Stopped"
  /\ seconds = 0
  /\ lastPublished = 0
  /\ ready = 0
  /\ frame = NoFormat
  /\ context = NoContext
  /\ made = [c \in Context |-> NoFormat]
  /\ statsQueue = <<>>
  /\ sessionStats = NoStatistics
  /\ durationQueue = <<>>
  /\ viewDuration = 0
  /\ seen = NoStatistics
  /\ receiveFailed = FALSE

-----------------------------------------------------------------------------
(* Signals to the GUI thread.                                              *)

TellStatistics(s) ==
  /\ Len(statsQueue) < MaxEvents
  /\ statsQueue' = Append(statsQueue, s)
  /\ UNCHANGED sessionStats

TellDuration(length) ==
  /\ Len(durationQueue) < MaxEvents
  /\ durationQueue' = Append(durationQueue, length)
  /\ UNCHANGED viewDuration

-----------------------------------------------------------------------------
(* The attempt.                                                            *)

StatisticsKept == [statistics EXCEPT !.stream = 0]  \* mutant: the counters go on

\* m_statistics = {}.
StatisticsReset == NoStatistics

BeginAttempt ==
  /\ pc = "none"
  /\ attempt < MaxAttempts
  /\ attempt' = attempt + 1
  /\ statistics' = StatisticsReset
  /\ due' = FALSE
  /\ pc' = "open"
  /\ UNCHANGED <<recorderVars, lastPublished, decoderVars, pictureVars, statsUi,
                 durationUi, seen>>

\* initializeDecoder succeeds, which ends in the first statistics.
OpenDecoder ==
  /\ pc = "open"
  /\ statistics' = [statistics EXCEPT !.stream = attempt]
  /\ seen' = [NoStatistics EXCEPT !.stream = attempt]
  /\ ready' = 0
  /\ receiveFailed' = FALSE
  /\ TellStatistics(statistics')
  /\ pc' = "init"
  /\ UNCHANGED <<attempt, due, recorderVars, lastPublished, pictureVars, durationUi>>

\* A part of initializeEverything fails or is interrupted, or the token is
\* stopped before connected(): the attempt ends without the packet loop.
FailAttempt ==
  /\ pc \in {"open", "init"}
  /\ pc' = "cleanup"
  /\ UNCHANGED <<attempt, statsVars, recorderVars, lastPublished, decoderVars,
                 pictureVars, statsUi, durationUi>>

Connect ==
  /\ pc = "init"
  /\ pc' = "head"
  /\ UNCHANGED <<attempt, statsVars, recorderVars, lastPublished, decoderVars,
                 pictureVars, statsUi, durationUi>>

\* What the pending commands may make of the recorder.
Commanded ==
  {recorder} \cup (IF recorder = "Stopped" THEN {"Starting"} ELSE {})
             \cup (IF recorder \in {"Starting", "Recording"} THEN {"Stopped"} ELSE {})

ProcessCommands ==
  /\ pc = "head"
  /\ recorder' \in Commanded
  /\ seconds' = IF recorder' = "Recording" THEN seconds ELSE 0
  /\ pc' = "read"
  /\ UNCHANGED <<attempt, statsVars, lastPublished, decoderVars, pictureVars,
                 statsUi, durationUi>>

\* The token is stopped at the head of the loop, or av_read_frame ends it.
LeaveLoop ==
  /\ pc \in {"head", "read"}
  /\ pc' = "final"
  /\ UNCHANGED <<attempt, statsVars, recorderVars, lastPublished, decoderVars,
                 pictureVars, statsUi, durationUi>>

\* A packet of another stream.
SkipPacket ==
  /\ pc = "read"
  /\ pc' = "publish"
  /\ UNCHANGED <<attempt, statsVars, recorderVars, lastPublished, decoderVars,
                 pictureVars, statsUi, durationUi>>

\* What handleVideoPacket may make of the recorder: it opens its file with a
\* keyframe, which starts the timer, and any call of it may fail.
Handled ==
  {recorder} \cup (IF recorder = "Starting" THEN {"Recording"} ELSE {})
             \cup (IF recorder \in {"Starting", "Recording"} THEN {"Error"} ELSE {})

\* A video packet is counted and recorded before it is decoded.
ReadPacket ==
  /\ pc = "read"
  /\ seen.packetsReceived < MaxPackets
  /\ statistics' = [statistics EXCEPT !.packetsReceived = @ + 1]
  /\ seen' = [seen EXCEPT !.packetsReceived = @ + 1]
  /\ recorder' \in Handled
  /\ seconds' = IF recorder' = recorder THEN seconds ELSE 0
  /\ pc' = "send"
  /\ UNCHANGED <<attempt, due, lastPublished, decoderVars, pictureVars, statsUi,
                 durationUi>>

-----------------------------------------------------------------------------
(* Decoding and converting.                                                *)

\* The decoder takes the packet. It may have more frames ready for it.
SendPacket ==
  /\ pc = "send"
  /\ ready' \in ready .. MaxReady
  /\ pc' = "receive"
  /\ UNCHANGED <<attempt, statsVars, recorderVars, lastPublished, receiveFailed,
                 pictureVars, statsUi, durationUi>>

\* It may refuse one (EAGAIN) as long as it has frames that were not taken, and
\* any that it cannot parse. Either way the packet is gone, and no frame is taken.
DropPacket ==
  /\ pc = "send"
  /\ pc' = "publish"
  /\ UNCHANGED <<attempt, statsVars, recorderVars, lastPublished, decoderVars,
                 pictureVars, statsUi, durationUi>>

ReceiveFrame ==
  /\ pc = "receive"
  /\ ready > 0
  /\ ready' = ready - 1
  /\ frame' \in Format
  /\ pc' = "convert"
  /\ UNCHANGED <<attempt, statsVars, recorderVars, lastPublished, receiveFailed,
                 converterVars, statsUi, durationUi>>

\* EAGAIN: every frame was taken.
EndReceive ==
  /\ pc = "receive"
  /\ ready = 0
  /\ pc' = "publish"
  /\ UNCHANGED <<attempt, statsVars, recorderVars, lastPublished, decoderVars,
                 pictureVars, statsUi, durationUi>>

\* Any other error ends the loop over the frames, whatever is left of them.
FailReceive ==
  /\ pc = "receive"
  /\ receiveFailed' = TRUE
  /\ pc' = "publish"
  /\ UNCHANGED <<attempt, statsVars, recorderVars, lastPublished, ready,
                 pictureVars, statsUi, durationUi>>

\* mutant: a context is asked for only while there is none
ContextOnce(format) ==
  IF context # NoContext THEN {[pointer |-> context, made |-> made]}
  ELSE {[pointer |-> c, made |-> [made EXCEPT ![c] = format]] : c \in Context}

\* sws_getCachedContext: a context made for the format is kept; any other is freed,
\* and one made at an address that is free, or the null pointer returned.
CachedContext(format) ==
  IF context # NoContext /\ made[context] = format
  THEN {[pointer |-> context, made |-> made]}
  ELSE LET left == [c \in Context |-> IF c = context THEN NoFormat ELSE made[c]]
       IN  {[pointer |-> NoContext, made |-> left]} \cup
           {[pointer |-> c, made |-> [left EXCEPT ![c] = format]] :
              c \in {d \in Context : left[d] = NoFormat}}

\* mutant: m_swsContext is set only to a context
AssignedUnlessNull(pointer) == IF pointer = NoContext THEN context ELSE pointer

\* m_swsContext is what is returned, whatever it is.
Assigned(pointer) == pointer

\* Without a context there is no image.
EnsureContext ==
  /\ pc = "convert"
  /\ \E result \in CachedContext(frame) :
       context' = Assigned(result.pointer) /\ made' = result.made
  /\ pc' = IF context' = NoContext THEN "count" ELSE "scale"
  /\ UNCHANGED <<attempt, statsVars, recorderVars, lastPublished, decoderVars, frame,
                 statsUi, durationUi>>

\* The image is allocated, and sws_scale fills and convert() emits it; or either
\* fails and the frame is shown by none.
ScaleFrame ==
  /\ pc = "scale"
  /\ pc' = "count"
  /\ UNCHANGED <<attempt, statsVars, recorderVars, lastPublished, decoderVars,
                 pictureVars, statsUi, durationUi>>

OneFrame == "publish"  \* mutant: one frame for each packet

\* av_frame_unref, and the next frame.
NextFrame == "receive"

\* A frame is counted whether it was converted or not; the statistics are
\* told at most once a second.
CountFrame ==
  /\ pc = "count"
  /\ statistics' = [statistics EXCEPT !.framesDecoded = @ + 1]
  /\ seen' = [seen EXCEPT !.framesDecoded = @ + 1]
  /\ \/ due /\ TellStatistics(statistics')
     \/ ~due /\ UNCHANGED statsUi
  /\ due' = FALSE
  /\ frame' = NoFormat
  /\ pc' = NextFrame
  /\ UNCHANGED <<attempt, recorderVars, lastPublished, decoderVars, converterVars,
                 durationUi>>

-----------------------------------------------------------------------------
(* The end of a round and of the attempt.                                  *)

\* publishRecordingDurationIfNeeded.
PublishDuration ==
  /\ pc = "publish"
  /\ IF recorder = "Recording" /\ seconds # lastPublished
     THEN lastPublished' = seconds /\ TellDuration(seconds)
     ELSE UNCHANGED <<lastPublished, durationUi>>
  /\ pc' = "head"
  /\ UNCHANGED <<attempt, statsVars, recorderVars, decoderVars, pictureVars, statsUi>>

ToldLast == UNCHANGED statsUi  \* mutant: nothing is told after the loop

TellLast == TellStatistics(statistics)

EndLoop ==
  /\ pc = "final"
  /\ TellLast
  /\ pc' = "cleanup"
  /\ UNCHANGED <<attempt, statsVars, recorderVars, lastPublished, decoderVars,
                 pictureVars, durationUi>>

DurationKept == lastPublished  \* mutant: m_lastPublishedDuration is not reset

\* m_lastPublishedDuration = 0.
DurationReset == 0

\* cleanup(): the recorder stops, unless it failed; packet, frame, decoder and
\* input are freed. The converter keeps its context.
Cleanup ==
  /\ pc = "cleanup"
  /\ recorder' = IF recorder = "Error" THEN "Error" ELSE "Stopped"
  /\ seconds' = 0
  /\ lastPublished' = DurationReset
  /\ TellDuration(0)
  /\ frame' = NoFormat
  /\ ready' = 0
  /\ pc' = "none"
  /\ UNCHANGED <<attempt, statsVars, receiveFailed, converterVars, statsUi>>

-----------------------------------------------------------------------------
(* The GUI thread, and time.                                               *)

\* StreamingSession::onStatisticsUpdated; the view reads the session's copy.
DeliverStatistics ==
  /\ statsQueue # <<>>
  /\ sessionStats' = Head(statsQueue)
  /\ statsQueue' = Tail(statsQueue)
  /\ UNCHANGED <<pc, attempt, statsVars, recorderVars, lastPublished, decoderVars,
                 pictureVars, durationUi>>

\* CameraStreamViewModel::onRecordingDurationChanged.
DeliverDuration ==
  /\ durationQueue # <<>>
  /\ viewDuration' = Head(durationQueue)
  /\ durationQueue' = Tail(durationQueue)
  /\ UNCHANGED <<pc, attempt, statsVars, recorderVars, lastPublished, decoderVars,
                 pictureVars, statsUi>>

\* m_recordingTimer and m_statisticsTimer complete their seconds separately.
RecordingSecond ==
  /\ recorder = "Recording"
  /\ seconds < MaxSeconds
  /\ seconds' = seconds + 1
  /\ UNCHANGED <<pc, attempt, statsVars, recorder, lastPublished, decoderVars,
                 pictureVars, statsUi, durationUi>>

StatisticsSecond ==
  /\ ~due
  /\ due' = TRUE
  /\ UNCHANGED <<pc, attempt, statistics, seen, recorderVars, lastPublished,
                 decoderVars, pictureVars, statsUi, durationUi>>

Next ==
  \/ BeginAttempt \/ OpenDecoder \/ FailAttempt \/ Connect
  \/ ProcessCommands \/ LeaveLoop \/ SkipPacket \/ ReadPacket
  \/ SendPacket \/ DropPacket
  \/ ReceiveFrame \/ EndReceive \/ FailReceive
  \/ EnsureContext \/ ScaleFrame \/ CountFrame
  \/ PublishDuration \/ EndLoop \/ Cleanup
  \/ DeliverStatistics \/ DeliverDuration
  \/ RecordingSecond \/ StatisticsSecond

Spec == Init /\ [][Next]_vars

-----------------------------------------------------------------------------
(* Properties.                                                             *)

TypeOK ==
  /\ pc \in Pc
  /\ attempt \in 0 .. MaxAttempts
  /\ statistics \in StreamStatistics /\ seen \in StreamStatistics
  /\ due \in BOOLEAN
  /\ recorder \in RecordingState
  /\ seconds \in Seconds /\ lastPublished \in Seconds
  /\ ready \in 0 .. MaxReady
  /\ frame \in Format \cup {NoFormat}
  /\ context \in Context \cup {NoContext}
  /\ made \in [Context -> Format \cup {NoFormat}]
  /\ statsQueue \in Seq(StreamStatistics) /\ sessionStats \in StreamStatistics
  /\ durationQueue \in Seq(Seconds) /\ viewDuration \in Seconds
  /\ receiveFailed \in BOOLEAN

\* What the GUI thread has, or will have once it has handled its signals.
Newest(queue, copy) == IF queue = <<>> THEN copy ELSE queue[Len(queue)]

\* Between attempts the statistics that reach the view are exactly those of the
\* last attempt that opened a decoder: every packet and frame of it counted,
\* and none of an earlier one, whichever way the attempt ended.
StatisticsComplete ==
  pc = "none" => Newest(statsQueue, sessionStats) = seen

\* At the end of each round the view is told the length of the recording, and
\* at the end of an attempt that there is none: what was published in an
\* earlier recording or attempt never hides a length that is due.
DurationTold ==
  [][/\ pc = "publish" /\ pc' = "head" /\ recorder = "Recording" =>
          Newest(durationQueue', viewDuration') = seconds
     /\ pc = "cleanup" /\ pc' = "none" =>
          Newest(durationQueue', viewDuration') = 0]_vars

\* The converter owns every context there is, through formats that change within
\* an attempt and between two, and through contexts that cannot be made: none is
\* leaked, and m_swsContext is null or not freed. sws_scale is only called with
\* one made for the frame at hand, whose rows and image it may then touch.
ConverterOwnsContext ==
  /\ {c \in Context : made[c] # NoFormat} = {context} \ {NoContext}
  /\ pc = "scale" => context # NoContext /\ made[context] = frame

\* The decoder is only ever sent a packet with frames left in it, and may then
\* refuse it, after taking a frame has failed in the same attempt.
DecoderKeepsUp == pc = "send" /\ ready > 0 => receiveFailed

=============================================================================
