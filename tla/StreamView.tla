------------------------------ MODULE StreamView ------------------------------
(***************************************************************************)
(* What a streaming session promises those who watch it on the GUI thread, *)
(* without its worker, calls, signals, attempts and retries: which run is  *)
(* wanted, the newest picture the camera gave, and what the view says and  *)
(* shows. Module StreamingSession implements it.                           *)
(***************************************************************************)
EXTENDS Integers

CONSTANTS MaxRunId, MaxFrames

VARIABLES
  life,          \* "alive", "destroying", "gone"
  streamRunId,   \* the newest run asked for
  stopped,       \* the runs that are not wanted any more
  sessionState,  \* what the view says of the connection
  vmFrame,       \* the picture it shows
  snapshot       \* the newest picture there is

vars == <<life, streamRunId, stopped, sessionState, vmFrame, snapshot>>

NoFrame == [run |-> 0, revision |-> 0]

Init ==
  /\ life = "alive"
  /\ streamRunId = 0
  /\ stopped = {}
  /\ sessionState = "Disconnected"
  /\ vmFrame = NoFrame
  /\ snapshot = NoFrame

Wanted == streamRunId > 0 /\ streamRunId \notin stopped

\* The connection states as the session goes through them. The diagram of
\* docs/streaming-pipeline.md draws all but Connecting to Disconnected and
\* Error to Connecting.
Transition ==
  {<<"Disconnected", "Connecting">>,
   <<"Connecting", "Connected">>, <<"Connecting", "Reconnecting">>,
   <<"Connecting", "Disconnected">>,
   <<"Connected", "Reconnecting">>, <<"Connected", "Disconnected">>,
   <<"Reconnecting", "Connected">>, <<"Reconnecting", "Error">>,
   <<"Reconnecting", "Disconnected">>,
   <<"Error", "Connecting">>, <<"Error", "Disconnected">>}

Streaming == {"Connected", "Reconnecting", "Error"}

-----------------------------------------------------------------------------
(* The user.                                                               *)

Start ==
  /\ life = "alive"
  /\ streamRunId < MaxRunId
  /\ streamRunId' = streamRunId + 1
  /\ stopped' = stopped \cup {streamRunId}
  /\ UNCHANGED <<life, sessionState, vmFrame, snapshot>>

Stop ==
  /\ life = "alive"
  /\ stopped' = stopped \cup {streamRunId}
  /\ UNCHANGED <<life, streamRunId, sessionState, vmFrame, snapshot>>

BeginDestroy ==
  /\ life = "alive"
  /\ life' = "destroying"
  /\ stopped' = stopped \cup {streamRunId}
  /\ UNCHANGED <<streamRunId, sessionState, vmFrame, snapshot>>

(* The session.                                                            *)

\* The camera gives a picture: of a run that was asked for, and never of an
\* older one than the picture before.
Produce(run) ==
  /\ run \in 1 .. streamRunId
  /\ snapshot.run <= run
  /\ snapshot.revision < MaxFrames
  /\ snapshot' = [run |-> run, revision |-> snapshot.revision + 1]
  /\ UNCHANGED <<life, streamRunId, stopped, sessionState, vmFrame>>

\* The view says something else; outside a stream it shows no picture.
Say(state) ==
  /\ life = "alive"
  /\ <<sessionState, state>> \in Transition
  /\ sessionState' = state
  /\ vmFrame' = IF state \in Streaming THEN vmFrame ELSE NoFrame
  /\ UNCHANGED <<life, streamRunId, stopped, snapshot>>

\* The view shows the newest picture, if it is of the run that is wanted.
Show ==
  /\ life = "alive"
  /\ Wanted
  /\ snapshot.run = streamRunId
  /\ sessionState \in Streaming
  /\ vmFrame' = snapshot
  /\ UNCHANGED <<life, streamRunId, stopped, sessionState, snapshot>>

EndDestroy ==
  /\ life = "destroying"
  /\ life' = "gone"
  /\ sessionState' = "Disconnected"
  /\ vmFrame' = NoFrame
  /\ UNCHANGED <<streamRunId, stopped, snapshot>>

Next ==
  \/ Start \/ Stop \/ BeginDestroy
  \/ \E run \in 1 .. MaxRunId : Produce(run)
  \/ \E state \in {"Disconnected", "Connecting", "Connected", "Reconnecting", "Error"} :
       Say(state)
  \/ Show
  \/ EndDestroy

Spec == Init /\ [][Next]_vars

\* A view that claims a stream nobody wants any more gives it up.
Settle ==
  /\ ~Wanted
  /\ sessionState \in {"Connecting", "Connected", "Reconnecting"}
  /\ Say("Disconnected")

\* The newest picture of the wanted run is shown, a stream that is not wanted
\* is given up, and the destruction of the session ends.
Fairness == WF_vars(Show) /\ WF_vars(Settle) /\ WF_vars(EndDestroy)

FairSpec == Spec /\ Fairness

=============================================================================
