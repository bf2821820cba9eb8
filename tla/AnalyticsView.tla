----------------------------- MODULE AnalyticsView -----------------------------
(***************************************************************************)
(* What an analytics session promises its owner, without its thread,       *)
(* mailboxes, flags and closures: which frames of the current activation   *)
(* may still give a result, which activations have failed and not been     *)
(* told of, and what the owner has been given. Module AnalyticsSession     *)
(* implements it.                                                          *)
(***************************************************************************)
EXTENDS Integers, Sequences

CONSTANTS MaxGeneration, MaxRevision

VARIABLES
  life,        \* "alive", "destroying", "gone"
  enabled,
  generation,  \* the newest activation
  view,        \* what an observer of enabledChanged last read
  revision,    \* frames accepted so far
  working,     \* the accepted frames that may give a result
  failing,     \* the failed activations whose error is still to be told
  taken,       \* the frames whose results were given out
  errors       \* the activations whose errors were told

vars == <<life, enabled, generation, view, revision, working, failing, taken, errors>>

Init ==
  /\ life = "alive"
  /\ enabled = FALSE
  /\ generation = 0
  /\ view = FALSE
  /\ revision = 0
  /\ working = {}
  /\ failing = {}
  /\ taken = <<>>
  /\ errors = <<>>

-----------------------------------------------------------------------------
(* The owner.                                                              *)

\* A new activation begins with nothing in work, whatever went before.
Enable ==
  /\ life = "alive"
  /\ generation < MaxGeneration
  /\ generation' = generation + 1
  /\ enabled' = TRUE
  /\ working' = {}
  /\ UNCHANGED <<life, view, revision, failing, taken, errors>>

Disable ==
  /\ life = "alive"
  /\ enabled' = FALSE
  /\ working' = {}
  /\ UNCHANGED <<life, generation, view, revision, failing, taken, errors>>

\* The new frame may take the place of one that is waiting.
SubmitFrame ==
  /\ life = "alive"
  /\ enabled
  /\ revision < MaxRevision
  /\ revision' = revision + 1
  /\ \E replaced \in SUBSET working :
       /\ \A r, s \in replaced : r = s
       /\ working' = (working \ replaced) \cup {revision + 1}
  /\ UNCHANGED <<life, enabled, generation, view, failing, taken, errors>>

\* The oldest frame in work is the one whose result is given out.
TakeResult ==
  /\ life = "alive"
  /\ enabled
  /\ \E r \in working :
       /\ \A s \in working : r <= s
       /\ taken' = Append(taken, r)
       /\ working' = working \ {r}
  /\ UNCHANGED <<life, enabled, generation, view, revision, failing, errors>>

BeginDestroy ==
  /\ life = "alive"
  /\ life' = "destroying"
  /\ UNCHANGED <<enabled, generation, view, revision, working, failing, taken, errors>>

(* The session.                                                            *)

\* A frame gives no result only because a newer one does, or at the end.
Skip ==
  /\ \E r \in working :
       /\ life = "alive" => \E s \in working : s > r
       /\ working' = working \ {r}
  /\ UNCHANGED <<life, enabled, generation, view, revision, failing, taken, errors>>

\* A frame in work fails, and the activation with it.
Fail ==
  /\ life # "gone"
  /\ enabled
  /\ working # {}
  /\ enabled' = FALSE
  /\ working' = {}
  /\ failing' = failing \cup {generation}
  /\ UNCHANGED <<life, generation, view, revision, taken, errors>>

\* The observers of enabledChanged are told.
Tell ==
  /\ life = "alive"
  /\ view' = enabled
  /\ UNCHANGED <<life, enabled, generation, revision, working, failing, taken, errors>>

\* The owner is told the error of the activation that is over by it.
ReportError ==
  /\ life = "alive"
  /\ ~enabled
  /\ generation \in failing
  /\ errors' = Append(errors, generation)
  /\ failing' = failing \ {generation}
  /\ UNCHANGED <<life, enabled, generation, view, revision, working, taken>>

\* An error nobody is told of is of an activation that has been replaced.
ForgetError ==
  /\ life = "alive"
  /\ \E g \in failing : g < generation /\ failing' = failing \ {g}
  /\ UNCHANGED <<life, enabled, generation, view, revision, working, taken, errors>>

EndDestroy ==
  /\ life = "destroying"
  /\ life' = "gone"
  /\ failing' = {}
  /\ UNCHANGED <<enabled, generation, view, revision, working, taken, errors>>

Next ==
  \/ Enable \/ Disable \/ SubmitFrame \/ TakeResult \/ BeginDestroy
  \/ Skip \/ Fail \/ Tell \/ ReportError \/ ForgetError \/ EndDestroy

Spec == Init /\ [][Next]_vars

\* A frame in work gives its result or gives way, a failed activation is told
\* of or forgotten, and who is wrong about isEnabled() is told.
Progress ==
  /\ \A r \in 1 .. MaxRevision : r \in working ~> (r \notin working \/ life # "alive")
  /\ \A g \in 1 .. MaxGeneration : g \in failing ~> g \notin failing
  /\ view # enabled ~> (view = enabled \/ life # "alive")

FairSpec == Spec /\ Progress

=============================================================================
