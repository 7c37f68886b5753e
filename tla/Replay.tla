-------------------------------- MODULE Replay ---------------------------------
(***************************************************************************)
(* The inspector's "Replay to listeners" (internal/inspector), towards the *)
(* connected SSE subscribers.  It adds a history variable to Forward: what *)
(* each connection is owed by a replay and has not been written yet.       *)
(***************************************************************************)
EXTENDS Forward, SequencesExt

VARIABLE owed   \* history: channel -> the event replayed while it was connected

replayVars == <<vars, owed>>

\* Get finds the row, and its sequence is published again.
ReplayEvent(e) ==
  /\ e \in events
  /\ Publish(e.source)
  /\ owed' = [c \in Channels |-> IF c \in registered[e.source] /\ conn[c].up THEN e ELSE owed[c]]
  /\ UNCHANGED <<storeVars, now, req, streamVars, forwardVars>>

Written(c, e) == Len(wire'[c]) > Len(wire[c]) /\ Last(wire'[c]) = e

\* Any other step: what is written, or owed to a connection that is gone, is
\* not owed any more.
OtherStep ==
  /\ ForwardNext
  /\ owed' = [c \in Channels |->
                IF ~conn'[c].up \/ Written(c, owed[c]) THEN None ELSE owed[c]]

ReplayInit == ForwardInit /\ owed = [c \in Channels |-> None]

ReplayNext == OtherStep \/ \E e \in events : ReplayEvent(e)

FairReplaySpec ==
  /\ ReplayInit /\ [][ReplayNext]_replayVars
  /\ \A c \in Channels : WF_replayVars(OtherStep /\ HandlerStep(c) /\ UNCHANGED forwardVars)

\* dev-inspector spec: "WHEN an admin clicks "Replay to listeners" on event
\* (render, 17) and a subscriber is connected [...] THEN the subscriber receives
\* sequence 17 again on its stream".  The handler wakes and reads above its
\* cursor (handler.go:229-231), where the event is not.
ReplayReachesSubscriber ==
  \A c \in Channels : owed[c] # None ~> owed[c] = None
=============================================================================
