------------------------------- MODULE Notifier -------------------------------
(***************************************************************************)
(* The in-process fan-out of internal/pubsub/notifier.go: one channel of   *)
(* capacity 1 per subscriber.  Both consumers discard the sequence that    *)
(* travels in the channel, so a channel is just full or empty.             *)
(*                                                                         *)
(* Every method runs under one mutex and is one atomic step.               *)
(***************************************************************************)
CONSTANTS
  Channels,    \* channels that Subscribe may hand out
  Topics       \* the notifier's keys, i.e. the configured sources

VARIABLES
  registered,  \* Notifier.subs: source -> its registered channels
  signal       \* channel -> TRUE iff its one-slot buffer is full

Subscribe(s, c) ==
  /\ registered' = [registered EXCEPT ![s] = @ \cup {c}]
  /\ signal' = [signal EXCEPT ![c] = FALSE]

\* Mutant of Unsubscribe: deletes the source's whole entry of the map.
UnsubscribeAll(s, c) ==
  /\ registered' = [registered EXCEPT ![s] = {}]
  /\ signal' = [signal EXCEPT ![c] = FALSE]

Unsubscribe(s, c) ==
  /\ registered' = [registered EXCEPT ![s] = @ \ {c}]
  /\ signal' = [signal EXCEPT ![c] = FALSE]

\* A send that finds the buffer full is dropped: the buffer stays full.
Publish(s) ==
  /\ signal' = [c \in Channels |-> signal[c] \/ c \in registered[s]]
  /\ UNCHANGED registered

\* The receiving side of a select on the channel.
TakeSignal(c) ==
  /\ signal[c]
  /\ signal' = [signal EXCEPT ![c] = FALSE]
  /\ UNCHANGED registered

NotifierInit ==
  /\ registered = [s \in Topics |-> {}]
  /\ signal = [c \in Channels |-> FALSE]

NotifierTypeOK ==
  /\ registered \in [Topics -> SUBSET Channels]
  /\ signal \in [Channels -> BOOLEAN]
=============================================================================
