-------------------------------- MODULE Ingest --------------------------------
(***************************************************************************)
(* Everything that writes or prunes the event log, and that wakes readers: *)
(* the webhook handler of internal/ingest, the pruner of internal/prune,   *)
(* the `hooks prune` command and the inspector's "Replay to listeners".    *)
(*                                                                         *)
(* A request takes three steps before it is acknowledged: the verifier     *)
(* compares the provider's timestamp with the clock, Append reads the      *)
(* clock for received_at, and only then does its transaction run.  The     *)
(* notification is sent by a goroutine started after the commit, so it is  *)
(* a fourth step, arbitrarily late.                                        *)
(***************************************************************************)
EXTENDS EventStore

CONSTANTS
  Requests,     \* concurrent ingest requests, publishing goroutine included
  Channels,     \* notifier channels of the consumers (see Notifier)
  Skew,         \* the verifier's effective skew window
  Retention,    \* source -> retention; 0 disables the pruner for the source
  ManualAges,   \* ages an operator gives to `hooks prune --older-than`
  MaxTime       \* bound on the clock

ASSUME IngestAssumption ==
  /\ Skew \in Nat
  /\ Retention \in [Sources -> Nat]
  /\ ManualAges \subseteq Nat
  /\ MaxTime \in Nat

VARIABLES
  now,          \* wall clock
  req,          \* request -> where its goroutine is
  registered, signal

INSTANCE Notifier WITH Topics <- Sources

notifierVars == <<registered, signal>>

ingestVars == <<events, accepted, newestPruned, now, req, registered, signal>>

Idle == [pc |-> "idle"]
Verified == [pc : {"verified"}, source : Sources, deliveryId : DeliveryIds,
             providerTimestamp : Nat]
Stamped == [pc : {"stamped"}, source : Sources, deliveryId : DeliveryIds,
            providerTimestamp : Nat, receivedAt : Nat]
Publishing == [pc : {"publishing"}, source : Sources]

-----------------------------------------------------------------------------
(* serveSource.  Requests turned away with 404, 413, 400 or 401 never      *)
(* change the state; only verified ones are modelled.                      *)

\* Mutant of VerifyRequest: keeps a timestamp before the window it checked,
\* and so before the epoch that the types start at.
VerifyRequestUnchecked(r, s, id, ts) ==
  /\ req[r] = Idle
  /\ req' = [req EXCEPT ![r] = [pc |-> "verified", source |-> s, deliveryId |-> id,
                                providerTimestamp |-> ts - now - 1]]
  /\ UNCHANGED <<storeVars, now, notifierVars>>

\* The verifier accepts a provider timestamp within Skew of the clock.
VerifyRequest(r, s, id, ts) ==
  /\ req[r] = Idle
  /\ ts >= now - Skew
  /\ ts <= now + Skew
  /\ req' = [req EXCEPT ![r] = [pc |-> "verified", source |-> s,
                                deliveryId |-> id, providerTimestamp |-> ts]]
  /\ UNCHANGED <<storeVars, now, notifierVars>>

\* Append reads the clock before it waits for the database connection.
StampRequest(r) ==
  /\ req[r].pc = "verified"
  /\ req' = [req EXCEPT ![r] = [pc |-> "stamped", source |-> req[r].source,
                                deliveryId |-> req[r].deliveryId,
                                providerTimestamp |-> req[r].providerTimestamp,
                                receivedAt |-> now]]
  /\ UNCHANGED <<storeVars, now, notifierVars>>

\* ErrDuplicate: 200, nothing stored, nobody notified.
AnswerDuplicate(r) ==
  /\ req[r].pc = "stamped"
  /\ IsDuplicate(req[r].source, req[r].deliveryId, req[r].receivedAt)
  /\ req' = [req EXCEPT ![r] = Idle]
  /\ UNCHANGED <<storeVars, now, notifierVars>>

\* 202: the row is committed and the publishing goroutine started.
AcceptRequest(r) ==
  /\ req[r].pc = "stamped"
  /\ ~IsDuplicate(req[r].source, req[r].deliveryId, req[r].receivedAt)
  /\ InsertEvent(req[r].source, req[r].deliveryId,
                 req[r].providerTimestamp, req[r].receivedAt)
  /\ req' = [req EXCEPT ![r] = [pc |-> "publishing", source |-> req[r].source]]
  /\ UNCHANGED <<now, notifierVars>>

\* 503: the transaction failed and rolled back.  The provider retries.
FailRequest(r) ==
  /\ req[r].pc = "stamped"
  /\ req' = [req EXCEPT ![r] = Idle]
  /\ UNCHANGED <<storeVars, now, notifierVars>>

\* go h.notifier.Publish(source, ev.Sequence)
PublishEvent(r) ==
  /\ req[r].pc = "publishing"
  /\ Publish(req[r].source)
  /\ req' = [req EXCEPT ![r] = Idle]
  /\ UNCHANGED <<storeVars, now>>

-----------------------------------------------------------------------------
\* One source of Pruner.RunOnce, which runs at startup and then hourly.
PruneSource(s) ==
  /\ Retention[s] > 0
  /\ Prune(s, now - Retention[s])
  /\ UNCHANGED <<now, req, notifierVars>>

\* `hooks prune --older-than`.
PruneOlderThan(age) ==
  /\ age \in ManualAges
  /\ PruneAll(now - age)
  /\ UNCHANGED <<now, req, notifierVars>>

\* The inspector's replay of a stored event publishes its sequence again.
ReplayWake(s) ==
  /\ Rows(s) # {}
  /\ Publish(s)
  /\ UNCHANGED <<storeVars, now, req>>

Tick ==
  /\ now < MaxTime
  /\ now' = now + 1
  /\ UNCHANGED <<storeVars, req, notifierVars>>

\* The process dies and starts again: requests, goroutines and channels are
\* gone, rows are not.
Restart ==
  /\ req' = [r \in Requests |-> Idle]
  /\ registered' = [s \in Sources |-> {}]
  /\ signal' = [c \in Channels |-> FALSE]
  /\ UNCHANGED <<storeVars, now>>

-----------------------------------------------------------------------------
\* The clock starts late enough that a verified timestamp is after the epoch.
IngestInit ==
  /\ StoreInit
  /\ NotifierInit
  /\ now = Skew + 1
  /\ req = [r \in Requests |-> Idle]

RequestStep(r) ==
  \/ \E s \in Sources, id \in DeliveryIds, ts \in (now - Skew)..(now + Skew) :
       VerifyRequest(r, s, id, ts)
  \/ StampRequest(r)
  \/ AnswerDuplicate(r)
  \/ AcceptRequest(r)
  \/ FailRequest(r)
  \/ PublishEvent(r)

\* The steps that leave every consumer's own state alone.
IngestNext ==
  \/ \E r \in Requests : RequestStep(r)
  \/ \E s \in Sources : PruneSource(s) \/ ReplayWake(s)
  \/ \E age \in ManualAges : PruneOlderThan(age)
  \/ Tick

Next == IngestNext \/ Restart

Spec == IngestInit /\ [][Next]_ingestVars

-----------------------------------------------------------------------------
(* Properties.                                                             *)

\* Types of the whole log, clock, request and notifier state.
IngestTypeOK ==
  /\ StoreTypeOK
  /\ NotifierTypeOK
  /\ now \in Nat
  /\ req \in [Requests -> {Idle} \cup Verified \cup Stamped \cup Publishing]

\* Append's duplicate check (sqlite.go:176) runs with a timestamp taken before
\* the transaction, in any order of commits: still, no two stored rows carry
\* one delivery id with received_at closer than the window.
UniqueWithinWindow ==
  \A e, f \in events :
    e # f /\ e.source = f.source /\ e.deliveryId = f.deliveryId =>
      \/ e.receivedAt - f.receivedAt > DedupeWindow
      \/ f.receivedAt - e.receivedAt > DedupeWindow

\* The sequence of the n-th accepted event is n (NextEventSequence), for as
\* long as no prune has removed the row that carries the highest sequence.
GaplessUntilNewestPruned ==
  \A s \in Sources : ~newestPruned[s] =>
    \A i \in DOMAIN accepted[s] : accepted[s][i].sequence = i

\* The same without the proviso: "strictly monotonic, gapless", as the
\* event-store specification has it.
Gapless ==
  \A s \in Sources : \A i \in DOMAIN accepted[s] : accepted[s][i].sequence = i

\* The ages at which something deletes rows of a source.
PruneAges(s) == ManualAges \cup {age \in {Retention[s]} : age > 0}

\* An acknowledged event stays until it is older than its source's retention
\* and than every age an operator prunes by (prune.go:77-82, :124).
KeptForRetention ==
  \A s \in Sources : \A i \in DOMAIN accepted[s] :
    (\A age \in PruneAges(s) : accepted[s][i].receivedAt >= now - age)
      => accepted[s][i] \in events

\* A row is committed above every row of its source that a reader can see, so
\* a cursor that has passed a sequence cannot have jumped over a late commit.
AppendsAtEnd ==
  [][\A e \in events' \ events : \A f \in Rows(e.source) : f.sequence < e.sequence]_ingestVars
=============================================================================
