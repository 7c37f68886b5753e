--------------------------------- MODULE Push ---------------------------------
(***************************************************************************)
(* Push delivery (internal/push): the table push_subscriptions, the        *)
(* Manager's two maps, one worker goroutine per subscription, and the      *)
(* administrative handlers that change all three.  It extends Ingest,      *)
(* which writes the events the workers deliver and signals the workers.    *)
(*                                                                         *)
(* A store call is one step, a critical section under Manager.mu is one    *)
(* step, and nothing else is atomic: a handler that updates the row and    *)
(* then the maps does so in two steps, and a worker that has been told to  *)
(* stop goes on until it next looks at its context.  Once cancelled, a     *)
(* worker's store calls and requests fail, since they carry its context.   *)
(*                                                                         *)
(* A worker is identified with its notifier channel.                       *)
(***************************************************************************)
EXTENDS Ingest

CONSTANTS
  Subs,          \* subscription ids that uuid.NewString may hand out
  Admins,        \* concurrent administrative requests
  Kinds,         \* operations the administrators use
  Since,         \* explicit `since` values of a registration
  MaxSecrets,    \* bound on the signing secrets minted per subscription
  MaxOps,        \* bound on administrative operations and restarts
  MaxFailures,   \* consecutive_failures saturates here
  None           \* no row, no worker, no event

\* The plaintext stands for its own hash.
Row == [source : Sources, cursor : Nat, paused : BOOLEAN, hash : Nat, failures : Nat]

ASSUME PushAssumption ==
  /\ Kinds \subseteq {"pause", "resume", "rotate", "delete", "deactivate", "restart"}
  /\ Since \subseteq Nat
  /\ MaxSecrets \in Nat /\ MaxOps \in Nat /\ MaxFailures \in Nat
  /\ None \notin Row /\ None \notin Channels

VARIABLES
  subs,          \* push_subscriptions: id -> row
  workers,       \* Manager.workers: id -> worker
  secrets,       \* Manager.secrets: id -> plaintext, 0 when absent
  wk,            \* worker -> its goroutine
  op,            \* administrative request -> where its handler is
  minted,        \* id -> number of secrets minted so far; also the newest one
  opsLeft,       \* remaining budget of operations
  start,         \* history: id -> cursor it was registered with, -1 before
  handled        \* history: id -> events its target has answered with 2xx

pushVars == <<subs, workers, secrets, wk, op, minted, opsLeft, start, handled>>
vars == <<ingestVars, pushVars>>

Workers == Channels

WorkerStates == {"exited", "top", "secret", "read", "send", "await", "answered", "record",
                 "backoff", "retry", "park", "idle"}
Exited == [pc |-> "exited", sub |-> None, source |-> None, cancelled |-> FALSE,
           cursor |-> 0, secret |-> 0, event |-> None]
Worker == [pc : WorkerStates \ {"exited"}, sub : Subs, source : Sources, cancelled : BOOLEAN,
           cursor : Nat, secret : Nat, event : Event \cup {None}]

OpIdle == [pc |-> "idle"]
Inserting == [pc : {"insert"}, sub : Subs, source : Sources, cursor : Nat,
              secret : 0..MaxSecrets]
Adding == [pc : {"add"}, sub : Subs, source : Sources, secret : 0..MaxSecrets]
Ensuring == [pc : {"ensure"}, sub : Subs, source : Sources]
Rotating == [pc : {"rotate"}, sub : Subs, secret : 0..MaxSecrets]
Fetching == [pc : {"fetch"}, sub : Subs]
Detaching == [pc : {"detach"}, sub : Subs, forget : BOOLEAN]
Cancelling == [pc : {"cancel"}, sub : Subs, worker : Channels]

-----------------------------------------------------------------------------
(* The worker (worker.go).                                                 *)

Goto(w, pc) == wk' = [wk EXCEPT ![w].pc = pc]

\* The deferred function of run.  The Manager's map keeps its entry.
Exit(w) ==
  /\ wk' = [wk EXCEPT ![w] = Exited]
  /\ Unsubscribe(wk[w].source, w)

\* The top of the loop: ctx.Err, then Subs.Get.
GetRow(w) ==
  /\ wk[w].pc = "top"
  /\ \/ wk[w].cancelled /\ Exit(w)
     \/ /\ ~wk[w].cancelled
        /\ subs[wk[w].sub] = None
        /\ Goto(w, "retry")
        /\ UNCHANGED notifierVars
     \/ /\ ~wk[w].cancelled
        /\ subs[wk[w].sub] # None
        /\ subs[wk[w].sub].paused
        /\ Exit(w)
     \/ /\ ~wk[w].cancelled
        /\ subs[wk[w].sub] # None
        /\ ~subs[wk[w].sub].paused
        /\ wk' = [wk EXCEPT ![w].pc = "secret", ![w].cursor = subs[wk[w].sub].cursor]
        /\ UNCHANGED notifierVars
  /\ UNCHANGED <<storeVars, now, req, subs, workers, secrets, op, minted, opsLeft, start, handled>>

\* The plaintext is copied under the lock and used for one attempt.
GetSecret(w) ==
  /\ wk[w].pc = "secret"
  /\ wk' = [wk EXCEPT ![w].secret = secrets[wk[w].sub],
                      ![w].pc = IF secrets[wk[w].sub] = 0 THEN "park" ELSE "read"]
  /\ UNCHANGED <<ingestVars, subs, workers, secrets, op, minted, opsLeft, start, handled>>

\* ReadSince with the cursor read above; only the first event is used.
ReadBatch(w) ==
  /\ wk[w].pc = "read"
  /\ \/ /\ wk[w].cancelled
        /\ Goto(w, "retry")
     \/ /\ ~wk[w].cancelled
        /\ ReadSince(wk[w].source, wk[w].cursor, 1) = {}
        /\ Goto(w, "idle")
     \/ /\ ~wk[w].cancelled
        /\ ReadSince(wk[w].source, wk[w].cursor, 1) # {}
        /\ wk' = [wk EXCEPT ![w].pc = "send",
                            ![w].event = Oldest(ReadSince(wk[w].source, wk[w].cursor, 1))]
  /\ UNCHANGED <<ingestVars, subs, workers, secrets, op, minted, opsLeft, start, handled>>

\* HTTPClient.Do puts the POST on the wire, unless the context is done.
Send(w) ==
  /\ wk[w].pc = "send"
  /\ Goto(w, IF wk[w].cancelled THEN "record" ELSE "await")
  /\ UNCHANGED <<ingestVars, subs, workers, secrets, op, minted, opsLeft, start, handled>>

\* The target processes the POST and answers 2xx.
TargetAccepts(w) ==
  /\ wk[w].pc = "await"
  /\ handled' = [handled EXCEPT ![wk[w].sub] = @ \cup {wk[w].event}]
  /\ Goto(w, "answered")
  /\ UNCHANGED <<ingestVars, subs, workers, secrets, op, minted, opsLeft, start>>

\* The attempt fails: refused, non-2xx, timed out, cancelled; or the answer of
\* a target that has processed the event is lost.
AttemptFails(w) ==
  /\ wk[w].pc \in {"await", "answered"}
  /\ Goto(w, "record")
  /\ UNCHANGED <<ingestVars, subs, workers, secrets, op, minted, opsLeft, start, handled>>

\* Mutant of CommitCursor: advances the stored cursor by one instead of
\* storing the sequence that was delivered.
CommitCursorRelative(w) ==
  LET s == wk[w].sub IN
  /\ wk[w].pc = "answered"
  /\ ~wk[w].cancelled
  /\ subs[s] # None
  /\ subs' = [subs EXCEPT ![s].cursor = @ + 1, ![s].failures = 0]
  /\ wk' = [wk EXCEPT ![w].pc = "top", ![w].event = None, ![w].secret = 0, ![w].cursor = 0]
  /\ UNCHANGED <<ingestVars, workers, secrets, op, minted, opsLeft, start, handled>>

\* UpdateCursorAndSuccess, keyed by id alone.
CommitCursor(w) ==
  LET s == wk[w].sub IN
  /\ wk[w].pc = "answered"
  /\ ~wk[w].cancelled
  /\ subs[s] # None
  /\ subs' = [subs EXCEPT ![s].cursor = wk[w].event.sequence, ![s].failures = 0]
  /\ wk' = [wk EXCEPT ![w].pc = "top", ![w].event = None, ![w].secret = 0, ![w].cursor = 0]
  /\ UNCHANGED <<ingestVars, workers, secrets, op, minted, opsLeft, start, handled>>

\* The row is gone, the context is done or the store fails: a failed attempt
\* that is not recorded.
CommitFails(w) ==
  /\ wk[w].pc = "answered"
  /\ wk' = [wk EXCEPT ![w].pc = "backoff", ![w].event = None, ![w].secret = 0, ![w].cursor = 0]
  /\ UNCHANGED <<ingestVars, subs, workers, secrets, op, minted, opsLeft, start, handled>>

\* Mutant of RecordFailure: moves on to the next event.
RecordFailureSkips(w) ==
  LET s == wk[w].sub IN
  /\ wk[w].pc = "record"
  /\ subs' = IF wk[w].cancelled \/ subs[s] = None THEN subs
             ELSE [subs EXCEPT ![s].cursor = wk[w].event.sequence]
  /\ wk' = [wk EXCEPT ![w].pc = "backoff", ![w].event = None, ![w].secret = 0, ![w].cursor = 0]
  /\ UNCHANGED <<ingestVars, workers, secrets, op, minted, opsLeft, start, handled>>

\* RecordFailure: the counter goes up, the cursor stays.
RecordFailure(w) ==
  LET s == wk[w].sub IN
  /\ wk[w].pc = "record"
  /\ subs' = IF wk[w].cancelled \/ subs[s] = None THEN subs
             ELSE [subs EXCEPT ![s].failures = IF @ < MaxFailures THEN @ + 1 ELSE @]
  /\ wk' = [wk EXCEPT ![w].pc = "backoff", ![w].event = None, ![w].secret = 0, ![w].cursor = 0]
  /\ UNCHANGED <<ingestVars, workers, secrets, op, minted, opsLeft, start, handled>>

Waiting == {"backoff", "retry", "park", "idle"}

\* Mutant of Wake: the signal is the only thing that ends a wait.
WakeOnSignal(w) ==
  /\ wk[w].pc \in Waiting
  /\ \/ wk[w].cancelled /\ Exit(w)
     \/ TakeSignal(w) /\ wk' = [wk EXCEPT ![w].pc = "top", ![w].cursor = 0]
  /\ UNCHANGED <<storeVars, now, req, subs, workers, secrets, op, minted, opsLeft, start, handled>>

\* The four selects have the same arms: the context, the channel, a timer.
Wake(w) ==
  /\ wk[w].pc \in Waiting
  /\ \/ wk[w].cancelled /\ Exit(w)
     \/ /\ TakeSignal(w)
        /\ wk' = [wk EXCEPT ![w].pc = "top", ![w].cursor = 0]
     \/ /\ wk' = [wk EXCEPT ![w].pc = "top", ![w].cursor = 0]
        /\ UNCHANGED notifierVars
  /\ UNCHANGED <<storeVars, now, req, subs, workers, secrets, op, minted, opsLeft, start, handled>>

WorkerStep(w) ==
  \/ GetRow(w) \/ GetSecret(w) \/ ReadBatch(w) \/ Send(w)
  \/ CommitCursor(w) \/ CommitFails(w) \/ AttemptFails(w) \/ RecordFailure(w)
  \/ Wake(w)

-----------------------------------------------------------------------------
(* The administrative handlers (push/api.go, me/handlers_subs.go and the   *)
(* inspector's forms) with the Manager methods they call.                  *)

Begin(a, next) ==
  /\ op[a] = OpIdle
  /\ opsLeft > 0
  /\ opsLeft' = opsLeft - 1
  /\ op' = [op EXCEPT ![a] = next]

Mint(s) == minted[s] < MaxSecrets /\ minted' = [minted EXCEPT ![s] = @ + 1]

\* create: the cursor is resolved, then the secret generated.
BeginCreate(a, s, src, cursor) ==
  /\ start[s] = -1
  /\ Begin(a, [pc |-> "insert", sub |-> s, source |-> src, cursor |-> cursor,
               secret |-> minted[s] + 1])
  /\ Mint(s)
  /\ start' = [start EXCEPT ![s] = cursor]
  /\ UNCHANGED <<ingestVars, subs, workers, secrets, wk, handled>>

InsertRow(a) ==
  /\ op[a].pc = "insert"
  /\ subs' = [subs EXCEPT ![op[a].sub] =
                [source |-> op[a].source, cursor |-> op[a].cursor, paused |-> FALSE,
                 hash |-> op[a].secret, failures |-> 0]]
  /\ op' = [op EXCEPT ![a] = [pc |-> "add", sub |-> op[a].sub, source |-> op[a].source,
                              secret |-> op[a].secret]]
  /\ UNCHANGED <<ingestVars, workers, secrets, wk, minted, opsLeft, start, handled>>

\* Manager.Add stores the plaintext before it ensures a worker.
AddSecret(a) ==
  /\ op[a].pc = "add"
  /\ secrets' = [secrets EXCEPT ![op[a].sub] = op[a].secret]
  /\ op' = [op EXCEPT ![a] = [pc |-> "ensure", sub |-> op[a].sub, source |-> op[a].source]]
  /\ UNCHANGED <<ingestVars, subs, workers, wk, minted, opsLeft, start, handled>>

Spawned(s, src) == [pc |-> "top", sub |-> s, source |-> src, cancelled |-> FALSE,
                    cursor |-> 0, secret |-> 0, event |-> None]

\* Identities of goroutines that have ended and that nothing refers to.
Free(w) ==
  /\ wk[w] = Exited
  /\ \A s \in Subs : workers[s] # w
  /\ \A a \in Admins : op[a].pc = "cancel" => op[a].worker # w

\* Mutant of EnsureWorker: does not look for an existing worker.
EnsureWorkerAlways(a) ==
  LET s == op[a].sub IN
  /\ op[a].pc = "ensure"
  /\ op' = [op EXCEPT ![a] = OpIdle]
  /\ \E w \in Workers :
       /\ Free(w)
       /\ Subscribe(op[a].source, w)
       /\ workers' = [workers EXCEPT ![s] = w]
       /\ wk' = [wk EXCEPT ![w] = Spawned(s, op[a].source)]
  /\ UNCHANGED <<storeVars, now, req, subs, secrets, minted, opsLeft, start, handled>>

\* ensureWorker: nothing to do when the map has an entry, whatever became of
\* the goroutine behind it.
EnsureWorker(a) ==
  LET s == op[a].sub IN
  /\ op[a].pc = "ensure"
  /\ op' = [op EXCEPT ![a] = OpIdle]
  /\ \/ /\ workers[s] # None
        /\ UNCHANGED <<workers, wk, notifierVars>>
     \/ /\ workers[s] = None
        /\ \E w \in Workers :
             /\ Free(w)
             /\ Subscribe(op[a].source, w)
             /\ workers' = [workers EXCEPT ![s] = w]
             /\ wk' = [wk EXCEPT ![w] = Spawned(s, op[a].source)]
  /\ UNCHANGED <<storeVars, now, req, subs, secrets, minted, opsLeft, start, handled>>

\* pause: the API stops with 404 when no unpaused row matched; the owner's and
\* the inspector's handlers go on.
PauseRow(a, s) ==
  /\ "pause" \in Kinds
  /\ start[s] # -1
  /\ Begin(a, [pc |-> "detach", sub |-> s, forget |-> FALSE])
  /\ subs' = IF subs[s] = None THEN subs ELSE [subs EXCEPT ![s].paused = TRUE]
  /\ UNCHANGED <<ingestVars, workers, secrets, wk, minted, start, handled>>

ResumeRow(a, s) ==
  /\ "resume" \in Kinds
  /\ subs[s] # None
  /\ Begin(a, [pc |-> "fetch", sub |-> s])
  /\ subs' = [subs EXCEPT ![s].paused = FALSE]
  /\ UNCHANGED <<ingestVars, workers, secrets, wk, minted, start, handled>>

\* Manager.Resume reads the row again, and does not look at paused_at.
FetchRow(a) ==
  /\ op[a].pc = "fetch"
  /\ op' = [op EXCEPT ![a] =
              IF subs[op[a].sub] = None THEN OpIdle
              ELSE [pc |-> "ensure", sub |-> op[a].sub, source |-> subs[op[a].sub].source]]
  /\ UNCHANGED <<ingestVars, subs, workers, secrets, wk, minted, opsLeft, start, handled>>

RotateRow(a, s) ==
  /\ "rotate" \in Kinds
  /\ subs[s] # None
  /\ Begin(a, [pc |-> "rotate", sub |-> s, secret |-> minted[s] + 1])
  /\ Mint(s)
  /\ subs' = [subs EXCEPT ![s].hash = minted[s] + 1]
  /\ UNCHANGED <<ingestVars, workers, secrets, wk, start, handled>>

\* Mutant of RotateSecret: the workers go on signing with the old secret.
RotateSecretStale(a) ==
  /\ op[a].pc = "rotate"
  /\ op' = [op EXCEPT ![a] = OpIdle]
  /\ UNCHANGED <<ingestVars, subs, workers, secrets, wk, minted, opsLeft, start, handled>>

\* Manager.Rotate.
RotateSecret(a) ==
  /\ op[a].pc = "rotate"
  /\ secrets' = [secrets EXCEPT ![op[a].sub] = op[a].secret]
  /\ op' = [op EXCEPT ![a] = OpIdle]
  /\ UNCHANGED <<ingestVars, subs, workers, wk, minted, opsLeft, start, handled>>

\* delete: as for pause, only the API stops when there is no row.
DeleteRow(a, s) ==
  /\ "delete" \in Kinds
  /\ start[s] # -1
  /\ Begin(a, [pc |-> "detach", sub |-> s, forget |-> TRUE])
  /\ subs' = [subs EXCEPT ![s] = None]
  /\ UNCHANGED <<ingestVars, workers, secrets, wk, minted, start, handled>>

\* Mutants of Detach: the entry of the worker stays in the map; the secret
\* stays; the worker is dropped from the map but not cancelled.
DetachKeepsEntry(a) ==
  LET s == op[a].sub IN
  /\ op[a].pc = "detach"
  /\ secrets' = IF op[a].forget THEN [secrets EXCEPT ![s] = 0] ELSE secrets
  /\ op' = [op EXCEPT ![a] = IF workers[s] = None THEN OpIdle
                             ELSE [pc |-> "cancel", sub |-> s, worker |-> workers[s]]]
  /\ UNCHANGED <<ingestVars, subs, workers, wk, minted, opsLeft, start, handled>>

DetachKeepsSecret(a) ==
  LET s == op[a].sub IN
  /\ op[a].pc = "detach"
  /\ workers' = [workers EXCEPT ![s] = None]
  /\ op' = [op EXCEPT ![a] = IF workers[s] = None THEN OpIdle
                             ELSE [pc |-> "cancel", sub |-> s, worker |-> workers[s]]]
  /\ UNCHANGED <<ingestVars, subs, secrets, wk, minted, opsLeft, start, handled>>

DetachWithoutCancel(a) ==
  LET s == op[a].sub IN
  /\ op[a].pc = "detach"
  /\ workers' = [workers EXCEPT ![s] = None]
  /\ secrets' = IF op[a].forget THEN [secrets EXCEPT ![s] = 0] ELSE secrets
  /\ op' = [op EXCEPT ![a] = OpIdle]
  /\ UNCHANGED <<ingestVars, subs, wk, minted, opsLeft, start, handled>>

\* Manager.Pause and Manager.Remove: the maps under the lock ...
Detach(a) ==
  LET s == op[a].sub IN
  /\ op[a].pc = "detach"
  /\ workers' = [workers EXCEPT ![s] = None]
  /\ secrets' = IF op[a].forget THEN [secrets EXCEPT ![s] = 0] ELSE secrets
  /\ op' = [op EXCEPT ![a] = IF workers[s] = None THEN OpIdle
                             ELSE [pc |-> "cancel", sub |-> s, worker |-> workers[s]]]
  /\ UNCHANGED <<ingestVars, subs, wk, minted, opsLeft, start, handled>>

\* Mutant of CancelWorker: writes to a goroutine that has ended.
CancelExited(a) ==
  LET w == op[a].worker IN
  /\ op[a].pc = "cancel"
  /\ wk' = [wk EXCEPT ![w].cancelled = TRUE]
  /\ op' = [op EXCEPT ![a] = OpIdle]
  /\ UNCHANGED <<ingestVars, subs, workers, secrets, minted, opsLeft, start, handled>>

\* ... and w.cancel() after it.
CancelWorker(a) ==
  LET w == op[a].worker IN
  /\ op[a].pc = "cancel"
  /\ wk' = IF wk[w] = Exited THEN wk ELSE [wk EXCEPT ![w].cancelled = TRUE]
  /\ op' = [op EXCEPT ![a] = OpIdle]
  /\ UNCHANGED <<ingestVars, subs, workers, secrets, minted, opsLeft, start, handled>>

\* DeactivateUserCascade pauses the owner's rows; no Manager method is called.
DeactivateOwner(owned) ==
  /\ "deactivate" \in Kinds
  /\ opsLeft > 0
  /\ opsLeft' = opsLeft - 1
  /\ \E s \in owned : subs[s] # None
  /\ subs' = [s \in Subs |-> IF s \in owned /\ subs[s] # None
                             THEN [subs[s] EXCEPT !.paused = TRUE] ELSE subs[s]]
  /\ UNCHANGED <<ingestVars, workers, secrets, wk, op, minted, start, handled>>

AdminStep(a) ==
  \/ InsertRow(a) \/ AddSecret(a) \/ EnsureWorker(a) \/ FetchRow(a)
  \/ RotateSecret(a) \/ Detach(a) \/ CancelWorker(a)

AdminBegin(a, s) ==
  \/ \E src \in Sources : \E cursor \in Since \cup {LatestSequence(src)} :
       BeginCreate(a, s, src, cursor)
  \/ PauseRow(a, s) \/ ResumeRow(a, s) \/ RotateRow(a, s) \/ DeleteRow(a, s)

-----------------------------------------------------------------------------
\* The process stops and starts: memory is lost, then Manager.Start gives every
\* row that is not paused a worker, before the listener opens.
RestartPush ==
  LET active == {s \in Subs : subs[s] # None /\ ~subs[s].paused} IN
  /\ "restart" \in Kinds
  /\ opsLeft > 0
  /\ opsLeft' = opsLeft - 1
  /\ req' = [r \in Requests |-> Idle]
  /\ op' = [a \in Admins |-> OpIdle]
  /\ secrets' = [s \in Subs |-> 0]
  /\ signal' = [c \in Channels |-> FALSE]
  /\ \E f \in [active -> Workers] :
       /\ \A s, t \in active : f[s] = f[t] => s = t
       /\ workers' = [s \in Subs |-> IF s \in active THEN f[s] ELSE None]
       /\ wk' = [w \in Workers |->
                   IF \E s \in active : f[s] = w
                   THEN LET s == CHOOSE t \in active : f[t] = w IN Spawned(s, subs[s].source)
                   ELSE Exited]
       /\ registered' = [src \in Sources |-> {f[s] : s \in {t \in active : subs[t].source = src}}]
  /\ UNCHANGED <<storeVars, now, subs, minted, start, handled>>

PushInit ==
  /\ IngestInit
  /\ subs = [s \in Subs |-> None]
  /\ workers = [s \in Subs |-> None]
  /\ secrets = [s \in Subs |-> 0]
  /\ wk = [w \in Workers |-> Exited]
  /\ op = [a \in Admins |-> OpIdle]
  /\ minted = [s \in Subs |-> 0]
  /\ opsLeft = MaxOps
  /\ start = [s \in Subs |-> -1]
  /\ handled = [s \in Subs |-> {}]

PushNext ==
  \/ IngestNext /\ UNCHANGED pushVars
  \/ \E w \in Workers : WorkerStep(w) \/ TargetAccepts(w)
  \/ \E a \in Admins : AdminStep(a) \/ \E s \in Subs : AdminBegin(a, s)
  \/ \E owned \in SUBSET Subs : DeactivateOwner(owned)
  \/ RestartPush

PushSpec == PushInit /\ [][PushNext]_vars

\* Goroutines, handlers and timers run.  The target of a subscription that is
\* tried again and again some day answers in time, and the store some day
\* accepts the cursor.  Nothing is assumed of providers, administrators and
\* restarts.
PushFairness ==
  /\ \A w \in Workers : /\ WF_vars(WorkerStep(w))
                        /\ SF_vars(TargetAccepts(w))
                        /\ SF_vars(CommitCursor(w))
  /\ \A a \in Admins : WF_vars(AdminStep(a))

FairPushSpec == PushSpec /\ PushFairness

-----------------------------------------------------------------------------
(* Properties.                                                             *)

PushTypeOK ==
  /\ IngestTypeOK
  /\ subs \in [Subs -> Row \cup {None}]
  /\ workers \in [Subs -> Workers \cup {None}]
  /\ secrets \in [Subs -> 0..MaxSecrets]
  /\ wk \in [Workers -> Worker \cup {Exited}]
  /\ op \in [Admins -> {OpIdle} \cup Inserting \cup Adding \cup Ensuring \cup Rotating
                       \cup Fetching \cup Detaching \cup Cancelling]
  /\ minted \in [Subs -> 0..MaxSecrets]
  /\ opsLeft \in 0..MaxOps
  /\ start \in [Subs -> Nat \cup {-1}]
  /\ handled \in [Subs -> SUBSET Event]

Live(w) == wk[w] # Exited /\ ~wk[w].cancelled
LiveWorkers(s) == {w \in Workers : Live(w) /\ wk[w].sub = s}

\* No administrative handler is at work on the subscription.
Settled(s) == \A a \in Admins : op[a] # OpIdle => op[a].sub # s

\* At least once: a stored event that the cursor has passed has been processed
\* by the target.  While sequences are not reused (see Ingest), neither lost
\* answers, cancelled workers, restarts nor competing workers lose an event.
CursorCoversHandled ==
  \A s \in Subs : subs[s] # None /\ ~newestPruned[subs[s].source] =>
    \A e \in Rows(subs[s].source) :
      start[s] < e.sequence /\ e.sequence <= subs[s].cursor => e \in handled[s]

\* "Deliveries SHALL occur in strictly ascending sequence order": the target
\* never processes an event for the first time while an earlier one that is
\* stored is still unprocessed.
HandledInOrder ==
  [][\A s \in Subs : \A e \in handled'[s] \ handled[s] :
       ~newestPruned[e.source] =>
         \A f \in Rows(e.source) :
           start[s] < f.sequence /\ f.sequence < e.sequence => f \in handled[s]]_vars

\* Every subscription, with each source, is a consumer of the abstract feed ...
FeedOf == INSTANCE Feed WITH
  Consumers <- Subs \X Sources,
  log <- [k \in Subs \X Sources |-> {e.sequence : e \in Rows(k[2])}],
  handled <- [k \in Subs \X Sources |->
                {e.sequence : e \in {f \in handled[k[1]] : f.source = k[2]}}],
  skipped <- [k \in Subs \X Sources |-> {}],
  cursor <- [k \in Subs \X Sources |->
               IF subs[k[1]] # None /\ subs[k[1]].source = k[2] THEN subs[k[1]].cursor ELSE -1],
  start <- [k \in Subs \X Sources |-> start[k[1]]],
  reused <- [k \in Subs \X Sources |-> newestPruned[k[2]]]

\* ... and is fed as Feed says, whatever workers, handlers and pruner do to each
\* other.
PushImplementsFeed == FeedOf!FeedSpec

\* ensureWorker and the order of Manager.Pause keep one deliverer: two workers
\* of one subscription are never both uncancelled.
OneLiveWorker == \A s \in Subs : Cardinality(LiveWorkers(s)) <= 1

\* A subscription that is not paused has a worker, as soon as the handlers at
\* work on it are done, through every pause, resume, deletion and restart.
ActiveHasWorker ==
  \A s \in Subs :
    subs[s] # None /\ ~subs[s].paused /\ Settled(s) => LiveWorkers(s) # {}

\* Once the pause handler has returned nothing is sent until the resume, and
\* once the delete handler has returned nothing is sent and nothing is kept.
QuietWhilePaused ==
  \A s \in Subs :
    subs[s] # None /\ subs[s].paused /\ Settled(s) => LiveWorkers(s) = {}

Forgotten ==
  \A s \in Subs : subs[s] = None /\ Settled(s) =>
    secrets[s] = 0 /\ workers[s] = None /\ LiveWorkers(s) = {}

\* The plaintext that signs and the hash that is stored are of one secret.
SecretMatchesHash ==
  \A s \in Subs : subs[s] # None /\ Settled(s) => secrets[s] \in {0, subs[s].hash}

\* A worker that waits for a signal has no event to deliver, unless the signal
\* is there or the goroutine that sends it is still to run.
NoMissedWakeup ==
  \A w \in Workers :
    LET src == wk[w].source IN
    (/\ wk[w].pc = "idle"
     /\ ~signal[w]
     /\ \A r \in Requests : req[r].pc = "publishing" => req[r].source # src)
    => NewerThan(src, wk[w].cursor) = {}

Deliverable(s) ==
  subs[s] # None /\ ~subs[s].paused /\ secrets[s] # 0 /\ Settled(s)

CaughtUp(s) == subs[s] # None /\ NewerThan(subs[s].source, subs[s].cursor) = {}

\* "Catch-up on recovery": a subscription that from some point on is neither
\* touched nor paused and has its secret is delivered everything, in spite of
\* failed attempts, lost answers, dropped signals and earlier restarts.
CatchesUp == \A s \in Subs : <>[]Deliverable(s) => <>[]CaughtUp(s)
=============================================================================
