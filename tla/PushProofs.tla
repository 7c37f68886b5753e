------------------------------ MODULE PushProofs ------------------------------
(***************************************************************************)
(* Push delivery, for every number of subscriptions, goroutines and        *)
(* administrators: types, positions in the log, wakeups, and the           *)
(* refinement of Feed.  Who holds a subscription's goroutine and secret is *)
(* the subject of ManagerProofs.                                           *)
(***************************************************************************)
EXTENDS Push, IngestProofs

\* An attempt has an event of the worker's source in hand.
Holding == {"send", "await", "answered", "record"}

HoldsEvent ==
  \A w \in Workers : wk[w].pc \in Holding =>
    wk[w].event \in Event /\ wk[w].event.source = wk[w].source

TypeInv == PushTypeOK /\ IInv /\ HoldsEvent

-----------------------------------------------------------------------------
(* Typing.                                                                 *)

\* Every step but an insertion leaves the table and the clock alone.
LEMMA SameStore ==
  ASSUME TypeInv, UNCHANGED <<storeVars, now>>, IngestTypeOK'
  PROVE  IInv'
BY QuietKeepsLog DEF TypeInv, IInv

LEMMA SameIngest ==
  ASSUME TypeInv, UNCHANGED ingestVars
  PROVE  IngestTypeOK' /\ IInv'
<1>1. UNCHANGED <<storeVars, now>>
  BY DEF ingestVars, storeVars
<1>2. IngestTypeOK'
  BY DEF ingestVars, TypeInv, IInv, IngestTypeOK, StoreTypeOK, NotifierTypeOK
<1> QED BY <1>1, <1>2, SameStore

\* The fields of a goroutine that runs.
LEMMA RunningFields ==
  ASSUME TypeInv, NEW w \in Workers, wk[w].pc # "exited"
  PROVE  /\ wk[w] \in Worker
         /\ wk[w].sub \in Subs /\ wk[w].source \in Sources /\ wk[w].cursor \in Nat
BY DEF TypeInv, PushTypeOK, Worker, Exited

\* What ReadBatch picks is a row of the source above the cursor, and no row in
\* between is stored.
LEMMA PickedEvent ==
  ASSUME LogInv, NEW s \in Sources, NEW n \in Nat, ReadSince(s, n, 1) # {}
  PROVE  LET e == Oldest(ReadSince(s, n, 1)) IN
         /\ e \in Rows(s) /\ e \in Event /\ e.sequence > n
         /\ \A f \in Rows(s) : f.sequence > n => e.sequence <= f.sequence
<1> DEFINE batch == ReadSince(s, n, 1)
           e == Oldest(batch)
<1>1. batch \subseteq NewerThan(s, n) /\ NewerThan(s, n) \subseteq Rows(s)
  BY DEF ReadSince, NewerThan
<1>2. \A f \in Rows(s) : f \in Event /\ f.sequence \in Nat
  BY DEF LogInv, StoreTypeOK, Rows, Event
<1>3. batch # {} /\ \A f \in batch : f.sequence \in Nat
  BY <1>1, <1>2
<1>4. e \in batch /\ \A f \in batch : e.sequence <= f.sequence
  <2> HIDE DEF batch
  <2> QED BY <1>3, OldestOfBatch
<1>5. ASSUME NEW f \in Rows(s), f.sequence > n, ~(e.sequence <= f.sequence) PROVE FALSE
  <2>1. f.sequence < e.sequence /\ n < f.sequence
    BY <1>1, <1>2, <1>4, <1>5
  <2>2. f \in batch
    BY <1>4, <2>1, BatchIsInterval
  <2> QED BY <1>4, <1>5, <2>2
<1> QED BY <1>1, <1>2, <1>4, <1>5 DEF NewerThan

\* What a step of a goroutine may make of it: it ends, or stays the same
\* worker and holds an event when it is about to send or has sent.
Becomes(old, new) ==
  \/ new = Exited
  \/ /\ new \in Worker
     /\ new.sub = old.sub /\ new.source = old.source /\ new.cancelled = old.cancelled
     /\ new.pc \in Holding => new.event \in Event /\ new.event.source = new.source

LEMMA WorkerBecomes ==
  ASSUME TypeInv, NEW w \in Workers, WorkerStep(w) \/ TargetAccepts(w)
  PROVE  /\ wk[w] \in Worker
         /\ Becomes(wk[w], wk'[w])
         /\ wk' = [wk EXCEPT ![w] = wk'[w]]
<1>1. wk[w].pc # "exited"
  BY DEF WorkerStep, TargetAccepts, GetRow, GetSecret, ReadBatch, Send, CommitCursor, CommitFails,
         AttemptFails, RecordFailure, Wake, Waiting
<1>2. /\ wk[w] \in Worker /\ wk[w].sub \in Subs /\ wk[w].source \in Sources
      /\ wk[w].cursor \in Nat
  BY <1>1, RunningFields
<1>3. /\ wk \in [Workers -> Worker \cup {Exited}]
      /\ subs \in [Subs -> Row \cup {None}] /\ secrets \in [Subs -> 0..MaxSecrets]
      /\ wk[w].pc \in Holding => wk[w].event \in Event /\ wk[w].event.source = wk[w].source
  BY DEF TypeInv, PushTypeOK, HoldsEvent
<1> SUFFICES Becomes(wk[w], wk'[w]) /\ wk' = [wk EXCEPT ![w] = wk'[w]]
  BY <1>2
<1>4. ASSUME NEW X, wk' = [wk EXCEPT ![w] = X], Becomes(wk[w], X)
      PROVE  Becomes(wk[w], wk'[w]) /\ wk' = [wk EXCEPT ![w] = wk'[w]]
  BY <1>3, <1>4
<1>5. CASE Exit(w)
  BY <1>4, <1>5 DEF Exit, Becomes
<1>6. CASE GetRow(w)
  <2>1. CASE wk' = [wk EXCEPT ![w].pc = "retry"]
    <3> DEFINE X == [wk[w] EXCEPT !.pc = "retry"]
    <3>1. Becomes(wk[w], X)
      BY <1>2 DEF Worker, WorkerStates, Holding, Becomes
    <3> QED BY <1>4, <2>1, <3>1
  <2>2. CASE /\ wk' = [wk EXCEPT ![w].pc = "secret", ![w].cursor = subs[wk[w].sub].cursor]
             /\ subs[wk[w].sub] # None
    <3> DEFINE X == [wk[w] EXCEPT !.pc = "secret", !.cursor = subs[wk[w].sub].cursor]
    <3>1. subs[wk[w].sub].cursor \in Nat
      BY <1>2, <1>3, <2>2 DEF Row
    <3>2. Becomes(wk[w], X)
      BY <1>2, <3>1 DEF Worker, WorkerStates, Holding, Becomes
    <3> QED BY <1>4, <2>2, <3>2
  <2> QED BY <1>5, <1>6, <2>1, <2>2 DEF GetRow, Goto
<1>7. CASE GetSecret(w)
  <2> DEFINE X == [wk[w] EXCEPT !.secret = secrets[wk[w].sub],
                                !.pc = IF secrets[wk[w].sub] = 0 THEN "park" ELSE "read"]
  <2>1. secrets[wk[w].sub] \in Nat
    BY <1>2, <1>3, PushAssumption
  <2>2. Becomes(wk[w], X)
    BY <1>2, <2>1 DEF Worker, WorkerStates, Holding, Becomes
  <2> QED BY <1>4, <1>7, <2>2 DEF GetSecret
<1>8. CASE ReadBatch(w)
  <2> DEFINE E == Oldest(ReadSince(wk[w].source, wk[w].cursor, 1))
  <2>1. ASSUME NEW pc \in {"retry", "idle"}, wk' = [wk EXCEPT ![w].pc = pc]
        PROVE  Becomes(wk[w], wk'[w]) /\ wk' = [wk EXCEPT ![w] = wk'[w]]
    <3> DEFINE X == [wk[w] EXCEPT !.pc = pc]
    <3>1. Becomes(wk[w], X)
      BY <1>2, <2>1 DEF Worker, WorkerStates, Holding, Becomes
    <3> QED BY <1>4, <2>1, <3>1
  <2>2. CASE /\ wk' = [wk EXCEPT ![w].pc = "send", ![w].event = E]
             /\ ReadSince(wk[w].source, wk[w].cursor, 1) # {}
    <3>1. E \in Event /\ E.source = wk[w].source
      BY <1>2, <2>2, PickedEvent DEF TypeInv, IInv, Rows
    <3> HIDE DEF E
    <3> DEFINE X == [wk[w] EXCEPT !.pc = "send", !.event = E]
    <3>2. Becomes(wk[w], X)
      BY <1>2, <3>1 DEF Worker, WorkerStates, Holding, Becomes
    <3> QED BY <1>4, <2>2, <3>2
  <2> QED BY <1>8, <2>1, <2>2 DEF ReadBatch, Goto
<1>9. ASSUME NEW pc \in {"record", "await", "answered"}, wk[w].pc \in Holding,
             wk' = [wk EXCEPT ![w].pc = pc]
      PROVE  Becomes(wk[w], wk'[w]) /\ wk' = [wk EXCEPT ![w] = wk'[w]]
  <2> DEFINE X == [wk[w] EXCEPT !.pc = pc]
  <2>1. Becomes(wk[w], X)
    BY <1>2, <1>3, <1>9 DEF Worker, WorkerStates, Holding, Becomes
  <2> QED BY <1>4, <1>9, <2>1
<1>10. CASE Send(w) \/ TargetAccepts(w) \/ AttemptFails(w)
  BY <1>9, <1>10 DEF Send, TargetAccepts, AttemptFails, Goto, Holding
<1>11. ASSUME NEW pc \in {"top", "backoff"},
              wk' = [wk EXCEPT ![w].pc = pc, ![w].event = None, ![w].secret = 0, ![w].cursor = 0]
       PROVE  Becomes(wk[w], wk'[w]) /\ wk' = [wk EXCEPT ![w] = wk'[w]]
  <2> DEFINE X == [wk[w] EXCEPT !.pc = pc, !.event = None, !.secret = 0, !.cursor = 0]
  <2>1. Becomes(wk[w], X)
    BY <1>2, <1>11 DEF Worker, WorkerStates, Holding, Becomes
  <2> QED BY <1>4, <1>11, <2>1
<1>12. CASE CommitCursor(w) \/ CommitFails(w) \/ RecordFailure(w)
  BY <1>11, <1>12 DEF CommitCursor, CommitFails, RecordFailure
<1>13. CASE Wake(w)
  <2>1. CASE wk' = [wk EXCEPT ![w].pc = "top", ![w].cursor = 0]
    <3> DEFINE X == [wk[w] EXCEPT !.pc = "top", !.cursor = 0]
    <3>1. Becomes(wk[w], X)
      BY <1>2 DEF Worker, WorkerStates, Holding, Becomes
    <3> QED BY <1>4, <2>1, <3>1
  <2> QED BY <1>5, <1>13, <2>1 DEF Wake
<1> QED BY <1>2, <1>6, <1>7, <1>8, <1>10, <1>12, <1>13 DEF WorkerStep

\* What the steps of a goroutine do to the rest: only its own row changes, in
\* the columns that delivery owns, and only its own registration.
LEMMA WorkerFrame ==
  ASSUME TypeInv, NEW w \in Workers, WorkerStep(w) \/ TargetAccepts(w)
  PROVE  /\ UNCHANGED <<storeVars, now, req, workers, secrets, op, minted, opsLeft, start>>
         /\ NotifierTypeOK'
         /\ wk'[w] # Exited => registered' = registered
         /\ \A v \in Workers \ {w} : \A src \in Sources : v \in registered[src] => v \in registered'[src]
         /\ \A v \in Workers \ {w} : signal'[v] = signal[v]
<1> USE DEF ingestVars, storeVars, notifierVars
<1>1. /\ registered \in [Sources -> SUBSET Channels] /\ signal \in [Channels -> BOOLEAN]
      /\ wk \in [Workers -> Worker \cup {Exited}]
  BY DEF TypeInv, PushTypeOK, IngestTypeOK, NotifierTypeOK
<1>2. UNCHANGED <<storeVars, now, req, workers, secrets, op, minted, opsLeft, start>>
  BY DEF WorkerStep, TargetAccepts, GetRow, GetSecret, ReadBatch, Send, CommitCursor, CommitFails,
         AttemptFails, RecordFailure, Wake
<1>3. \/ UNCHANGED notifierVars
      \/ UNCHANGED registered /\ signal' = [signal EXCEPT ![w] = FALSE]
      \/ Exit(w)
  BY DEF WorkerStep, TargetAccepts, GetRow, GetSecret, ReadBatch, Send, CommitCursor, CommitFails,
         AttemptFails, RecordFailure, Wake, TakeSignal
<1>4. CASE Exit(w)
  <2>1. /\ wk' = [wk EXCEPT ![w] = Exited]
        /\ registered' = [registered EXCEPT ![wk[w].source] = @ \ {w}]
        /\ signal' = [signal EXCEPT ![w] = FALSE]
    BY <1>4 DEF Exit, Unsubscribe
  <2> QED BY <1>1, <1>2, <2>1 DEF NotifierTypeOK, Workers
<1>5. CASE UNCHANGED notifierVars \/ (UNCHANGED registered /\ signal' = [signal EXCEPT ![w] = FALSE])
  BY <1>1, <1>2, <1>5 DEF NotifierTypeOK, Workers
<1> QED BY <1>3, <1>4, <1>5

\* CommitCursor and RecordFailure are the only steps of a worker on its row.
Delivered(w) ==
  LET s == wk[w].sub IN
  /\ wk[w].pc = "answered" /\ ~wk[w].cancelled /\ wk'[w].pc = "top"
  /\ subs[s] # None
  /\ subs' = [subs EXCEPT ![s].cursor = wk[w].event.sequence, ![s].failures = 0]

Failed(w) ==
  LET s == wk[w].sub IN
  /\ subs[s] # None
  /\ subs' = [subs EXCEPT ![s].failures = IF @ < MaxFailures THEN @ + 1 ELSE @]

LEMMA WorkerRows ==
  ASSUME TypeInv, NEW w \in Workers, WorkerStep(w) \/ TargetAccepts(w)
  PROVE  /\ \A s \in Subs : subs'[s] = None <=> subs[s] = None
         /\ \A s \in Subs : subs[s] # None =>
              /\ subs'[s].source = subs[s].source /\ subs'[s].paused = subs[s].paused
              /\ subs'[s].hash = subs[s].hash
              /\ \/ subs'[s].cursor = subs[s].cursor
                 \/ /\ s = wk[w].sub /\ wk[w].pc = "answered" /\ wk'[w].pc = "top"
                    /\ subs'[s].cursor = wk[w].event.sequence
         /\ subs' \in [Subs -> Row \cup {None}]
<1>1. subs \in [Subs -> Row \cup {None}] /\ None \notin Row
  BY PushAssumption DEF TypeInv, PushTypeOK
<1>2. subs' = subs \/ Failed(w) \/ Delivered(w)
  <2>1. wk \in [Workers -> Worker \cup {Exited}] /\ wk[w] \in Worker
    BY WorkerBecomes DEF TypeInv, PushTypeOK
  <2>2. CASE CommitCursor(w)
    <3>1. wk'[w].pc = "top"
      BY <2>1, <2>2 DEF CommitCursor, Worker
    <3> QED BY <2>2, <3>1 DEF CommitCursor, Delivered
  <2>3. CASE RecordFailure(w)
    BY <2>3 DEF RecordFailure, Failed
  <2> QED BY <2>2, <2>3 DEF WorkerStep, TargetAccepts, GetRow, GetSecret, ReadBatch, Send,
                            CommitFails, AttemptFails, Wake
<1>3. CASE subs' = subs
  BY <1>1, <1>3
<1>4. CASE Failed(w) \/ Delivered(w)
  <2> DEFINE s == wk[w].sub
             count == IF subs[s].failures < MaxFailures THEN subs[s].failures + 1
                      ELSE subs[s].failures
  <2>1. wk[w] \in Worker /\ s \in Subs
    BY WorkerBecomes DEF Worker
  <2>2. subs[s] \in Row /\ count \in Nat
    BY <1>1, <1>4, <2>1 DEF Failed, Delivered, Row
  <2>3. CASE Failed(w)
    <3>1. subs' = [subs EXCEPT ![s] = [subs[s] EXCEPT !.failures = count]]
      BY <1>1, <2>1, <2>3 DEF Failed
    <3>2. [subs[s] EXCEPT !.failures = count] \in Row
      BY <2>2 DEF Row
    <3> HIDE DEF count
    <3>3. /\ subs'[s] = [subs[s] EXCEPT !.failures = count] /\ subs'[s] \in Row
          /\ \A t \in Subs \ {s} : subs'[t] = subs[t]
      BY <1>1, <2>1, <3>1, <3>2
    <3>4. /\ subs'[s].source = subs[s].source /\ subs'[s].paused = subs[s].paused
          /\ subs'[s].hash = subs[s].hash /\ subs'[s].cursor = subs[s].cursor
      BY <2>2, <3>3 DEF Row
    <3> QED BY <1>1, <2>1, <2>2, <3>1, <3>2, <3>3, <3>4
  <2>4. CASE Delivered(w)
    <3> DEFINE n == wk[w].event.sequence
    <3>1. n \in Nat
      BY <2>4 DEF Delivered, TypeInv, HoldsEvent, Holding, Event
    <3>2. subs' = [subs EXCEPT ![s] = [subs[s] EXCEPT !.cursor = n, !.failures = 0]]
      BY <1>1, <2>1, <2>4 DEF Delivered
    <3>3. [subs[s] EXCEPT !.cursor = n, !.failures = 0] \in Row
      BY <2>2, <3>1 DEF Row
    <3> HIDE DEF n
    <3>4. /\ subs'[s] = [subs[s] EXCEPT !.cursor = n, !.failures = 0] /\ subs'[s] \in Row
          /\ \A t \in Subs \ {s} : subs'[t] = subs[t]
      BY <1>1, <2>1, <3>2, <3>3
    <3>5. /\ subs'[s].source = subs[s].source /\ subs'[s].paused = subs[s].paused
          /\ subs'[s].hash = subs[s].hash /\ subs'[s].cursor = n
      BY <2>2, <3>4 DEF Row
    <3>6. wk[w].pc = "answered" /\ wk'[w].pc = "top"
      BY <2>4 DEF Delivered
    <3> QED BY <1>1, <2>1, <2>2, <3>2, <3>3, <3>4, <3>5, <3>6 DEF n
  <2> QED BY <1>4, <2>3, <2>4
<1> QED BY <1>2, <1>3, <1>4

LEMMA WorkerHandled ==
  ASSUME TypeInv, NEW w \in Workers, WorkerStep(w) \/ TargetAccepts(w)
  PROVE  \/ handled' = handled
         \/ /\ wk[w].pc = "await" /\ wk'[w].pc = "answered" /\ wk'[w].event = wk[w].event
            /\ handled' = [handled EXCEPT ![wk[w].sub] = @ \cup {wk[w].event}]
<1>1. CASE TargetAccepts(w)
  <2>1. wk \in [Workers -> Worker \cup {Exited}] /\ wk[w] \in Worker
    BY WorkerBecomes DEF TypeInv, PushTypeOK
  <2>2. wk'[w].pc = "answered" /\ wk'[w].event = wk[w].event
    BY <1>1, <2>1 DEF TargetAccepts, Goto, Worker
  <2> QED BY <1>1, <2>2 DEF TargetAccepts
<1>2. CASE WorkerStep(w)
  BY <1>2 DEF WorkerStep, GetRow, GetSecret, ReadBatch, Send, CommitCursor, CommitFails,
         AttemptFails, RecordFailure, Wake
<1> QED BY <1>1, <1>2

LEMMA WorkerTyped ==
  ASSUME TypeInv, NEW w \in Workers, WorkerStep(w) \/ TargetAccepts(w)
  PROVE  TypeInv'
<1>1. /\ wk[w] \in Worker /\ Becomes(wk[w], wk'[w])
      /\ wk' = [wk EXCEPT ![w] = wk'[w]]
  BY WorkerBecomes
<1>2. PushTypeOK /\ HoldsEvent /\ IInv
  BY DEF TypeInv
<1>3. wk' \in [Workers -> Worker \cup {Exited}] /\ HoldsEvent'
  BY <1>1, <1>2 DEF PushTypeOK, HoldsEvent, Becomes, Exited, Holding
<1>4. IngestTypeOK' /\ IInv'
  <2>1. IngestTypeOK'
    <3>1. /\ events' = events /\ accepted' = accepted /\ newestPruned' = newestPruned
          /\ now' = now /\ req' = req /\ NotifierTypeOK'
      BY WorkerFrame DEF storeVars
    <3>2. StoreTypeOK'
      BY <1>2, <3>1 DEF PushTypeOK, IngestTypeOK, StoreTypeOK
    <3> QED BY <1>2, <3>1, <3>2 DEF PushTypeOK, IngestTypeOK
  <2> QED BY <2>1, WorkerFrame, SameStore
<1>5. handled' \in [Subs -> SUBSET Event]
  <2>1. wk[w].sub \in Subs /\ (wk[w].pc = "await" => wk[w].event \in Event)
    BY <1>1, <1>2 DEF Worker, HoldsEvent, Holding
  <2> QED BY <1>2, <2>1, WorkerHandled DEF PushTypeOK
<1> QED BY <1>2, <1>3, <1>4, <1>5, WorkerRows, WorkerFrame DEF TypeInv, PushTypeOK

-----------------------------------------------------------------------------
(* The administrative handlers.                                            *)

Operation == {OpIdle} \cup Inserting \cup Adding \cup Ensuring \cup Rotating
             \cup Fetching \cup Detaching \cup Cancelling

\* What a handler remembers at each of its steps.
LEMMA OperationFields ==
  ASSUME TypeInv, NEW a \in Admins
  PROVE  /\ op[a] \in Operation
         /\ op[a].pc # "idle" => op[a].sub \in Subs
         /\ op[a].pc = "insert" => op[a] \in Inserting
         /\ op[a].pc = "add" => op[a] \in Adding
         /\ op[a].pc = "ensure" => op[a] \in Ensuring
         /\ op[a].pc = "rotate" => op[a] \in Rotating
         /\ op[a].pc = "cancel" => op[a] \in Cancelling
         /\ op[a] # OpIdle <=> op[a].pc # "idle"
<1>1. op[a] \in Operation
  BY DEF TypeInv, PushTypeOK, Operation
<1> QED BY <1>1 DEF Operation, OpIdle, Inserting, Adding, Ensuring, Rotating, Fetching, Detaching,
                    Cancelling

\* A handler that moves on.
LEMMA OperationTyped ==
  ASSUME TypeInv, NEW a \in Admins, NEW next \in Operation, op' = [op EXCEPT ![a] = next]
  PROVE  /\ op' \in [Admins -> {OpIdle} \cup Inserting \cup Adding \cup Ensuring \cup Rotating
                             \cup Fetching \cup Detaching \cup Cancelling]
         /\ op'[a] = next /\ \A b \in Admins \ {a} : op'[b] = op[b]
BY DEF TypeInv, PushTypeOK, Operation

LEMMA AdminFrame ==
  ASSUME \/ \E a \in Admins : AdminStep(a) \/ \E s \in Subs : AdminBegin(a, s)
         \/ \E owned \in SUBSET Subs : DeactivateOwner(owned)
  PROVE  UNCHANGED <<storeVars, now, req, handled>>
BY DEF AdminStep, AdminBegin, DeactivateOwner, InsertRow, AddSecret, EnsureWorker, FetchRow,
       RotateSecret, Detach, CancelWorker, BeginCreate, PauseRow, ResumeRow, RotateRow, DeleteRow,
       ingestVars, storeVars

LEMMA StepTyped ==
  ASSUME TypeInv, NEW a \in Admins, AdminStep(a)
  PROVE  TypeInv'
<1>1. /\ subs \in [Subs -> Row \cup {None}] /\ workers \in [Subs -> Workers \cup {None}]
      /\ secrets \in [Subs -> 0..MaxSecrets] /\ wk \in [Workers -> Worker \cup {Exited}]
      /\ minted \in [Subs -> 0..MaxSecrets] /\ opsLeft \in 0..MaxOps
      /\ start \in [Subs -> Nat \cup {-1}] /\ handled \in [Subs -> SUBSET Event]
      /\ HoldsEvent /\ PushTypeOK
  BY DEF TypeInv, PushTypeOK
<1>2. CASE InsertRow(a)
  <2>1. op[a] \in Inserting
    BY <1>2, OperationFields DEF InsertRow
  <2>2. [source |-> op[a].source, cursor |-> op[a].cursor, paused |-> FALSE,
         hash |-> op[a].secret, failures |-> 0] \in Row
    BY <2>1, PushAssumption DEF Inserting, Row
  <2>3. subs' \in [Subs -> Row \cup {None}]
    BY <1>1, <1>2, <2>2 DEF InsertRow
  <2>4. [pc |-> "add", sub |-> op[a].sub, source |-> op[a].source, secret |-> op[a].secret]
          \in Operation
    BY <2>1 DEF Inserting, Adding, Operation
  <2>5. op' \in [Admins -> Operation]
    BY <1>2, <2>4, OperationTyped DEF InsertRow, Operation
  <2>6. IngestTypeOK' /\ IInv'
    BY <1>2, SameIngest DEF InsertRow
  <2> QED BY <1>1, <1>2, <2>3, <2>5, <2>6 DEF InsertRow, TypeInv, PushTypeOK, HoldsEvent, Operation
<1>3. CASE AddSecret(a)
  <2>1. op[a] \in Adding
    BY <1>3, OperationFields DEF AddSecret
  <2>2. secrets' \in [Subs -> 0..MaxSecrets]
    BY <1>1, <1>3, <2>1 DEF AddSecret, Adding
  <2>3. [pc |-> "ensure", sub |-> op[a].sub, source |-> op[a].source] \in Operation
    BY <2>1 DEF Adding, Ensuring, Operation
  <2>4. op' \in [Admins -> Operation]
    BY <1>3, <2>3, OperationTyped DEF AddSecret, Operation
  <2>5. IngestTypeOK' /\ IInv'
    BY <1>3, SameIngest DEF AddSecret
  <2> QED BY <1>1, <1>3, <2>2, <2>4, <2>5 DEF AddSecret, TypeInv, PushTypeOK, HoldsEvent, Operation
<1>4. OpIdle \in Operation
  BY DEF Operation
<1>5. CASE EnsureWorker(a)
  <2>1. op[a] \in Ensuring
    BY <1>5, OperationFields DEF EnsureWorker
  <2>2. op' \in [Admins -> Operation]
    BY <1>4, <1>5, OperationTyped DEF EnsureWorker, Operation
  <2>3. CASE UNCHANGED <<workers, wk, notifierVars>>
    <3>1. IngestTypeOK' /\ IInv'
      BY <1>5, <2>3, SameIngest DEF EnsureWorker, ingestVars, storeVars, notifierVars
    <3> QED BY <1>1, <1>5, <2>2, <2>3, <3>1 DEF EnsureWorker, TypeInv, PushTypeOK, HoldsEvent, Operation
  <2>4. ASSUME NEW w \in Workers, Subscribe(op[a].source, w),
               workers' = [workers EXCEPT ![op[a].sub] = w],
               wk' = [wk EXCEPT ![w] = Spawned(op[a].sub, op[a].source)]
        PROVE  TypeInv'
    <3>1. Spawned(op[a].sub, op[a].source) \in Worker
      BY <2>1 DEF Ensuring, Spawned, Worker, WorkerStates
    <3>2. Spawned(op[a].sub, op[a].source).pc \notin Holding
      BY DEF Spawned, Holding
    <3>3. wk' \in [Workers -> Worker \cup {Exited}] /\ HoldsEvent'
      <4> DEFINE X == Spawned(op[a].sub, op[a].source)
      <4> HIDE DEF X
      <4>1. X \in Worker /\ X.pc \notin Holding /\ wk' = [wk EXCEPT ![w] = X]
        BY <2>4, <3>1, <3>2 DEF X
      <4> QED BY <1>1, <4>1 DEF HoldsEvent
    <3>4. workers' \in [Subs -> Workers \cup {None}]
      BY <1>1, <2>1, <2>4 DEF Ensuring
    <3>5. registered' \in [Sources -> SUBSET Channels] /\ signal' \in [Channels -> BOOLEAN]
      BY <1>1, <2>1, <2>4 DEF Subscribe, PushTypeOK, IngestTypeOK, NotifierTypeOK, Ensuring, Workers
    <3>6. UNCHANGED <<storeVars, now>> /\ IngestTypeOK'
      BY <1>1, <1>5, <3>5 DEF EnsureWorker, PushTypeOK, IngestTypeOK, StoreTypeOK, NotifierTypeOK,
                              storeVars
    <3>7. IInv'
      BY <3>6, SameStore
    <3> QED BY <1>1, <1>5, <2>2, <3>3, <3>4, <3>6, <3>7
            DEF EnsureWorker, TypeInv, PushTypeOK, Operation
  <2> QED BY <1>5, <2>3, <2>4 DEF EnsureWorker
<1>6. CASE FetchRow(a)
  <2>1. op[a].sub \in Subs
    BY <1>6, OperationFields DEF FetchRow
  <2>2. (IF subs[op[a].sub] = None THEN OpIdle
         ELSE [pc |-> "ensure", sub |-> op[a].sub, source |-> subs[op[a].sub].source]) \in Operation
    <3>1. CASE subs[op[a].sub] = None
      BY <1>4, <3>1
    <3>2. CASE subs[op[a].sub] # None
      <4>1. subs[op[a].sub].source \in Sources
        BY <1>1, <2>1, <3>2 DEF Row
      <4> QED BY <2>1, <3>2, <4>1 DEF Ensuring, Operation
    <3> QED BY <3>1, <3>2
  <2>3. op' \in [Admins -> Operation]
    BY <1>6, <2>2, OperationTyped DEF FetchRow, Operation
  <2>4. IngestTypeOK' /\ IInv'
    BY <1>6, SameIngest DEF FetchRow
  <2> QED BY <1>1, <1>6, <2>3, <2>4 DEF FetchRow, TypeInv, PushTypeOK, HoldsEvent, Operation
<1>7. CASE RotateSecret(a)
  <2>1. op[a] \in Rotating
    BY <1>7, OperationFields DEF RotateSecret
  <2>2. secrets' \in [Subs -> 0..MaxSecrets]
    BY <1>1, <1>7, <2>1 DEF RotateSecret, Rotating
  <2>3. op' \in [Admins -> Operation]
    BY <1>4, <1>7, OperationTyped DEF RotateSecret, Operation
  <2>4. IngestTypeOK' /\ IInv'
    BY <1>7, SameIngest DEF RotateSecret
  <2> QED BY <1>1, <1>7, <2>2, <2>3, <2>4 DEF RotateSecret, TypeInv, PushTypeOK, HoldsEvent, Operation
<1>8. CASE Detach(a)
  <2> DEFINE s == op[a].sub
  <2>1. s \in Subs
    BY <1>8, OperationFields DEF Detach
  <2>2. (IF workers[s] = None THEN OpIdle
         ELSE [pc |-> "cancel", sub |-> s, worker |-> workers[s]]) \in Operation
    <3>1. CASE workers[s] = None
      BY <1>4, <3>1
    <3>2. CASE workers[s] # None
      <4>1. workers[s] \in Channels
        BY <1>1, <2>1, <3>2 DEF Workers
      <4> QED BY <2>1, <3>2, <4>1 DEF Cancelling, Operation
    <3> QED BY <3>1, <3>2
  <2>3. op' \in [Admins -> Operation]
    BY <1>8, <2>2, OperationTyped DEF Detach, Operation
  <2>4. workers' \in [Subs -> Workers \cup {None}] /\ secrets' \in [Subs -> 0..MaxSecrets]
    BY <1>1, <1>8, <2>1, PushAssumption DEF Detach
  <2>5. IngestTypeOK' /\ IInv'
    BY <1>8, SameIngest DEF Detach
  <2> QED BY <1>1, <1>8, <2>3, <2>4, <2>5 DEF Detach, TypeInv, PushTypeOK, HoldsEvent, Operation
<1>9. CASE CancelWorker(a)
  <2> DEFINE w == op[a].worker
             X == [wk[w] EXCEPT !.cancelled = TRUE]
  <2>1. w \in Workers
    BY <1>9, OperationFields DEF CancelWorker, Cancelling, Workers
  <2>2. op' \in [Admins -> Operation]
    BY <1>4, <1>9, OperationTyped DEF CancelWorker, Operation
  <2>3. wk' \in [Workers -> Worker \cup {Exited}] /\ HoldsEvent'
    <3>1. CASE wk' = wk
      BY <1>1, <3>1 DEF HoldsEvent
    <3>2. CASE wk[w] # Exited /\ wk' = [wk EXCEPT ![w] = X]
      <4>1. wk[w] \in Worker
        BY <1>1, <2>1, <3>2
      <4>2. X \in Worker /\ X.pc = wk[w].pc /\ X.event = wk[w].event /\ X.source = wk[w].source
        BY <4>1 DEF Worker
      <4> HIDE DEF X
      <4> QED BY <1>1, <2>1, <3>2, <4>2 DEF HoldsEvent
    <3> QED BY <1>9, <3>1, <3>2 DEF CancelWorker
  <2>4. IngestTypeOK' /\ IInv'
    BY <1>9, SameIngest DEF CancelWorker
  <2> QED BY <1>1, <1>9, <2>2, <2>3, <2>4 DEF CancelWorker, TypeInv, PushTypeOK, Operation
<1> QED BY <1>2, <1>3, <1>5, <1>6, <1>7, <1>8, <1>9 DEF AdminStep

LEMMA BeginTyped ==
  ASSUME TypeInv, NEW a \in Admins, NEW s \in Subs, AdminBegin(a, s)
  PROVE  TypeInv'
<1>1. /\ subs \in [Subs -> Row \cup {None}]
      /\ minted \in [Subs -> 0..MaxSecrets] /\ opsLeft \in 0..MaxOps
      /\ start \in [Subs -> Nat \cup {-1}]
      /\ HoldsEvent /\ PushTypeOK
  BY DEF TypeInv, PushTypeOK
<1>2. UNCHANGED <<ingestVars, workers, secrets, wk, handled>> /\ HoldsEvent'
  BY <1>1 DEF AdminBegin, BeginCreate, PauseRow, ResumeRow, RotateRow, DeleteRow, HoldsEvent
<1>3. IngestTypeOK' /\ IInv'
  BY <1>2, SameIngest
<1>4. ASSUME NEW next \in Operation, Begin(a, next)
      PROVE  op' \in [Admins -> Operation] /\ opsLeft' \in 0..MaxOps
  <2>1. op' \in [Admins -> Operation]
    BY <1>4, OperationTyped DEF Begin, Operation
  <2> QED BY <1>1, <1>4, <2>1, PushAssumption DEF Begin
<1>5. ASSUME Mint(s)
      PROVE  minted' \in [Subs -> 0..MaxSecrets] /\ minted[s] + 1 \in 0..MaxSecrets
  <2>1. minted[s] + 1 \in 0..MaxSecrets
    BY <1>1, <1>5, PushAssumption DEF Mint
  <2> QED BY <1>1, <1>5, <2>1 DEF Mint
<1>6. ASSUME NEW row \in Row \cup {None}, subs' = [subs EXCEPT ![s] = row]
      PROVE  subs' \in [Subs -> Row \cup {None}]
  BY <1>1, <1>6
<1>7. ASSUME NEW src \in Sources, NEW cursor \in Since \cup {LatestSequence(src)},
             BeginCreate(a, s, src, cursor)
      PROVE  TypeInv'
  <2>1. cursor \in Nat
    BY LatestInLog, PushAssumption DEF TypeInv, IInv
  <2>2. minted' \in [Subs -> 0..MaxSecrets] /\ minted[s] + 1 \in 0..MaxSecrets
    BY <1>5, <1>7 DEF BeginCreate
  <2>3. [pc |-> "insert", sub |-> s, source |-> src, cursor |-> cursor,
         secret |-> minted[s] + 1] \in Operation
    BY <2>1, <2>2 DEF Inserting, Operation
  <2>4. op' \in [Admins -> Operation] /\ opsLeft' \in 0..MaxOps
    BY <1>4, <1>7, <2>3 DEF BeginCreate
  <2>5. start' \in [Subs -> Nat \cup {-1}]
    BY <1>1, <1>7, <2>1 DEF BeginCreate
  <2> QED BY <1>1, <1>2, <1>3, <1>7, <2>2, <2>4, <2>5
          DEF BeginCreate, TypeInv, PushTypeOK, Operation
<1>8. CASE PauseRow(a, s)
  <2>1. op' \in [Admins -> Operation] /\ opsLeft' \in 0..MaxOps
    BY <1>4, <1>8 DEF PauseRow, Detaching, Operation
  <2>2. subs' \in [Subs -> Row \cup {None}]
    <3>1. CASE subs[s] = None
      BY <1>1, <1>8, <3>1 DEF PauseRow
    <3>2. CASE subs[s] # None
      <4>1. [subs[s] EXCEPT !.paused = TRUE] \in Row
        BY <1>1, <3>2 DEF Row
      <4> QED BY <1>1, <1>6, <1>8, <3>2, <4>1 DEF PauseRow
    <3> QED BY <3>1, <3>2
  <2> QED BY <1>1, <1>2, <1>3, <1>8, <2>1, <2>2 DEF PauseRow, TypeInv, PushTypeOK, Operation
<1>9. CASE ResumeRow(a, s)
  <2>1. op' \in [Admins -> Operation] /\ opsLeft' \in 0..MaxOps
    BY <1>4, <1>9 DEF ResumeRow, Fetching, Operation
  <2>2. [subs[s] EXCEPT !.paused = FALSE] \in Row
    BY <1>1, <1>9 DEF ResumeRow, Row
  <2>3. subs' \in [Subs -> Row \cup {None}]
    BY <1>1, <1>6, <1>9, <2>2 DEF ResumeRow
  <2> QED BY <1>1, <1>2, <1>3, <1>9, <2>1, <2>3 DEF ResumeRow, TypeInv, PushTypeOK, Operation
<1>10. CASE RotateRow(a, s)
  <2>1. minted' \in [Subs -> 0..MaxSecrets] /\ minted[s] + 1 \in 0..MaxSecrets
    BY <1>5, <1>10 DEF RotateRow
  <2>2. [pc |-> "rotate", sub |-> s, secret |-> minted[s] + 1] \in Operation
    BY <2>1 DEF Rotating, Operation
  <2>3. op' \in [Admins -> Operation] /\ opsLeft' \in 0..MaxOps
    BY <1>4, <1>10, <2>2 DEF RotateRow
  <2>4. [subs[s] EXCEPT !.hash = minted[s] + 1] \in Row
    BY <1>1, <1>10, <2>1 DEF RotateRow, Row
  <2>5. subs' \in [Subs -> Row \cup {None}]
    BY <1>1, <1>6, <1>10, <2>4 DEF RotateRow
  <2> QED BY <1>1, <1>2, <1>3, <1>10, <2>1, <2>3, <2>5
          DEF RotateRow, TypeInv, PushTypeOK, Operation
<1>11. CASE DeleteRow(a, s)
  <2>1. op' \in [Admins -> Operation] /\ opsLeft' \in 0..MaxOps
    BY <1>4, <1>11 DEF DeleteRow, Detaching, Operation
  <2>2. subs' \in [Subs -> Row \cup {None}]
    BY <1>1, <1>6, <1>11 DEF DeleteRow
  <2> QED BY <1>1, <1>2, <1>3, <1>11, <2>1, <2>2 DEF DeleteRow, TypeInv, PushTypeOK, Operation
<1> QED BY <1>7, <1>8, <1>9, <1>10, <1>11 DEF AdminBegin

LEMMA DeactivateTyped ==
  ASSUME TypeInv, NEW owned \in SUBSET Subs, DeactivateOwner(owned)
  PROVE  TypeInv'
<1>1. /\ subs \in [Subs -> Row \cup {None}] /\ opsLeft \in 0..MaxOps
      /\ HoldsEvent /\ PushTypeOK
  BY DEF TypeInv, PushTypeOK
<1>2. IngestTypeOK' /\ IInv'
  BY SameIngest DEF DeactivateOwner
<1>3. subs' \in [Subs -> Row \cup {None}]
  <2>1. ASSUME NEW s \in Subs, subs[s] # None PROVE [subs[s] EXCEPT !.paused = TRUE] \in Row
    BY <1>1, <2>1 DEF Row
  <2> QED BY <1>1, <2>1 DEF DeactivateOwner
<1> QED BY <1>1, <1>2, <1>3, PushAssumption DEF DeactivateOwner, TypeInv, PushTypeOK, HoldsEvent

\* The goroutines of a restarted process, one for every row that is not paused.
Active == {s \in Subs : subs[s] # None /\ ~subs[s].paused}

Restarted(f) ==
  /\ f \in [Active -> Workers]
  /\ \A s, t \in Active : f[s] = f[t] => s = t
  /\ \A s \in Active : /\ workers'[s] = f[s]
                       /\ wk'[f[s]] = Spawned(s, subs[s].source)
                       /\ f[s] \in registered'[subs[s].source]
  /\ \A s \in Subs \ Active : workers'[s] = None
  /\ \A w \in Workers : (\A s \in Active : f[s] # w) => wk'[w] = Exited

LEMMA RestartSpawns ==
  ASSUME TypeInv, RestartPush
  PROVE  \E f : Restarted(f)
<1> USE DEF Active
<1>1. PICK f \in [Active -> Workers] :
        /\ \A s, t \in Active : f[s] = f[t] => s = t
        /\ workers' = [s \in Subs |-> IF s \in Active THEN f[s] ELSE None]
        /\ wk' = [w \in Workers |->
                    IF \E s \in Active : f[s] = w
                    THEN LET s == CHOOSE t \in Active : f[t] = w IN Spawned(s, subs[s].source)
                    ELSE Exited]
        /\ registered' = [src \in Sources |->
                            {f[s] : s \in {t \in Active : subs[t].source = src}}]
  BY DEF RestartPush
<1>2. ASSUME NEW s \in Active PROVE wk'[f[s]] = Spawned(s, subs[s].source)
  <2>1. (CHOOSE t \in Active : f[t] = f[s]) = s
    BY <1>1
  <2>2. f[s] \in Workers
    BY <1>1
  <2> QED BY <1>1, <2>1, <2>2
<1>3. ASSUME NEW s \in Active PROVE f[s] \in registered'[subs[s].source]
  <2>1. subs[s].source \in Sources
    BY DEF TypeInv, PushTypeOK, Row
  <2>2. registered'[subs[s].source] =
          {f[t] : t \in {u \in Active : subs[u].source = subs[s].source}}
    BY <1>1, <2>1
  <2>3. s \in {u \in Active : subs[u].source = subs[s].source}
    OBVIOUS
  <2> HIDE DEF Active
  <2> QED BY <2>2, <2>3
<1>4. /\ \A s \in Active : workers'[s] = f[s]
      /\ \A s \in Subs \ Active : workers'[s] = None
      /\ \A w \in Workers : (\A s \in Active : f[s] # w) => wk'[w] = Exited
  BY <1>1
<1> HIDE DEF Active
<1>5. Restarted(f)
  BY <1>1, <1>2, <1>3, <1>4 DEF Restarted
<1> QED BY <1>5

LEMMA RestartTyped ==
  ASSUME TypeInv, RestartPush
  PROVE  TypeInv'
<1>1. /\ subs \in [Subs -> Row \cup {None}] /\ opsLeft \in 0..MaxOps
      /\ PushTypeOK /\ IngestTypeOK
  BY DEF TypeInv, PushTypeOK
<1>2. PICK f : Restarted(f)
  BY RestartSpawns
<1>3. ASSUME NEW w \in Workers
      PROVE  wk'[w] \in Worker \cup {Exited} /\ wk'[w].pc \notin Holding
  <2>1. CASE \E s \in Active : f[s] = w
    <3>1. PICK s \in Active : f[s] = w
      BY <2>1
    <3>2. s \in Subs /\ subs[s].source \in Sources
      BY <1>1, <3>1 DEF Active, Row
    <3>3. wk'[w] = Spawned(s, subs[s].source)
      BY <1>2, <3>1 DEF Restarted
    <3>4. Spawned(s, subs[s].source) \in Worker /\ Spawned(s, subs[s].source).pc \notin Holding
      BY <3>2 DEF Spawned, Worker, WorkerStates, Holding
    <3> QED BY <3>3, <3>4
  <2>2. CASE \A s \in Active : f[s] # w
    BY <1>2, <2>2 DEF Restarted, Exited, Holding
  <2> QED BY <2>1, <2>2
<1>4. wk' = [w \in Workers |-> wk'[w]]
  BY DEF RestartPush
<1>5. wk' \in [Workers -> Worker \cup {Exited}] /\ HoldsEvent'
  BY <1>3, <1>4 DEF HoldsEvent
<1>6. workers' \in [Subs -> Workers \cup {None}] /\ registered' \in [Sources -> SUBSET Channels]
  BY DEF RestartPush, Workers
<1>7. UNCHANGED <<storeVars, now>> /\ IngestTypeOK'
  BY <1>1, <1>6 DEF RestartPush, IngestTypeOK, StoreTypeOK, NotifierTypeOK, storeVars
<1>8. IInv'
  BY <1>7, SameStore
<1> QED BY <1>1, <1>5, <1>6, <1>7, <1>8, PushAssumption DEF RestartPush, TypeInv, PushTypeOK

LEMMA IngestTyped ==
  ASSUME TypeInv, IngestNext, UNCHANGED pushVars
  PROVE  TypeInv'
<1>1. IInv'
  BY NextKeepsIInv DEF TypeInv, Next
<1> QED BY <1>1 DEF TypeInv, PushTypeOK, HoldsEvent, IInv, pushVars

-----------------------------------------------------------------------------
LEMMA InitTyped == PushInit => TypeInv
<1> SUFFICES ASSUME PushInit PROVE TypeInv
  OBVIOUS
<1>1. IInv /\ IngestTypeOK
  BY InitIInv DEF PushInit, IInv
<1>2. HoldsEvent
  BY DEF PushInit, HoldsEvent, Holding, Exited
<1> QED BY <1>1, <1>2, PushAssumption DEF PushInit, TypeInv, PushTypeOK

LEMMA NextTyped == TypeInv /\ [PushNext]_vars => TypeInv'
<1> SUFFICES ASSUME TypeInv, [PushNext]_vars PROVE TypeInv'
  OBVIOUS
<1>1. CASE UNCHANGED vars
  BY <1>1, SameIngest DEF vars, pushVars, TypeInv, PushTypeOK, HoldsEvent
<1> QED BY <1>1, IngestTyped, WorkerTyped, StepTyped, BeginTyped, DeactivateTyped, RestartTyped
        DEF PushNext

\* Rows, maps, goroutines and handlers keep their types (internal/push).
THEOREM PushTypeCorrect == PushSpec => []PushTypeOK
<1>1. PushSpec => []TypeInv
  BY InitTyped, NextTyped, PTL DEF PushSpec
<1>2. TypeInv => PushTypeOK
  BY DEF TypeInv
<1> QED BY <1>1, <1>2, PTL

-----------------------------------------------------------------------------
(* Ids.  A subscription keeps its source for life: rows, goroutines and    *)
(* handlers that remember one remember the same, and nobody speaks of a    *)
(* subscription before it is created.                                      *)

AgreeOn(of) ==
  /\ \A s \in Subs : subs[s] # None => subs[s].source = of[s]
  /\ \A w \in Workers : wk[w].pc # "exited" => wk[w].source = of[wk[w].sub]
  /\ \A a \in Admins : op[a].pc \in {"insert", "add", "ensure"} => op[a].source = of[op[a].sub]

Unknown(s) ==
  /\ subs[s] = None
  /\ \A w \in Workers : wk[w].pc # "exited" => wk[w].sub # s
  /\ \A a \in Admins : op[a].pc # "idle" => op[a].sub # s

IdInv ==
  /\ \E of : AgreeOn(of)
  /\ \A s \in Subs : start[s] = -1 => Unknown(s)

LEMMA WorkerIds ==
  ASSUME TypeInv, IdInv, NEW w \in Workers, WorkerStep(w) \/ TargetAccepts(w)
  PROVE  IdInv'
<1>1. /\ wk \in [Workers -> Worker \cup {Exited}]
      /\ wk[w] \in Worker /\ wk[w].pc # "exited" /\ Becomes(wk[w], wk'[w])
      /\ wk' = [wk EXCEPT ![w] = wk'[w]]
  BY WorkerBecomes DEF TypeInv, PushTypeOK, Worker
<1>2. op' = op /\ start' = start
  BY WorkerFrame
<1>3. \A v \in Workers : wk'[v].pc # "exited" =>
        wk[v].pc # "exited" /\ wk'[v].sub = wk[v].sub /\ wk'[v].source = wk[v].source
  BY <1>1 DEF Becomes, Exited
<1>4. /\ \A s \in Subs : subs'[s] = None <=> subs[s] = None
      /\ \A s \in Subs : subs[s] # None => subs'[s].source = subs[s].source
  BY WorkerRows
<1>5. ASSUME NEW of, AgreeOn(of) PROVE AgreeOn(of)'
  BY <1>2, <1>3, <1>4, <1>5 DEF AgreeOn
<1>6. ASSUME NEW s \in Subs, Unknown(s) PROVE Unknown(s)'
  BY <1>2, <1>3, <1>4, <1>6 DEF Unknown
<1> QED BY <1>2, <1>5, <1>6 DEF IdInv

LEMMA StepIds ==
  ASSUME TypeInv, IdInv, NEW a \in Admins, AdminStep(a)
  PROVE  IdInv'
<1> DEFINE s == op[a].sub
<1>1. /\ subs \in [Subs -> Row \cup {None}] /\ wk \in [Workers -> Worker \cup {Exited}]
      /\ op \in [Admins -> Operation] /\ start' = start
  BY DEF TypeInv, PushTypeOK, Operation, AdminStep, InsertRow, AddSecret, EnsureWorker, FetchRow,
         RotateSecret, Detach, CancelWorker
<1>2. op[a].pc # "idle" /\ s \in Subs
  BY OperationFields DEF AdminStep, InsertRow, AddSecret, EnsureWorker, FetchRow, RotateSecret,
                         Detach, CancelWorker
\* The handler goes on with its subscription, and the source is what it was.
<1>3. /\ op'[a].pc # "idle" => op'[a].sub = s
      /\ op'[a].pc \in {"insert", "add", "ensure"} =>
           \/ op[a].pc \in {"insert", "add"} /\ op'[a].source = op[a].source
           \/ subs[s] # None /\ op'[a].source = subs[s].source
      /\ \A b \in Admins \ {a} : op'[b] = op[b]
  BY <1>1 DEF AdminStep, InsertRow, AddSecret, EnsureWorker, FetchRow, RotateSecret, Detach,
              CancelWorker, OpIdle
<1>4. \A t \in Subs : subs'[t] # None =>
        \/ subs[t] # None /\ subs'[t].source = subs[t].source
        \/ t = s /\ op[a].pc = "insert" /\ subs'[t].source = op[a].source
  BY <1>1 DEF AdminStep, InsertRow, AddSecret, EnsureWorker, FetchRow, RotateSecret, Detach,
              CancelWorker
<1>5. \A w \in Workers : wk'[w].pc # "exited" =>
        \/ wk[w].pc # "exited" /\ wk'[w].sub = wk[w].sub /\ wk'[w].source = wk[w].source
        \/ op[a].pc = "ensure" /\ wk'[w].sub = s /\ wk'[w].source = op[a].source
  <2>1. CASE UNCHANGED wk
    BY <2>1
  <2>2. CASE EnsureWorker(a)
    BY <1>1, <2>2 DEF EnsureWorker, Spawned
  <2>3. CASE CancelWorker(a)
    <3>1. op[a].worker \in Workers
      BY <2>3, OperationFields DEF CancelWorker, Cancelling, Workers
    <3>2. CASE wk[op[a].worker] # Exited
      <4>1. wk[op[a].worker] \in Worker
        BY <1>1, <3>1, <3>2
      <4> QED BY <1>1, <2>3, <3>1, <3>2, <4>1 DEF CancelWorker, Worker
    <3> QED BY <2>1, <2>3, <3>2 DEF CancelWorker
  <2>4. UNCHANGED wk \/ EnsureWorker(a) \/ CancelWorker(a)
    BY DEF AdminStep, InsertRow, AddSecret, FetchRow, RotateSecret, Detach
  <2> QED BY <2>1, <2>2, <2>3, <2>4
<1> HIDE DEF s
<1>6. ASSUME NEW of, AgreeOn(of) PROVE AgreeOn(of)'
  BY <1>2, <1>3, <1>4, <1>5, <1>6 DEF AgreeOn, s
<1>7. ASSUME NEW t \in Subs, Unknown(t) PROVE Unknown(t)'
  BY <1>2, <1>3, <1>4, <1>5, <1>7 DEF Unknown, s
<1> QED BY <1>1, <1>6, <1>7 DEF IdInv

LEMMA BeginIds ==
  ASSUME TypeInv, IdInv, NEW a \in Admins, NEW s \in Subs, AdminBegin(a, s)
  PROVE  IdInv'
<1>1. /\ subs \in [Subs -> Row \cup {None}] /\ op \in [Admins -> Operation] /\ wk' = wk
      /\ start \in [Subs -> Nat \cup {-1}] /\ wk \in [Workers -> Worker \cup {Exited}]
  BY DEF TypeInv, PushTypeOK, Operation, AdminBegin, BeginCreate, PauseRow, ResumeRow, RotateRow,
         DeleteRow
<1>2. PICK of : AgreeOn(of)
  BY DEF IdInv
<1>3. ASSUME NEW src \in Sources, NEW cursor \in Since \cup {LatestSequence(src)},
             BeginCreate(a, s, src, cursor)
      PROVE  IdInv'
  <2>1. cursor \in Nat
    BY LatestInLog, PushAssumption DEF TypeInv, IInv
  <2>2. /\ Unknown(s)
        /\ subs' = subs /\ op' = [op EXCEPT ![a] = op'[a]]
        /\ op'[a].pc = "insert" /\ op'[a].sub = s /\ op'[a].source = src
        /\ start' = [start EXCEPT ![s] = cursor] /\ op[a].pc = "idle"
    BY <1>1, <1>3 DEF BeginCreate, Begin, IdInv, OpIdle
  <2> DEFINE new == [t \in Subs |-> IF t = s THEN src ELSE of[t]]
  <2>3. new[s] = src /\ \A t \in Subs \ {s} : new[t] = of[t]
    OBVIOUS
  <2> HIDE DEF new
  <2>4. \A t \in Subs : subs[t] # None => subs[t].source = new[t]
    BY <1>2, <2>2, <2>3 DEF AgreeOn, Unknown
  <2>5. \A w \in Workers : wk[w].pc # "exited" => wk[w].source = new[wk[w].sub]
    BY <1>2, <2>2, <2>3, RunningFields DEF AgreeOn, Unknown
  <2>6. \A b \in Admins : op'[b].pc \in {"insert", "add", "ensure"} =>
                            op'[b].source = new[op'[b].sub]
    <3> SUFFICES ASSUME NEW b \in Admins, b # a, op[b].pc \in {"insert", "add", "ensure"}
                 PROVE  op[b].source = new[op[b].sub]
      BY <1>1, <2>2, <2>3
    <3>1. op[b].sub \in Subs /\ op[b].sub # s
      BY <2>2, OperationFields DEF Unknown
    <3> QED BY <1>2, <2>3, <3>1 DEF AgreeOn
  <2>7. AgreeOn(new)'
    BY <1>1, <2>2, <2>4, <2>5, <2>6 DEF AgreeOn
  <2>8. ASSUME NEW t \in Subs, start'[t] = -1 PROVE Unknown(t)'
    <3>1. t # s /\ start[t] = -1
      BY <1>1, <2>1, <2>2, <2>8
    <3>2. Unknown(t)
      BY <3>1 DEF IdInv
    <3> QED BY <1>1, <2>2, <3>1, <3>2 DEF Unknown
  <2> QED BY <2>3, <2>7, <2>8 DEF IdInv
<1>4. CASE PauseRow(a, s) \/ ResumeRow(a, s) \/ RotateRow(a, s) \/ DeleteRow(a, s)
  <2>1. /\ start' = start /\ op[a].pc = "idle" /\ start[s] # -1
        /\ op'[a].sub = s /\ op'[a].pc \notin {"insert", "add", "ensure"}
        /\ \A b \in Admins \ {a} : op'[b] = op[b]
    <3>1. start[s] = -1 => subs[s] = None
      BY DEF IdInv, Unknown
    <3> QED BY <1>1, <1>4, <3>1 DEF PauseRow, ResumeRow, RotateRow, DeleteRow, Begin, OpIdle
  <2>2. \A t \in Subs : subs'[t] # None => subs[t] # None /\ subs'[t].source = subs[t].source
    <3>1. subs[s] # None => subs[s] \in Row
      BY <1>1
    <3> QED BY <1>1, <1>4, <3>1, PushAssumption DEF PauseRow, ResumeRow, RotateRow, DeleteRow, Row
  <2>3. AgreeOn(of)'
    BY <1>1, <1>2, <2>1, <2>2 DEF AgreeOn
  <2>4. ASSUME NEW t \in Subs, start'[t] = -1 PROVE Unknown(t)'
    <3>1. t # s /\ Unknown(t)
      BY <2>1, <2>4 DEF IdInv
    <3> QED BY <1>1, <2>1, <2>2, <3>1 DEF Unknown
  <2> QED BY <2>3, <2>4 DEF IdInv
<1> QED BY <1>3, <1>4 DEF AdminBegin

LEMMA DeactivateIds ==
  ASSUME TypeInv, IdInv, NEW owned \in SUBSET Subs, DeactivateOwner(owned)
  PROVE  IdInv'
<1>1. subs \in [Subs -> Row \cup {None}] /\ op' = op /\ wk' = wk /\ start' = start
  BY DEF TypeInv, PushTypeOK, DeactivateOwner
<1>2. \A s \in Subs : subs'[s] # None => subs[s] # None /\ subs'[s].source = subs[s].source
  <2>1. \A s \in Subs : subs[s] # None => [subs[s] EXCEPT !.paused = TRUE].source = subs[s].source
    BY <1>1 DEF Row
  <2> QED BY <1>1, <2>1 DEF DeactivateOwner
<1>3. ASSUME NEW of, AgreeOn(of) PROVE AgreeOn(of)'
  BY <1>1, <1>2, <1>3 DEF AgreeOn
<1>4. ASSUME NEW t \in Subs, Unknown(t) PROVE Unknown(t)'
  BY <1>1, <1>2, <1>4 DEF Unknown
<1> QED BY <1>1, <1>3, <1>4 DEF IdInv

LEMMA RestartIds ==
  ASSUME TypeInv, IdInv, RestartPush
  PROVE  IdInv'
<1>1. /\ subs' = subs /\ start' = start /\ \A a \in Admins : op'[a] = OpIdle
  BY DEF RestartPush
<1>2. PICK f : Restarted(f)
  BY RestartSpawns
<1>3. \A w \in Workers : wk'[w].pc # "exited" =>
        \E s \in Active : wk'[w].sub = s /\ wk'[w].source = subs[s].source
  <2> SUFFICES ASSUME NEW w \in Workers, wk'[w].pc # "exited"
               PROVE  \E s \in Active : wk'[w].sub = s /\ wk'[w].source = subs[s].source
    OBVIOUS
  <2>1. PICK s \in Active : f[s] = w
    BY <1>2 DEF Restarted, Exited
  <2>2. wk'[w] = Spawned(s, subs[s].source)
    BY <1>2, <2>1 DEF Restarted
  <2> QED BY <2>2 DEF Spawned
<1>4. ASSUME NEW of, AgreeOn(of) PROVE AgreeOn(of)'
  BY <1>1, <1>3, <1>4 DEF AgreeOn, Active, OpIdle
<1>5. ASSUME NEW t \in Subs, Unknown(t) PROVE Unknown(t)'
  BY <1>1, <1>3, <1>5 DEF Unknown, Active, OpIdle
<1> QED BY <1>1, <1>4, <1>5 DEF IdInv

LEMMA InitIds == PushInit => IdInv
<1> SUFFICES ASSUME PushInit PROVE IdInv
  OBVIOUS
<1>1. \A s \in Subs : Unknown(s)
  BY DEF PushInit, Unknown, Exited, OpIdle
<1>2. AgreeOn([s \in Subs |-> None])
  BY DEF PushInit, AgreeOn, Exited, OpIdle
<1> QED BY <1>1, <1>2 DEF IdInv

LEMMA NextIds == TypeInv /\ IdInv /\ [PushNext]_vars => IdInv'
<1> SUFFICES ASSUME TypeInv, IdInv, [PushNext]_vars PROVE IdInv'
  OBVIOUS
<1>1. CASE UNCHANGED pushVars
  BY <1>1 DEF pushVars, IdInv, AgreeOn, Unknown
<1> QED BY <1>1, WorkerIds, StepIds, BeginIds, DeactivateIds, RestartIds DEF PushNext, vars

-----------------------------------------------------------------------------
(* Positions.  A cursor that a row or a goroutine has never passes what is *)
(* not handled, and an event in hand is the next one.                      *)

Covered(src, s, n) == ~newestPruned[src] => Position(Rows(src), handled[s], start[s], n)

IsNext(src, s, e) == ~newestPruned[src] => Upcoming(Rows(src), handled[s], start[s], e)

RowsCovered == \A s \in Subs : subs[s] # None => Covered(subs[s].source, s, subs[s].cursor)

ReadersCovered ==
  \A w \in Workers : wk[w].pc \in {"secret", "read"} =>
    Covered(wk[w].source, wk[w].sub, wk[w].cursor)

HeldIsNext ==
  \A w \in Workers : wk[w].pc \in Holding => IsNext(wk[w].source, wk[w].sub, wk[w].event)

AnsweredIsHandled ==
  \A w \in Workers : wk[w].pc = "answered" => wk[w].event \in handled[wk[w].sub]

InsertsStart ==
  \A a \in Admins : op[a].pc = "insert" => op[a].cursor = start[op[a].sub]

CoverInv ==
  RowsCovered /\ ReadersCovered /\ HeldIsNext /\ AnsweredIsHandled /\ InsertsStart

\* The log is left alone or changes as Ingest says, and what is handled grows.
Onward ==
  /\ TypeInv /\ TypeInv'
  /\ IngestNext \/ UNCHANGED storeVars
  /\ \A s \in Subs : handled[s] \subseteq handled'[s]

LEMMA LogOnward ==
  ASSUME Onward, NEW src \in Sources, ~newestPruned'[src]
  PROVE  /\ ~newestPruned[src]
         /\ Numbered(Rows(src)) /\ Numbered(Rows(src)')
         /\ Grown(Rows(src), Rows(src)') \/ Shrunk(Rows(src), Rows(src)')
<1>1. CASE IngestNext
  BY <1>1, LogKept DEF Onward, TypeInv
<1>2. CASE UNCHANGED storeVars
  <2>1. Rows(src)' = Rows(src) /\ newestPruned' = newestPruned
    BY <1>2 DEF storeVars, Rows
  <2>2. Numbered(Rows(src))
    BY RowsNumbered DEF Onward, TypeInv, IInv
  <2> QED BY <2>1, <2>2 DEF Grown
<1> QED BY <1>1, <1>2 DEF Onward

LEMMA CoveredKept ==
  ASSUME Onward, NEW src \in Sources, NEW s \in Subs, start'[s] = start[s],
         NEW n \in Int, Covered(src, s, n)
  PROVE  Covered(src, s, n)'
<1> SUFFICES ASSUME ~newestPruned'[src]
             PROVE  Position(Rows(src)', handled'[s], start'[s], n)
  BY DEF Covered
<1>1. start[s] \in Int /\ handled[s] \subseteq handled'[s]
  BY DEF Onward, TypeInv, PushTypeOK
<1>2. Position(Rows(src), handled[s], start[s], n)
  BY LogOnward DEF Covered
<1> QED BY <1>1, <1>2, LogOnward, PositionKept

LEMMA NextKept ==
  ASSUME Onward, NEW src \in Sources, NEW s \in Subs, start'[s] = start[s],
         NEW e \in Event, IsNext(src, s, e)
  PROVE  IsNext(src, s, e)'
<1> SUFFICES ASSUME ~newestPruned'[src]
             PROVE  Upcoming(Rows(src)', handled'[s], start'[s], e)
  BY DEF IsNext
<1>1. start[s] \in Int /\ handled[s] \subseteq handled'[s] /\ e.sequence \in Nat
  BY DEF Onward, TypeInv, PushTypeOK, Event
<1>2. Upcoming(Rows(src), handled[s], start[s], e)
  BY LogOnward DEF IsNext
<1> QED BY <1>1, <1>2, LogOnward, UpcomingKept

\* Where the rows' positions and the goroutines are left alone, the log, the
\* deliveries and other registrations cannot make a position pass anything.
LEMMA RowKept ==
  ASSUME Onward, RowsCovered, NEW s \in Subs, start'[s] = start[s],
         subs[s] # None, subs'[s] # None, subs'[s].source = subs[s].source,
         subs'[s].cursor = subs[s].cursor
  PROVE  Covered(subs[s].source, s, subs[s].cursor)'
<1>1. subs[s] \in Row /\ subs[s].source \in Sources /\ subs[s].cursor \in Int
  BY DEF Onward, TypeInv, PushTypeOK, Row
<1>2. Covered(subs[s].source, s, subs[s].cursor)
  BY DEF RowsCovered
<1> DEFINE src == subs[s].source
           n == subs[s].cursor
<1>3. ASSUME NEW t \in Sources, NEW m \in Int, Covered(t, s, m) PROVE Covered(t, s, m)'
  BY <1>3, CoveredKept
<1>4. PICK t \in Sources, m \in Int : t = src /\ m = n
  BY <1>1
<1>5. Covered(t, s, m)'
  BY <1>2, <1>3, <1>4
<1> QED BY <1>4, <1>5 DEF Covered, Rows

LEMMA ReaderKept ==
  ASSUME Onward, ReadersCovered, NEW w \in Workers, wk[w].pc \in {"secret", "read"},
         wk'[w].pc # "exited", wk'[w].sub = wk[w].sub, wk'[w].source = wk[w].source,
         wk'[w].cursor = wk[w].cursor, start'[wk[w].sub] = start[wk[w].sub]
  PROVE  Covered(wk[w].source, wk[w].sub, wk[w].cursor)'
<1>1. wk[w].sub \in Subs /\ wk[w].source \in Sources /\ wk[w].cursor \in Int
  BY RunningFields DEF Onward
<1>2. PICK src \in Sources, s \in Subs, n \in Int :
        src = wk[w].source /\ s = wk[w].sub /\ n = wk[w].cursor
  BY <1>1
<1>3. Covered(src, s, n) /\ start'[s] = start[s]
  BY <1>2 DEF ReadersCovered
<1>4. Covered(src, s, n)'
  BY <1>3, CoveredKept
<1> QED BY <1>2, <1>4 DEF Covered, Rows

LEMMA HeldKept ==
  ASSUME Onward, HeldIsNext, NEW w \in Workers, wk[w].pc \in Holding,
         wk'[w].pc # "exited", wk'[w].sub = wk[w].sub, wk'[w].source = wk[w].source,
         wk'[w].event = wk[w].event, start'[wk[w].sub] = start[wk[w].sub]
  PROVE  IsNext(wk[w].source, wk[w].sub, wk[w].event)'
<1>1. wk[w].sub \in Subs /\ wk[w].source \in Sources /\ wk[w].event \in Event
  BY RunningFields DEF Onward, TypeInv, HoldsEvent, Holding
<1>2. PICK src \in Sources, s \in Subs, e \in Event :
        src = wk[w].source /\ s = wk[w].sub /\ e = wk[w].event
  BY <1>1
<1>3. IsNext(src, s, e) /\ start'[s] = start[s]
  BY <1>2 DEF HeldIsNext
<1>4. IsNext(src, s, e)'
  BY <1>3, NextKept
<1> QED BY <1>2, <1>4 DEF IsNext, Rows

\* A subscription that has just been created is nowhere but at its start.
LEMMA StartIsPosition ==
  ASSUME NEW R, \A e \in R : e.sequence \in Int, NEW H, NEW low \in Int
  PROVE  Position(R, H, low, low)
BY DEF Position

\* Steps that neither read nor deliver: goroutines in the middle of an attempt
\* are left alone, and a row is new or keeps its cursor.
LEMMA CoverKept ==
  ASSUME Onward, CoverInv,
         \A s \in Subs : subs'[s] # None =>
           \/ /\ subs[s] # None /\ subs'[s].source = subs[s].source
              /\ subs'[s].cursor = subs[s].cursor /\ start'[s] = start[s]
           \/ subs'[s].cursor = start'[s],
         \A w \in Workers : wk'[w].pc \in Holding \cup {"secret", "read"} =>
           /\ wk[w].pc = wk'[w].pc /\ wk'[w].sub = wk[w].sub /\ wk'[w].source = wk[w].source
           /\ wk'[w].cursor = wk[w].cursor /\ wk'[w].event = wk[w].event
           /\ start'[wk[w].sub] = start[wk[w].sub],
         InsertsStart'
  PROVE  CoverInv'
<1>1. RowsCovered'
  <2> SUFFICES ASSUME NEW s \in Subs, subs'[s] # None
               PROVE  Covered(subs[s].source, s, subs[s].cursor)'
    BY DEF RowsCovered
  <2>1. CASE subs'[s].cursor = start'[s]
    <3>1. start'[s] \in Int /\ \A e \in Rows(subs[s].source)' : e.sequence \in Int
      BY DEF Onward, TypeInv, PushTypeOK, IngestTypeOK, StoreTypeOK, Event, Rows
    <3>2. Position(Rows(subs[s].source)', handled'[s], start'[s], start'[s])
      BY <3>1, StartIsPosition
    <3> QED BY <2>1, <3>2 DEF Covered
  <2> QED BY <2>1, RowKept DEF CoverInv
<1>2. ReadersCovered'
  BY ReaderKept DEF CoverInv, ReadersCovered
<1>3. HeldIsNext'
  BY HeldKept DEF CoverInv, HeldIsNext, Holding
<1>4. AnsweredIsHandled'
  <2> SUFFICES ASSUME NEW w \in Workers, wk'[w].pc = "answered"
               PROVE  wk'[w].event \in handled'[wk'[w].sub]
    BY DEF AnsweredIsHandled
  <2>1. wk[w].pc = "answered" /\ wk'[w].sub = wk[w].sub /\ wk'[w].event = wk[w].event
    BY DEF Holding
  <2>2. wk[w].sub \in Subs
    BY <2>1, RunningFields DEF Onward
  <2> QED BY <2>1, <2>2 DEF CoverInv, AnsweredIsHandled, Onward
<1> QED BY <1>1, <1>2, <1>3, <1>4 DEF CoverInv

\* What a goroutine in the middle of an attempt got its cursor or event from.
LEMMA WorkerMoves ==
  ASSUME TypeInv, NEW w \in Workers, WorkerStep(w) \/ TargetAccepts(w)
  PROVE  /\ wk'[w].pc \in {"secret", "read"} =>
              \/ /\ wk[w].pc = "top" /\ subs[wk[w].sub] # None
                 /\ wk'[w].cursor = subs[wk[w].sub].cursor
              \/ wk[w].pc = "secret" /\ wk'[w].cursor = wk[w].cursor
         /\ wk'[w].pc \in Holding =>
              \/ /\ wk[w].pc = "read" /\ ReadSince(wk[w].source, wk[w].cursor, 1) # {}
                 /\ wk'[w].event = Oldest(ReadSince(wk[w].source, wk[w].cursor, 1))
              \/ wk[w].pc \in Holding /\ wk'[w].event = wk[w].event
         /\ wk'[w].pc = "answered" =>
              /\ wk'[w].event = wk[w].event
              /\ handled' = [handled EXCEPT ![wk[w].sub] = @ \cup {wk[w].event}]
<1>1. wk \in [Workers -> Worker \cup {Exited}] /\ wk[w] \in Worker
  BY WorkerBecomes DEF TypeInv, PushTypeOK
<1>2. /\ wk'[w] = Exited => wk'[w].pc = "exited"
      /\ \A pc : wk' = [wk EXCEPT ![w].pc = pc] =>
           wk'[w].pc = pc /\ wk'[w].cursor = wk[w].cursor /\ wk'[w].event = wk[w].event
  BY <1>1 DEF Exited, Worker
<1>3. ASSUME Exit(w) PROVE wk'[w].pc = "exited"
  BY <1>1, <1>2, <1>3 DEF Exit
<1>4. CASE GetRow(w)
  BY <1>1, <1>2, <1>3, <1>4 DEF GetRow, Goto, Worker, Holding
<1>5. CASE GetSecret(w)
  BY <1>1, <1>5 DEF GetSecret, Worker, Holding
<1>6. CASE ReadBatch(w)
  BY <1>1, <1>2, <1>6 DEF ReadBatch, Goto, Worker, Holding
<1>7. CASE Send(w) \/ TargetAccepts(w) \/ AttemptFails(w)
  BY <1>1, <1>2, <1>7 DEF Send, TargetAccepts, AttemptFails, Goto, Holding
<1>8. CASE CommitCursor(w) \/ CommitFails(w) \/ RecordFailure(w)
  BY <1>1, <1>8 DEF CommitCursor, CommitFails, RecordFailure, Worker, Holding
<1>9. CASE Wake(w)
  BY <1>1, <1>3, <1>9 DEF Wake, Worker, Holding
<1> QED BY <1>4, <1>5, <1>6, <1>7, <1>8, <1>9 DEF WorkerStep

LEMMA WorkerOnward ==
  ASSUME TypeInv, NEW w \in Workers, WorkerStep(w) \/ TargetAccepts(w)
  PROVE  Onward
<1>1. handled \in [Subs -> SUBSET Event] /\ wk[w].sub \in Subs
  BY WorkerBecomes DEF TypeInv, PushTypeOK, Worker
<1>2. \A s \in Subs : handled[s] \subseteq handled'[s]
  BY <1>1, WorkerHandled
<1> QED BY <1>2, WorkerTyped, WorkerFrame DEF Onward

\* A row's cursor moves to the event that its worker has delivered.
LEMMA WorkerCoversRows ==
  ASSUME TypeInv, IdInv, CoverInv, NEW w \in Workers, WorkerStep(w) \/ TargetAccepts(w)
  PROVE  RowsCovered'
<1> SUFFICES ASSUME NEW s \in Subs, subs'[s] # None
             PROVE  Covered(subs[s].source, s, subs[s].cursor)'
  BY DEF RowsCovered
<1>1. Onward /\ start' = start
  BY WorkerOnward, WorkerFrame
<1>2. subs[s] # None /\ subs'[s].source = subs[s].source
  BY WorkerRows
<1>3. CASE subs'[s].cursor = subs[s].cursor
  BY <1>1, <1>2, <1>3, RowKept DEF CoverInv
<1>4. CASE /\ s = wk[w].sub /\ wk[w].pc = "answered"
           /\ subs'[s].cursor = wk[w].event.sequence
  <2>1. subs[s].source = wk[w].source
    BY <1>2, <1>4 DEF IdInv, AgreeOn
  <2>2. wk[w].event \in Event /\ wk[w].source \in Sources
    BY <1>4, RunningFields DEF TypeInv, HoldsEvent, Holding
  <2>3. PICK src \in Sources, e \in Event : src = wk[w].source /\ e = wk[w].event
    BY <2>2
  <2>4. IsNext(src, s, e) /\ e \in handled[s]
    BY <1>4, <2>3 DEF CoverInv, HeldIsNext, AnsweredIsHandled, Holding
  <2>5. /\ Numbered(Rows(src)) /\ start[s] \in Int /\ e.sequence \in Nat
    BY RowsNumbered DEF TypeInv, IInv, PushTypeOK, Event
  <2>6. Covered(src, s, e.sequence)
    BY <2>4, <2>5, DeliveredIsPosition DEF Covered, IsNext
  <2>7. Covered(src, s, e.sequence)'
    BY <1>1, <2>5, <2>6, CoveredKept
  <2>8. subs'[s].source = src /\ subs'[s].cursor = e.sequence
    BY <1>2, <1>4, <2>1, <2>3
  <2> QED BY <2>7, <2>8 DEF Covered, Rows
<1> QED BY <1>2, <1>3, <1>4, WorkerRows

LEMMA WorkerCoversReaders ==
  ASSUME TypeInv, IdInv, CoverInv, NEW w \in Workers, WorkerStep(w) \/ TargetAccepts(w)
  PROVE  ReadersCovered'
<1> SUFFICES ASSUME NEW v \in Workers, wk'[v].pc \in {"secret", "read"}
             PROVE  Covered(wk[v].source, wk[v].sub, wk[v].cursor)'
  BY DEF ReadersCovered
<1>1. Onward /\ start' = start
  BY WorkerOnward, WorkerFrame
<1>2. /\ wk \in [Workers -> Worker \cup {Exited}] /\ wk[w] \in Worker
      /\ Becomes(wk[w], wk'[w]) /\ wk' = [wk EXCEPT ![w] = wk'[w]]
  BY WorkerBecomes DEF TypeInv, PushTypeOK
<1>3. CASE wk[v].pc \in {"secret", "read"} /\ wk'[v].cursor = wk[v].cursor
  <2>1. /\ wk'[v].pc # "exited" /\ wk'[v].sub = wk[v].sub /\ wk'[v].source = wk[v].source
    BY <1>2 DEF Becomes, Exited
  <2> QED BY <1>1, <1>3, <2>1, ReaderKept DEF CoverInv
<1>4. CASE /\ v = w /\ wk[w].pc = "top" /\ subs[wk[w].sub] # None
           /\ wk'[w].cursor = subs[wk[w].sub].cursor
  <2>1. /\ wk'[w].sub = wk[w].sub /\ wk'[w].source = wk[w].source /\ wk[w].sub \in Subs
        /\ wk[w].source \in Sources
    BY <1>2, <1>4 DEF Becomes, Exited, Worker
  <2>2. subs[wk[w].sub].source = wk[w].source
    BY <1>4, <2>1 DEF IdInv, AgreeOn, Worker
  <2>3. subs[wk[w].sub].cursor \in Nat
    BY <1>4, <2>1 DEF TypeInv, PushTypeOK, Row
  <2>4. PICK src \in Sources, s \in Subs, n \in Nat :
          src = wk[w].source /\ s = wk[w].sub /\ n = subs[wk[w].sub].cursor
    BY <2>1, <2>3
  <2>5. Covered(src, s, n)
    BY <1>4, <2>2, <2>4 DEF CoverInv, RowsCovered
  <2>6. Covered(src, s, n)'
    BY <1>1, <2>5, CoveredKept
  <2>7. wk'[v].source = src /\ wk'[v].sub = s /\ wk'[v].cursor = n
    BY <1>4, <2>1, <2>4
  <2> QED BY <2>6, <2>7 DEF Covered, Rows
<1> QED BY <1>2, <1>3, <1>4, WorkerMoves

LEMMA WorkerCoversHeld ==
  ASSUME TypeInv, IdInv, CoverInv, NEW w \in Workers, WorkerStep(w) \/ TargetAccepts(w)
  PROVE  HeldIsNext' /\ AnsweredIsHandled'
<1>1. Onward /\ start' = start
  BY WorkerOnward, WorkerFrame
<1>2. /\ wk \in [Workers -> Worker \cup {Exited}] /\ wk[w] \in Worker
      /\ Becomes(wk[w], wk'[w]) /\ wk' = [wk EXCEPT ![w] = wk'[w]]
      /\ handled \in [Subs -> SUBSET Event]
  BY WorkerBecomes DEF TypeInv, PushTypeOK
<1>3. ASSUME NEW v \in Workers, wk'[v].pc \in Holding
      PROVE  IsNext(wk[v].source, wk[v].sub, wk[v].event)'
  <2>1. wk'[v].pc # "exited" /\ wk'[v].sub = wk[v].sub /\ wk'[v].source = wk[v].source
    BY <1>2, <1>3 DEF Becomes, Exited, Holding
  <2>2. CASE wk[v].pc \in Holding /\ wk'[v].event = wk[v].event
    BY <1>1, <2>1, <2>2, HeldKept DEF CoverInv
  <2>3. CASE /\ v = w /\ wk[w].pc = "read" /\ ReadSince(wk[w].source, wk[w].cursor, 1) # {}
             /\ wk'[w].event = Oldest(ReadSince(wk[w].source, wk[w].cursor, 1))
    <3>1. PICK src \in Sources, s \in Subs, n \in Nat :
            src = wk[w].source /\ s = wk[w].sub /\ n = wk[w].cursor
      BY <1>2 DEF Worker
    <3>2. Covered(src, s, n) /\ start[s] \in Int /\ LogInv
      BY <2>3, <3>1 DEF CoverInv, ReadersCovered, TypeInv, PushTypeOK, IInv
    <3>3. /\ wk'[w].event \in Rows(src) /\ wk'[w].event \in Event
          /\ \A f \in Rows(src) : f.sequence > n => wk'[w].event.sequence <= f.sequence
      BY <2>3, <3>1, <3>2, PickedEvent
    <3>4. PICK e \in Event : e = wk'[w].event
      BY <3>3
    <3>5. IsNext(src, s, e)
      BY <3>2, <3>3, <3>4, RowsNumbered, OldestIsUpcoming DEF Covered, IsNext
    <3>6. IsNext(src, s, e)'
      BY <1>1, <3>5, NextKept
    <3>7. wk'[v].source = src /\ wk'[v].sub = s /\ wk'[v].event = e
      BY <2>1, <2>3, <3>1, <3>4
    <3> QED BY <3>6, <3>7 DEF IsNext, Rows
  <2> QED BY <1>2, <1>3, <2>2, <2>3, WorkerMoves
<1>4. ASSUME NEW v \in Workers, wk'[v].pc = "answered"
      PROVE  wk'[v].event \in handled'[wk'[v].sub]
  <2>1. CASE v # w
    <3>1. wk'[v] = wk[v] /\ wk[v].sub \in Subs
      BY <1>2, <1>4, <2>1, RunningFields
    <3> QED BY <1>1, <1>4, <3>1 DEF CoverInv, AnsweredIsHandled, Onward
  <2>2. CASE v = w
    <3>1. handled' = [handled EXCEPT ![wk[w].sub] = @ \cup {wk[w].event}]
      BY <1>4, <2>2, WorkerMoves
    <3>2. wk'[w].sub = wk[w].sub /\ wk[w].sub \in Subs /\ wk'[w].event = wk[w].event
      BY <1>2, <1>4, <2>2, WorkerMoves DEF Becomes, Exited, Worker
    <3> QED BY <1>2, <2>2, <3>1, <3>2
  <2> QED BY <2>1, <2>2
<1> QED BY <1>3, <1>4 DEF HeldIsNext, AnsweredIsHandled

\* What a handler's step does to goroutines: it starts one or cancels one.
LEMMA StepWorkers ==
  ASSUME TypeInv, NEW a \in Admins, AdminStep(a)
  PROVE  \A w \in Workers :
           \/ wk'[w] = wk[w]
           \/ /\ op[a].pc = "ensure" /\ wk[w] = Exited
              /\ wk'[w] = Spawned(op[a].sub, op[a].source)
           \/ /\ op[a].pc = "cancel" /\ w = op[a].worker /\ wk[w] \in Worker
              /\ wk'[w] = [wk[w] EXCEPT !.cancelled = TRUE]
<1>1. wk \in [Workers -> Worker \cup {Exited}]
  BY DEF TypeInv, PushTypeOK
<1>2. CASE EnsureWorker(a)
  BY <1>1, <1>2 DEF EnsureWorker, Free
<1>3. CASE CancelWorker(a)
  <2>1. op[a].worker \in Workers
    BY <1>3, OperationFields DEF CancelWorker, Cancelling, Workers
  <2> QED BY <1>1, <1>3, <2>1 DEF CancelWorker
<1> QED BY <1>2, <1>3 DEF AdminStep, InsertRow, AddSecret, FetchRow, RotateSecret, Detach

LEMMA StepCovers ==
  ASSUME TypeInv, IdInv, CoverInv, NEW a \in Admins, AdminStep(a)
  PROVE  CoverInv'
<1>1. Onward
  BY StepTyped, AdminFrame DEF Onward
<1>2. /\ start' = start /\ subs \in [Subs -> Row \cup {None}] /\ op \in [Admins -> Operation]
  BY DEF TypeInv, PushTypeOK, Operation, AdminStep, InsertRow, AddSecret, EnsureWorker, FetchRow,
         RotateSecret, Detach, CancelWorker
<1>3. ASSUME NEW s \in Subs, subs'[s] # None
      PROVE  \/ /\ subs[s] # None /\ subs'[s].source = subs[s].source
                /\ subs'[s].cursor = subs[s].cursor /\ start'[s] = start[s]
             \/ subs'[s].cursor = start'[s]
  <2>1. CASE subs'[s] = subs[s]
    BY <1>2, <1>3, <2>1
  <2>2. CASE InsertRow(a) /\ s = op[a].sub
    BY <1>2, <2>2 DEF InsertRow, CoverInv, InsertsStart
  <2> QED BY <1>2, <2>1, <2>2 DEF AdminStep, InsertRow, AddSecret, EnsureWorker, FetchRow,
                                  RotateSecret, Detach, CancelWorker
<1>4. ASSUME NEW w \in Workers, wk'[w].pc \in Holding \cup {"secret", "read"}
      PROVE  /\ wk[w].pc = wk'[w].pc /\ wk'[w].sub = wk[w].sub /\ wk'[w].source = wk[w].source
             /\ wk'[w].cursor = wk[w].cursor /\ wk'[w].event = wk[w].event
             /\ start'[wk[w].sub] = start[wk[w].sub]
  <2>1. \/ wk'[w] = wk[w]
        \/ wk'[w] = Spawned(op[a].sub, op[a].source)
        \/ wk[w] \in Worker /\ wk'[w] = [wk[w] EXCEPT !.cancelled = TRUE]
    BY StepWorkers
  <2> QED BY <1>2, <1>4, <2>1 DEF Spawned, Worker, Holding
<1>5. InsertsStart'
  <2>1. /\ op'[a].pc # "insert" /\ \A b \in Admins \ {a} : op'[b] = op[b]
    BY <1>2 DEF AdminStep, InsertRow, AddSecret, EnsureWorker, FetchRow, RotateSecret, Detach,
                CancelWorker, OpIdle
  <2> QED BY <1>2, <2>1 DEF CoverInv, InsertsStart
<1> QED BY <1>1, <1>3, <1>4, <1>5, CoverKept

LEMMA BeginCovers ==
  ASSUME TypeInv, IdInv, CoverInv, NEW a \in Admins, NEW s \in Subs, AdminBegin(a, s)
  PROVE  CoverInv'
<1>1. Onward /\ wk' = wk
  BY BeginTyped, AdminFrame DEF Onward, AdminBegin, BeginCreate, PauseRow, ResumeRow, RotateRow,
     DeleteRow
<1>2. /\ start \in [Subs -> Nat \cup {-1}] /\ subs \in [Subs -> Row \cup {None}]
      /\ op \in [Admins -> Operation]
  BY DEF TypeInv, PushTypeOK, Operation
<1>3. ASSUME NEW src \in Sources, NEW cursor \in Since \cup {LatestSequence(src)},
             BeginCreate(a, s, src, cursor)
      PROVE  CoverInv'
  <2>1. /\ subs' = subs /\ start' = [start EXCEPT ![s] = cursor] /\ Unknown(s)
        /\ op' = [op EXCEPT ![a] = op'[a]] /\ op'[a].cursor = cursor /\ op'[a].sub = s
        /\ op[a].pc = "idle"
    BY <1>2, <1>3 DEF BeginCreate, Begin, IdInv, OpIdle
  <2>2. \A w \in Workers : wk'[w].pc \in Holding \cup {"secret", "read"} =>
          start'[wk[w].sub] = start[wk[w].sub]
    BY <1>1, <1>2, <2>1, RunningFields DEF Unknown, Holding
  <2>3. InsertsStart'
    <3>1. \A b \in Admins : op[b].pc = "insert" => op[b].sub \in Subs /\ op[b].sub # s
      BY <2>1, OperationFields DEF Unknown
    <3> QED BY <1>2, <2>1, <3>1 DEF CoverInv, InsertsStart
  <2>4. \A t \in Subs : subs'[t] # None =>
          /\ subs[t] # None /\ subs'[t].source = subs[t].source
          /\ subs'[t].cursor = subs[t].cursor /\ start'[t] = start[t]
    BY <1>2, <2>1 DEF Unknown
  <2> QED BY <1>1, <2>2, <2>3, <2>4, CoverKept
<1>4. CASE PauseRow(a, s) \/ ResumeRow(a, s) \/ RotateRow(a, s) \/ DeleteRow(a, s)
  <2>1. /\ start' = start /\ op'[a].pc # "insert" /\ \A b \in Admins \ {a} : op'[b] = op[b]
    BY <1>2, <1>4 DEF PauseRow, ResumeRow, RotateRow, DeleteRow, Begin
  <2>2. InsertsStart'
    BY <2>1 DEF CoverInv, InsertsStart
  <2>3. \A t \in Subs : subs'[t] # None =>
          /\ subs[t] # None /\ subs'[t].source = subs[t].source
          /\ subs'[t].cursor = subs[t].cursor
    <3>1. subs[s] # None => subs[s] \in Row
      BY <1>2
    <3> QED BY <1>2, <1>4, <3>1, PushAssumption DEF PauseRow, ResumeRow, RotateRow, DeleteRow, Row
  <2> QED BY <1>1, <2>1, <2>2, <2>3, CoverKept
<1> QED BY <1>3, <1>4 DEF AdminBegin

LEMMA DeactivateCovers ==
  ASSUME TypeInv, CoverInv, NEW owned \in SUBSET Subs, DeactivateOwner(owned)
  PROVE  CoverInv'
<1>1. Onward /\ op' = op /\ wk' = wk /\ start' = start
  BY DeactivateTyped, AdminFrame DEF Onward, DeactivateOwner
<1>2. subs \in [Subs -> Row \cup {None}]
  BY DEF TypeInv, PushTypeOK
<1>3. \A s \in Subs : subs'[s] # None =>
        subs[s] # None /\ subs'[s].source = subs[s].source /\ subs'[s].cursor = subs[s].cursor
  <2>1. \A s \in Subs : subs[s] # None =>
          /\ [subs[s] EXCEPT !.paused = TRUE].source = subs[s].source
          /\ [subs[s] EXCEPT !.paused = TRUE].cursor = subs[s].cursor
    BY <1>2 DEF Row
  <2> QED BY <1>2, <2>1 DEF DeactivateOwner
<1>4. InsertsStart'
  BY <1>1 DEF CoverInv, InsertsStart
<1> QED BY <1>1, <1>3, <1>4, CoverKept

LEMMA RestartCovers ==
  ASSUME TypeInv, CoverInv, RestartPush
  PROVE  CoverInv'
<1>1. /\ subs' = subs /\ start' = start /\ handled' = handled /\ UNCHANGED storeVars
      /\ \A a \in Admins : op'[a] = OpIdle
  BY DEF RestartPush
<1>2. Onward
  BY <1>1, RestartTyped DEF Onward
<1>3. PICK f : Restarted(f)
  BY RestartSpawns
<1>4. ASSUME NEW w \in Workers PROVE wk'[w].pc \notin Holding \cup {"secret", "read"}
  <2>1. CASE \E s \in Active : f[s] = w
    <3>1. PICK s \in Active : f[s] = w
      BY <2>1
    <3>2. wk'[w] = Spawned(s, subs[s].source)
      BY <1>3, <3>1 DEF Restarted
    <3> QED BY <3>2 DEF Spawned, Holding
  <2>2. CASE ~(\E s \in Active : f[s] = w)
    <3>1. wk'[w] = Exited
      BY <1>3, <2>2 DEF Restarted
    <3> QED BY <3>1 DEF Exited, Holding
  <2> QED BY <2>1, <2>2
<1>5. InsertsStart'
  BY <1>1 DEF InsertsStart, OpIdle
<1> QED BY <1>1, <1>2, <1>4, <1>5, CoverKept

LEMMA IngestCovers ==
  ASSUME TypeInv, CoverInv, IngestNext \/ UNCHANGED storeVars, UNCHANGED pushVars, TypeInv'
  PROVE  CoverInv'
<1>1. Onward /\ subs' = subs /\ start' = start /\ wk' = wk /\ op' = op
  BY DEF Onward, pushVars
<1>2. InsertsStart'
  BY <1>1 DEF CoverInv, InsertsStart
<1> QED BY <1>1, <1>2, CoverKept

-----------------------------------------------------------------------------
PositionInv == TypeInv /\ IdInv /\ CoverInv

LEMMA InitPositions == PushInit => PositionInv
<1> SUFFICES ASSUME PushInit PROVE CoverInv
  BY InitTyped, InitIds DEF PositionInv
<1> QED BY DEF PushInit, CoverInv, RowsCovered, ReadersCovered, HeldIsNext, AnsweredIsHandled,
               InsertsStart, Exited, OpIdle, Holding

LEMMA NextPositions == PositionInv /\ [PushNext]_vars => PositionInv'
<1> SUFFICES ASSUME PositionInv, [PushNext]_vars PROVE CoverInv'
  BY NextTyped, NextIds DEF PositionInv
<1>1. TypeInv /\ IdInv /\ CoverInv /\ TypeInv'
  BY NextTyped DEF PositionInv
<1>2. CASE (IngestNext /\ UNCHANGED pushVars) \/ UNCHANGED vars
  <2>1. (IngestNext \/ UNCHANGED storeVars) /\ UNCHANGED pushVars
    BY <1>2 DEF vars, ingestVars, storeVars
  <2> QED BY <1>1, <2>1, IngestCovers
<1>3. ASSUME NEW w \in Workers, WorkerStep(w) \/ TargetAccepts(w) PROVE CoverInv'
  <2>1. op' = op /\ start' = start
    BY <1>1, <1>3, WorkerFrame
  <2>2. InsertsStart'
    BY <1>1, <2>1 DEF CoverInv, InsertsStart
  <2> QED BY <1>1, <1>3, <2>2, WorkerCoversRows, WorkerCoversReaders, WorkerCoversHeld DEF CoverInv
<1> QED BY <1>1, <1>2, <1>3, StepCovers, BeginCovers, DeactivateCovers, RestartCovers DEF PushNext

LEMMA PositionsHold == PushSpec => []PositionInv
BY InitPositions, NextPositions, PTL DEF PushSpec

\* At least once: a cursor never passes a stored event that its target has not
\* processed, whatever workers, handlers, restarts and pruners do to each other
\* (worker.go, push.sql).
THEOREM EventsCovered == PushSpec => []CursorCoversHandled
<1>1. PositionInv => CursorCoversHandled
  BY DEF PositionInv, CoverInv, RowsCovered, Covered, Position, CursorCoversHandled
<1> QED BY <1>1, PositionsHold, PTL

LEMMA NextInOrder ==
  ASSUME PositionInv, PushNext, NEW s \in Subs, NEW e \in handled'[s] \ handled[s],
         ~newestPruned[e.source], NEW f \in Rows(e.source), start[s] < f.sequence,
         f.sequence < e.sequence
  PROVE  f \in handled[s]
<1>0. TypeInv /\ IdInv /\ CoverInv
  BY DEF PositionInv
<1>1. PICK w \in Workers : WorkerStep(w) \/ TargetAccepts(w)
  BY AdminFrame DEF PushNext, pushVars, RestartPush
<1>2. /\ wk[w].pc = "await"
      /\ handled' = [handled EXCEPT ![wk[w].sub] = @ \cup {wk[w].event}]
  BY <1>0, <1>1, WorkerHandled
<1>3. handled \in [Subs -> SUBSET Event] /\ wk[w].sub \in Subs
  BY <1>0, <1>2, RunningFields DEF TypeInv, PushTypeOK
<1>4. s = wk[w].sub /\ e = wk[w].event
  BY <1>2, <1>3
<1>5. e.source = wk[w].source /\ IsNext(wk[w].source, s, e)
  BY <1>0, <1>2, <1>4 DEF TypeInv, HoldsEvent, CoverInv, HeldIsNext, Holding
<1> QED BY <1>5 DEF IsNext, Upcoming

\* The target processes the events of its source in ascending order, retries
\* and competing workers notwithstanding (worker.go).
THEOREM DeliveredInOrder == PushSpec => HandledInOrder
<1>1. PositionInv /\ [PushNext]_vars =>
        [\A s \in Subs : \A e \in handled'[s] \ handled[s] :
           ~newestPruned[e.source] =>
             \A f \in Rows(e.source) :
               start[s] < f.sequence /\ f.sequence < e.sequence => f \in handled[s]]_vars
  BY NextInOrder
<1> QED BY <1>1, PositionsHold, PTL DEF PushSpec, HandledInOrder

-----------------------------------------------------------------------------
(* Refinement of Feed.  Of a subscription and a source: the numbers that   *)
(* are stored, the numbers the target has processed, and the position.     *)

Stored(src) == {e.sequence : e \in Rows(src)}
Taken(s, src) == {e.sequence : e \in {f \in handled[s] : f.source = src}}
Resumes(s, src) == IF subs[s] # None /\ subs[s].source = src THEN subs[s].cursor ELSE -1

LEMMA FeedDelivers ==
  ASSUME NEW k \in Subs \X Sources,
         Taken(k[1], k[2]) \subseteq Taken(k[1], k[2])',
         \A n \in Taken(k[1], k[2])' \ Taken(k[1], k[2]) : \A m \in Stored(k[2]) :
           start[k[1]] < m /\ m < n => m \in Taken(k[1], k[2]),
         UNCHANGED <<storeVars, subs, start>>
  PROVE  FeedOf!Deliver(k)
<1> USE DEF Stored, Taken, Rows
<1> QED BY DEF FeedOf!Deliver, FeedOf!Settled, FeedOf!StoreSame, FeedOf!PositionSame, storeVars

LEMMA FeedMoves ==
  ASSUME NEW k \in Subs \X Sources, Resumes(k[1], k[2])' \in Int,
         \/ Resumes(k[1], k[2])' <= start[k[1]]
         \/ \E m \in Stored(k[2]) : Resumes(k[1], k[2])' <= m,
         \A m \in Stored(k[2]) :
           start[k[1]] < m /\ m <= Resumes(k[1], k[2])' => m \in Taken(k[1], k[2]),
         start'[k[1]] = start[k[1]], UNCHANGED <<storeVars, handled>>
  PROVE  FeedOf!Move(k)
<1> USE DEF Stored, Taken, Resumes, Rows
<1> QED BY DEF FeedOf!Move, FeedOf!Settled, FeedOf!StoreSame, FeedOf!ConsumerSame, storeVars

LEMMA FeedRegisters ==
  ASSUME NEW k \in Subs \X Sources, start[k[1]] = -1, start'[k[1]] \in Nat,
         Resumes(k[1], k[2])' = -1, UNCHANGED <<storeVars, handled>>
  PROVE  FeedOf!Register(k)
<1> USE DEF Resumes, Rows
<1> QED BY DEF FeedOf!Register, FeedOf!StoreSame, FeedOf!ConsumerSame, storeVars

LEMMA FeedStores ==
  ASSUME NEW k \in Subs \X Sources,
         Stored(k[2]) \subseteq Stored(k[2])', Stored(k[2])' \subseteq Nat,
         \A n \in Stored(k[2])' \ Stored(k[2]) : \A m \in Stored(k[2]) : m < n,
         newestPruned'[k[2]] = newestPruned[k[2]], UNCHANGED pushVars
  PROVE  FeedOf!Store(k)
<1> USE DEF Stored, Rows
<1> QED BY DEF FeedOf!Store, FeedOf!PositionSame, FeedOf!ConsumerSame, pushVars

LEMMA FeedPrunes ==
  ASSUME NEW k \in Subs \X Sources,
         Stored(k[2])' \subseteq Stored(k[2]),
         newestPruned'[k[2]] = (newestPruned[k[2]] \/
           \E n \in Stored(k[2]) \ Stored(k[2])' : \A m \in Stored(k[2])' : m <= n),
         UNCHANGED pushVars
  PROVE  FeedOf!Prune(k)
<1> USE DEF Stored, Rows
<1> QED BY DEF FeedOf!Prune, FeedOf!PositionSame, FeedOf!ConsumerSame, pushVars

LEMMA FeedStarts == PushInit => FeedOf!FeedInit
BY DEF PushInit, IngestInit, StoreInit, FeedOf!FeedInit, Rows

\* A row, a cursor or neither: where a consumer resumes is one of its positions.
LEMMA StepMoves ==
  ASSUME PositionInv, PositionInv', NEW k \in Subs \X Sources, ~newestPruned[k[2]],
         start'[k[1]] = start[k[1]], UNCHANGED <<storeVars, handled>>
  PROVE  /\ Resumes(k[1], k[2])' \in Int
         /\ \/ Resumes(k[1], k[2])' <= start[k[1]]
            \/ \E m \in Stored(k[2]) : Resumes(k[1], k[2])' <= m
         /\ \A m \in Stored(k[2]) :
              start[k[1]] < m /\ m <= Resumes(k[1], k[2])' => m \in Taken(k[1], k[2])
<1>1. PICK s \in Subs, src \in Sources : s = k[1] /\ src = k[2]
  OBVIOUS
<1>2. /\ start[s] \in Nat \cup {-1} /\ subs'[s] \in Row \cup {None}
      /\ \A e \in Rows(src) : e.sequence \in Nat /\ e.source = src
  BY DEF PositionInv, TypeInv, PushTypeOK, IngestTypeOK, StoreTypeOK, Event, Rows
<1>3. CASE subs'[s] # None /\ subs'[s].source = src
  <2>1. Resumes(s, src)' = subs'[s].cursor /\ subs'[s].cursor \in Nat
    BY <1>2, <1>3 DEF Resumes, Row
  <2>2. Covered(src, s, subs[s].cursor)'
    BY <1>3 DEF PositionInv, CoverInv, RowsCovered, Covered, Rows
  <2>3. Position(Rows(src), handled[s], start[s], subs'[s].cursor)
    BY <1>1, <2>2 DEF Covered, Rows, storeVars
  <2> QED BY <1>1, <1>2, <2>1, <2>3 DEF Position, Stored, Taken
<1>4. CASE ~(subs'[s] # None /\ subs'[s].source = src)
  <2>1. Resumes(s, src)' = -1
    BY <1>4 DEF Resumes
  <2> QED BY <1>1, <1>2, <2>1 DEF Stored
<1> QED BY <1>3, <1>4

LEMMA IngestFeeds ==
  ASSUME PositionInv, TypeInv', IngestNext, UNCHANGED pushVars, NEW k \in Subs \X Sources
  PROVE  FeedOf!Promised(k)
<1>1. IInv /\ IInv'
  BY DEF PositionInv, TypeInv
<1>2. PICK src \in Sources : src = k[2]
  OBVIOUS
<1>3. Numbered(Rows(src)) /\ Numbered(Rows(src)')
  BY <1>1 DEF IInv, LogInv, StoreTypeOK, UniqueSequences, Event, Rows, Numbered
<1>4. CASE Grown(Rows(src), Rows(src)') /\ newestPruned'[src] = newestPruned[src]
  <2>1. /\ Stored(src) \subseteq Stored(src)' /\ Stored(src)' \subseteq Nat
        /\ \A n \in Stored(src)' \ Stored(src) : \A m \in Stored(src) : m < n
    BY <1>3, <1>4 DEF Grown, Numbered, Stored
  <2>2. FeedOf!Store(k)
    BY <1>2, <1>4, <2>1, FeedStores
  <2> QED BY <2>2 DEF FeedOf!Promised
<1>5. CASE /\ Rows(src)' \subseteq Rows(src)
           /\ newestPruned'[src] = (newestPruned[src] \/ Outlived(Rows(src), Rows(src)'))
  <2>1. Stored(src)' \subseteq Stored(src)
    BY <1>5 DEF Stored
  <2>2. Outlived(Rows(src), Rows(src)') <=>
          \E n \in Stored(src) \ Stored(src)' : \A m \in Stored(src)' : m <= n
    BY <1>3, <1>5 DEF Outlived, Numbered, Stored
  <2>3. FeedOf!Prune(k)
    BY <1>2, <1>5, <2>1, <2>2, FeedPrunes
  <2> QED BY <2>3 DEF FeedOf!Promised
<1> QED BY <1>1, <1>4, <1>5, LogStep

LEMMA AcceptFeeds ==
  ASSUME PositionInv, NEW w \in Workers, TargetAccepts(w), NEW k \in Subs \X Sources,
         ~newestPruned[k[2]]
  PROVE  FeedOf!Deliver(k)
<1>1. PICK s \in Subs, src \in Sources : s = k[1] /\ src = k[2]
  OBVIOUS
<1>2. /\ PushNext /\ UNCHANGED <<storeVars, subs, start>>
  BY DEF PushNext, TargetAccepts, ingestVars, storeVars
<1>3. handled[s] \subseteq handled'[s]
  BY WorkerOnward DEF PositionInv, Onward
<1>4. ASSUME NEW n \in Taken(s, src)' \ Taken(s, src), NEW m \in Stored(src),
             start[s] < m, m < n
      PROVE  m \in Taken(s, src)
  <2>1. PICK e \in handled'[s] : e.source = src /\ e.sequence = n
    BY <1>4 DEF Taken
  <2>2. PICK f \in Rows(src) : f.sequence = m /\ f.source = src
    BY <1>4 DEF Stored, Rows
  <2>3. e \notin handled[s]
    BY <1>4, <2>1 DEF Taken
  <2>4. f \in handled[s]
    BY <1>1, <1>2, <1>4, <2>1, <2>2, <2>3, NextInOrder
  <2> QED BY <2>2, <2>4 DEF Taken
<1>5. Taken(s, src) \subseteq Taken(s, src)'
  BY <1>3 DEF Taken
<1> QED BY <1>1, <1>2, <1>4, <1>5, FeedDelivers

LEMMA NextFeeds ==
  ASSUME PositionInv, PositionInv', PushNext, NEW k \in Subs \X Sources
  PROVE  FeedOf!Promised(k) \/ (newestPruned[k[2]] /\ newestPruned'[k[2]])
<1>1. CASE IngestNext /\ UNCHANGED pushVars
  BY <1>1, IngestFeeds DEF PositionInv
<1>2. CASE ~IngestNext \/ ~UNCHANGED pushVars
  <2>1. UNCHANGED storeVars
    BY <1>2, AdminFrame, WorkerFrame DEF PushNext, RestartPush, PositionInv
  <2> SUFFICES ASSUME ~newestPruned[k[2]] PROVE FeedOf!Promised(k)
    BY <2>1 DEF storeVars
  <2>2. CASE \E w \in Workers : TargetAccepts(w)
    BY <2>2, AcceptFeeds DEF FeedOf!Promised
  <2>3. CASE UNCHANGED handled /\ start'[k[1]] = start[k[1]]
    <3>1. UNCHANGED <<storeVars, handled>> /\ start'[k[1]] = start[k[1]]
      BY <2>1, <2>3
    <3>2. FeedOf!Move(k)
      BY <3>1, StepMoves, FeedMoves
    <3> QED BY <3>2 DEF FeedOf!Promised
  <2>4. ASSUME NEW a \in Admins, NEW s \in Subs, NEW src \in Sources,
               NEW cursor \in Since \cup {LatestSequence(src)}, BeginCreate(a, s, src, cursor)
        PROVE  FeedOf!Promised(k)
    <3>1. UNCHANGED handled /\ subs' = subs /\ start' = [start EXCEPT ![s] = cursor] /\ start[s] = -1
      BY <2>4 DEF BeginCreate
    <3>2. start \in [Subs -> Nat \cup {-1}] /\ cursor \in Nat
      BY LatestInLog, PushAssumption DEF PositionInv, TypeInv, PushTypeOK, IInv
    <3>3. CASE k[1] # s
      BY <2>3, <3>1, <3>2, <3>3
    <3>4. CASE k[1] = s
      <4>1. subs'[s] = None
        BY <3>1 DEF PositionInv, IdInv, Unknown
      <4>2. Resumes(k[1], k[2])' = -1
        BY <3>4, <4>1 DEF Resumes
      <4>3. start[k[1]] = -1 /\ start'[k[1]] \in Nat
        BY <3>1, <3>2, <3>4
      <4>4. FeedOf!Register(k)
        BY <2>1, <3>1, <4>2, <4>3, FeedRegisters
      <4> QED BY <4>4 DEF FeedOf!Promised
    <3> QED BY <3>3, <3>4
  <2>5. \/ UNCHANGED <<handled, start>>
        \/ \E w \in Workers : TargetAccepts(w)
        \/ \E a \in Admins : \E s \in Subs : \E src \in Sources :
             \E cursor \in Since \cup {LatestSequence(src)} : BeginCreate(a, s, src, cursor)
    <3>1. ASSUME NEW w \in Workers, WorkerStep(w) PROVE UNCHANGED <<handled, start>>
      BY <3>1 DEF WorkerStep, GetRow, GetSecret, ReadBatch, Send, CommitCursor, CommitFails,
            AttemptFails, RecordFailure, Wake
    <3>2. ASSUME NEW a \in Admins, AdminStep(a) PROVE UNCHANGED <<handled, start>>
      BY <3>2 DEF AdminStep, InsertRow, AddSecret, EnsureWorker, FetchRow, RotateSecret, Detach,
            CancelWorker
    <3>3. ASSUME NEW a \in Admins, NEW s \in Subs,
                 PauseRow(a, s) \/ ResumeRow(a, s) \/ RotateRow(a, s) \/ DeleteRow(a, s)
          PROVE  UNCHANGED <<handled, start>>
      BY <3>3 DEF PauseRow, ResumeRow, RotateRow, DeleteRow
    <3>4. ASSUME RestartPush \/ \E owned \in SUBSET Subs : DeactivateOwner(owned)
          PROVE  UNCHANGED <<handled, start>>
      BY <3>4 DEF RestartPush, DeactivateOwner
    <3> QED BY <1>2, <3>1, <3>2, <3>3, <3>4 DEF PushNext, AdminBegin
  <2> QED BY <2>2, <2>3, <2>4, <2>5
<1> QED BY <1>1, <1>2

\* The push component is a feed: workers, handlers, restarts and pruner together
\* do nothing that a consumer of Feed would not be promised.
THEOREM PushRefinesFeed == PushSpec => PushImplementsFeed
<1>1. PositionInv /\ PositionInv' /\ [PushNext]_vars => [FeedOf!FeedNext]_(FeedOf!feedVars)
  <2>1. ASSUME PositionInv, PositionInv', PushNext PROVE FeedOf!FeedNext
    <3> SUFFICES ASSUME NEW k \in Subs \X Sources
                 PROVE  FeedOf!Promised(k) \/ (newestPruned[k[2]] /\ newestPruned'[k[2]])
      BY DEF FeedOf!FeedNext
    <3> QED BY <2>1, NextFeeds
  <2>2. UNCHANGED vars => UNCHANGED FeedOf!feedVars
    BY DEF vars, ingestVars, pushVars, FeedOf!feedVars, Rows
  <2> QED BY <2>1, <2>2
<1> QED BY <1>1, FeedStarts, PositionsHold, PTL DEF PushSpec, PushImplementsFeed, FeedOf!FeedSpec

-----------------------------------------------------------------------------
(* Wakeups.  A goroutine is registered for as long as it runs, and one     *)
(* that waits for a signal has been signalled, will be by a request that   *)
(* has stored a row, or has nothing to read.                               *)

Hears == \A w \in Workers : wk[w].pc # "exited" => w \in registered[wk[w].source]

IdleAttended ==
  \A w \in Workers : wk[w].pc = "idle" => Attended(w, wk[w].source, wk[w].cursor)

WakeInv == TypeInv /\ Hears /\ IdleAttended

\* Steps that leave the log, the requests and the signal alone.
LEMMA WaiterKept ==
  ASSUME WakeInv, NEW w \in Workers, wk[w].pc = "idle", wk'[w].source = wk[w].source,
         wk'[w].cursor = wk[w].cursor, signal'[w] = signal[w], UNCHANGED <<storeVars, req>>
  PROVE  Attended(w, wk[w].source, wk[w].cursor)'
<1>1. Attended(w, wk[w].source, wk[w].cursor)
  BY DEF WakeInv, IdleAttended
<1> QED BY <1>1 DEF Attended, Announced, NewerThan, Rows, storeVars

LEMMA WorkerWakes ==
  ASSUME WakeInv, NEW w \in Workers, WorkerStep(w) \/ TargetAccepts(w)
  PROVE  WakeInv'
<1>1. TypeInv /\ TypeInv'
  BY WorkerTyped DEF WakeInv
<1>2. /\ wk \in [Workers -> Worker \cup {Exited}] /\ wk[w] \in Worker
      /\ Becomes(wk[w], wk'[w]) /\ wk' = [wk EXCEPT ![w] = wk'[w]]
      /\ wk[w].pc # "exited"
  BY <1>1, WorkerBecomes DEF TypeInv, PushTypeOK, Worker
<1>3. \A v \in Workers : wk'[v].pc # "exited" =>
        wk[v].pc # "exited" /\ wk'[v].source = wk[v].source /\ wk[v].source \in Sources
  BY <1>1, <1>2, RunningFields DEF Becomes, Exited
<1>4. Hears'
  <2> SUFFICES ASSUME NEW v \in Workers, wk'[v].pc # "exited"
               PROVE  v \in registered'[wk'[v].source]
    BY DEF Hears
  <2>1. v \in registered[wk[v].source]
    BY <1>3 DEF WakeInv, Hears
  <2>2. CASE v # w
    BY <1>1, <1>3, <2>1, <2>2, WorkerFrame
  <2>3. CASE v = w
    <3>1. wk'[w] # Exited
      BY <2>3 DEF Exited
    <3> QED BY <1>1, <1>3, <2>1, <2>3, <3>1, WorkerFrame
  <2> QED BY <2>2, <2>3
<1>5. UNCHANGED <<storeVars, req>>
  BY <1>1, WorkerFrame
<1>6. IdleAttended'
  <2> SUFFICES ASSUME NEW v \in Workers, wk'[v].pc = "idle"
               PROVE  Attended(v, wk[v].source, wk[v].cursor)'
    BY DEF IdleAttended
  <2>1. CASE v # w
    <3>1. wk'[v] = wk[v] /\ signal'[v] = signal[v]
      BY <1>1, <1>2, <2>1, WorkerFrame
    <3> QED BY <1>5, <3>1, WaiterKept
  <2>2. CASE v = w
    <3>1. ReadBatch(w) /\ ReadSince(wk[w].source, wk[w].cursor, 1) = {}
      <4>1. \A pc : wk' = [wk EXCEPT ![w].pc = pc] => wk'[w].pc = pc
        BY <1>2
      <4>2. \A e, n : wk' = [wk EXCEPT ![w].pc = "send", ![w].event = e] => wk'[w].pc = "send"
        BY <1>2
      <4>3. Exit(w) => wk'[w].pc = "exited"
        BY <1>2 DEF Exit, Exited
      <4>4. wk'[w].pc = "idle"
        BY <2>2
      <4>5. CASE GetRow(w)
        BY <1>2, <4>1, <4>3, <4>4, <4>5 DEF GetRow, Goto, Worker
      <4>6. CASE ReadBatch(w)
        BY <4>1, <4>2, <4>4, <4>6 DEF ReadBatch, Goto
      <4>7. CASE GetSecret(w) \/ Send(w) \/ TargetAccepts(w) \/ AttemptFails(w)
        BY <1>2, <4>1, <4>4, <4>7 DEF GetSecret, Send, TargetAccepts, AttemptFails, Goto, Worker
      <4>8. CASE CommitCursor(w) \/ CommitFails(w) \/ RecordFailure(w)
        BY <1>2, <4>4, <4>8 DEF CommitCursor, CommitFails, RecordFailure, Worker
      <4>9. CASE Wake(w)
        BY <1>2, <4>3, <4>4, <4>9 DEF Wake, Worker
      <4> QED BY <4>5, <4>6, <4>7, <4>8, <4>9 DEF WorkerStep
    <3>2. NewerThan(wk[w].source, wk[w].cursor) = {}
      BY <1>1, <1>2, <3>1, OldestIsRead DEF TypeInv, IInv, Worker
    <3>3. wk'[w].source = wk[w].source /\ wk'[w].cursor = wk[w].cursor
      BY <1>2, <2>2, <3>1 DEF ReadBatch, Goto, Worker
    <3> QED BY <1>5, <2>2, <3>2, <3>3 DEF Attended, NewerThan, Rows, storeVars
  <2> QED BY <2>1, <2>2
<1> QED BY <1>1, <1>4, <1>6 DEF WakeInv

LEMMA StepWakes ==
  ASSUME WakeInv, NEW a \in Admins, AdminStep(a)
  PROVE  WakeInv'
<1>1. TypeInv /\ TypeInv' /\ wk \in [Workers -> Worker \cup {Exited}]
      /\ registered \in [Sources -> SUBSET Channels] /\ signal \in [Channels -> BOOLEAN]
  BY StepTyped DEF WakeInv, TypeInv, PushTypeOK, IngestTypeOK, NotifierTypeOK
<1>2. UNCHANGED <<storeVars, req>>
  BY AdminFrame
<1>3. \/ \E w \in Workers : /\ Free(w) /\ op[a] \in Ensuring
                            /\ Subscribe(op[a].source, w)
                            /\ wk' = [wk EXCEPT ![w] = Spawned(op[a].sub, op[a].source)]
      \/ /\ UNCHANGED notifierVars
         /\ \A w \in Workers : \/ wk'[w] = wk[w]
                               \/ /\ wk[w] \in Worker
                                  /\ wk'[w] = [wk[w] EXCEPT !.cancelled = TRUE]
  <2>1. CASE EnsureWorker(a)
    <3>1. op[a] \in Ensuring
      BY <1>1, <2>1, OperationFields DEF EnsureWorker
    <3> QED BY <2>1, <3>1 DEF EnsureWorker
  <2>2. CASE ~EnsureWorker(a)
    <3>1. UNCHANGED notifierVars
      BY <2>2 DEF AdminStep, InsertRow, AddSecret, FetchRow, RotateSecret, Detach, CancelWorker,
                  ingestVars, notifierVars
    <3>2. op[a].pc = "ensure" => UNCHANGED wk
      BY <2>2 DEF AdminStep, InsertRow, AddSecret, FetchRow, RotateSecret, Detach, CancelWorker
    <3> QED BY <1>1, <3>1, <3>2, StepWorkers
  <2> QED BY <2>1, <2>2
<1>4. ASSUME NEW w \in Workers, Free(w), op[a] \in Ensuring, Subscribe(op[a].source, w),
             wk' = [wk EXCEPT ![w] = Spawned(op[a].sub, op[a].source)]
      PROVE  Hears' /\ IdleAttended'
  <2>1. /\ op[a].source \in Sources
        /\ registered' = [registered EXCEPT ![op[a].source] = @ \cup {w}]
        /\ signal' = [signal EXCEPT ![w] = FALSE]
        /\ wk'[w].pc = "top" /\ wk'[w].source = op[a].source
    BY <1>1, <1>4 DEF Subscribe, Spawned, Ensuring
  <2>2. \A v \in Workers \ {w} : wk'[v] = wk[v] /\ signal'[v] = signal[v]
    BY <1>1, <1>4, <2>1 DEF Workers
  <2>3. Hears'
    <3> SUFFICES ASSUME NEW v \in Workers, wk'[v].pc # "exited"
                 PROVE  v \in registered'[wk'[v].source]
      BY DEF Hears
    <3>1. CASE v = w
      BY <1>1, <2>1, <3>1
    <3>2. CASE v # w
      <4>1. v \in registered[wk[v].source] /\ wk[v].source \in Sources
        BY <1>1, <2>2, <3>2, RunningFields DEF WakeInv, Hears
      <4> QED BY <1>1, <2>1, <2>2, <3>2, <4>1
    <3> QED BY <3>1, <3>2
  <2>4. IdleAttended'
    BY <1>2, <2>1, <2>2, WaiterKept DEF IdleAttended
  <2> QED BY <2>3, <2>4
<1>5. ASSUME UNCHANGED notifierVars,
             \A w \in Workers : \/ wk'[w] = wk[w]
                                \/ /\ wk[w] \in Worker
                                   /\ wk'[w] = [wk[w] EXCEPT !.cancelled = TRUE]
      PROVE  Hears' /\ IdleAttended'
  <2>1. \A w \in Workers : /\ wk'[w].pc = wk[w].pc /\ wk'[w].source = wk[w].source
                           /\ wk'[w].cursor = wk[w].cursor
    BY <1>5 DEF Worker
  <2>2. registered' = registered /\ signal' = signal
    BY <1>5 DEF notifierVars
  <2> QED BY <1>2, <2>1, <2>2, WaiterKept DEF WakeInv, Hears, IdleAttended
<1> QED BY <1>1, <1>3, <1>4, <1>5 DEF WakeInv

LEMMA BeginWakes ==
  ASSUME WakeInv, TypeInv', UNCHANGED <<ingestVars, wk>>
  PROVE  WakeInv'
<1>1. UNCHANGED <<storeVars, req, registered, signal, wk>>
  BY DEF ingestVars, storeVars
<1> QED BY <1>1, WaiterKept DEF WakeInv, Hears, IdleAttended

LEMMA RestartWakes ==
  ASSUME WakeInv, RestartPush
  PROVE  WakeInv'
<1>1. TypeInv /\ TypeInv'
  BY RestartTyped DEF WakeInv
<1>2. PICK f : Restarted(f)
  BY <1>1, RestartSpawns
<1>3. ASSUME NEW w \in Workers
      PROVE  \/ wk'[w].pc = "exited"
             \/ wk'[w].pc = "top" /\ w \in registered'[wk'[w].source]
  <2>1. CASE \E s \in Active : f[s] = w
    <3>1. PICK s \in Active : f[s] = w
      BY <2>1
    <3>2. wk'[w] = Spawned(s, subs[s].source) /\ w \in registered'[subs[s].source]
      BY <1>2, <3>1 DEF Restarted
    <3> QED BY <3>2 DEF Spawned
  <2>2. CASE ~(\E s \in Active : f[s] = w)
    <3>1. wk'[w] = Exited
      BY <1>2, <2>2 DEF Restarted
    <3> QED BY <3>1 DEF Exited
  <2> QED BY <2>1, <2>2
<1> QED BY <1>1, <1>3 DEF WakeInv, Hears, IdleAttended

LEMMA IngestWakes ==
  ASSUME WakeInv, TypeInv', IngestNext, UNCHANGED pushVars
  PROVE  WakeInv'
<1>1. TypeInv /\ IInv /\ wk' = wk
  BY DEF WakeInv, TypeInv, pushVars
<1>2. ASSUME NEW w \in Workers, wk[w].pc # "exited"
      PROVE  /\ w \in registered'[wk[w].source]
             /\ wk[w].pc = "idle" => Attended(w, wk[w].source, wk[w].cursor)'
  <2>1. PICK src \in Sources, n \in Nat : src = wk[w].source /\ n = wk[w].cursor
    BY <1>1, <1>2, RunningFields
  <2>2. w \in registered[src] /\ w \in Channels
    BY <1>2, <2>1 DEF WakeInv, Hears, Workers
  <2>3. registered' = registered
    BY DEF IngestNext, RequestStep, VerifyRequest, StampRequest, AnswerDuplicate, AcceptRequest,
         FailRequest, PublishEvent, PruneSource, PruneOlderThan, ReplayWake, Tick, Publish,
         notifierVars
  <2>4. wk[w].pc = "idle" => Attended(w, src, n)
    BY <2>1 DEF WakeInv, IdleAttended
  <2>5. wk[w].pc = "idle" => Attended(w, src, n)'
    BY <1>1, <2>2, <2>4, IngestAttends
  <2>6. wk'[w].source = src /\ wk'[w].cursor = n
    BY <1>1, <2>1
  <2> QED BY <2>1, <2>2, <2>3, <2>5, <2>6 DEF Attended, Announced, NewerThan, Rows
<1> QED BY <1>1, <1>2 DEF WakeInv, Hears, IdleAttended

LEMMA InitWakes == PushInit => WakeInv
BY InitTyped DEF PushInit, WakeInv, Hears, IdleAttended, Exited

LEMMA NextWakes == WakeInv /\ [PushNext]_vars => WakeInv'
<1> SUFFICES ASSUME WakeInv, [PushNext]_vars PROVE WakeInv'
  OBVIOUS
<1>1. TypeInv /\ TypeInv'
  BY NextTyped DEF WakeInv
<1>2. CASE UNCHANGED vars
  BY <1>1, <1>2, BeginWakes DEF vars, pushVars
<1>3. CASE \/ \E a \in Admins, s \in Subs : AdminBegin(a, s)
           \/ \E owned \in SUBSET Subs : DeactivateOwner(owned)
  <2>1. UNCHANGED <<ingestVars, wk>>
    BY <1>3 DEF AdminBegin, BeginCreate, PauseRow, ResumeRow, RotateRow, DeleteRow, DeactivateOwner
  <2> QED BY <1>1, <2>1, BeginWakes
<1> QED BY <1>1, <1>2, <1>3, IngestWakes, WorkerWakes, StepWakes, RestartWakes DEF PushNext

\* No signal is lost: a goroutine that waits has nothing to deliver, or has been
\* or will be signalled, although a send to a full channel is dropped and rows
\* are stored at any moment (pubsub/notifier.go, worker.go:86-93).
THEOREM WakeupsKept == PushSpec => []NoMissedWakeup
<1>1. WakeInv => NoMissedWakeup
  BY DEF WakeInv, IdleAttended, Attended, Announced, NoMissedWakeup
<1>2. PushSpec => []WakeInv
  BY InitWakes, NextWakes, PTL DEF PushSpec
<1> QED BY <1>1, <1>2, PTL
=============================================================================
