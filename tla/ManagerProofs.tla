----------------------------- MODULE ManagerProofs -----------------------------
(***************************************************************************)
(* The Manager's maps, the rows and the goroutines (internal/push): who    *)
(* delivers for a subscription, and with which secret.                     *)
(***************************************************************************)
EXTENDS PushProofs

(* Ownership, with any number of administrators: an entry of the map is a  *)
(* goroutine of that subscription, and a goroutine that nothing has told   *)
(* to stop is in the map or is about to be told.                           *)

EntriesOurs ==
  \A s \in Subs : workers[s] # None => wk[workers[s]] = Exited \/ wk[workers[s]].sub = s

CancelPending(w) == \E a \in Admins : op[a].pc = "cancel" /\ op[a].worker = w

LiveOwned == \A w \in Workers : Live(w) => workers[wk[w].sub] = w \/ CancelPending(w)

CancelsOurs ==
  \A a \in Admins : op[a].pc = "cancel" =>
    wk[op[a].worker] = Exited \/ wk[op[a].worker].sub = op[a].sub

OwnInv == TypeInv /\ EntriesOurs /\ LiveOwned /\ CancelsOurs

\* Steps that start no goroutine and cancel none.
LEMMA OwnKept ==
  ASSUME OwnInv, TypeInv', workers' = workers,
         \A w \in Workers : \/ wk'[w] = Exited
                            \/ /\ wk[w] # Exited /\ wk'[w].sub = wk[w].sub
                               /\ wk'[w].cancelled = wk[w].cancelled,
         \A a \in Admins : \/ op'[a] = op[a]
                           \/ op[a].pc # "cancel" /\ op'[a].pc # "cancel"
  PROVE  OwnInv'
<1>1. TypeInv /\ workers \in [Subs -> Workers \cup {None}]
  BY DEF OwnInv, TypeInv, PushTypeOK
<1>2. EntriesOurs'
  BY <1>1 DEF OwnInv, EntriesOurs
<1>3. \A w \in Workers : CancelPending(w) => CancelPending(w)'
  BY DEF CancelPending
<1>4. LiveOwned'
  BY <1>3 DEF OwnInv, LiveOwned, Live
<1>5. CancelsOurs'
  <2> SUFFICES ASSUME NEW a \in Admins, op'[a].pc = "cancel"
               PROVE  wk'[op'[a].worker] = Exited \/ wk'[op'[a].worker].sub = op'[a].sub
    BY DEF CancelsOurs
  <2>1. op'[a] = op[a] /\ op[a].worker \in Workers
    BY <1>1, OperationFields DEF Cancelling, Workers
  <2> QED BY <2>1 DEF OwnInv, CancelsOurs
<1> QED BY <1>2, <1>4, <1>5 DEF OwnInv

LEMMA WorkerOwns ==
  ASSUME OwnInv, NEW w \in Workers, WorkerStep(w) \/ TargetAccepts(w)
  PROVE  OwnInv'
<1>1. TypeInv /\ TypeInv'
  BY WorkerTyped DEF OwnInv
<1>2. /\ wk \in [Workers -> Worker \cup {Exited}] /\ wk[w] \in Worker
      /\ Becomes(wk[w], wk'[w]) /\ wk' = [wk EXCEPT ![w] = wk'[w]]
      /\ op' = op /\ workers' = workers
  BY <1>1, WorkerBecomes, WorkerFrame DEF TypeInv, PushTypeOK
<1>3. \A v \in Workers : \/ wk'[v] = Exited
                         \/ /\ wk[v] # Exited /\ wk'[v].sub = wk[v].sub
                            /\ wk'[v].cancelled = wk[v].cancelled
  BY <1>2 DEF Becomes, Worker, Exited
<1> QED BY <1>1, <1>2, <1>3, OwnKept

LEMMA EnsureOwns ==
  ASSUME OwnInv, TypeInv', NEW a \in Admins, NEW w \in Workers, Free(w),
         op[a].pc = "ensure", workers[op[a].sub] = None,
         workers' = [workers EXCEPT ![op[a].sub] = w],
         wk' = [wk EXCEPT ![w] = Spawned(op[a].sub, op[a].source)],
         op' = [op EXCEPT ![a] = OpIdle]
  PROVE  OwnInv'
<1> DEFINE s == op[a].sub
<1>1. /\ TypeInv /\ s \in Subs /\ workers \in [Subs -> Workers \cup {None}]
      /\ wk \in [Workers -> Worker \cup {Exited}] /\ op \in [Admins -> Operation]
      /\ None \notin Workers
  BY OperationFields, PushAssumption DEF OwnInv, TypeInv, PushTypeOK, Operation, Workers
<1>2. /\ wk'[w].sub = s /\ \A v \in Workers \ {w} : wk'[v] = wk[v]
      /\ workers'[s] = w /\ \A t \in Subs \ {s} : workers'[t] = workers[t]
      /\ op'[a].pc = "idle" /\ \A b \in Admins \ {a} : op'[b] = op[b]
  BY <1>1 DEF Spawned, OpIdle
<1>3. EntriesOurs'
  BY <1>1, <1>2 DEF OwnInv, EntriesOurs, Free
<1>4. LiveOwned'
  <2> SUFFICES ASSUME NEW v \in Workers, v # w, Live(v)
               PROVE  workers'[wk[v].sub] = v \/ CancelPending(v)'
    BY <1>2 DEF LiveOwned, Live
  <2>1. wk[v].sub \in Subs
    BY <1>1 DEF Live, Worker
  <2>2. CASE workers[wk[v].sub] = v
    <3>1. wk[v].sub # s
      BY <1>1, <2>2
    <3> QED BY <1>2, <2>1, <2>2, <3>1
  <2>3. CASE CancelPending(v)
    BY <1>2, <2>3 DEF CancelPending
  <2> QED BY <2>2, <2>3 DEF OwnInv, LiveOwned
<1>5. CancelsOurs'
  <2> SUFFICES ASSUME NEW b \in Admins, b # a, op[b].pc = "cancel"
               PROVE  wk'[op[b].worker] = Exited \/ wk'[op[b].worker].sub = op[b].sub
    BY <1>2 DEF CancelsOurs
  <2>1. op[b].worker \in Workers /\ op[b].worker # w
    BY <1>1, OperationFields DEF Cancelling, Workers, Free
  <2> QED BY <1>2, <2>1 DEF OwnInv, CancelsOurs
<1> QED BY <1>3, <1>4, <1>5 DEF OwnInv

LEMMA DetachOwns ==
  ASSUME OwnInv, TypeInv', NEW a \in Admins, Detach(a)
  PROVE  OwnInv'
<1> DEFINE s == op[a].sub
<1>1. /\ TypeInv /\ s \in Subs /\ workers \in [Subs -> Workers \cup {None}]
      /\ wk \in [Workers -> Worker \cup {Exited}] /\ op \in [Admins -> Operation]
      /\ None \notin Workers
  BY OperationFields, PushAssumption DEF OwnInv, TypeInv, PushTypeOK, Operation, Workers, Detach
<1>2. /\ workers' = [workers EXCEPT ![s] = None] /\ wk' = wk /\ op[a].pc = "detach"
      /\ \A b \in Admins \ {a} : op'[b] = op[b]
      /\ workers[s] = None => op'[a] = OpIdle
      /\ workers[s] # None => op'[a] = [pc |-> "cancel", sub |-> s, worker |-> workers[s]]
  BY <1>1 DEF Detach
<1>3. EntriesOurs'
  BY <1>1, <1>2 DEF OwnInv, EntriesOurs
<1>4. LiveOwned'
  <2> SUFFICES ASSUME NEW v \in Workers, Live(v)
               PROVE  workers'[wk[v].sub] = v \/ CancelPending(v)'
    BY <1>2 DEF LiveOwned, Live
  <2>1. wk[v].sub \in Subs
    BY <1>1 DEF Live, Worker
  <2>2. CASE workers[wk[v].sub] = v /\ wk[v].sub # s
    BY <1>1, <1>2, <2>1, <2>2
  <2>3. CASE workers[wk[v].sub] = v /\ wk[v].sub = s
    <3>1. op'[a] = [pc |-> "cancel", sub |-> s, worker |-> v]
      BY <1>1, <1>2, <2>3
    <3> QED BY <3>1 DEF CancelPending
  <2>4. CASE CancelPending(v)
    BY <1>2, <2>4 DEF CancelPending
  <2> QED BY <2>2, <2>3, <2>4 DEF OwnInv, LiveOwned
<1>5. CancelsOurs'
  BY <1>1, <1>2 DEF OwnInv, CancelsOurs, EntriesOurs, OpIdle
<1> QED BY <1>3, <1>4, <1>5 DEF OwnInv

LEMMA CancelOwns ==
  ASSUME OwnInv, TypeInv', NEW a \in Admins, CancelWorker(a)
  PROVE  OwnInv'
<1> DEFINE w == op[a].worker
<1>1. /\ TypeInv /\ w \in Workers /\ workers \in [Subs -> Workers \cup {None}]
      /\ wk \in [Workers -> Worker \cup {Exited}] /\ op \in [Admins -> Operation]
  BY OperationFields DEF OwnInv, TypeInv, PushTypeOK, Operation, Workers, CancelWorker, Cancelling
<1>2. /\ workers' = workers /\ op'[a].pc = "idle" /\ \A b \in Admins \ {a} : op'[b] = op[b]
      /\ \A v \in Workers \ {w} : wk'[v] = wk[v]
      /\ wk[w] = Exited => wk'[w] = Exited
      /\ wk[w] # Exited => wk'[w].cancelled /\ wk'[w].sub = wk[w].sub
  BY <1>1 DEF CancelWorker, OpIdle, Worker
<1>3. EntriesOurs'
  BY <1>1, <1>2 DEF OwnInv, EntriesOurs
<1>4. LiveOwned'
  <2> SUFFICES ASSUME NEW v \in Workers, v # w, Live(v)
               PROVE  workers'[wk[v].sub] = v \/ CancelPending(v)'
    BY <1>2 DEF LiveOwned, Live
  <2>1. CancelPending(v) => CancelPending(v)'
    BY <1>2 DEF CancelPending
  <2> QED BY <1>2, <2>1 DEF OwnInv, LiveOwned
<1>5. CancelsOurs'
  <2> SUFFICES ASSUME NEW b \in Admins, b # a, op[b].pc = "cancel"
               PROVE  wk'[op[b].worker] = Exited \/ wk'[op[b].worker].sub = op[b].sub
    BY <1>2 DEF CancelsOurs
  <2>1. op[b].worker \in Workers
    BY <1>1, OperationFields DEF Cancelling, Workers
  <2> QED BY <1>2, <2>1 DEF OwnInv, CancelsOurs
<1> QED BY <1>3, <1>4, <1>5 DEF OwnInv

LEMMA StepOwns ==
  ASSUME OwnInv, NEW a \in Admins, AdminStep(a)
  PROVE  OwnInv'
<1>1. TypeInv /\ TypeInv' /\ op \in [Admins -> Operation]
  BY StepTyped DEF OwnInv, TypeInv, PushTypeOK, Operation
<1>2. CASE InsertRow(a) \/ AddSecret(a) \/ FetchRow(a) \/ RotateSecret(a)
  <2>1. /\ workers' = workers /\ wk' = wk
        /\ op[a].pc # "cancel" /\ op'[a].pc # "cancel"
        /\ \A b \in Admins \ {a} : op'[b] = op[b]
    BY <1>1, <1>2 DEF InsertRow, AddSecret, FetchRow, RotateSecret, OpIdle
  <2> QED BY <1>1, <2>1, OwnKept
<1>3. CASE EnsureWorker(a)
  <2>1. CASE UNCHANGED <<workers, wk>>
    <3>1. /\ op[a].pc # "cancel" /\ op'[a].pc # "cancel" /\ \A b \in Admins \ {a} : op'[b] = op[b]
      BY <1>1, <1>3 DEF EnsureWorker, OpIdle
    <3> QED BY <1>1, <2>1, <3>1, OwnKept
  <2> QED BY <1>1, <1>3, <2>1, EnsureOwns DEF EnsureWorker
<1> QED BY <1>1, <1>2, <1>3, DetachOwns, CancelOwns DEF AdminStep

LEMMA BeginOwns ==
  ASSUME OwnInv, NEW a \in Admins, NEW s \in Subs, AdminBegin(a, s)
  PROVE  OwnInv'
<1>1. TypeInv /\ TypeInv' /\ op \in [Admins -> Operation]
  BY BeginTyped DEF OwnInv, TypeInv, PushTypeOK, Operation
<1>2. workers' = workers /\ wk' = wk
  BY DEF AdminBegin, BeginCreate, PauseRow, ResumeRow, RotateRow, DeleteRow
<1>3. /\ op[a].pc # "cancel" /\ op'[a].pc # "cancel" /\ \A b \in Admins \ {a} : op'[b] = op[b]
  BY <1>1 DEF AdminBegin, BeginCreate, PauseRow, ResumeRow, RotateRow, DeleteRow, Begin, OpIdle
<1> QED BY <1>1, <1>2, <1>3, OwnKept

LEMMA RestartOwns ==
  ASSUME OwnInv, RestartPush
  PROVE  OwnInv'
<1>1. TypeInv /\ TypeInv' /\ \A a \in Admins : op'[a] = OpIdle
  BY RestartTyped DEF OwnInv, RestartPush
<1>2. PICK f : Restarted(f)
  BY <1>1, RestartSpawns
<1>3. EntriesOurs'
  <2> SUFFICES ASSUME NEW s \in Subs, workers'[s] # None PROVE wk'[workers'[s]].sub = s
    BY DEF EntriesOurs
  <2>1. s \in Active /\ wk'[workers'[s]] = Spawned(s, subs[s].source)
    BY <1>2 DEF Restarted
  <2> QED BY <2>1 DEF Spawned
<1>4. LiveOwned'
  <2> SUFFICES ASSUME NEW w \in Workers, wk'[w] # Exited PROVE workers'[wk'[w].sub] = w
    BY DEF LiveOwned, Live
  <2>1. PICK s \in Active : f[s] = w
    BY <1>2 DEF Restarted
  <2>2. wk'[w] = Spawned(s, subs[s].source) /\ workers'[s] = w
    BY <1>2, <2>1 DEF Restarted
  <2> QED BY <2>2 DEF Spawned
<1> QED BY <1>1, <1>3, <1>4 DEF OwnInv, CancelsOurs, OpIdle

LEMMA InitOwns == PushInit => OwnInv
BY InitTyped DEF PushInit, OwnInv, EntriesOurs, LiveOwned, Live, CancelsOurs, OpIdle

LEMMA NextOwns == OwnInv /\ [PushNext]_vars => OwnInv'
<1> SUFFICES ASSUME OwnInv, [PushNext]_vars PROVE OwnInv'
  OBVIOUS
<1>1. TypeInv' /\ wk \in [Workers -> Worker \cup {Exited}]
  BY NextTyped DEF OwnInv, TypeInv, PushTypeOK
<1>2. CASE UNCHANGED <<workers, wk, op>>
  BY <1>1, <1>2, OwnKept
<1> QED BY <1>2, WorkerOwns, StepOwns, BeginOwns, RestartOwns
        DEF PushNext, vars, pushVars, DeactivateOwner

LEMMA OwnershipHolds == PushSpec => []OwnInv
BY InitOwns, NextOwns, PTL DEF PushSpec

LEMMA AtMostOne ==
  ASSUME NEW S, \A x, y \in S : x = y
  PROVE  Cardinality(S) <= 1
<1>1. CASE S = {}
  BY <1>1, FS_EmptySet
<1>2. CASE S # {}
  <2>1. PICK x : S = {x}
    BY <1>2
  <2> QED BY <2>1, FS_Singleton
<1> QED BY <1>1, <1>2

\* However many administrators race: once their handlers are done, at most one
\* goroutine that has not been told to stop delivers for a subscription
\* (Manager.ensureWorker, Pause and Remove).
THEOREM OneWorkerOnceSettled ==
  PushSpec => [](\A s \in Subs : Settled(s) => Cardinality(LiveWorkers(s)) <= 1)
<1>1. OwnInv => \A s \in Subs : Settled(s) => Cardinality(LiveWorkers(s)) <= 1
  <2> SUFFICES ASSUME OwnInv, NEW s \in Subs, Settled(s),
                      NEW w \in LiveWorkers(s)
               PROVE  w = workers[s]
    BY AtMostOne
  <2>1. w \in Workers /\ Live(w) /\ wk[w].sub = s
    BY DEF LiveWorkers
  <2>2. ~CancelPending(w)
    BY <2>1 DEF OwnInv, CancelsOurs, CancelPending, Settled, OpIdle, Live
  <2> QED BY <2>1, <2>2 DEF OwnInv, LiveOwned
<1> QED BY <1>1, OwnershipHolds, PTL

-----------------------------------------------------------------------------
(* One administrator at a time.  The row and the maps are updated in two   *)
(* steps, so that what the three agree on holds between requests, and for  *)
(* requests that do not overlap.                                           *)

OneAdministrator == \A a, b \in Admins : a = b

At(s, pc) == \E a \in Admins : op[a].pc = pc /\ op[a].sub = s

\* A cancelled worker has left the map before.
CancelsDropped == \A a \in Admins : op[a].pc = "cancel" => workers[op[a].sub] = None

\* Without a row there is neither worker nor secret, or Remove is still to run.
GoneForgotten ==
  \A s \in Subs : subs[s] = None =>
    \/ workers[s] = None /\ secrets[s] = 0
    \/ \E a \in Admins : op[a].pc = "detach" /\ op[a].sub = s /\ op[a].forget

\* A handler that carries a plaintext carries the one whose hash is stored.
CarriesStored ==
  \A a \in Admins :
    /\ op[a].pc \in {"add", "rotate"} =>
         subs[op[a].sub] # None /\ subs[op[a].sub].hash = op[a].secret
    /\ op[a].pc = "ensure" => subs[op[a].sub] # None
    /\ op[a].pc = "insert" => subs[op[a].sub] = None

KeepsStored ==
  \A s \in Subs : subs[s] # None =>
    secrets[s] \in {0, subs[s].hash} \/ At(s, "rotate")

MapInv ==
  /\ OneAdministrator /\ OwnInv /\ IdInv
  /\ CancelsDropped /\ GoneForgotten /\ CarriesStored /\ KeepsStored

\* Steps that neither delete a row nor change its hash.
LEMMA MapKept ==
  ASSUME MapInv, OwnInv', IdInv', UNCHANGED <<workers, secrets, op>>,
         \A s \in Subs : /\ subs'[s] = None <=> subs[s] = None
                         /\ subs[s] # None => subs'[s].hash = subs[s].hash
  PROVE  MapInv'
<1>1. \A a \in Admins : op[a].pc # "idle" => op[a].sub \in Subs
  BY OperationFields DEF MapInv, OwnInv
<1>2. CancelsDropped' /\ GoneForgotten' /\ KeepsStored'
  BY DEF MapInv, CancelsDropped, GoneForgotten, KeepsStored, At
<1>3. CarriesStored'
  BY <1>1 DEF MapInv, CarriesStored
<1> QED BY <1>2, <1>3 DEF MapInv, OneAdministrator

LEMMA StepMaps ==
  ASSUME MapInv, IdInv', NEW a \in Admins, AdminStep(a)
  PROVE  MapInv'
<1> DEFINE s == op[a].sub
<1>1. /\ OwnInv /\ OwnInv' /\ TypeInv
      /\ subs \in [Subs -> Row \cup {None}] /\ workers \in [Subs -> Workers \cup {None}]
      /\ secrets \in [Subs -> 0..MaxSecrets] /\ op \in [Admins -> Operation]
      /\ None \notin Workers /\ None \notin Row
  BY StepOwns, PushAssumption DEF MapInv, OwnInv, TypeInv, PushTypeOK, Operation, Workers
<1>2. s \in Subs
  BY <1>1, OperationFields DEF AdminStep, InsertRow, AddSecret, EnsureWorker, FetchRow, RotateSecret,
                         Detach, CancelWorker
<1>3. \A b \in Admins : b = a
  BY DEF MapInv, OneAdministrator
<1>4. CancelsDropped /\ GoneForgotten /\ CarriesStored /\ KeepsStored
  BY DEF MapInv
<1> USE DEF CancelsDropped, GoneForgotten, CarriesStored, KeepsStored, At
<1>5. ASSUME CancelsDropped', GoneForgotten', CarriesStored', KeepsStored'
      PROVE  MapInv'
  BY <1>1, <1>5 DEF MapInv, OneAdministrator
<1> HIDE DEF s
<1>6. CASE InsertRow(a)
  <2> DEFINE row == [source |-> op[a].source, cursor |-> op[a].cursor, paused |-> FALSE,
                     hash |-> op[a].secret, failures |-> 0]
  <2>1. op[a] \in Inserting
    BY <1>1, <1>6, OperationFields DEF InsertRow
  <2>2. row \in Row
    BY <2>1, PushAssumption DEF Inserting, Row
  <2>3. row.hash = op[a].secret /\ row # None
    BY <1>1, <2>2
  <2> HIDE DEF row
  <2>4. /\ subs' = [subs EXCEPT ![s] = row] /\ op[a].pc = "insert"
        /\ op'[a] = [pc |-> "add", sub |-> s, source |-> op[a].source, secret |-> op[a].secret]
        /\ workers' = workers /\ secrets' = secrets
    BY <1>1, <1>6 DEF InsertRow, row, s
  <2>5. subs'[s] = row /\ \A t \in Subs \ {s} : subs'[t] = subs[t]
    BY <1>1, <1>2, <2>4
  <2>6. \A t \in Subs : subs[t] = None => workers[t] = None /\ secrets[t] = 0
    BY <1>3, <1>4, <2>4
  <2>7. CancelsDropped' /\ CarriesStored'
    BY <1>3, <2>3, <2>4, <2>5
  <2>8. GoneForgotten'
    BY <2>3, <2>4, <2>5, <2>6
  <2>9. KeepsStored'
    BY <1>2, <1>3, <1>4, <2>4, <2>5, <2>6 DEF s
  <2> QED BY <1>5, <2>7, <2>8, <2>9
<1>7. CASE AddSecret(a)
  <2>1. /\ op[a].pc = "add" /\ secrets' = [secrets EXCEPT ![s] = op[a].secret]
        /\ op'[a] = [pc |-> "ensure", sub |-> s, source |-> op[a].source]
        /\ UNCHANGED <<subs, workers>>
    BY <1>1, <1>7 DEF AddSecret, s
  <2>2. secrets'[s] = op[a].secret /\ \A t \in Subs \ {s} : secrets'[t] = secrets[t]
    BY <1>1, <1>2, <2>1
  <2>3. subs[s] # None /\ subs[s].hash = op[a].secret
    BY <1>4, <2>1 DEF s
  <2>4. CancelsDropped' /\ CarriesStored'
    BY <1>3, <2>1, <2>3
  <2>5. GoneForgotten'
    BY <1>3, <1>4, <2>1, <2>2, <2>3
  <2>6. KeepsStored'
    BY <1>3, <1>4, <2>1, <2>2, <2>3
  <2> QED BY <1>5, <2>4, <2>5, <2>6
<1>8. CASE EnsureWorker(a)
  <2>1. /\ op[a].pc = "ensure" /\ op'[a].pc = "idle" /\ UNCHANGED <<subs, secrets>>
        /\ \A t \in Subs \ {s} : workers'[t] = workers[t]
    BY <1>1, <1>8 DEF EnsureWorker, OpIdle, s
  <2>2. subs[s] # None
    BY <1>4, <2>1 DEF s
  <2>3. CancelsDropped' /\ CarriesStored' /\ GoneForgotten' /\ KeepsStored'
    BY <1>3, <1>4, <2>1, <2>2
  <2> QED BY <1>5, <2>3
<1>9. CASE FetchRow(a)
  <2>1. /\ op[a].pc = "fetch" /\ UNCHANGED <<subs, workers, secrets>>
        /\ op'[a].pc = "idle" \/ (op'[a].pc = "ensure" /\ op'[a].sub = s /\ subs[s] # None)
    BY <1>1, <1>9 DEF FetchRow, OpIdle, s
  <2>2. CancelsDropped' /\ CarriesStored' /\ GoneForgotten' /\ KeepsStored'
    BY <1>3, <1>4, <2>1
  <2> QED BY <1>5, <2>2
<1>10. CASE RotateSecret(a)
  <2>1. /\ op[a].pc = "rotate" /\ op'[a].pc = "idle" /\ UNCHANGED <<subs, workers>>
        /\ secrets' = [secrets EXCEPT ![s] = op[a].secret]
    BY <1>1, <1>10 DEF RotateSecret, OpIdle, s
  <2>2. secrets'[s] = op[a].secret /\ \A t \in Subs \ {s} : secrets'[t] = secrets[t]
    BY <1>1, <1>2, <2>1
  <2>3. subs[s] # None /\ subs[s].hash = op[a].secret
    BY <1>4, <2>1 DEF s
  <2>4. CancelsDropped' /\ CarriesStored' /\ GoneForgotten'
    BY <1>3, <1>4, <2>1, <2>2, <2>3
  <2>5. KeepsStored'
    BY <1>3, <1>4, <2>1, <2>2, <2>3 DEF s
  <2> QED BY <1>5, <2>4, <2>5
<1>11. CASE Detach(a)
  <2>1. /\ op[a].pc = "detach" /\ workers' = [workers EXCEPT ![s] = None]
        /\ secrets' = IF op[a].forget THEN [secrets EXCEPT ![s] = 0] ELSE secrets
        /\ op'[a].pc = "idle" \/ (op'[a].pc = "cancel" /\ op'[a].sub = s)
        /\ subs' = subs
    BY <1>1, <1>11 DEF Detach, OpIdle, s
  <2>2. /\ workers'[s] = None /\ \A t \in Subs \ {s} : workers'[t] = workers[t]
        /\ \A t \in Subs \ {s} : secrets'[t] = secrets[t]
        /\ secrets'[s] = IF op[a].forget THEN 0 ELSE secrets[s]
    BY <1>1, <1>2, <2>1
  <2>3. CancelsDropped' /\ CarriesStored'
    BY <1>3, <2>1, <2>2
  <2>4. GoneForgotten'
    BY <1>3, <1>4, <2>1, <2>2 DEF s
  <2>5. KeepsStored'
    BY <1>3, <1>4, <2>1, <2>2
  <2> QED BY <1>5, <2>3, <2>4, <2>5
<1>12. CASE CancelWorker(a)
  <2>1. /\ op[a].pc = "cancel" /\ op'[a].pc = "idle" /\ UNCHANGED <<subs, workers, secrets>>
    BY <1>1, <1>12 DEF CancelWorker, OpIdle
  <2>2. CancelsDropped' /\ CarriesStored' /\ GoneForgotten' /\ KeepsStored'
    BY <1>3, <1>4, <2>1
  <2> QED BY <1>5, <2>2
<1> QED BY <1>6, <1>7, <1>8, <1>9, <1>10, <1>11, <1>12 DEF AdminStep

LEMMA BeginMaps ==
  ASSUME MapInv, IdInv', NEW a \in Admins, NEW s \in Subs, AdminBegin(a, s)
  PROVE  MapInv'
<1>1. /\ OwnInv /\ OwnInv' /\ TypeInv /\ subs \in [Subs -> Row \cup {None}]
      /\ op \in [Admins -> Operation] /\ minted \in [Subs -> 0..MaxSecrets] /\ None \notin Row
  BY BeginOwns, PushAssumption DEF MapInv, OwnInv, TypeInv, PushTypeOK, Operation
<1>2. \A b \in Admins : b = a
  BY DEF MapInv, OneAdministrator
<1>3. /\ op[a].pc = "idle" /\ UNCHANGED <<workers, secrets>>
  BY DEF AdminBegin, BeginCreate, PauseRow, ResumeRow, RotateRow, DeleteRow, Begin, OpIdle
<1>4. CancelsDropped /\ GoneForgotten /\ CarriesStored /\ KeepsStored
  BY DEF MapInv
<1> USE DEF CancelsDropped, GoneForgotten, CarriesStored, KeepsStored, At
<1>5. /\ \A t \in Subs : subs[t] = None => workers[t] = None /\ secrets[t] = 0
      /\ \A t \in Subs : subs[t] # None => secrets[t] \in {0, subs[t].hash}
  BY <1>2, <1>3, <1>4
<1>6. ASSUME CancelsDropped', GoneForgotten', CarriesStored', KeepsStored'
      PROVE  MapInv'
  BY <1>1, <1>6 DEF MapInv, OneAdministrator
<1>7. ASSUME NEW src \in Sources, NEW cursor \in Since \cup {LatestSequence(src)},
             BeginCreate(a, s, src, cursor)
      PROVE  MapInv'
  <2>1. op'[a].pc = "insert" /\ op'[a].sub = s /\ subs' = subs /\ subs[s] = None
    BY <1>1, <1>7 DEF BeginCreate, Begin, MapInv, IdInv, Unknown
  <2>2. CancelsDropped' /\ CarriesStored' /\ GoneForgotten' /\ KeepsStored'
    BY <1>2, <1>3, <1>5, <2>1
  <2> QED BY <1>6, <2>2
<1>8. CASE PauseRow(a, s) \/ ResumeRow(a, s)
  <2>1. /\ op'[a].pc \in {"detach", "fetch"} /\ op'[a].sub = s
    BY <1>1, <1>8 DEF PauseRow, ResumeRow, Begin
  <2>2. \A t \in Subs : /\ subs'[t] = None <=> subs[t] = None
                        /\ subs[t] # None => subs'[t].hash = subs[t].hash
    <3>1. ASSUME subs[s] # None, NEW p \in BOOLEAN, subs' = [subs EXCEPT ![s].paused = p]
          PROVE  \A t \in Subs : /\ subs'[t] = None <=> subs[t] = None
                                 /\ subs[t] # None => subs'[t].hash = subs[t].hash
      <4>1. subs[s] \in Row
        BY <1>1, <3>1
      <4>2. [subs[s] EXCEPT !.paused = p] \in Row /\ [subs[s] EXCEPT !.paused = p].hash = subs[s].hash
        BY <4>1 DEF Row
      <4> QED BY <1>1, <3>1, <4>2
    <3> QED BY <1>8, <3>1 DEF PauseRow, ResumeRow
  <2>3. CancelsDropped' /\ CarriesStored' /\ GoneForgotten' /\ KeepsStored'
    BY <1>2, <1>3, <1>5, <2>1, <2>2
  <2> QED BY <1>6, <2>3
<1>9. CASE RotateRow(a, s)
  <2>1. /\ op'[a] = [pc |-> "rotate", sub |-> s, secret |-> minted[s] + 1]
        /\ subs[s] \in Row /\ subs' = [subs EXCEPT ![s].hash = minted[s] + 1]
    BY <1>1, <1>9 DEF RotateRow, Begin
  <2>2. /\ subs'[s].hash = minted[s] + 1 /\ subs'[s] # None
        /\ \A t \in Subs \ {s} : subs'[t] = subs[t]
    <3>1. minted[s] + 1 \in Nat
      BY <1>1, PushAssumption
    <3>2. [subs[s] EXCEPT !.hash = minted[s] + 1] \in Row
      BY <2>1, <3>1 DEF Row
    <3>3. [subs[s] EXCEPT !.hash = minted[s] + 1].hash = minted[s] + 1
      BY <2>1 DEF Row
    <3> QED BY <1>1, <2>1, <3>2, <3>3
  <2>3. CancelsDropped' /\ CarriesStored' /\ GoneForgotten' /\ KeepsStored'
    BY <1>2, <1>3, <1>5, <2>1, <2>2
  <2> QED BY <1>6, <2>3
<1>10. CASE DeleteRow(a, s)
  <2>1. /\ op'[a] = [pc |-> "detach", sub |-> s, forget |-> TRUE]
        /\ subs' = [subs EXCEPT ![s] = None]
    BY <1>1, <1>10 DEF DeleteRow, Begin
  <2>2. CancelsDropped' /\ CarriesStored' /\ GoneForgotten' /\ KeepsStored'
    BY <1>1, <1>2, <1>3, <1>5, <2>1
  <2> QED BY <1>6, <2>2
<1> QED BY <1>7, <1>8, <1>9, <1>10 DEF AdminBegin

LEMMA RestartMaps ==
  ASSUME MapInv, IdInv', RestartPush
  PROVE  MapInv'
<1>1. /\ OwnInv' /\ TypeInv /\ subs' = subs /\ \A a \in Admins : op'[a].pc = "idle"
      /\ \A s \in Subs : secrets'[s] = 0
  BY RestartOwns DEF MapInv, OwnInv, RestartPush, OpIdle
<1>2. PICK f : Restarted(f)
  BY <1>1, RestartSpawns
<1>3. \A s \in Subs : subs[s] = None => workers'[s] = None
  BY <1>2 DEF Restarted, Active
<1>4. CancelsDropped' /\ GoneForgotten' /\ CarriesStored' /\ KeepsStored'
  BY <1>1, <1>3 DEF CancelsDropped, GoneForgotten, CarriesStored, KeepsStored
<1> QED BY <1>1, <1>4 DEF MapInv, OneAdministrator

LEMMA InitMaps == OneAdministrator /\ PushInit => MapInv
<1> SUFFICES ASSUME OneAdministrator, PushInit PROVE MapInv
  OBVIOUS
<1> QED BY InitOwns, InitIds DEF PushInit, MapInv, CancelsDropped, GoneForgotten, CarriesStored,
                                 KeepsStored, OpIdle

LEMMA NextMaps == MapInv /\ [PushNext]_vars => MapInv'
<1> SUFFICES ASSUME MapInv, [PushNext]_vars PROVE MapInv'
  OBVIOUS
<1>1. TypeInv /\ OwnInv' /\ IdInv' /\ subs \in [Subs -> Row \cup {None}]
  BY NextOwns, NextIds DEF MapInv, OwnInv, TypeInv, PushTypeOK
<1>2. CASE UNCHANGED <<subs, workers, secrets, op>>
  BY <1>1, <1>2, MapKept
<1>3. ASSUME NEW w \in Workers, WorkerStep(w) \/ TargetAccepts(w) PROVE MapInv'
  BY <1>1, <1>3, WorkerFrame, WorkerRows, MapKept
<1>4. ASSUME NEW owned \in SUBSET Subs, DeactivateOwner(owned) PROVE MapInv'
  <2>1. \A s \in Subs : subs[s] # None =>
          /\ [subs[s] EXCEPT !.paused = TRUE] \in Row
          /\ [subs[s] EXCEPT !.paused = TRUE].hash = subs[s].hash
    BY <1>1 DEF Row
  <2>2. \A s \in Subs : /\ subs'[s] = None <=> subs[s] = None
                        /\ subs[s] # None => subs'[s].hash = subs[s].hash
    BY <1>1, <1>4, <2>1, PushAssumption DEF DeactivateOwner
  <2> QED BY <1>1, <1>4, <2>2, MapKept DEF DeactivateOwner
<1> QED BY <1>1, <1>2, <1>3, <1>4, StepMaps, BeginMaps, RestartMaps
        DEF PushNext, vars, pushVars

LEMMA MapsHold == OneAdministrator /\ PushSpec => []MapInv
BY InitMaps, NextMaps, PTL DEF PushSpec

\* While requests do not overlap there is at every moment, not only between
\* them, at most one goroutine that has not been told to stop (ensureWorker).
THEOREM OneDeliverer == OneAdministrator /\ PushSpec => []OneLiveWorker
<1>1. MapInv => OneLiveWorker
  <2> SUFFICES ASSUME MapInv, NEW s \in Subs, NEW v \in LiveWorkers(s), NEW w \in LiveWorkers(s)
               PROVE  v = w
    BY AtMostOne DEF OneLiveWorker
  <2>1. /\ v \in Workers /\ Live(v) /\ wk[v].sub = s
        /\ w \in Workers /\ Live(w) /\ wk[w].sub = s /\ None \notin Workers
    BY PushAssumption DEF LiveWorkers, Workers
  <2>2. \A u \in {v, w} : workers[s] = u \/ CancelPending(u)
    BY <2>1 DEF MapInv, OwnInv, LiveOwned
  <2>3. \A u \in {v, w} : CancelPending(u) => workers[s] = None
    BY <2>1 DEF MapInv, OwnInv, CancelsOurs, CancelsDropped, CancelPending, Live
  <2> QED BY <2>1, <2>2, <2>3 DEF CancelPending, MapInv, OneAdministrator
<1> QED BY <1>1, MapsHold, PTL

\* Once the delete handler has returned neither a worker, a map entry nor a
\* plaintext of the subscription is left (Manager.Remove).
THEOREM DeletedIsForgotten == OneAdministrator /\ PushSpec => []Forgotten
<1>1. MapInv => Forgotten
  <2> SUFFICES ASSUME MapInv, NEW s \in Subs, subs[s] = None, Settled(s)
               PROVE  secrets[s] = 0 /\ workers[s] = None /\ LiveWorkers(s) = {}
    BY DEF Forgotten
  <2>1. secrets[s] = 0 /\ workers[s] = None
    BY DEF MapInv, GoneForgotten, Settled, OpIdle
  <2>2. ASSUME NEW w \in Workers, Live(w), wk[w].sub = s PROVE FALSE
    <3>1. CancelPending(w)
      BY <2>1, <2>2, PushAssumption DEF MapInv, OwnInv, LiveOwned, Workers
    <3> QED BY <2>2, <3>1 DEF MapInv, OwnInv, CancelsOurs, CancelPending, Settled, OpIdle, Live
  <2> QED BY <2>1, <2>2 DEF LiveWorkers
<1> QED BY <1>1, MapsHold, PTL

\* The plaintext that signs is the one whose hash is stored, after every
\* rotation, deletion and restart (Manager.Add, Rotate and Remove).
THEOREM SecretsMatch == OneAdministrator /\ PushSpec => []SecretMatchesHash
<1>1. MapInv => SecretMatchesHash
  BY DEF MapInv, KeepsStored, At, Settled, OpIdle, SecretMatchesHash
<1> QED BY <1>1, MapsHold, PTL

-----------------------------------------------------------------------------
(* Service: who is delivered to, when nobody pauses rows behind the        *)
(* Manager's back (DeactivateUserCascade does).                            *)

NoDeactivation == "deactivate" \notin Kinds

Receives(s) == subs[s] # None /\ ~subs[s].paused

\* An entry of the map is at work, or about to be removed.
EntriesLive == \A s \in Subs : workers[s] # None => Live(workers[s]) \/ At(s, "detach")

PausedServedNot ==
  \A s \in Subs : subs[s] # None /\ subs[s].paused => workers[s] = None \/ At(s, "detach")

ActiveServed ==
  \A s \in Subs : Receives(s) =>
    workers[s] # None \/ At(s, "add") \/ At(s, "ensure") \/ At(s, "fetch")

HandlersFit ==
  \A a \in Admins :
    /\ op[a].pc \in {"detach", "cancel"} => ~Receives(op[a].sub)
    /\ op[a].pc \in {"add", "ensure", "fetch"} => Receives(op[a].sub)

ServeInv ==
  /\ NoDeactivation /\ MapInv
  /\ EntriesLive /\ PausedServedNot /\ ActiveServed /\ HandlersFit

\* A goroutine ends when it has been told to stop or finds its row paused.
LEMMA WorkerExits ==
  ASSUME TypeInv, NEW w \in Workers, WorkerStep(w) \/ TargetAccepts(w), wk'[w] = Exited
  PROVE  wk[w].cancelled \/ (subs[wk[w].sub] # None /\ subs[wk[w].sub].paused)
<1>1. /\ wk \in [Workers -> Worker \cup {Exited}] /\ wk[w] \in Worker
  BY WorkerBecomes DEF TypeInv, PushTypeOK
<1>2. wk'[w].pc = "exited"
  BY DEF Exited
<1>3. \A pc : wk' = [wk EXCEPT ![w].pc = pc] => wk'[w].pc = pc
  BY <1>1 DEF Worker
<1>4. CASE GetRow(w)
  BY <1>1, <1>2, <1>3, <1>4 DEF GetRow, Goto, Worker
<1>5. CASE ReadBatch(w) \/ Send(w) \/ TargetAccepts(w) \/ AttemptFails(w)
  <2>1. \A e : wk' = [wk EXCEPT ![w].pc = "send", ![w].event = e] => wk'[w].pc = "send"
    BY <1>1 DEF Worker
  <2> QED BY <1>2, <1>3, <1>5, <2>1 DEF ReadBatch, Send, TargetAccepts, AttemptFails, Goto
<1>6. CASE GetSecret(w) \/ CommitCursor(w) \/ CommitFails(w) \/ RecordFailure(w)
  BY <1>1, <1>2, <1>6 DEF GetSecret, CommitCursor, CommitFails, RecordFailure, Worker
<1>7. CASE Wake(w)
  BY <1>1, <1>2, <1>7 DEF Wake, Worker
<1> QED BY <1>4, <1>5, <1>6, <1>7 DEF WorkerStep

LEMMA WorkerServes ==
  ASSUME ServeInv, MapInv', NEW w \in Workers, WorkerStep(w) \/ TargetAccepts(w)
  PROVE  ServeInv'
<1>1. /\ TypeInv /\ EntriesOurs /\ None \notin Workers
      /\ workers \in [Subs -> Workers \cup {None}]
  BY PushAssumption DEF ServeInv, MapInv, OwnInv, TypeInv, PushTypeOK, Workers
<1>2. /\ workers' = workers /\ op' = op
      /\ \A s \in Subs : subs'[s] = None <=> subs[s] = None
      /\ \A s \in Subs : subs[s] # None => subs'[s].paused = subs[s].paused
  BY <1>1, WorkerFrame, WorkerRows
<1>3. /\ wk[w] \in Worker /\ Becomes(wk[w], wk'[w])
      /\ \A v \in Workers \ {w} : wk'[v] = wk[v]
  BY <1>1, WorkerBecomes DEF TypeInv, PushTypeOK
<1>4. \A a \in Admins : op[a].pc # "idle" => op[a].sub \in Subs
  BY <1>1, OperationFields
<1>5. EntriesLive'
  <2> SUFFICES ASSUME NEW s \in Subs, workers[s] # None
               PROVE  Live(workers[s])' \/ At(s, "detach")'
    BY <1>2 DEF EntriesLive, Live
  <2>1. Live(workers[s]) \/ At(s, "detach")
    BY DEF ServeInv, EntriesLive
  <2>2. CASE At(s, "detach")
    BY <1>2, <2>2 DEF At
  <2>3. CASE Live(workers[s]) /\ workers[s] # w
    BY <1>1, <1>2, <1>3, <2>3 DEF Live
  <2>4. CASE Live(workers[s]) /\ workers[s] = w
    <3>1. CASE wk'[w] = Exited
      <4>1. wk[w].sub = s /\ ~wk[w].cancelled
        BY <1>1, <2>4 DEF EntriesOurs, Live
      <4>2. subs[s] # None /\ subs[s].paused
        BY <1>1, <3>1, <4>1, WorkerExits
      <4>3. At(s, "detach")
        BY <4>2 DEF ServeInv, PausedServedNot
      <4> QED BY <2>2, <4>3
    <3>2. CASE wk'[w] # Exited
      BY <1>2, <1>3, <2>4, <3>2 DEF Becomes, Live
    <3> QED BY <3>1, <3>2
  <2> QED BY <2>1, <2>2, <2>3, <2>4
<1>6. PausedServedNot' /\ ActiveServed'
  BY <1>2 DEF ServeInv, PausedServedNot, ActiveServed, Receives, At
<1>7. HandlersFit'
  BY <1>2, <1>4 DEF ServeInv, HandlersFit, Receives
<1> QED BY <1>5, <1>6, <1>7 DEF ServeInv, NoDeactivation

LEMMA StepServes ==
  ASSUME ServeInv, MapInv', NEW a \in Admins, AdminStep(a)
  PROVE  ServeInv'
<1> DEFINE s == op[a].sub
<1>1. /\ OwnInv /\ TypeInv /\ EntriesOurs /\ CancelsOurs /\ CancelsDropped
      /\ subs \in [Subs -> Row \cup {None}] /\ workers \in [Subs -> Workers \cup {None}]
      /\ op \in [Admins -> Operation] /\ wk \in [Workers -> Worker \cup {Exited}]
      /\ None \notin Workers /\ None \notin Row
  BY PushAssumption DEF ServeInv, MapInv, OwnInv, TypeInv, PushTypeOK, Operation, Workers
<1>2. s \in Subs
  BY <1>1, OperationFields DEF AdminStep, InsertRow, AddSecret, EnsureWorker, FetchRow, RotateSecret,
                         Detach, CancelWorker
<1>3. \A b \in Admins : b = a
  BY DEF ServeInv, MapInv, OneAdministrator
<1>4. EntriesLive /\ PausedServedNot /\ ActiveServed /\ HandlersFit
  BY DEF ServeInv
<1> USE DEF EntriesLive, PausedServedNot, ActiveServed, HandlersFit, At, Receives
<1>5. ASSUME EntriesLive', PausedServedNot', ActiveServed', HandlersFit'
      PROVE  ServeInv'
  BY <1>5 DEF ServeInv, NoDeactivation
<1> HIDE DEF s
<1>6. ASSUME wk' = wk PROVE \A w \in Workers : Live(w) => Live(w)'
  BY <1>6 DEF Live
<1>7. CASE InsertRow(a)
  <2> DEFINE row == [source |-> op[a].source, cursor |-> op[a].cursor, paused |-> FALSE,
                     hash |-> op[a].secret, failures |-> 0]
  <2>1. op[a] \in Inserting
    BY <1>1, <1>7, OperationFields DEF InsertRow
  <2>2. row \in Row
    BY <2>1, PushAssumption DEF Inserting, Row
  <2>3. ~row.paused /\ row # None
    BY <1>1, <2>2
  <2> HIDE DEF row
  <2>4. /\ subs' = [subs EXCEPT ![s] = row] /\ op[a].pc = "insert"
        /\ op'[a].pc = "add" /\ op'[a].sub = s /\ workers' = workers /\ wk' = wk
    BY <1>1, <1>7 DEF InsertRow, row, s
  <2>5. subs'[s] = row /\ \A t \in Subs \ {s} : subs'[t] = subs[t]
    BY <1>1, <1>2, <2>4
  <2>6. EntriesLive'
    BY <1>1, <1>3, <1>4, <1>6, <2>4 DEF Live
  <2>7. PausedServedNot' /\ ActiveServed' /\ HandlersFit'
    BY <1>2, <1>3, <1>4, <2>3, <2>4, <2>5
  <2> QED BY <1>5, <2>6, <2>7
<1>8. CASE AddSecret(a) \/ FetchRow(a) \/ RotateSecret(a)
  <2>1. /\ UNCHANGED <<subs, workers, wk>> /\ op[a].pc \in {"add", "fetch", "rotate"}
        /\ \/ op'[a].pc = "ensure" /\ op'[a].sub = s /\ op[a].pc # "rotate"
           \/ op'[a].pc = "idle" /\ (op[a].pc = "rotate" \/ subs[s] = None)
    BY <1>1, <1>8 DEF AddSecret, FetchRow, RotateSecret, OpIdle, s
  <2>2. EntriesLive'
    BY <1>1, <1>3, <1>4, <1>6, <2>1 DEF Live
  <2>3. PausedServedNot' /\ ActiveServed' /\ HandlersFit'
    BY <1>2, <1>3, <1>4, <2>1 DEF s
  <2> QED BY <1>5, <2>2, <2>3
<1>9. CASE EnsureWorker(a)
  <2>1. /\ op[a].pc = "ensure" /\ op'[a].pc = "idle" /\ subs' = subs /\ Receives(s)
    BY <1>1, <1>4, <1>9 DEF EnsureWorker, OpIdle, s
  <2>2. CASE workers[s] # None /\ UNCHANGED <<workers, wk>>
    <3>1. EntriesLive'
      BY <1>1, <1>3, <1>4, <1>6, <2>1, <2>2 DEF Live
    <3>2. PausedServedNot' /\ ActiveServed' /\ HandlersFit'
      BY <1>2, <1>3, <1>4, <2>1, <2>2 DEF s
    <3> QED BY <1>5, <3>1, <3>2
  <2>3. ASSUME NEW w \in Workers, Free(w), workers' = [workers EXCEPT ![s] = w],
               wk' = [wk EXCEPT ![w] = Spawned(s, op[a].source)]
        PROVE  ServeInv'
    <3>1. /\ workers'[s] = w /\ \A t \in Subs \ {s} : workers'[t] = workers[t]
          /\ \A v \in Workers \ {w} : wk'[v] = wk[v]
          /\ wk'[w] = Spawned(s, op[a].source) /\ wk[w] = Exited
      BY <1>1, <1>2, <2>3 DEF Free
    <3>2. Live(w)' /\ \A v \in Workers \ {w} : Live(v) => Live(v)'
      BY <3>1 DEF Live, Spawned, Exited
    <3>3. \A t \in Subs \ {s} : workers[t] # None => workers[t] \in Workers \ {w} /\ Live(workers[t])
      BY <1>1, <1>3, <1>4, <2>1, <2>3 DEF Free
    <3>4. EntriesLive'
      <4> SUFFICES ASSUME NEW t \in Subs, workers'[t] # None PROVE Live(workers[t])'
        OBVIOUS
      <4>1. PICK v \in Workers : v = workers'[t] /\ Live(v)'
        BY <1>1, <3>1, <3>2, <3>3
      <4> QED BY <4>1 DEF Live
    <3>5. PausedServedNot' /\ ActiveServed' /\ HandlersFit'
      BY <1>1, <1>2, <1>3, <1>4, <2>1, <3>1 DEF s
    <3> QED BY <1>5, <3>4, <3>5
  <2> QED BY <1>9, <2>2, <2>3 DEF EnsureWorker, s
<1>10. CASE Detach(a)
  <2>1. /\ op[a].pc = "detach" /\ workers' = [workers EXCEPT ![s] = None]
        /\ op'[a].pc = "idle" \/ (op'[a].pc = "cancel" /\ op'[a].sub = s)
        /\ UNCHANGED <<subs, wk>>
    BY <1>1, <1>10 DEF Detach, OpIdle, s
  <2>2. workers'[s] = None /\ \A t \in Subs \ {s} : workers'[t] = workers[t]
    BY <1>1, <1>2, <2>1
  <2>3. EntriesLive'
    BY <1>1, <1>3, <1>4, <1>6, <2>1, <2>2 DEF Live, s
  <2>4. PausedServedNot' /\ ActiveServed' /\ HandlersFit'
    BY <1>2, <1>3, <1>4, <2>1, <2>2 DEF s
  <2> QED BY <1>5, <2>3, <2>4
<1>11. CASE CancelWorker(a)
  <2> DEFINE w == op[a].worker
  <2>1. /\ op[a].pc = "cancel" /\ op'[a].pc = "idle" /\ UNCHANGED <<subs, workers>>
        /\ w \in Workers /\ \A v \in Workers \ {w} : wk'[v] = wk[v]
    BY <1>1, <1>11, OperationFields DEF CancelWorker, OpIdle, Cancelling, Workers
  <2>2. workers[s] = None
    BY <1>1, <2>1 DEF CancelsDropped, s
  <2>3. ASSUME NEW t \in Subs, workers[t] # None
        PROVE  workers[t] \in Workers \ {w} /\ Live(workers[t])
    <3>1. Live(workers[t]) /\ workers[t] \in Workers
      BY <1>1, <1>3, <1>4, <2>1, <2>3
    <3>2. wk[workers[t]].sub = t /\ t # s
      BY <1>1, <2>2, <2>3, <3>1 DEF EntriesOurs, Live
    <3>3. workers[t] # w
      BY <1>1, <2>1, <3>1, <3>2 DEF CancelsOurs, Live, s
    <3> QED BY <3>1, <3>3
  <2>4. EntriesLive'
    BY <2>1, <2>3 DEF Live
  <2>5. PausedServedNot' /\ ActiveServed' /\ HandlersFit'
    BY <1>2, <1>3, <1>4, <2>1 DEF s
  <2> QED BY <1>5, <2>4, <2>5
<1> QED BY <1>7, <1>8, <1>9, <1>10, <1>11 DEF AdminStep

LEMMA BeginServes ==
  ASSUME ServeInv, MapInv', NEW a \in Admins, NEW s \in Subs, AdminBegin(a, s)
  PROVE  ServeInv'
<1>1. /\ TypeInv /\ IdInv /\ subs \in [Subs -> Row \cup {None}]
      /\ op \in [Admins -> Operation] /\ minted \in [Subs -> 0..MaxSecrets] /\ None \notin Row
  BY PushAssumption DEF ServeInv, MapInv, OwnInv, TypeInv, PushTypeOK, Operation
<1>2. \A b \in Admins : b = a
  BY DEF ServeInv, MapInv, OneAdministrator
<1>3. op[a].pc = "idle" /\ UNCHANGED <<workers, wk>>
  BY DEF AdminBegin, BeginCreate, PauseRow, ResumeRow, RotateRow, DeleteRow, Begin, OpIdle
<1>4. /\ \A t \in Subs : workers[t] # None => Live(workers[t])
      /\ \A t \in Subs : subs[t] # None /\ subs[t].paused => workers[t] = None
      /\ \A t \in Subs : Receives(t) => workers[t] # None
  BY <1>2, <1>3 DEF ServeInv, EntriesLive, PausedServedNot, ActiveServed, At
<1>5. EntriesLive'
  BY <1>3, <1>4 DEF EntriesLive, Live
<1>6. ASSUME PausedServedNot', ActiveServed', HandlersFit' PROVE ServeInv'
  BY <1>5, <1>6 DEF ServeInv, NoDeactivation
<1> USE DEF PausedServedNot, ActiveServed, HandlersFit, At, Receives
<1>7. ASSUME NEW src \in Sources, NEW cursor \in Since \cup {LatestSequence(src)},
             BeginCreate(a, s, src, cursor)
      PROVE  ServeInv'
  <2>1. op'[a].pc = "insert" /\ subs' = subs
    BY <1>1, <1>7 DEF BeginCreate, Begin
  <2> QED BY <1>2, <1>3, <1>4, <1>6, <2>1
<1>8. CASE PauseRow(a, s)
  <2>1. /\ op'[a].pc = "detach" /\ op'[a].sub = s
        /\ subs' = IF subs[s] = None THEN subs ELSE [subs EXCEPT ![s].paused = TRUE]
    BY <1>1, <1>8 DEF PauseRow, Begin
  <2>2. subs'[s] # None => subs'[s].paused
    <3>1. subs[s] # None => [subs[s] EXCEPT !.paused = TRUE].paused
      BY <1>1 DEF Row
    <3> QED BY <1>1, <2>1, <3>1
  <2>3. \A t \in Subs \ {s} : subs'[t] = subs[t]
    BY <1>1, <2>1
  <2> QED BY <1>2, <1>3, <1>4, <1>6, <2>1, <2>2, <2>3
<1>9. CASE ResumeRow(a, s)
  <2>1. /\ op'[a].pc = "fetch" /\ op'[a].sub = s /\ subs[s] \in Row
        /\ subs' = [subs EXCEPT ![s].paused = FALSE]
    BY <1>1, <1>9 DEF ResumeRow, Begin
  <2>2. subs'[s] # None /\ ~subs'[s].paused
    <3>1. /\ [subs[s] EXCEPT !.paused = FALSE] \in Row
          /\ ~[subs[s] EXCEPT !.paused = FALSE].paused
      BY <2>1 DEF Row
    <3> QED BY <1>1, <2>1, <3>1
  <2>3. \A t \in Subs \ {s} : subs'[t] = subs[t]
    BY <1>1, <2>1
  <2> QED BY <1>2, <1>3, <1>4, <1>6, <2>1, <2>2, <2>3
<1>10. CASE RotateRow(a, s)
  <2>1. /\ op'[a].pc = "rotate" /\ subs[s] \in Row
        /\ subs' = [subs EXCEPT ![s].hash = minted[s] + 1]
    BY <1>1, <1>10 DEF RotateRow, Begin
  <2>2. subs'[s] # None /\ subs'[s].paused = subs[s].paused
    <3>1. minted[s] + 1 \in Nat
      BY <1>1, PushAssumption
    <3>2. /\ [subs[s] EXCEPT !.hash = minted[s] + 1] \in Row
          /\ [subs[s] EXCEPT !.hash = minted[s] + 1].paused = subs[s].paused
      BY <2>1, <3>1 DEF Row
    <3> QED BY <1>1, <2>1, <3>2
  <2>3. \A t \in Subs \ {s} : subs'[t] = subs[t]
    BY <1>1, <2>1
  <2>4. \A t \in Subs : /\ subs'[t] = None <=> subs[t] = None
                        /\ subs[t] # None => subs'[t].paused = subs[t].paused
    BY <1>1, <2>1, <2>2, <2>3
  <2>5. PausedServedNot' /\ ActiveServed'
    BY <1>3, <1>4, <2>4
  <2>6. HandlersFit'
    BY <1>2, <2>1
  <2> QED BY <1>6, <2>5, <2>6
<1>11. CASE DeleteRow(a, s)
  <2>1. /\ op'[a].pc = "detach" /\ op'[a].sub = s /\ subs' = [subs EXCEPT ![s] = None]
    BY <1>1, <1>11 DEF DeleteRow, Begin
  <2>2. subs'[s] = None /\ \A t \in Subs \ {s} : subs'[t] = subs[t]
    BY <1>1, <2>1
  <2> QED BY <1>2, <1>3, <1>4, <1>6, <2>1, <2>2
<1> QED BY <1>7, <1>8, <1>9, <1>10, <1>11 DEF AdminBegin

LEMMA RestartServes ==
  ASSUME ServeInv, MapInv', RestartPush
  PROVE  ServeInv'
<1>1. TypeInv /\ subs' = subs /\ \A a \in Admins : op'[a].pc = "idle"
  BY DEF ServeInv, MapInv, OwnInv, RestartPush, OpIdle
<1>2. PICK f : Restarted(f)
  BY <1>1, RestartSpawns
<1>3. PausedServedNot' /\ ActiveServed' /\ HandlersFit'
  BY <1>1, <1>2, PushAssumption
  DEF Restarted, Active, PausedServedNot, ActiveServed, HandlersFit, Receives, At, Workers
<1>4. EntriesLive'
  <2> SUFFICES ASSUME NEW s \in Subs, workers'[s] # None PROVE Live(workers[s])'
    BY DEF EntriesLive
  <2>1. s \in Active /\ wk'[workers'[s]] = Spawned(s, subs[s].source)
    BY <1>2 DEF Restarted
  <2> QED BY <2>1 DEF Live, Spawned, Exited
<1> QED BY <1>3, <1>4 DEF ServeInv, NoDeactivation

LEMMA InitServes == OneAdministrator /\ NoDeactivation /\ PushInit => ServeInv
<1> SUFFICES ASSUME OneAdministrator, NoDeactivation, PushInit PROVE ServeInv
  OBVIOUS
<1> QED BY InitMaps DEF PushInit, ServeInv, EntriesLive, PausedServedNot, ActiveServed, HandlersFit,
                        Receives, OpIdle

LEMMA NextServes == ServeInv /\ [PushNext]_vars => ServeInv'
<1> SUFFICES ASSUME ServeInv, [PushNext]_vars PROVE ServeInv'
  OBVIOUS
<1>1. MapInv'
  BY NextMaps DEF ServeInv
<1>2. CASE UNCHANGED <<subs, workers, wk, op>>
  BY <1>1, <1>2 DEF ServeInv, NoDeactivation, EntriesLive, PausedServedNot, ActiveServed, HandlersFit,
                    Receives, Live, At
<1>3. ASSUME NEW w \in Workers, WorkerStep(w) \/ TargetAccepts(w) PROVE ServeInv'
  BY <1>1, <1>3, WorkerServes
<1>4. ASSUME NEW owned \in SUBSET Subs, DeactivateOwner(owned) PROVE FALSE
  BY <1>4 DEF DeactivateOwner, ServeInv, NoDeactivation
<1> QED BY <1>1, <1>2, <1>3, <1>4, StepServes, BeginServes, RestartServes
        DEF PushNext, vars, pushVars

LEMMA ServiceHolds == OneAdministrator /\ NoDeactivation /\ PushSpec => []ServeInv
BY InitServes, NextServes, PTL DEF PushSpec

\* A subscription that is not paused has a goroutine that delivers for it, as
\* soon as the handlers at work on it are done (Manager.Add, Resume, Start).
THEOREM ActiveIsServed == OneAdministrator /\ NoDeactivation /\ PushSpec => []ActiveHasWorker
<1>1. ServeInv => ActiveHasWorker
  <2> SUFFICES ASSUME ServeInv, NEW s \in Subs, Receives(s), Settled(s)
               PROVE  workers[s] \in LiveWorkers(s)
    BY DEF ActiveHasWorker, Receives
  <2>1. \A pc : pc # "idle" => ~At(s, pc)
    BY DEF At, Settled, OpIdle
  <2>2. workers[s] # None /\ Live(workers[s])
    BY <2>1 DEF ServeInv, ActiveServed, EntriesLive
  <2>3. workers[s] \in Workers
    BY <2>2 DEF ServeInv, MapInv, OwnInv, TypeInv, PushTypeOK
  <2>4. wk[workers[s]].sub = s
    BY <2>2 DEF ServeInv, MapInv, OwnInv, EntriesOurs, Live
  <2> QED BY <2>2, <2>3, <2>4 DEF LiveWorkers
<1> QED BY <1>1, ServiceHolds, PTL

\* Once the pause handler has returned no goroutine delivers for the
\* subscription until the resume (Manager.Pause).
THEOREM PausedIsQuiet == OneAdministrator /\ NoDeactivation /\ PushSpec => []QuietWhilePaused
<1>1. ServeInv => QuietWhilePaused
  <2> SUFFICES ASSUME ServeInv, NEW s \in Subs, subs[s] # None, subs[s].paused, Settled(s),
                      NEW w \in Workers, Live(w), wk[w].sub = s
               PROVE  FALSE
    BY DEF QuietWhilePaused, LiveWorkers
  <2>1. workers[s] = None
    BY DEF ServeInv, PausedServedNot, At, Settled, OpIdle
  <2>2. CancelPending(w)
    BY <2>1, PushAssumption DEF ServeInv, MapInv, OwnInv, LiveOwned, Workers
  <2> QED BY <2>2 DEF ServeInv, MapInv, OwnInv, CancelsOurs, CancelPending, Settled, OpIdle, Live
<1> QED BY <1>1, ServiceHolds, PTL
=============================================================================
