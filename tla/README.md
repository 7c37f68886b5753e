# OneBusAway hooks in TLA+

`hooks` is a webhook relay: it verifies what providers POST to it, appends it to
a SQLite table, and delivers it again, pulled over Server-Sent Events (usually
by `hooksctl forward`) or pushed to registered URLs. It is one process; its
difficulty is in the goroutines between the table and the consumers, in what a
crash or a lost connection leaves behind, and in administrative handlers that
change a row and then the memory that mirrors it. The modules here specify that
part, and the accounts, credentials and commands around it. TLC checks them on small
instances; TLAPS proves every safety property of the log, of both ways of delivery, of the
accounts, the limiter and the commands for instances of any size.

## The system

| component | state | operations | interacts with | must hold | hard because |
|---|---|---|---|---|---|
| event store `internal/store` | `events` rows | append (dedupe, next sequence, insert: one transaction), read since a cursor, prune | everything | no duplicate inside the window; rows only committed above what was read; kept for the retention | timestamps are taken before the transaction; sequences are computed from the rows left |
| ingest `internal/ingest`, `internal/sources` | a goroutine per request | verify, append, acknowledge, publish | store, notifier | an acknowledged event is stored and announced | the announcement is a separate goroutine |
| notifier `internal/pubsub` | source -> one-slot channels | subscribe, unsubscribe, publish | ingest, workers, SSE handlers | a consumer that waits has nothing to read, or will be woken | sends are dropped when the slot is full |
| pruner `internal/prune`, `hooks prune` | none | hourly per source, manual over all | store | nothing younger than the retention goes | sequence reuse after the newest row goes |
| push dispatcher `internal/push` | `push_subscriptions`, two maps, a goroutine per subscription | the delivery loop, start | store, notifier, targets | in order, at least once, one deliverer, caught up | lost answers, cancelled workers that still run, restarts without secrets |
| push administration `internal/push/api.go`, `internal/me`, `internal/inspector` | the same rows and maps | create, pause, resume, rotate, delete; deactivation cascade | dispatcher | rows and maps agree once the handler is done | two steps, no lock around both |
| SSE handler `internal/subscribe` | a goroutine per connection, its cursor | register, backlog, live drains | store, notifier, client | no gap between backlog and live | register, read, and wait race with commits |
| `hooksctl forward` | cursor in memory and in a file | connect, POST until 2xx, save, reconnect | SSE handler, local target | the file never passes an unhandled event | killed between answer and save; connections cut anywhere |
| inspector replay | none | publish an old sequence again | notifier, SSE handlers | a connected subscriber gets the event again | the subscriber's cursor is past it |
| accounts `internal/store`, `internal/admin`, `internal/inspector` | `users` | cascade, reactivate, reset, profile | sessions, tokens, push | no live credential of a deactivated owner; one active administrator | handlers act on a snapshot of the caller |
| sessions `internal/auth` | `user_sessions` | login, look-up with sliding expiry, logout, sweep | accounts | no session of an old password; none expires while it is used | read, slide, sweep and reset are separate steps |
| tokens `internal/tokens`, `internal/me` | `listener_tokens`, a map of recent touches | resolve, issue, mint, revoke, transfer, sweep | accounts, SSE handler | no token in use is swept | last use is debounced in memory |
| invites and sign-up `internal/invites`, `hooks init` | `invites` | create, revoke, consume, bootstrap | accounts | one user per invite | concurrent sign-ups, two processes |
| device pairing `internal/devicepair`, `hooksctl login` | `device_pairings`, a credentials file | start, approve, deny, poll, fetch, expire | accounts, tokens | one token per pairing, erased only after it was sent | deferred goroutine, polls, sweeper |
| rate limiter `internal/ratelimit` | buckets per key | allow, sweep | handlers | never more than the burst and its refill; a client that waits as told is admitted | several buckets per key |
| other `hooksctl` commands | none | one request each | the APIs | the exit code tells the outcome | answers get lost; each command lists the statuses it takes for success |

Configuration, HTML views, CSRF, the terminal interface, request signing, password
hashing, the audit log and migrations keep no state that the above depends on; they
are listed in `PROJECT.json` with the reason each is left out.

SQLite is opened with one connection (`SetMaxOpenConns(1)`, `sqlite.go:56`), so a
statement or a transaction is one atomic step. A critical section under
`Manager.mu` or the notifier's mutex is one step too. Nothing else is atomic.

## Modules

An arrow is EXTENDS. `Ingest` takes `Notifier` by INSTANCE; `Push` and `Forward` take
`Feed` by INSTANCE.

    EventStore -> Ingest -> Push
                  Ingest -> Stream -> Forward -> Replay
    Tables -> Accounts -> Invites ------------------\
              Accounts -> DevicePairing -> Hooksctl --> Enrolment
    Tables -> RateLimit ----------------------------/

Delivery:

- `EventStore`: the `events` table as a set of rows; `LatestSequence`,
  `NextSequence`, `IsDuplicate`, `ReadSince` are the queries, `InsertEvent`,
  `Prune`, `PruneAll` the transactions. `accepted` and `newestPruned` are history.
  A batch is a set; callers walk it with `Oldest`.
- `Notifier`: registered channels and whether each one's slot is full. Both
  consumers discard the number in the channel, so it is not kept.
- `Ingest`: a request is verified (`VerifyRequest`), stamped (`StampRequest`,
  the clock read of `sqlite.go:167`), then a duplicate, accepted or failed; an
  accepted one still has `PublishEvent` before it. `PruneSource`,
  `PruneOlderThan`, `ReplayWake`, `Tick` and `Restart` are everything else that
  touches log and notifier.
- `Push`: `subs` is the table, `workers` and `secrets` are the Manager's maps,
  `wk[w].pc` is where a worker goroutine is. States are between two
  accesses to shared state: `top` (before `Subs.Get`), `secret`, `read`, `send`,
  `await` (the POST is with the target), `answered` (2xx), `record`, and the four
  selects `backoff`, `retry`, `park`, `idle`. `op[a].pc` is where an administrative
  handler is between its row step and its map step, and between the map step
  and `w.cancel()`. A worker that is cancelled goes on until it looks at its
  context. `handled` and `start` are history.
- `Stream`: `conn[c]` is a handler goroutine with its cursor, cutoff and batch,
  `wire[c]` what it has written and the client has not read. A connection has
  two ends which find out separately that it is gone. Writes to a dead
  connection may succeed and are lost.
- `Forward`: the client's process `fwd`, the cursor `file`, the target's
  `handled`. `SaveCursor` truncates the file and `FinishSave` writes it, as
  `os.WriteFile` does.
- `Replay`: adds what each connection is owed by an inspector replay.
- `Feed`: the abstract specification of delivery. Per consumer it has the sequences
  that are stored, those the target has processed, those a backlog left out, where
  the consumer would resume and the position it was given. Rows are added above
  what is stored, pruned, processed for the first time in order only, and the
  position moves over settled events or back. `Push` instantiates it with its
  subscriptions and the row's cursor, `Forward` with its clients and the
  cursor's file.

Accounts:

- `Tables`: the six tables around users as functions from keys to rows, and the SQL
  statements of `internal/store` as operators on them. A statement keeps the guard of
  its WHERE clause, which is where several of the properties below are decided.
- `Accounts`: `call[c]` is a request. A credential is looked up in the steps the
  middleware takes (session row, user row, slide; or token, touch, owner), which ends
  in `authorised` with the snapshot the handler goes on with (user, routes,
  scopes, token). A handler of several store calls is several actions
  (`ResetPassword`, `EvictSessions`; `PatchUser`, `WriteProfile`; `RevokeOwn`,
  `RevokeChecked`; `RequireOwnedSub` and what follows it). The inspector's forms call
  the same store functions as the APIs and are these actions for callers with a
  session. `late`, `evicted`, `verified`, `overtaken` and `lastUse` are history.
- `Invites`: the handlers' store calls on `invites`, and `hooks init` and `hooks invite`,
  which are processes of their own on the same database file.
- `DevicePairing`: `login[l]` is a terminal, `approval[c]` an approval between reading
  the pairing and its transaction, `marking` the detached goroutines that have not
  run yet, `profile` the credentials files.
- `Hooksctl`: an endpoint is the set of its outcomes, each a status with the tables it
  leaves; a command sends one request, whose answer may be lost, and exits.
- `RateLimit`: buckets in units of 1/per tokens, in which refills are whole numbers.
- `Enrolment`: all of these on one database, with one restart.

Lemmas and theorems are in modules of their own, along the same lines:

    IngestProofs -> PushProofs -> ManagerProofs
    IngestProofs -> ForwardProofs
    FeedProofs
    EnrolmentProofs -> AdmissionProofs (invites, pairing, limiter)
    EnrolmentProofs -> SessionProofs (sessions, tokens)

`MCIngest`, `MCPush`, `MCForward`, `MCReplay`, `MCEnrolment` hold the constants for TLC.

Operators whose comment begins with "Mutant of" are plausible bugs of the
definition below them. No specification uses them; they show that the property
checked against them can fail.

## Checks

`tlc -workers 2 -config <cfg> <module>`; a run takes between seconds and about
two minutes.

| run | question | bounds that matter |
|---|---|---|
| `ingest` | Do racing requests, prunes and restarts keep the log free of duplicates, gaps and early deletions? | two requests, two ids, clock 1..4 with window 1, retention 1 and manual age 2, so rows fall on, inside and outside each limit |
| `push_lifecycle` | Do rows, maps, goroutines and secrets agree after any four operations? | one administrator, four operations, two worker identities, so that an old worker can outlive its successor's start; two secrets; two events |
| `push_races` | What survives when two administrators race, rows are pruned and numbers reused, and is it still what `Feed` promises? | three operations (the creation and two out of pause, resume, cascade); three events of one id at window 0; a manual prune that leaves what is one old, so that the newest row goes in some histories only |
| `push_live` | Is a subscription left alone always caught up? | two events, failures without bound, fairness below |
| `forward` | Is the chain provider - server - network - client - file - target at least once and in order, and does it implement `Feed`? | two faults of any kind, two connections of one client, batches of two |
| `forward_live` | Does it catch up, and is everything released? | two faults, batches of one so that a drain takes several reads |
| `enrolment` | What holds of users, credentials, invites, pairings, commands and limits while two requests interleave with sweeps, other processes and restarts? | the seventeen scenarios below |

Five runs show where a document and the code differ, each with its shortest
history (`findings` in `PROJECT.json` quotes both sides):

- `ingest_gapless`: sequences restart once a prune has removed the newest row.
- `push_deactivate`: after the cascade a worker exits by itself and stays in the
  map; resume then starts none until the process restarts or the subscription
  is paused and resumed once more.
- `forward_oversized`: an event whose SSE line is longer than 1 MiB blocks the
  forwarder for good.
- `stream_replay`: a replayed event is not sent to connected subscribers.
- `invite_commands`: `hooksctl invite` sends a bearer token to routes that look at
  session cookies only, and gets 401.

### Scenarios of `enrolment`

All operations together with useful bounds are out of TLC's reach. A behaviour of
`EnrolmentSpec` draws a set of operations, with a bound on how many
requests begin and on the clock, when it starts. Steps of requests that have begun, and
sweeps, are never switched off. The rows at the start are two active administrators, a
developer with a subscription and the ephemeral listener of a running forward, two
sessions, and an administrator's personal token in one terminal's file; where `hooks init`
takes part the database is empty.

| operations | requests, time | aimed at |
|---|---|---|
| session, bearer, deactivate, reactivate, restart | 4, 0 | `AdminRemains`, `CascadeComplete` |
| session, bearer, deactivate, mint | 3, 0 | the cascade against a token being minted |
| session, bearer, deactivate, reactivate, transfer | 4, 0 | the cascade against changes of owner |
| session, deactivate, reactivate, push | 4, 0 | the cascade against pause, resume, create and delete |
| session, bearer, deactivate, issue, revoke | 3, 0 | the administrators' token API and forms |
| login, logout, session, reset, restart | 4, 0 | `SessionsFollowPassword` |
| session, profile, mint, revoke | 3, 0 | stale scopes, a caller's own tokens |
| login, session | 3, 4 | `SessionOutlivesUse`: TTL 4, slide after 2 |
| bearer, restart | 3, 5 | `SweepSparesUsed`: idle limit 3, touch after 2 |
| init, signup, restart | 3, 3 | bootstrap, invites that live 1 |
| session, invite, signup | 4, 0 | `SingleUse` against revocation and a second sign-up |
| session, pairing | 2, 3 | pairing life of 1, kept for 1 |
| session, pairing, restart | 3, 0 | `PurgedWasSent` across lost goroutines |
| session, pairing, deactivate | 3, 0 | approval against the cascade |
| session, forward, logout, deactivate | 4, 0 | the terminal's own tokens |
| cli | 2, 0 | `ExitTellsOutcome` |
| limit, restart | 1, 0 | the limiter's own clock runs to 10, with limits 1 per 1 s and 2 per 8 s |

Two callers are enough for a property that breaks between one handler's steps and another
request; the third and fourth requests set the stage one after the other. Times are
chosen so that a lifetime, the interval of its debounce and a sweep's cutoff
are reached and passed by one.

### What the properties say

`UniqueWithinWindow`, `GaplessUntilNewestPruned`, `KeptForRetention` and
`AppendsAtEnd` are the contract of the log. The last is what every cursor relies
on: a reader that has seen sequence n will never have a row at or below n committed
behind it. `CursorCoversHandled` and `FileCoversHandled` are at-least-once
delivery: a stored event below the cursor was processed (or, for SSE, left out of
a backlog as stale, which `docs/deployment.md` describes).
`HandledInOrder` and `ForwardedInOrder` say that no event is processed for the
first time before an earlier stored one. `PushImplementsFeed` and
`ForwardImplementsFeed` say that every step is one that `Feed` allows or changes
nothing it sees: the two transports keep one promise, and what a step may do to
cursor, target and log is bounded, not only which states are reached. All six carry
the proviso that the source's newest row has not been pruned: after that numbers
repeat and cursors mean something else, which `ingest_gapless` shows. `NoMissedWakeup`
and `SelectMissesNothing` say that a consumer waits only when it has nothing to read or
its wake-up is under way. `OneLiveWorker`, `ActiveHasWorker`, `QuietWhilePaused`,
`Forgotten` and `SecretMatchesHash` relate rows to memory whenever no handler is at
work on the subscription. `CatchesUp`, `ForwardCatchesUp` and `GoneIsReleased` are
the liveness side.

`AdminRemains`: no step takes the last active administrator away. `CascadeComplete`: what
a deactivated user owns is revoked and paused, apart from what a request that was
authorised earlier hands over afterwards; the code lets those in, and the property pins
down that nothing else survives. `SessionsFollowPassword`: an acknowledged reset leaves
no session of an older password, apart from logins that had already verified it.
`SessionOutlivesUse` and `SweepSparesUsed`: debounced expiries never run ahead of the last
use by more than the debounce. `SingleUse`: an invite makes at most one user, with its
role. `OneTokenPerPairing` and `PurgedWasSent`: a pairing is decided once, and its
plaintext is erased only after an answer with it was written. `RateBounded` and
`RetryAfterSuffices`: a key gets at most burst plus refill over any interval,
also across `Sweep`, and a client that comes back when told is served.
`ExitTellsOutcome`: exit code 0 means that it was done, and an answered failure other than a
server error means that nothing changed.

### Bounds

`MaxTime` bounds the clock, `MaxOps` administrative operations and restarts,
`MaxSecrets` secrets per subscription, `MaxFaults` cut connections, failed reads and
crashes, and `MaxFailures` saturates the failure counter, which nothing
reads but the length of a backoff. One source is enough because no operation
touches two sources except the manual prune, whose effect on each is that of a
prune; one subscription because workers share nothing but the notifier, where they are
separate channels. In `push_lifecycle` retention is off because pruning needs a
clock, which multiplies states; `push_races` has it. The dedupe
window is larger than the clock where retries by the provider are not in question.
In `enrolment`, `Scenarios` bounds requests and clock, `MaxPassword` the passwords
of a user and `MaxInstant` the limiter's clock; ids are taken from small sets, which the code's
UUIDs and codes stand for and which an operation that finds none left cannot use.

### Fairness

`PushFairness`: a worker that can step does, and so does a handler (goroutines run,
timers fire, store calls return). The target that is tried again and again
answers some day, and the store some day accepts the cursor: strong fairness of
`TargetAccepts` and `CommitCursor`, since failures in between disable them; retries
are unbounded in the code (`worker.go:96-111`). `ForwardFairness` is the same
for handlers, the process, connecting, the target and saving. `NoticeGone` is
fair because Go's select picks at random among ready cases, and a write
to a closed connection fails in the end. No fairness is given to providers,
operators, clocks, crashes or faults. Releases of dead connections and
catching up hold because faults are finitely many, which `MaxFaults` makes them.
Nothing in the accounts' part promises progress without somebody asking for it, so it has
no fairness.

## Proofs

Every invariant and every action property that a passing run checks is stated by a
theorem. A run shows it on an instance small enough to enumerate, the theorem for every value
of the constants: any number of sources, subscriptions, goroutines, connections,
administrators, users, requests and keys, and any times. Five properties of the push side
have a hypothesis on the constants, given below.

What is assumed of the constants are the named ASSUMEs of the modules, which TLC evaluates on
every run: bounds and times are naturals (`DedupeWindowAssumption`, `IngestAssumption`,
`StreamAssumption`, `LimitsAssumption`, `PairingAssumption`); NULL, a closed connection or an
absent row is no value (`None \notin ...`); ids of different kinds differ
(`AccountsAssumption`); the rows at the start name users that exist, with their first password,
and what a deactivated one owns is revoked or paused (`InitialRowsAssumption`).

### The log

The theorems of `IngestProofs` are about `Spec` of `Ingest`. The inductive invariant is
`IInv`: the types, `now > Skew`, `LogInv`, `UniqueWithinWindow` and `KeptForRetention`.
`LogInv` is the strengthening that `GaplessUntilNewestPruned` needs, since the next sequence is
computed from the rows that are left and the property speaks of all rows ever accepted:
`SequencesBounded` (a stored row's sequence is at most the number of accepted rows,
so that a maximum exists, which is derived from the least natural above
all of them), `LatestIsLast` (until the newest row is pruned the maximum is that
number, so the next row's sequence is the number plus one) and `AcceptedBySource`.
`now > Skew` keeps a verified timestamp a natural. `UniqueWithinWindow` needs no
strengthening: a row is inserted only if no row of its id has a timestamp at or
after `receivedAt - DedupeWindow`, whatever the order in which timestamps were taken,
and a stored row of a later timestamp is refused by the same comparison.
`KeptForRetention` follows because `now` never decreases and a prune removes what is
strictly older than an age of `PruneAges`. `AppendsAtEnd` is an action property of a step
from `IInv`: the inserted row is above the maximum, and no other step inserts.
`Ingest` changes the log under `Push` and `Forward` too, so their proofs carry `IInv` along
and take from this module how the log grows, what a prune takes away, and `Position`:
a cursor n over a set of rows, with all rows between a start and n settled.

### What a consumer is promised

`FeedProofs` is about `FeedSpec`, for any set of consumers and nothing assumed of it: that
`CursorCoversSettled` follows from `Feed`'s steps, so that every
specification that implements `Feed` delivers at least once. The invariant
of a consumer, while its numbers have not been reused, is `Covered` (the property)
with `NotAhead`: a position is at most the one it was given, or not above every stored
row. That is what `Store` needs, since a new row is above all stored ones and thereby above
every position; and what `Prune` keeps, since a newest row that goes sets `reused`.
`PushRefinesFeed` and `ForwardRefinesFeed` show that both ways of delivery do implement it:
every step of theirs is, for each consumer, a step of `Feed` or a stutter.

### Push

`PushProofs` is about `PushSpec`. `CursorCoversHandled` speaks of rows of the table, but a
cursor is written by a worker that read it steps before and may have been cancelled, replaced
and overtaken since. Its invariant says what each place in the loop knows:

- `TypeInv`: types, the log's `IInv`, and that an attempt has an event of its worker's source;
- `IdInv`: a subscription's id has one source for good. Rows go and ids do not come
  back, so a worker or a handler that outlives its row cannot meet another row's source;
- `CoverInv`: the cursor in the row (`RowsCovered`) and the one a worker has read
  (`ReadersCovered`) pass handled rows only; an event in hand is the first that is not
  handled, or handled already (`HeldIsNext`); one that was answered is handled
  (`AnsweredIsHandled`); a row about to be inserted starts where its history says
  (`InsertsStart`). Nothing in it says that one worker has the subscription: a
  second worker may repeat an event, and neither skips one.

Order (`HandledInOrder`) and refinement follow from `HeldIsNext` at the step at which the
target accepts. `NoMissedWakeup` has an invariant of its own, `WakeInv`: a worker from its
registration on is in the notifier's map (`Hears`), and one that waits with rows to read has its
signal or a request that is about to publish.

`ManagerProofs` is about rows, maps and goroutines. With any number of racing administrators
`OwnInv` holds: an entry of the map is a goroutine of that subscription, and a goroutine that
was not told to stop is in the map or somebody is about to cancel it. Hence
`OneWorkerOnceSettled`: when no handler is at work there is at most one. The
other five are about rows and maps that agree, which two steps without a lock around
them cannot promise to requests that overlap: the row's last
writer and the map's may be different requests. They are therefore proved under
`OneAdministrator` (no two administrators; workers, targets, ingest, prunes and restarts are
as concurrent as ever), as `push_lifecycle` checks them: `MapInv` adds to `OwnInv` that
a cancelled worker has left the map, and that without a row there is neither secret nor entry
unless its removal is under way, and that the
secret in the map, and the one a handler carries, is the row's. For `ActiveHasWorker`
and `QuietWhilePaused` `NoDeactivation` is assumed too, since the cascade of
`DeactivateUserCascade` pauses rows without a call to the Manager, which is what
`push_deactivate` shows; `ServeInv` adds that entries are alive, that unpaused rows have
one, and that what a handler is about to do fits the row.

### Forward

`ForwardProofs` is about `ForwardSpec`. The invariant is `FInv`. `LinkInv` says what the two ends of
a connection know of each other, so that a cut one carries nothing more.
`QueueInv` and `CoverInv` follow an event from the handler to the target: what a
client has not settled is in its POST, on its wire or in the handler's batch, in this
order and ascending. The file, the client's own cursor and what it asks the server to resume from
pass settled events only; the handler's cursor passes those, and what is on its way. A cut
or a crash loses what is on its way and the handler's cursor with it, so nothing has to be
said of it any longer. `FileCoversHandled`, `ForwardedInOrder` and the refinement follow.
`SelectMissesNothing` has `WakeInv`: a handler is registered before its first read, and the
signal that it has not taken stays in its channel.

### Accounts

The other proofs are about `EnrolmentSpec`, that is every operation of `Accounts`,
`Invites`, `DevicePairing`, `Hooksctl` and `RateLimit` in any order.

`EnrolmentProofs` shows the invariant `Known`: sessions, tokens, requests, sign-ups and
approvals under way name users that exist, and rows have the columns that are read. It is
needed because handlers act on snapshots taken steps before: a row inserted for a
user of a snapshot has a user only because no operation deletes one, and an UPDATE changes
nothing where there is no row. `EnrolmentNextStep` shows that every step is an
`EnrolmentStep`, which says per table what any operation may do: `UsersStep` (nothing, one
deactivation with its cascade, or a row amended without losing its role or being
deactivated), `TokensStep` and `SubsStep` (a row is as good as it was, or was given to
nobody, to somebody active, or is `late`). With `Known` the types of tables, requests and history
are inductive (`Types`); with the limiter's they are `EnrolmentTypeOK`. With that

- `AdminStays` needs one case: the administrator that the count of the deactivation found is
  another one, and the transaction leaves that row alone;
- `CascadeHolds` follows from what the cascade's own statements revoke and pause, since no
  other step makes a row better that belongs to a deactivated user;
- `ExitIsHonest` shows of every endpoint that an outcome is a refusal that changes nothing,
  or has the status its command expects together with what the command is for
  (`Either`, `Tells`); guards add refusals only (`GuardsTell`);
- `InviteMakesOneUser` (`AdmissionProofs`) needs `InvitesSound`: codes are not issued again, a
  sign-up under way has the role its row has if the row is still there, and bootstrap rows
  are for administrators. An open row belongs to no user, so the transaction's condition
  is enough, and what other steps remove is open or a bootstrap row;
- `PairingDecidedOnce` and `PlaintextKeptUntilSent` (`AdmissionProofs`) need that device codes are
  used once, and that a goroutine is started behind a written answer (`marking \subseteq
  sent`). A pending row has no token that was minted for it, by the property itself;
- `ResetEndsSessions` (`SessionProofs`) needs that an evicted password is at most the stored
  one, and that a login under way has a password at least the evicted one or is in
  `overtaken`. All steps but logins, resets and evictions are shown to be `Quiet`;
- `UseProlongs` (`SessionProofs`) needs `UseInv`: a look-up carries times of its past, the
  expiry is the last recorded use plus the TTL, and unless a slide is under way the
  last use was recorded within the interval;
- `SweepIsLate` (`SessionProofs`) needs `TouchInv`: the time in memory, which decides whether
  a use is recorded, is not ahead of the row unless a touch is under way. A use whose touch is
  lost in a restart was never recorded, and does not count as one.

### The limiter

`RateBounded` speaks of sums over intervals, of buckets that start full, refill, are
swept and are lost in a restart. `LimitInv` is inductive: `Budget` (what a bucket holds, with what
was admitted since any second, is at most burst and refill since then) implies `Bounded`, the
property, at the next admission; `NoneYet` (nothing is admitted in seconds to come);
`Promise` (a key that was told to come back has a token in each bucket by then). The history counts
admissions cumulatively, so that no sum over an interval has to be unfolded. The largest wait over
the limits exists by the well-foundedness of the naturals (`WFMin`), applied to sets.

| theorem | statement |
|---|---|
| `IngestInvariance` | `Spec => []IInv` |
| `IngestTypeCorrect` | `Spec => []IngestTypeOK` |
| `DuplicatesExcluded` | `Spec => []UniqueWithinWindow` |
| `SequencesGapless` | `Spec => []GaplessUntilNewestPruned` |
| `AcceptedKept` | `Spec => []KeptForRetention` |
| `AppendedAtEnd` | `Spec => AppendsAtEnd` |
| `AtLeastOnce` | `FeedSpec => []CursorCoversSettled` |
| `PushTypeCorrect` | `PushSpec => []PushTypeOK` |
| `EventsCovered` | `PushSpec => []CursorCoversHandled` |
| `DeliveredInOrder` | `PushSpec => HandledInOrder` |
| `PushRefinesFeed` | `PushSpec => PushImplementsFeed` |
| `WakeupsKept` | `PushSpec => []NoMissedWakeup` |
| `OneWorkerOnceSettled` | `PushSpec => [](\A s \in Subs : Settled(s) => Cardinality(LiveWorkers(s)) <= 1)` |
| `OneDeliverer` | `OneAdministrator /\ PushSpec => []OneLiveWorker` |
| `DeletedIsForgotten` | `OneAdministrator /\ PushSpec => []Forgotten` |
| `SecretsMatch` | `OneAdministrator /\ PushSpec => []SecretMatchesHash` |
| `ActiveIsServed` | `OneAdministrator /\ NoDeactivation /\ PushSpec => []ActiveHasWorker` |
| `PausedIsQuiet` | `OneAdministrator /\ NoDeactivation /\ PushSpec => []QuietWhilePaused` |
| `ForwardInvariance` | `ForwardSpec => []FInv` |
| `ForwardTypeCorrect` | `ForwardSpec => []ForwardTypeOK` |
| `FileCovers` | `ForwardSpec => []FileCoversHandled` |
| `ForwardInOrder` | `ForwardSpec => ForwardedInOrder` |
| `SelectAttended` | `ForwardSpec => []SelectMissesNothing` |
| `ForwardRefinesFeed` | `ForwardSpec => ForwardImplementsFeed` |
| `EnrolmentInvariance` | `EnrolmentSpec => []Known` |
| `EnrolmentTypes` | `EnrolmentSpec => []Types` |
| `EnrolmentTypeCorrect` | `EnrolmentSpec => []EnrolmentTypeOK` |
| `AdminStays` | `EnrolmentSpec => AdminRemains` |
| `CascadeHolds` | `EnrolmentSpec => []CascadeComplete` |
| `ExitIsHonest` | `EnrolmentSpec => []ExitTellsOutcome` |
| `InviteMakesOneUser` | `EnrolmentSpec => []SingleUse` |
| `PairingDecidedOnce` | `EnrolmentSpec => []OneTokenPerPairing` |
| `PlaintextKeptUntilSent` | `EnrolmentSpec => []PurgedWasSent` |
| `ResetEndsSessions` | `EnrolmentSpec => []SessionsFollowPassword` |
| `UseProlongs` | `EnrolmentSpec => []SessionOutlivesUse` |
| `SweepIsLate` | `EnrolmentSpec => SweepSparesUsed` |
| `LimiterInvariance` | `EnrolmentSpec => []LimitInv` |
| `RatesBounded` | `EnrolmentSpec => []RateBounded` |
| `RetriesAdmitted` | `EnrolmentSpec => []RetryAfterSuffices` |

Only model-checked: `CatchesUp`, `ForwardCatchesUp` and `GoneIsReleased`, because the
prover handles neither fairness nor ENABLED; what `Replay` adds to `Forward`; and the five
runs that show a violation.

## What is left out

Contents (headers, bodies, signatures, URLs, names, emails) are model values. Requests that
are turned away before they touch the store, and HTTP details, have no
state. `Manager.Test` and `Manager.ReplayOne` send requests and change nothing.
`since=latest` and `Last-Event-ID` of the SSE endpoint, and `hooksctl tail` and
`hooksctl replay`, are not modelled, nor is a display. Restarts keep all committed rows: the
loss of recent commits that `synchronous=NORMAL` allows on power failure is not
modelled yet. A backoff has no length.

Of the accounts: the absolute expiry of a token (`expires_at`), the browser's own expiry
of the cookie, audit entries, the password policy, and a `TouchSession` that fails
(its error is only logged, and the next request tries again) have no action. A collision of random
ids or codes is excluded. The limiter and the handlers behind it are composed, but
admission does not gate the handlers: refused requests change nothing, so the
handlers are checked for every arrival order.

Things met while reading that no run is spent on:

- `Pause` cancels a worker without waiting (`dispatcher.go:151`), so that after pause and
  resume two POSTs of one event may be out at once, which
  `push-delivery/spec.md:65` excludes.
- A signal ends a backoff (`worker.go:174`), which `push-delivery/spec.md:95` excludes.
- A running forward's ephemeral token is touched when the stream is opened only
  (`tokens/middleware.go:86`), so the sweep revokes it under a stream that lives for longer
  than the idle limit (`dev-inspector/spec.md:157`); the next reconnect is refused.
- `hooks init` counts users and makes the bootstrap invite in separate transactions
  (`main.go:231`): a sign-up in between leaves an administrator's invite open on a populated
  database (`docs/accounts.md:21`).
- `PatchMe` writes back the scopes of the caller's snapshot (`handlers_me.go:62`).
- The cookie's MaxAge is set at login and not renewed, while the stored expiry slides.
- The limiter's `Sweep` has no caller outside the tests.
- The token of a pairing can be fetched more than once until the detached goroutine has
  run.

## Plan

1. Done: the delivery side with `Feed` and its two refinements, the accounts' side, and
   theorems for every safety property of the runs.
2. Proofs: what holds of rows and maps when administrators race, beyond
   `OneWorkerOnceSettled`: which of the other four properties hold again after the
   next restart or the next undisturbed request.
3. `Durability`: power loss under `synchronous=NORMAL`, and what cursors see of it.
4. `since=latest`, `Last-Event-ID` and `hooksctl tail` in `Stream`; absolute expiry in
   `Accounts`.
