------------------------------ MODULE EventStore ------------------------------
(***************************************************************************)
(* The durable event log of internal/store: the `events` table of one      *)
(* SQLite file.  The pool holds a single connection (SetMaxOpenConns(1)),  *)
(* so every statement and every transaction is one atomic step here.       *)
(*                                                                         *)
(* The module defines the queries and the transactions; Ingest says who    *)
(* runs them and when.  Two variables record history for the properties    *)
(* and are never read by a guard: accepted, the rows ever committed per    *)
(* source in commit order, and newestPruned, whether a prune has ever      *)
(* deleted the row that carried a source's highest sequence.               *)
(***************************************************************************)
EXTENDS Integers, Sequences, FiniteSets, FiniteSetsExt

CONSTANTS
  Sources,        \* configured webhook sources
  DeliveryIds,    \* provider-assigned delivery ids
  DedupeWindow    \* SQLiteOptions.DedupeWindow, in clock units

ASSUME DedupeWindowAssumption == DedupeWindow \in Nat

VARIABLES
  events,         \* the rows of the events table
  accepted,       \* history: source -> rows committed, in commit order
  newestPruned    \* history: source -> a prune has deleted the newest row

storeVars == <<events, accepted, newestPruned>>

Event == [source : Sources, sequence : Nat, deliveryId : DeliveryIds,
          providerTimestamp : Nat, receivedAt : Nat]

-----------------------------------------------------------------------------
(* Queries (internal/store/queries/events.sql).                            *)

Rows(s) == {e \in events : e.source = s}

\* COALESCE(MAX(sequence), 0) over the rows that are still there.
LatestSequence(s) == Max({0} \cup {e.sequence : e \in Rows(s)})

\* Mutant of NextSequence: counts the rows instead of taking their maximum.
NextSequenceByCount(s) == Cardinality(Rows(s)) + 1

NextSequence(s) == LatestSequence(s) + 1

\* Mutant of IsDuplicate: the window's far edge is left out.
IsDuplicateOpen(s, id, receivedAt) ==
  \E e \in Rows(s) : /\ e.deliveryId = id
                     /\ e.receivedAt > receivedAt - DedupeWindow

\* CheckEventDuplicate, with the cutoff computed from the caller's timestamp.
IsDuplicate(s, id, receivedAt) ==
  \E e \in Rows(s) : /\ e.deliveryId = id
                     /\ e.receivedAt >= receivedAt - DedupeWindow

NewerThan(s, cursor) == {e \in Rows(s) : e.sequence > cursor}

Oldest(batch) == CHOOSE e \in batch : \A f \in batch : e.sequence <= f.sequence

\* Mutant of ReadSince: the query's ORDER BY reversed.
ReadNewest(s, cursor, limit) ==
  {e \in NewerThan(s, cursor) :
     Cardinality({f \in NewerThan(s, cursor) : f.sequence > e.sequence}) < limit}

\* ReadSince: the `limit` rows of lowest sequence above the cursor.  Callers
\* walk the batch in ascending order, so a set and Oldest stand for the slice.
ReadSince(s, cursor, limit) ==
  {e \in NewerThan(s, cursor) :
     Cardinality({f \in NewerThan(s, cursor) : f.sequence < e.sequence}) < limit}

-----------------------------------------------------------------------------
(* Transactions.                                                           *)

\* The part of Append that runs once the duplicate check found nothing: the
\* sequence is chosen and the row inserted in one transaction.
InsertEvent(s, id, providerTimestamp, receivedAt) ==
  LET row == [source |-> s, sequence |-> NextSequence(s), deliveryId |-> id,
              providerTimestamp |-> providerTimestamp, receivedAt |-> receivedAt]
  IN  /\ events' = events \cup {row}
      /\ accepted' = [accepted EXCEPT ![s] = Append(@, row)]
      /\ UNCHANGED newestPruned

DeleteRows(gone) ==
  /\ events' = events \ gone
  /\ newestPruned' =
       [s \in Sources |->
          newestPruned[s] \/ \E e \in gone \cap Rows(s) : e.sequence = LatestSequence(s)]
  /\ UNCHANGED accepted

\* Mutant of Prune: deletes what is exactly as old as the retention.
PruneInclusive(s, cutoff) == DeleteRows({e \in Rows(s) : e.receivedAt <= cutoff})

\* PruneEventsBySource and PruneAllEvents.
Prune(s, cutoff) == DeleteRows({e \in Rows(s) : e.receivedAt < cutoff})

PruneAll(cutoff) == DeleteRows({e \in events : e.receivedAt < cutoff})

StoreInit ==
  /\ events = {}
  /\ accepted = [s \in Sources |-> <<>>]
  /\ newestPruned = [s \in Sources |-> FALSE]

StoreTypeOK ==
  /\ events \subseteq Event
  /\ accepted \in [Sources -> Seq(Event)]
  /\ newestPruned \in [Sources -> BOOLEAN]
=============================================================================
