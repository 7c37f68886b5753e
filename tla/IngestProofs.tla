---------------------------- MODULE IngestProofs ----------------------------
(***************************************************************************)
(* Proofs about Ingest, for every number of sources, requests and channels *)
(* and every clock, window and retention, and about what the queries of    *)
(* EventStore return for every content of the table in which a source's    *)
(* sequences are bounded.                                                  *)
(***************************************************************************)
EXTENDS Ingest, FiniteSetTheorems, WellFoundedInduction, TLAPS

-----------------------------------------------------------------------------
(* Maxima and queries.                                                     *)

NatLess == {ss \in Nat \X Nat : ss[1] < ss[2]}

\* Every non-empty set of naturals has a least member.
LEMMA LeastNatural ==
  ASSUME NEW S, S \subseteq Nat, S # {}
  PROVE  \E m \in S : \A x \in S : m <= x
<1>1. IsWellFoundedOn(NatLess, Nat)
  BY NatLessThanWellFounded, Zenon DEF OpToRel, NatLess
<1>2. PICK m \in S : \A y \in S : ~(<<y, m>> \in NatLess)
  BY <1>1, WFMin, Zenon
<1>3. ASSUME NEW y \in S, y < m PROVE FALSE
  <2>1. <<y, m>> \in NatLess
    BY <1>3 DEF NatLess
  <2> QED BY <2>1, <1>2
<1>4. \A x \in S : m <= x
  BY <1>3
<1> QED BY <1>4

\* A non-empty set of naturals with an upper bound has the maximum Max picks.
LEMMA MaxOfBounded ==
  ASSUME NEW S, S \subseteq Nat, S # {}, NEW b \in Nat, \A x \in S : x <= b
  PROVE  Max(S) \in S /\ \A x \in S : x <= Max(S)
<1> DEFINE T == {d \in Nat : b - d \in S}
<1>1. \A x \in S : b - x \in T
  <2> TAKE x \in S
  <2>1. b - x \in Nat /\ b - (b - x) = x
    OBVIOUS
  <2> QED BY <2>1
<1>2. T # {} /\ T \subseteq Nat
  BY <1>1
<1>3. PICK d \in T : \A y \in T : d <= y
  <2> HIDE DEF T
  <2> QED BY <1>2, LeastNatural
<1>4. \A x \in S : b - d >= x
  <2> TAKE x \in S
  <2>1. d <= b - x
    BY <1>1, <1>3
  <2> QED BY <2>1, <1>2
<1> QED BY <1>3, <1>4 DEF Max

\* A maximum that is known need not be looked for.
LEMMA MaxIs ==
  ASSUME NEW S, S \subseteq Nat, NEW m \in S, \A x \in S : x <= m
  PROVE  Max(S) = m
<1>1. Max(S) \in S /\ \A x \in S : Max(S) >= x
  BY DEF Max
<1>2. PICK k \in S : k = Max(S)
  BY <1>1, Zenon
<1>3. k \in Nat /\ m \in Nat /\ k >= m /\ k <= m
  BY <1>1, <1>2
<1> QED BY <1>2, <1>3

-----------------------------------------------------------------------------
\* The lemmas are about a set of rows, so that they apply to the table after a
\* step as well as before it.
BoundedRows(R, b) == \A e \in R : e.sequence \in Nat /\ e.sequence <= b

HighestSequence(R) == Max({0} \cup {e.sequence : e \in R})

\* The highest sequence is 0 or the sequence of a row, and no row is above it.
LEMMA HighestOfBounded ==
  ASSUME NEW R, NEW b \in Nat, BoundedRows(R, b)
  PROVE  /\ HighestSequence(R) \in Nat
         /\ HighestSequence(R) <= b
         /\ HighestSequence(R) = 0 \/ \E e \in R : e.sequence = HighestSequence(R)
         /\ \A e \in R : e.sequence <= HighestSequence(R)
<1> DEFINE S == {0} \cup {e.sequence : e \in R}
<1>1. S \subseteq Nat /\ S # {} /\ \A x \in S : x <= b
  BY DEF BoundedRows
<1>2. Max(S) \in S /\ \A x \in S : x <= Max(S)
  <2> HIDE DEF S
  <2> QED BY <1>1, MaxOfBounded
<1>3. HighestSequence(R) = Max(S)
  BY DEF HighestSequence
<1>4. Max(S) \in Nat /\ Max(S) <= b
  <2> HIDE DEF S
  <2> QED BY <1>1, <1>2
<1>5. HighestSequence(R) = 0 \/ \E e \in R : e.sequence = HighestSequence(R)
  BY <1>2, <1>3
<1>6. \A e \in R : e.sequence <= HighestSequence(R)
  <2> TAKE e \in R
  <2>1. e.sequence \in S
    OBVIOUS
  <2> HIDE DEF S
  <2> QED BY <2>1, <1>2, <1>3
<1> QED BY <1>3, <1>4, <1>5, <1>6

\* A bound that a row reaches is the highest sequence.
LEMMA HighestIs ==
  ASSUME NEW R, NEW m \in Nat, BoundedRows(R, m),
         m = 0 \/ \E e \in R : e.sequence = m
  PROVE  HighestSequence(R) = m
<1> DEFINE S == {0} \cup {e.sequence : e \in R}
<1>1. S \subseteq Nat /\ m \in S /\ \A x \in S : x <= m
  BY DEF BoundedRows
<1>2. Max(S) = m
  <2> HIDE DEF S
  <2> QED BY <1>1, MaxIs
<1> QED BY <1>2 DEF HighestSequence

\* Oldest returns a row of the batch that no other row precedes.
LEMMA OldestOfBatch ==
  ASSUME NEW batch, batch # {}, \A e \in batch : e.sequence \in Nat
  PROVE  /\ Oldest(batch) \in batch
         /\ \A e \in batch : Oldest(batch).sequence <= e.sequence
<1> DEFINE S == {e.sequence : e \in batch}
<1>1. S \subseteq Nat /\ S # {}
  OBVIOUS
<1>2. PICK m \in S : \A x \in S : m <= x
  <2> HIDE DEF S
  <2> QED BY <1>1, LeastNatural
<1>3. PICK o \in batch : o.sequence = m
  OBVIOUS
<1>4. \A e \in batch : o.sequence <= e.sequence
  <2> TAKE e \in batch
  <2>1. e.sequence \in S
    OBVIOUS
  <2> QED BY <2>1, <1>2, <1>3
<1> QED BY <1>4 DEF Oldest

-----------------------------------------------------------------------------
(* The inductive invariant.                                                *)

\* MAX(sequence)+1 never outruns the number of rows ever committed.
SequencesBounded ==
  \A e \in events : e.sequence \in 1..Len(accepted[e.source])

\* Until the newest row is pruned, MAX(sequence) is that number.
LatestIsLast ==
  \A s \in Sources : ~newestPruned[s] => LatestSequence(s) = Len(accepted[s])

AcceptedBySource ==
  \A s \in Sources : \A i \in DOMAIN accepted[s] : accepted[s][i].source = s

\* A sequence names one stored row, also when it is given out again.
UniqueSequences ==
  \A e, f \in events : e.source = f.source /\ e.sequence = f.sequence => e = f

LogInv ==
  /\ StoreTypeOK
  /\ IsFiniteSet(events)
  /\ UniqueSequences
  /\ SequencesBounded
  /\ LatestIsLast
  /\ AcceptedBySource
  /\ GaplessUntilNewestPruned

IInv ==
  /\ IngestTypeOK
  /\ now > Skew
  /\ LogInv
  /\ UniqueWithinWindow
  /\ KeptForRetention

\* Under the invariant, the lemmas about the queries apply to every source.
LEMMA LatestInLog ==
  ASSUME LogInv, NEW s \in Sources
  PROVE  /\ LatestSequence(s) \in Nat
         /\ LatestSequence(s) <= Len(accepted[s])
         /\ LatestSequence(s) = 0 \/ \E e \in Rows(s) : e.sequence = LatestSequence(s)
         /\ \A e \in Rows(s) : e.sequence <= LatestSequence(s)
<1>1. Len(accepted[s]) \in Nat
  BY DEF LogInv, StoreTypeOK
<1>2. BoundedRows(Rows(s), Len(accepted[s]))
  BY DEF LogInv, StoreTypeOK, SequencesBounded, BoundedRows, Rows, Event
<1>3. LatestSequence(s) = HighestSequence(Rows(s))
  BY DEF LatestSequence, HighestSequence
<1> QED BY <1>1, <1>2, <1>3, HighestOfBounded

LEMMA AcceptedIsEvent ==
  ASSUME StoreTypeOK, NEW s \in Sources, NEW i \in DOMAIN accepted[s]
  PROVE  accepted[s][i] \in Event /\ accepted[s][i].receivedAt \in Nat
<1>1. accepted[s] \in Seq(Event)
  BY DEF StoreTypeOK
<1>2. accepted[s][i] \in Event
  BY <1>1
<1> QED BY <1>2 DEF Event

-----------------------------------------------------------------------------
(* Inserting a row.                                                        *)

NewRow(s, id, ts, at) ==
  [source |-> s, sequence |-> NextSequence(s), deliveryId |-> id,
   providerTimestamp |-> ts, receivedAt |-> at]

\* What InsertEvent does to the table and to the history, field by field.
LEMMA InsertedRow ==
  ASSUME LogInv, NEW s \in Sources, NEW id \in DeliveryIds, NEW ts \in Nat, NEW at \in Nat,
         InsertEvent(s, id, ts, at)
  PROVE  /\ NewRow(s, id, ts, at) \in Event
         /\ NewRow(s, id, ts, at).source = s
         /\ NewRow(s, id, ts, at).sequence = LatestSequence(s) + 1
         /\ events' = events \cup {NewRow(s, id, ts, at)}
         /\ accepted' \in [Sources -> Seq(Event)]
         /\ accepted'[s] = Append(accepted[s], NewRow(s, id, ts, at))
         /\ \A t \in Sources \ {s} : accepted'[t] = accepted[t]
         /\ newestPruned' = newestPruned
<1>1. LatestSequence(s) \in Nat
  BY LatestInLog
<1>2. NewRow(s, id, ts, at) \in Event
  BY <1>1 DEF NewRow, NextSequence, Event
<1>3. accepted' = [accepted EXCEPT ![s] = Append(@, NewRow(s, id, ts, at))]
  BY DEF InsertEvent, NewRow
<1>4. accepted \in [Sources -> Seq(Event)]
  BY DEF LogInv, StoreTypeOK
<1>5. accepted'[s] = Append(accepted[s], NewRow(s, id, ts, at))
  BY <1>3, <1>4
<1>6. accepted' \in [Sources -> Seq(Event)]
  <2>1. Append(accepted[s], NewRow(s, id, ts, at)) \in Seq(Event)
    BY <1>2, <1>4
  <2> QED BY <1>3, <1>4, <2>1
<1>7. \A t \in Sources \ {s} : accepted'[t] = accepted[t]
  BY <1>3, <1>4
<1>8. events' = events \cup {NewRow(s, id, ts, at)} /\ newestPruned' = newestPruned
  BY DEF InsertEvent, NewRow
<1> QED BY <1>2, <1>5, <1>6, <1>7, <1>8 DEF NewRow, NextSequence

LEMMA InsertKeepsLog ==
  ASSUME LogInv, NEW s \in Sources, NEW id \in DeliveryIds, NEW ts \in Nat, NEW at \in Nat,
         InsertEvent(s, id, ts, at)
  PROVE  LogInv'
<1> DEFINE row == NewRow(s, id, ts, at)
<1>1. /\ row \in Event /\ row.source = s /\ row.sequence = LatestSequence(s) + 1
      /\ events' = events \cup {row}
      /\ accepted' \in [Sources -> Seq(Event)]
      /\ accepted'[s] = Append(accepted[s], row)
      /\ \A t \in Sources \ {s} : accepted'[t] = accepted[t]
      /\ newestPruned' = newestPruned
  <2>1. row \in Event /\ row.source = s /\ row.sequence = LatestSequence(s) + 1
    BY InsertedRow
  <2>2. events' = events \cup {row} /\ newestPruned' = newestPruned
    BY InsertedRow
  <2>3. accepted' \in [Sources -> Seq(Event)] /\ accepted'[s] = Append(accepted[s], row)
    BY InsertedRow
  <2>4. \A t \in Sources \ {s} : accepted'[t] = accepted[t]
    BY InsertedRow
  <2> QED BY <2>1, <2>2, <2>3, <2>4
<1> HIDE DEF row
<1>2. /\ LatestSequence(s) \in Nat
      /\ LatestSequence(s) <= Len(accepted[s])
      /\ \A e \in Rows(s) : e.sequence <= LatestSequence(s)
  BY LatestInLog
<1>3. StoreTypeOK /\ UniqueSequences /\ SequencesBounded /\ LatestIsLast /\ AcceptedBySource
      /\ GaplessUntilNewestPruned
  BY DEF LogInv
<1>4. accepted \in [Sources -> Seq(Event)] /\ events \subseteq Event
  BY <1>3 DEF StoreTypeOK
<1>5. Len(accepted'[s]) = Len(accepted[s]) + 1 /\ Len(accepted[s]) \in Nat
  BY <1>1, <1>4
<1>6. StoreTypeOK' /\ IsFiniteSet(events)'
  <2>1. IsFiniteSet(events \cup {row})
    BY FS_AddElement DEF LogInv
  <2> QED BY <1>1, <1>3, <2>1 DEF StoreTypeOK
<1>7. UniqueSequences'
  <2>1. ASSUME NEW f \in events, f.source = s PROVE f.sequence # row.sequence
    <3>1. f \in Rows(s) /\ f.sequence \in Nat
      BY <2>1, <1>4 DEF Rows, Event
    <3> QED BY <3>1, <1>1, <1>2
  <2> QED BY <1>1, <1>3, <2>1 DEF UniqueSequences
<1>8. SequencesBounded'
  <2> SUFFICES ASSUME NEW e \in events' PROVE e.sequence \in 1..Len(accepted'[e.source])
    BY DEF SequencesBounded
  <2>1. CASE e = row
    BY <2>1, <1>1, <1>2, <1>5
  <2>2. CASE e \in events /\ e.source = s
    BY <2>2, <1>3, <1>5 DEF SequencesBounded
  <2>3. CASE e \in events /\ e.source # s
    <3>1. e.source \in Sources
      BY <2>3, <1>4 DEF Event
    <3> QED BY <2>3, <3>1, <1>1, <1>3 DEF SequencesBounded
  <2> QED BY <2>1, <2>2, <2>3, <1>1
<1>9. LatestIsLast'
  <2> SUFFICES ASSUME NEW t \in Sources, ~newestPruned'[t]
               PROVE  LatestSequence(t)' = Len(accepted'[t])
    BY DEF LatestIsLast
  <2>1. CASE t = s
    <3>1. LatestSequence(s) = Len(accepted[s])
      BY <2>1, <1>1, <1>3 DEF LatestIsLast
    <3>2. BoundedRows(Rows(s)', Len(accepted'[s]))
      <4> SUFFICES ASSUME NEW e \in Rows(s)'
                   PROVE  e.sequence \in Nat /\ e.sequence <= Len(accepted'[s])
        BY DEF BoundedRows
      <4>1. e \in events' /\ e.source = s
        BY DEF Rows
      <4>2. e.sequence \in 1..Len(accepted'[s])
        BY <4>1, <1>8 DEF SequencesBounded
      <4> QED BY <4>2, <1>5
    <3>3. row \in Rows(s)' /\ row.sequence = Len(accepted'[s])
      BY <1>1, <1>5, <3>1 DEF Rows
    <3>4. Len(accepted'[s]) \in Nat
      BY <1>5
    <3>5. HighestSequence(Rows(s)') = Len(accepted'[s])
      BY <3>2, <3>3, <3>4, HighestIs
    <3>6. LatestSequence(s)' = HighestSequence(Rows(s)')
      BY DEF LatestSequence, HighestSequence
    <3> QED BY <3>5, <3>6, <2>1
  <2>2. CASE t # s
    <3>1. Rows(t)' = Rows(t)
      BY <2>2, <1>1 DEF Rows
    <3>2. LatestSequence(t)' = LatestSequence(t)
      BY <3>1 DEF LatestSequence
    <3> QED BY <2>2, <3>2, <1>1, <1>3 DEF LatestIsLast
  <2> QED BY <2>1, <2>2
<1>10. AcceptedBySource'
  <2> SUFFICES ASSUME NEW t \in Sources, NEW i \in DOMAIN accepted'[t]
               PROVE  accepted'[t][i].source = t
    BY DEF AcceptedBySource
  <2>1. CASE t # s
    BY <2>1, <1>1, <1>3 DEF AcceptedBySource
  <2>2. CASE t = s /\ i = Len(accepted[s]) + 1
    BY <2>2, <1>1, <1>4
  <2>3. CASE t = s /\ i \in 1..Len(accepted[s])
    <3>1. i \in DOMAIN accepted[s] /\ accepted'[s][i] = accepted[s][i]
      BY <2>3, <1>1, <1>4
    <3> QED BY <2>3, <3>1, <1>3 DEF AcceptedBySource
  <2> QED BY <2>1, <2>2, <2>3, <1>1, <1>4
<1>11. GaplessUntilNewestPruned'
  <2> SUFFICES ASSUME NEW t \in Sources, ~newestPruned'[t], NEW i \in DOMAIN accepted'[t]
               PROVE  accepted'[t][i].sequence = i
    BY DEF GaplessUntilNewestPruned
  <2>1. CASE t = s
    <3>1. LatestSequence(s) = Len(accepted[s])
      BY <2>1, <1>1, <1>3 DEF LatestIsLast
    <3>2. CASE i = Len(accepted[s]) + 1
      BY <2>1, <3>1, <3>2, <1>1, <1>4
    <3>3. CASE i \in 1..Len(accepted[s])
      <4>1. i \in DOMAIN accepted[s] /\ accepted'[s][i] = accepted[s][i]
        BY <3>3, <1>1, <1>4
      <4> QED BY <2>1, <4>1, <1>1, <1>3 DEF GaplessUntilNewestPruned
    <3> QED BY <2>1, <3>2, <3>3, <1>1, <1>4
  <2>2. CASE t # s
    BY <2>2, <1>1, <1>3 DEF GaplessUntilNewestPruned
  <2> QED BY <2>1, <2>2
<1> QED BY <1>6, <1>7, <1>8, <1>9, <1>10, <1>11 DEF LogInv

\* No row within the window carries the inserted row's delivery id.
LEMMA InsertKeepsUnique ==
  ASSUME LogInv, UniqueWithinWindow,
         NEW s \in Sources, NEW id \in DeliveryIds, NEW ts \in Nat, NEW at \in Nat,
         ~IsDuplicate(s, id, at), InsertEvent(s, id, ts, at)
  PROVE  UniqueWithinWindow'
<1> DEFINE row == NewRow(s, id, ts, at)
<1>1. events' = events \cup {row}
  BY InsertedRow
<1>2. row.source = s /\ row.deliveryId = id /\ row.receivedAt = at
  BY DEF NewRow
<1>3. \A e \in events : e.source = s /\ e.deliveryId = id =>
        at - e.receivedAt > DedupeWindow
  <2> SUFFICES ASSUME NEW e \in events, e.source = s, e.deliveryId = id
               PROVE  at - e.receivedAt > DedupeWindow
    OBVIOUS
  <2>1. ~(e.receivedAt >= at - DedupeWindow)
    BY DEF IsDuplicate, Rows
  <2>2. e.receivedAt \in Nat
    BY DEF LogInv, StoreTypeOK, Event
  <2> QED BY <2>1, <2>2, DedupeWindowAssumption
<1> HIDE DEF row
<1> QED BY <1>1, <1>2, <1>3 DEF UniqueWithinWindow

LEMMA InsertKeepsAccepted ==
  ASSUME LogInv, KeptForRetention, now' = now,
         NEW s \in Sources, NEW id \in DeliveryIds, NEW ts \in Nat, NEW at \in Nat,
         InsertEvent(s, id, ts, at)
  PROVE  KeptForRetention'
<1> DEFINE row == NewRow(s, id, ts, at)
<1>1. /\ row \in Event
      /\ events' = events \cup {row}
      /\ accepted'[s] = Append(accepted[s], row)
      /\ \A t \in Sources \ {s} : accepted'[t] = accepted[t]
  BY InsertedRow
<1> HIDE DEF row
<1>2. accepted[s] \in Seq(Event)
  BY DEF LogInv, StoreTypeOK
<1>3. ASSUME NEW t \in Sources, NEW i \in DOMAIN accepted'[t]
      PROVE  \/ accepted'[t][i] = row
             \/ i \in DOMAIN accepted[t] /\ accepted'[t][i] = accepted[t][i]
  <2>1. CASE t # s
    BY <2>1, <1>1, <1>3
  <2>2. CASE t = s
    BY <2>2, <1>1, <1>2, <1>3
  <2> QED BY <2>1, <2>2
<1> QED BY <1>1, <1>3 DEF KeptForRetention

\* The inserted row is above every row of its source.
LEMMA InsertAtEnd ==
  ASSUME LogInv, NEW s \in Sources, NEW id \in DeliveryIds, NEW ts \in Nat, NEW at \in Nat,
         InsertEvent(s, id, ts, at)
  PROVE  \A e \in events' \ events : \A f \in Rows(e.source) : f.sequence < e.sequence
<1> DEFINE row == NewRow(s, id, ts, at)
<1>1. events' = events \cup {row} /\ row.source = s /\ row.sequence = LatestSequence(s) + 1
  BY InsertedRow
<1> HIDE DEF row
<1>2. LatestSequence(s) \in Nat /\ \A f \in Rows(s) : f.sequence <= LatestSequence(s)
  BY LatestInLog
<1>3. \A f \in Rows(s) : f.sequence \in Nat
  BY DEF LogInv, StoreTypeOK, Rows, Event
<1> QED BY <1>1, <1>2, <1>3

-----------------------------------------------------------------------------
(* Deleting rows.                                                          *)

LEMMA DeleteKeepsLog ==
  ASSUME LogInv, NEW gone \in SUBSET events, DeleteRows(gone)
  PROVE  LogInv'
<1>1. /\ events' = events \ gone
      /\ accepted' = accepted
      /\ \A s \in Sources : newestPruned'[s] = (newestPruned[s] \/
           \E e \in gone \cap Rows(s) : e.sequence = LatestSequence(s))
      /\ newestPruned' \in [Sources -> BOOLEAN]
  BY DEF DeleteRows, LogInv, StoreTypeOK
<1>2. StoreTypeOK /\ SequencesBounded /\ LatestIsLast /\ AcceptedBySource
      /\ GaplessUntilNewestPruned
  BY DEF LogInv
<1>3. StoreTypeOK' /\ IsFiniteSet(events)' /\ UniqueSequences'
  <2>1. IsFiniteSet(events \ gone)
    BY FS_Subset DEF LogInv
  <2> QED BY <1>1, <1>2, <2>1 DEF LogInv, StoreTypeOK, UniqueSequences
<1>4. SequencesBounded'
  BY <1>1, <1>2 DEF SequencesBounded
<1>5. LatestIsLast'
  <2> SUFFICES ASSUME NEW s \in Sources, ~newestPruned'[s]
               PROVE  LatestSequence(s)' = Len(accepted[s])
    BY <1>1 DEF LatestIsLast
  <2>1. LatestSequence(s) = Len(accepted[s])
    BY <1>1, <1>2 DEF LatestIsLast
  <2>2. /\ LatestSequence(s) \in Nat
        /\ LatestSequence(s) = 0 \/ \E e \in Rows(s) : e.sequence = LatestSequence(s)
        /\ \A e \in Rows(s) : e.sequence <= LatestSequence(s)
    BY LatestInLog
  <2>3. Rows(s)' = Rows(s) \ gone
    BY <1>1 DEF Rows
  <2>4. BoundedRows(Rows(s)', LatestSequence(s))
    BY <2>2, <2>3, <1>2 DEF BoundedRows, StoreTypeOK, Rows, Event
  <2>5. LatestSequence(s) = 0 \/ \E e \in Rows(s)' : e.sequence = LatestSequence(s)
    BY <2>2, <2>3, <1>1
  <2>6. HighestSequence(Rows(s)') = LatestSequence(s)
    BY <2>2, <2>4, <2>5, HighestIs
  <2>7. LatestSequence(s)' = HighestSequence(Rows(s)')
    BY DEF LatestSequence, HighestSequence
  <2> QED BY <2>1, <2>6, <2>7
<1>6. AcceptedBySource'
  BY <1>1, <1>2 DEF AcceptedBySource
<1>7. GaplessUntilNewestPruned'
  BY <1>1, <1>2 DEF GaplessUntilNewestPruned
<1> QED BY <1>3, <1>4, <1>5, <1>6, <1>7 DEF LogInv

LEMMA DeleteKeepsUnique ==
  ASSUME UniqueWithinWindow, NEW gone, DeleteRows(gone)
  PROVE  UniqueWithinWindow'
BY DEF UniqueWithinWindow, DeleteRows

\* The rows of `gone` are older than some age in use for their source.
Expired(gone) ==
  \A s \in Sources : \A i \in DOMAIN accepted[s] : accepted[s][i] \in gone =>
    \E age \in PruneAges(s) : ~(accepted[s][i].receivedAt >= now - age)

LEMMA DeleteKeepsAccepted ==
  ASSUME KeptForRetention, now' = now, NEW gone, DeleteRows(gone), Expired(gone)
  PROVE  KeptForRetention'
BY DEF KeptForRetention, DeleteRows, Expired

-----------------------------------------------------------------------------
(* The steps.                                                              *)

\* A step that leaves the table alone and does not turn the clock back.
LEMMA QuietKeepsLog ==
  ASSUME IInv, UNCHANGED storeVars, now' \in {now, now + 1}
  PROVE  now' \in Nat /\ now' > Skew /\ LogInv' /\ UniqueWithinWindow' /\ KeptForRetention'
<1>1. /\ events' = events /\ accepted' = accepted /\ newestPruned' = newestPruned
      /\ now \in Nat /\ now > Skew /\ Skew \in Nat
  BY IngestAssumption DEF storeVars, IInv, IngestTypeOK
<1>2. LogInv'
  BY <1>1 DEF IInv, LogInv, StoreTypeOK, UniqueSequences, SequencesBounded, LatestIsLast,
              LatestSequence, Rows, AcceptedBySource, GaplessUntilNewestPruned
<1>3. UniqueWithinWindow'
  BY <1>1 DEF IInv, UniqueWithinWindow
<1>4. KeptForRetention'
  <2> SUFFICES
        ASSUME NEW s \in Sources, NEW i \in DOMAIN accepted[s],
               \A age \in PruneAges(s) :
                 accepted[s][i].receivedAt >= now' - age
        PROVE  accepted[s][i] \in events
    BY <1>1 DEF KeptForRetention
  <2>1. accepted[s][i].receivedAt \in Nat
    BY AcceptedIsEvent DEF IInv, LogInv
  <2>2. \A age \in PruneAges(s) :
          age \in Nat /\ accepted[s][i].receivedAt >= now - age
    BY <2>1, <1>1, IngestAssumption DEF PruneAges
  <2> QED BY <2>2 DEF IInv, KeptForRetention
<1> QED BY <1>1, <1>2, <1>3, <1>4

LEMMA InitIInv == IngestInit => IInv
<1> SUFFICES ASSUME IngestInit PROVE IInv
  OBVIOUS
<1>1. /\ events = {} /\ accepted = [s \in Sources |-> <<>>]
      /\ newestPruned = [s \in Sources |-> FALSE]
      /\ now = Skew + 1 /\ req = [r \in Requests |-> Idle]
      /\ registered = [s \in Sources |-> {}] /\ signal = [c \in Channels |-> FALSE]
  BY DEF IngestInit, StoreInit, NotifierInit
<1>2. IngestTypeOK /\ now > Skew
  BY <1>1, IngestAssumption DEF IngestTypeOK, StoreTypeOK, NotifierTypeOK
<1>3. \A s \in Sources : Rows(s) = {} /\ accepted[s] = <<>>
  BY <1>1 DEF Rows
<1>4. LatestIsLast
  <2> SUFFICES ASSUME NEW s \in Sources PROVE LatestSequence(s) = Len(accepted[s])
    BY DEF LatestIsLast
  <2>1. BoundedRows(Rows(s), 0)
    BY <1>3 DEF BoundedRows
  <2>2. LatestSequence(s) = 0
    BY <2>1, HighestIs DEF LatestSequence, HighestSequence
  <2> QED BY <2>2, <1>3
<1>5. IsFiniteSet(events) /\ UniqueSequences /\ SequencesBounded /\ UniqueWithinWindow
  BY <1>1, FS_EmptySet DEF UniqueSequences, SequencesBounded, UniqueWithinWindow
<1>6. AcceptedBySource /\ GaplessUntilNewestPruned /\ KeptForRetention
  BY <1>3 DEF AcceptedBySource, GaplessUntilNewestPruned, KeptForRetention
<1> QED BY <1>2, <1>4, <1>5, <1>6 DEF IInv, LogInv, IngestTypeOK

\* What holds of a request that is about to run its transaction.
LEMMA StampedFields ==
  ASSUME IngestTypeOK, NEW r \in Requests, req[r].pc = "stamped"
  PROVE  /\ req[r].source \in Sources /\ req[r].deliveryId \in DeliveryIds
         /\ req[r].providerTimestamp \in Nat /\ req[r].receivedAt \in Nat
BY DEF IngestTypeOK, Idle, Verified, Stamped, Publishing

LEMMA RequestKeepsIInv ==
  ASSUME IInv, NEW r \in Requests, RequestStep(r)
  PROVE  IInv'
<1> USE DEF notifierVars
<1>0. IngestTypeOK /\ LogInv /\ UniqueWithinWindow /\ KeptForRetention
  BY DEF IInv
<1>1. ASSUME NEW s \in Sources, NEW id \in DeliveryIds,
             NEW ts \in (now - Skew)..(now + Skew), VerifyRequest(r, s, id, ts)
      PROVE  IInv'
  <2>1. UNCHANGED storeVars /\ now' = now
    BY <1>1 DEF VerifyRequest
  <2>2. ts \in Nat
    BY IngestAssumption DEF IInv, IngestTypeOK
  <2>3. IngestTypeOK'
    BY <1>0, <1>1, <2>2 DEF VerifyRequest, IngestTypeOK, StoreTypeOK, storeVars,
                            NotifierTypeOK, Verified
  <2> QED BY <2>1, <2>3, QuietKeepsLog DEF IInv
<1>2. CASE StampRequest(r)
  <2>1. UNCHANGED storeVars /\ now' = now
    BY <1>2 DEF StampRequest
  <2>2. /\ req[r].source \in Sources /\ req[r].deliveryId \in DeliveryIds
        /\ req[r].providerTimestamp \in Nat
    BY <1>0, <1>2 DEF StampRequest, IngestTypeOK, Idle, Verified, Stamped, Publishing
  <2>3. IngestTypeOK'
    BY <1>0, <1>2, <2>2 DEF StampRequest, IngestTypeOK, StoreTypeOK, storeVars,
                            NotifierTypeOK, Stamped
  <2> QED BY <2>1, <2>3, QuietKeepsLog DEF IInv
<1>3. CASE AnswerDuplicate(r) \/ FailRequest(r)
  <2>1. UNCHANGED storeVars /\ now' = now
    BY <1>3 DEF AnswerDuplicate, FailRequest
  <2>2. IngestTypeOK'
    BY <1>0, <1>3 DEF AnswerDuplicate, FailRequest, IngestTypeOK, StoreTypeOK, storeVars,
                      NotifierTypeOK
  <2> QED BY <2>1, <2>2, QuietKeepsLog DEF IInv
<1>4. CASE AcceptRequest(r)
  <2> DEFINE s == req[r].source
             id == req[r].deliveryId
             ts == req[r].providerTimestamp
             at == req[r].receivedAt
  <2>1. s \in Sources /\ id \in DeliveryIds /\ ts \in Nat /\ at \in Nat
    BY <1>0, <1>4, StampedFields DEF AcceptRequest
  <2>2. ~IsDuplicate(s, id, at) /\ InsertEvent(s, id, ts, at) /\ now' = now
    BY <1>4 DEF AcceptRequest
  <2> HIDE DEF id, ts, at
  <2>3. LogInv'
    BY <1>0, <2>1, <2>2, InsertKeepsLog
  <2>4. UniqueWithinWindow'
    BY <1>0, <2>1, <2>2, InsertKeepsUnique
  <2>5. KeptForRetention'
    BY <1>0, <2>1, <2>2, InsertKeepsAccepted
  <2>6. IngestTypeOK'
    BY <1>0, <1>4, <2>1, <2>3 DEF AcceptRequest, IngestTypeOK, LogInv, NotifierTypeOK, Publishing
  <2> QED BY <2>2, <2>3, <2>4, <2>5, <2>6 DEF IInv
<1>5. CASE PublishEvent(r)
  <2>1. UNCHANGED storeVars /\ now' = now
    BY <1>5 DEF PublishEvent
  <2>2. IngestTypeOK'
    BY <1>0, <1>5 DEF PublishEvent, Publish, IngestTypeOK, StoreTypeOK, storeVars, NotifierTypeOK
  <2> QED BY <2>1, <2>2, QuietKeepsLog DEF IInv
<1> QED BY <1>1, <1>2, <1>3, <1>4, <1>5 DEF RequestStep

LEMMA PruneKeepsIInv ==
  ASSUME IInv,
         \/ \E s \in Sources : PruneSource(s)
         \/ \E age \in ManualAges : PruneOlderThan(age)
  PROVE  IInv'
<1>0. IngestTypeOK /\ LogInv /\ UniqueWithinWindow /\ KeptForRetention
  BY DEF IInv
<1>1. UNCHANGED <<now, req, notifierVars>>
  BY DEF PruneSource, PruneOlderThan
<1>2. PICK gone \in SUBSET events : DeleteRows(gone) /\ Expired(gone)
  <2>1. ASSUME NEW s \in Sources, PruneSource(s)
        PROVE  \E gone \in SUBSET events : DeleteRows(gone) /\ Expired(gone)
    <3> DEFINE gone == {e \in Rows(s) : e.receivedAt < now - Retention[s]}
    <3>1. gone \in SUBSET events /\ DeleteRows(gone) /\ Retention[s] > 0
      BY <2>1 DEF PruneSource, Prune, Rows
    <3>2. ASSUME NEW t \in Sources, NEW i \in DOMAIN accepted[t], accepted[t][i] \in gone
          PROVE  t = s /\ ~(accepted[t][i].receivedAt >= now - Retention[s])
      <4>1. t = s
        BY <1>0, <3>2 DEF LogInv, AcceptedBySource, Rows
      <4>2. accepted[t][i].receivedAt \in Nat
        BY <1>0, <3>2, AcceptedIsEvent DEF LogInv
      <4> QED BY <4>1, <4>2, <3>2, IngestAssumption, <1>0 DEF IngestTypeOK
    <3>3. Retention[s] \in PruneAges(s)
      BY <3>1 DEF PruneAges
    <3>4. Expired(gone)
      BY <3>2, <3>3 DEF Expired
    <3> QED BY <3>1, <3>4
  <2>2. ASSUME NEW age \in ManualAges, PruneOlderThan(age)
        PROVE  \E gone \in SUBSET events : DeleteRows(gone) /\ Expired(gone)
    <3> DEFINE gone == {e \in events : e.receivedAt < now - age}
    <3>1. gone \in SUBSET events /\ DeleteRows(gone)
      BY <2>2 DEF PruneOlderThan, PruneAll
    <3>2. ASSUME NEW t \in Sources, NEW i \in DOMAIN accepted[t], accepted[t][i] \in gone
          PROVE  ~(accepted[t][i].receivedAt >= now - age)
      <4>1. accepted[t][i].receivedAt \in Nat
        BY <1>0, <3>2, AcceptedIsEvent DEF LogInv
      <4> QED BY <4>1, <3>2, IngestAssumption, <1>0 DEF IngestTypeOK
    <3>3. Expired(gone)
      BY <3>2 DEF Expired, PruneAges
    <3> QED BY <3>1, <3>3
  <2> QED BY <2>1, <2>2
<1>3. LogInv'
  BY <1>0, <1>2, DeleteKeepsLog
<1>4. UniqueWithinWindow' /\ KeptForRetention'
  BY <1>0, <1>1, <1>2, DeleteKeepsUnique, DeleteKeepsAccepted
<1>5. IngestTypeOK'
  BY <1>0, <1>1, <1>3 DEF IngestTypeOK, LogInv, NotifierTypeOK, notifierVars
<1> QED BY <1>1, <1>3, <1>4, <1>5 DEF IInv

LEMMA NextKeepsIInv == IInv /\ [Next]_ingestVars => IInv'
<1> SUFFICES ASSUME IInv, [Next]_ingestVars PROVE IInv'
  OBVIOUS
<1>0. IngestTypeOK
  BY DEF IInv
<1>1. ASSUME NEW r \in Requests, RequestStep(r) PROVE IInv'
  BY <1>1, RequestKeepsIInv
<1>2. ASSUME \/ \E s \in Sources : PruneSource(s)
             \/ \E age \in ManualAges : PruneOlderThan(age)
      PROVE  IInv'
  BY <1>2, PruneKeepsIInv
<1>3. ASSUME NEW s \in Sources, ReplayWake(s) PROVE IInv'
  <2>1. UNCHANGED storeVars /\ now' = now
    BY <1>3 DEF ReplayWake
  <2>2. IngestTypeOK'
    BY <1>0, <1>3 DEF ReplayWake, Publish, IngestTypeOK, StoreTypeOK, storeVars, NotifierTypeOK
  <2> QED BY <2>1, <2>2, QuietKeepsLog DEF IInv
<1>4. CASE Tick
  <2>1. UNCHANGED storeVars /\ now' = now + 1
    BY <1>4 DEF Tick
  <2>2. IngestTypeOK'
    BY <1>0, <1>4 DEF Tick, IngestTypeOK, StoreTypeOK, storeVars, NotifierTypeOK, notifierVars
  <2> QED BY <2>1, <2>2, QuietKeepsLog DEF IInv
<1>5. CASE Restart
  <2>1. UNCHANGED storeVars /\ now' = now
    BY <1>5 DEF Restart
  <2>2. IngestTypeOK'
    BY <1>0, <1>5 DEF Restart, IngestTypeOK, StoreTypeOK, storeVars, NotifierTypeOK
  <2> QED BY <2>1, <2>2, QuietKeepsLog DEF IInv
<1>6. CASE UNCHANGED ingestVars
  <2>1. UNCHANGED storeVars /\ now' = now
    BY <1>6 DEF ingestVars, storeVars
  <2>2. IngestTypeOK'
    BY <1>0, <1>6 DEF ingestVars, IngestTypeOK, StoreTypeOK, NotifierTypeOK
  <2> QED BY <2>1, <2>2, QuietKeepsLog DEF IInv
<1> QED BY <1>1, <1>2, <1>3, <1>4, <1>5, <1>6 DEF Next, IngestNext

-----------------------------------------------------------------------------
(* Theorems of the specification.                                          *)

\* Every reachable state satisfies the inductive invariant.
THEOREM IngestInvariance == Spec => []IInv
BY InitIInv, NextKeepsIInv, PTL DEF Spec

\* The log, the requests and the notifier keep their types (internal/store,
\* internal/ingest, internal/pubsub).
THEOREM IngestTypeCorrect == Spec => []IngestTypeOK
BY IngestInvariance, PTL DEF IInv

\* Append's check keeps deliveries within the dedupe window unique although
\* received_at is read before the transaction (sqlite.go:167-189).
THEOREM DuplicatesExcluded == Spec => []UniqueWithinWindow
BY IngestInvariance, PTL DEF IInv

\* Sequences are 1, 2, 3, ... until a prune removes the newest row
\* (NextEventSequence).
THEOREM SequencesGapless == Spec => []GaplessUntilNewestPruned
BY IngestInvariance, PTL DEF IInv, LogInv

\* Neither pruner deletes an acknowledged event before its time (prune.go).
THEOREM AcceptedKept == Spec => []KeptForRetention
BY IngestInvariance, PTL DEF IInv

LEMMA NextAppendsAtEnd ==
  IInv /\ [Next]_ingestVars =>
    \A e \in events' \ events : \A f \in Rows(e.source) : f.sequence < e.sequence
<1> SUFFICES ASSUME IInv, Next, NEW row \in events' \ events
             PROVE  \A e \in events' \ events : \A f \in Rows(e.source) : f.sequence < e.sequence
  BY DEF ingestVars
<1>1. ASSUME NEW r \in Requests, AcceptRequest(r)
      PROVE  \A e \in events' \ events : \A f \in Rows(e.source) : f.sequence < e.sequence
  <2>1. /\ req[r].source \in Sources /\ req[r].deliveryId \in DeliveryIds
        /\ req[r].providerTimestamp \in Nat /\ req[r].receivedAt \in Nat
    BY <1>1, StampedFields DEF AcceptRequest, IInv
  <2>2. InsertEvent(req[r].source, req[r].deliveryId, req[r].providerTimestamp,
                    req[r].receivedAt)
    BY <1>1 DEF AcceptRequest
  <2> QED BY <2>1, <2>2, InsertAtEnd DEF IInv
<1>2. PICK r \in Requests : AcceptRequest(r)
  BY DEF Next, IngestNext, RequestStep, VerifyRequest, StampRequest, AnswerDuplicate, FailRequest,
         PublishEvent, PruneSource, PruneOlderThan, Prune, PruneAll, DeleteRows, ReplayWake, Tick,
         Restart, storeVars
<1> QED BY <1>1, <1>2

\* A row becomes visible above every visible row of its source, so a reader
\* that keeps a cursor never has to look below it (sqlite.go:191).
THEOREM AppendedAtEnd == Spec => AppendsAtEnd
<1>1. IInv /\ [Next]_ingestVars =>
        [\A e \in events' \ events : \A f \in Rows(e.source) : f.sequence < e.sequence]_ingestVars
  BY NextAppendsAtEnd
<1> QED BY <1>1, IngestInvariance, PTL DEF Spec, AppendsAtEnd

-----------------------------------------------------------------------------
(* What a consumer may rely on: how the log of a source changes, and what  *)
(* that does to a position in it.  The operators take the rows before and  *)
(* after the step, so that every consumer's proof can use them.            *)

\* Rows are added above the ones there are.
Grown(R, S) == R \subseteq S /\ \A e \in S \ R : \A f \in R : f.sequence < e.sequence

\* Rows go, and above each of them one remains.
Shrunk(R, S) == S \subseteq R /\ \A e \in R \ S : \E f \in S : e.sequence < f.sequence

Numbered(R) ==
  /\ \A e \in R : e.sequence \in Nat
  /\ \A e, f \in R : e.sequence = f.sequence => e = f

\* What a prune does to the history variable, said of the rows alone.
Outlived(R, S) == \E e \in R \ S : \A f \in S : f.sequence <= e.sequence

LEMMA RowsNumbered ==
  ASSUME LogInv, NEW s \in Sources
  PROVE  Numbered(Rows(s))
BY DEF LogInv, StoreTypeOK, UniqueSequences, Event, Rows, Numbered

LEMMA DeleteShrinks ==
  ASSUME LogInv, NEW gone \in SUBSET events, DeleteRows(gone), NEW s \in Sources
  PROVE  /\ Rows(s)' \subseteq Rows(s)
         /\ newestPruned'[s] = (newestPruned[s] \/ Outlived(Rows(s), Rows(s)'))
<1>1. Rows(s)' = Rows(s) \ gone
  BY DEF DeleteRows, Rows
<1>2. newestPruned'[s] = (newestPruned[s] \/
        \E e \in gone \cap Rows(s) : e.sequence = LatestSequence(s))
  BY DEF DeleteRows
<1>3. /\ LatestSequence(s) \in Nat
      /\ LatestSequence(s) = 0 \/ \E e \in Rows(s) : e.sequence = LatestSequence(s)
      /\ \A e \in Rows(s) : e.sequence <= LatestSequence(s)
  BY LatestInLog
<1>4. Numbered(Rows(s))
  BY RowsNumbered
<1>5. \A e \in Rows(s) : e.sequence > 0
  BY DEF LogInv, SequencesBounded, Rows
<1>6. ASSUME NEW e \in gone \cap Rows(s), e.sequence = LatestSequence(s)
      PROVE  Outlived(Rows(s), Rows(s)')
  BY <1>1, <1>3, <1>6 DEF Outlived
<1>7. ASSUME NEW e \in Rows(s) \ Rows(s)', \A f \in Rows(s)' : f.sequence <= e.sequence
      PROVE  \E g \in gone \cap Rows(s) : g.sequence = LatestSequence(s)
  <2>1. PICK g \in Rows(s) : g.sequence = LatestSequence(s)
    BY <1>3, <1>4, <1>5, <1>7 DEF Numbered
  <2>2. CASE g \in gone
    BY <2>1, <2>2
  <2>3. CASE g \notin gone
    <3>1. g.sequence <= e.sequence /\ e.sequence <= g.sequence
      BY <1>1, <1>3, <1>7, <2>1, <2>3
    <3>2. e.sequence \in Nat /\ g.sequence \in Nat
      BY <1>4, <1>7 DEF Numbered
    <3>3. e.sequence = LatestSequence(s)
      BY <2>1, <3>1, <3>2
    <3> QED BY <3>3, <1>1, <1>7
  <2> QED BY <2>2, <2>3
<1>8. Outlived(Rows(s), Rows(s)') <=>
        \E e \in gone \cap Rows(s) : e.sequence = LatestSequence(s)
  BY <1>6, <1>7 DEF Outlived
<1> QED BY <1>1, <1>2, <1>8

\* A step of the providers, the pruners and the clock adds at the end of a
\* source's log or prunes it.
LEMMA LogStep ==
  ASSUME IInv, IngestNext, NEW s \in Sources
  PROVE  \/ Grown(Rows(s), Rows(s)') /\ newestPruned'[s] = newestPruned[s]
         \/ /\ Rows(s)' \subseteq Rows(s)
            /\ newestPruned'[s] = (newestPruned[s] \/ Outlived(Rows(s), Rows(s)'))
<1>0. LogInv /\ IngestTypeOK
  BY DEF IInv
<1>1. CASE UNCHANGED <<events, newestPruned>>
  BY <1>1 DEF Grown, Rows
<1>2. ASSUME NEW r \in Requests, AcceptRequest(r)
      PROVE  Grown(Rows(s), Rows(s)') /\ newestPruned'[s] = newestPruned[s]
  <2>1. /\ req[r].source \in Sources /\ req[r].deliveryId \in DeliveryIds
        /\ req[r].providerTimestamp \in Nat /\ req[r].receivedAt \in Nat
    BY <1>0, <1>2, StampedFields DEF AcceptRequest
  <2>2. InsertEvent(req[r].source, req[r].deliveryId, req[r].providerTimestamp,
                    req[r].receivedAt)
    BY <1>2 DEF AcceptRequest
  <2>3. events \subseteq events' /\ newestPruned' = newestPruned
    BY <2>2 DEF InsertEvent
  <2>4. \A e \in events' \ events : \A f \in Rows(e.source) : f.sequence < e.sequence
    BY <1>0, <2>1, <2>2, InsertAtEnd
  <2> QED BY <2>3, <2>4 DEF Grown, Rows
<1>3. ASSUME NEW t \in Sources, PruneSource(t)
      PROVE  \E gone \in SUBSET events : DeleteRows(gone)
  BY <1>3 DEF PruneSource, Prune, Rows
<1>4. ASSUME NEW age \in ManualAges, PruneOlderThan(age)
      PROVE  \E gone \in SUBSET events : DeleteRows(gone)
  BY <1>4 DEF PruneOlderThan, PruneAll
<1>5. CASE \E gone \in SUBSET events : DeleteRows(gone)
  BY <1>0, <1>5, DeleteShrinks
<1>6. \/ UNCHANGED <<events, newestPruned>>
      \/ \E r \in Requests : AcceptRequest(r)
      \/ \E t \in Sources : PruneSource(t)
      \/ \E age \in ManualAges : PruneOlderThan(age)
  BY DEF IngestNext, RequestStep, VerifyRequest, StampRequest, AnswerDuplicate, FailRequest,
         PublishEvent, ReplayWake, Tick, storeVars
<1> QED BY <1>1, <1>2, <1>3, <1>4, <1>5, <1>6

\* While its newest row is not pruned, a log is numbered and grows at its end or
\* loses rows that others outlive.
LEMMA LogKept ==
  ASSUME IInv, IngestNext, IInv', NEW s \in Sources, ~newestPruned'[s]
  PROVE  /\ ~newestPruned[s]
         /\ Numbered(Rows(s)) /\ Numbered(Rows(s)')
         /\ Grown(Rows(s), Rows(s)') \/ Shrunk(Rows(s), Rows(s)')
<1>1. Numbered(Rows(s)) /\ Numbered(Rows(s)')
  BY DEF IInv, LogInv, StoreTypeOK, UniqueSequences, Event, Rows, Numbered
<1>2. CASE Grown(Rows(s), Rows(s)') /\ newestPruned'[s] = newestPruned[s]
  BY <1>1, <1>2
<1>3. CASE /\ Rows(s)' \subseteq Rows(s)
           /\ newestPruned'[s] = (newestPruned[s] \/ Outlived(Rows(s), Rows(s)'))
  <2>1. ~newestPruned[s] /\ ~Outlived(Rows(s), Rows(s)')
    BY <1>3
  <2>2. Shrunk(Rows(s), Rows(s)')
    BY <1>1, <1>3, <2>1 DEF Outlived, Shrunk, Numbered
  <2> QED BY <1>1, <2>1, <2>2
<1> QED BY <1>2, <1>3, LogStep

\* Everything stored above `low` and up to n is in H, and n is not ahead of the
\* log, so that nothing can be stored behind it.
Position(R, H, low, n) ==
  /\ \A e \in R : low < e.sequence /\ e.sequence <= n => e \in H
  /\ n <= low \/ \E e \in R : n <= e.sequence

\* e is the next event to be delivered: all the earlier ones are in H.
Upcoming(R, H, low, e) ==
  /\ \E f \in R : e.sequence <= f.sequence
  /\ \A f \in R : f.sequence = e.sequence => f = e
  /\ \A f \in R : low < f.sequence /\ f.sequence < e.sequence => f \in H

LEMMA PositionKept ==
  ASSUME NEW R, NEW S, Numbered(R), Numbered(S), Grown(R, S) \/ Shrunk(R, S),
         NEW H, NEW G, H \subseteq G, NEW low \in Int, NEW n \in Int, Position(R, H, low, n)
  PROVE  Position(S, G, low, n)
<1>1. CASE Grown(R, S)
  BY <1>1 DEF Grown, Numbered, Position
<1>2. CASE Shrunk(R, S)
  BY <1>2 DEF Shrunk, Numbered, Position
<1> QED BY <1>1, <1>2

LEMMA UpcomingKept ==
  ASSUME NEW R, NEW S, Numbered(R), Numbered(S), Grown(R, S) \/ Shrunk(R, S),
         NEW H, NEW G, H \subseteq G, NEW low \in Int, NEW e, e.sequence \in Nat,
         Upcoming(R, H, low, e)
  PROVE  Upcoming(S, G, low, e)
<1>1. CASE Grown(R, S)
  BY <1>1 DEF Grown, Numbered, Upcoming
<1>2. CASE Shrunk(R, S)
  BY <1>2 DEF Shrunk, Numbered, Upcoming
<1> QED BY <1>1, <1>2

\* The oldest row above a position is the next one ...
LEMMA OldestIsUpcoming ==
  ASSUME NEW R, Numbered(R), NEW H, NEW low \in Int, NEW n \in Int, Position(R, H, low, n),
         NEW e \in R, \A f \in R : f.sequence > n => e.sequence <= f.sequence
  PROVE  Upcoming(R, H, low, e)
BY DEF Numbered, Position, Upcoming

\* ... and once it is delivered the position may move on to it.
LEMMA DeliveredIsPosition ==
  ASSUME NEW R, Numbered(R), NEW H, NEW low \in Int, NEW e \in H, e.sequence \in Nat,
         Upcoming(R, H, low, e)
  PROVE  Position(R, H, low, e.sequence)
BY DEF Numbered, Position, Upcoming

-----------------------------------------------------------------------------
(* What a consumer's read returns.                                         *)

\* The rows above a cursor that no row precedes are in every batch.
LEMMA OldestIsRead ==
  ASSUME LogInv, NEW s \in Sources, NEW n \in Nat, NEW limit \in Nat \ {0},
         NewerThan(s, n) # {}
  PROVE  ReadSince(s, n, limit) # {}
<1> DEFINE newer == NewerThan(s, n)
<1>1. newer # {} /\ \A e \in newer : e.sequence \in Nat
  BY RowsNumbered DEF NewerThan, Numbered
<1>2. Oldest(newer) \in newer /\ \A e \in newer : Oldest(newer).sequence <= e.sequence
  <2> HIDE DEF newer
  <2> QED BY <1>1, OldestOfBatch
<1>3. \A f \in newer : ~(f.sequence < Oldest(newer).sequence)
  BY <1>1, <1>2
<1>4. {f \in newer : f.sequence < Oldest(newer).sequence} = {}
  BY <1>3
<1>5. Cardinality({f \in newer : f.sequence < Oldest(newer).sequence}) < limit
  BY <1>4, FS_EmptySet
<1> QED BY <1>2, <1>5 DEF ReadSince

\* A row of a batch has everything between the cursor and itself in the batch.
LEMMA BatchIsInterval ==
  ASSUME LogInv, NEW s \in Sources, NEW n \in Nat, NEW limit \in Nat \ {0},
         NEW e \in ReadSince(s, n, limit), NEW f \in Rows(s), n < f.sequence,
         f.sequence < e.sequence
  PROVE  f \in ReadSince(s, n, limit)
<1> DEFINE newer == NewerThan(s, n)
           before(g) == {h \in newer : h.sequence < g.sequence}
<1>1. newer \subseteq events /\ e \in newer /\ f \in newer
  BY RowsNumbered DEF NewerThan, ReadSince, Rows, Numbered
<1>2. \A h \in newer : h.sequence \in Nat
  BY RowsNumbered DEF NewerThan, Numbered
<1>3. before(f) \subseteq before(e)
  BY <1>1, <1>2
<1>4. IsFiniteSet(newer)
  BY <1>1, FS_Subset DEF LogInv
<1>5. IsFiniteSet(before(e)) /\ before(e) \subseteq newer
  BY <1>4, FS_Subset
<1>6. Cardinality(before(f)) <= Cardinality(before(e))
  BY <1>3, <1>5, FS_Subset
<1>7. Cardinality(before(e)) < limit
  BY DEF ReadSince
<1>8. Cardinality(before(e)) \in Nat /\ Cardinality(before(f)) \in Nat
  BY <1>3, <1>5, FS_Subset, FS_CardinalityType
<1>9. Cardinality(before(f)) < limit
  <2> HIDE DEF before
  <2> QED BY <1>6, <1>7, <1>8
<1> QED BY <1>1, <1>9 DEF ReadSince

-----------------------------------------------------------------------------
(* Wakeups.  A consumer that waits on channel c with its cursor at n has   *)
(* nothing to read, or the signal is there, or the request that has stored *)
(* a row is still to send it.                                              *)

Announced(src) == \E r \in Requests : req[r].pc = "publishing" /\ req[r].source = src

Attended(c, src, n) == signal[c] \/ Announced(src) \/ NewerThan(src, n) = {}

\* A row is stored before its signal is sent, and the request that stored it
\* sends the signal.
LEMMA RequestAttends ==
  ASSUME IInv, NEW r \in Requests, RequestStep(r), NEW src \in Sources, NEW n \in Nat,
         NEW c \in Channels, c \in registered[src], Attended(c, src, n)
  PROVE  Attended(c, src, n)'
<1>1. /\ signal \in [Channels -> BOOLEAN]
      /\ req \in [Requests -> {Idle} \cup Verified \cup Stamped \cup Publishing]
  BY DEF IInv, IngestTypeOK, NotifierTypeOK
<1>2. CASE AcceptRequest(r)
  <2>1. signal' = signal
    BY <1>2 DEF AcceptRequest, notifierVars
  <2>2. req[r].pc = "stamped" /\ req'[r] = [pc |-> "publishing", source |-> req[r].source]
        /\ \A q \in Requests \ {r} : req'[q] = req[q]
    BY <1>1, <1>2 DEF AcceptRequest
  <2>3. Announced(src) => Announced(src)'
    BY <2>2 DEF Announced
  <2>4. CASE req[r].source = src
    BY <2>2, <2>4 DEF Attended, Announced
  <2>5. CASE req[r].source # src
    <3>1. Rows(src)' = Rows(src)
      BY <1>2, <2>5 DEF AcceptRequest, InsertEvent, Rows
    <3> QED BY <2>1, <2>3, <3>1 DEF Attended, NewerThan
  <2> QED BY <2>4, <2>5
<1>3. CASE PublishEvent(r)
  <2>1. /\ signal' = [d \in Channels |-> signal[d] \/ d \in registered[req[r].source]]
        /\ \A q \in Requests \ {r} : req'[q] = req[q]
        /\ events' = events
    BY <1>1, <1>3 DEF PublishEvent, Publish, storeVars
  <2>2. CASE req[r].source = src
    BY <2>1, <2>2 DEF Attended
  <2>3. CASE req[r].source # src
    <3>1. Announced(src) => Announced(src)'
      BY <2>1, <2>3 DEF Announced
    <3> QED BY <2>1, <3>1 DEF Attended, NewerThan, Rows
  <2> QED BY <2>2, <2>3
<1>4. CASE \/ \E s \in Sources, id \in DeliveryIds, ts \in (now - Skew)..(now + Skew) :
                VerifyRequest(r, s, id, ts)
           \/ StampRequest(r) \/ AnswerDuplicate(r) \/ FailRequest(r)
  <2>1. /\ signal' = signal /\ events' = events /\ req[r].pc # "publishing"
        /\ \A q \in Requests \ {r} : req'[q] = req[q]
    BY <1>1, <1>4 DEF VerifyRequest, StampRequest, AnswerDuplicate, FailRequest, Idle, storeVars,
                      notifierVars
  <2>2. Announced(src) => Announced(src)'
    BY <2>1 DEF Announced
  <2> QED BY <2>1, <2>2 DEF Attended, NewerThan, Rows
<1> QED BY <1>2, <1>3, <1>4 DEF RequestStep

LEMMA IngestAttends ==
  ASSUME IInv, IngestNext, NEW src \in Sources, NEW n \in Nat,
         NEW c \in Channels, c \in registered[src], Attended(c, src, n)
  PROVE  Attended(c, src, n)' /\ registered' = registered
<1>1. registered' = registered
  BY DEF IngestNext, RequestStep, VerifyRequest, StampRequest, AnswerDuplicate, AcceptRequest,
         FailRequest, PublishEvent, PruneSource, PruneOlderThan, ReplayWake, Tick, Publish,
         notifierVars
<1>2. CASE \E r \in Requests : RequestStep(r)
  BY <1>1, <1>2, RequestAttends
<1>3. CASE \/ \E s \in Sources : PruneSource(s)
           \/ \E age \in ManualAges : PruneOlderThan(age)
  <2>1. events' \subseteq events /\ req' = req /\ signal' = signal
    BY <1>3 DEF PruneSource, PruneOlderThan, Prune, PruneAll, DeleteRows, notifierVars
  <2>2. NewerThan(src, n)' \subseteq NewerThan(src, n)
    BY <2>1 DEF NewerThan, Rows
  <2> QED BY <1>1, <2>1, <2>2 DEF Attended, Announced
<1>4. CASE Tick \/ \E s \in Sources : ReplayWake(s)
  <2>1. events' = events /\ req' = req /\ (signal[c] => signal'[c])
    BY <1>4 DEF Tick, ReplayWake, Publish, storeVars, notifierVars
  <2> QED BY <1>1, <2>1 DEF Attended, Announced, NewerThan, Rows
<1> QED BY <1>2, <1>3, <1>4 DEF IngestNext
=============================================================================
