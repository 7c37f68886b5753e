------------------------------ MODULE FeedProofs ------------------------------
(***************************************************************************)
(* At least once follows from what Feed promises, for any number of        *)
(* consumers and any log: no position passes an event that is not settled. *)
(* Whatever implements Feed inherits it.                                   *)
(***************************************************************************)
EXTENDS Feed, TLAPS

Covered(k) == \A m \in log[k] : start[k] < m /\ m <= cursor[k] => Settled(k, m)

\* A position is not ahead of the log, so that a row that is stored later is
\* stored above it.
NotAhead(k) == cursor[k] <= start[k] \/ \E m \in log[k] : cursor[k] <= m

IInv(k) ==
  ~reused[k] => /\ log[k] \subseteq Nat /\ start[k] \in Int /\ cursor[k] \in Int
                /\ NotAhead(k)
                /\ Covered(k)

FeedInv == \A k \in Consumers : IInv(k)

-----------------------------------------------------------------------------
\* Rows are stored above every row there is, and a position is not ahead.
LEMMA StoreCovers ==
  ASSUME NEW k, IInv(k), Store(k)
  PROVE  IInv(k)'
<1> SUFFICES ASSUME ~reused'[k] PROVE IInv(k)'
  BY DEF IInv
<1>1. /\ ~reused[k] /\ log[k] \subseteq Nat /\ start[k] \in Int /\ cursor[k] \in Int
      /\ NotAhead(k) /\ Covered(k)
  BY DEF IInv, Store
<1>2. /\ log[k] \subseteq log'[k] /\ log'[k] \subseteq Nat
      /\ \A n \in log'[k] \ log[k] : \A m \in log[k] : m < n
      /\ handled'[k] = handled[k] /\ skipped'[k] = skipped[k]
      /\ cursor'[k] = cursor[k] /\ start'[k] = start[k]
  BY DEF Store, ConsumerSame, PositionSame
<1>3. NotAhead(k)'
  BY <1>1, <1>2 DEF NotAhead
<1>4. ASSUME NEW m \in log'[k], start[k] < m, m <= cursor[k] PROVE m \in log[k]
  <2> SUFFICES ASSUME m \notin log[k] PROVE FALSE
    OBVIOUS
  <2>1. PICK p \in log[k] : cursor[k] <= p
    BY <1>1, <1>2, <1>4 DEF NotAhead
  <2>2. p < m
    BY <1>2, <2>1
  <2> QED BY <1>1, <1>2, <1>4, <2>1, <2>2
<1>5. Covered(k)'
  BY <1>1, <1>2, <1>4 DEF Covered, Settled
<1> QED BY <1>1, <1>2, <1>3, <1>5 DEF IInv

\* While numbers are not reused a row above every row that is gone remains.
LEMMA PruneCovers ==
  ASSUME NEW k, IInv(k), Prune(k)
  PROVE  IInv(k)'
<1> SUFFICES ASSUME ~reused'[k] PROVE IInv(k)'
  BY DEF IInv
<1>1. /\ ~reused[k]
      /\ log'[k] \subseteq log[k]
      /\ \A n \in log[k] \ log'[k] : \E m \in log'[k] : ~(m <= n)
      /\ handled'[k] = handled[k] /\ skipped'[k] = skipped[k]
      /\ cursor'[k] = cursor[k] /\ start'[k] = start[k]
  BY DEF Prune, ConsumerSame, PositionSame
<1>2. /\ log[k] \subseteq Nat /\ start[k] \in Int /\ cursor[k] \in Int
      /\ NotAhead(k) /\ Covered(k)
  BY <1>1 DEF IInv
<1>3. NotAhead(k)'
  <2>1. CASE cursor[k] <= start[k]
    BY <1>1, <2>1 DEF NotAhead
  <2>2. CASE ~(cursor[k] <= start[k])
    <3>1. PICK p \in log[k] : cursor[k] <= p
      BY <1>2, <2>2 DEF NotAhead
    <3>2. CASE p \in log'[k]
      BY <1>1, <3>1, <3>2 DEF NotAhead
    <3>3. CASE p \notin log'[k]
      <4>1. PICK m \in log'[k] : ~(m <= p)
        BY <1>1, <3>1, <3>3
      <4>2. cursor[k] <= m
        BY <1>1, <1>2, <3>1, <4>1
      <4> QED BY <1>1, <4>1, <4>2 DEF NotAhead
    <3> QED BY <3>2, <3>3
  <2> QED BY <2>1, <2>2
<1>4. Covered(k)'
  BY <1>1, <1>2 DEF Covered, Settled
<1> QED BY <1>1, <1>2, <1>3, <1>4 DEF IInv

\* The other steps change what is settled, or the position within its bounds.
LEMMA ConsumerCovers ==
  ASSUME NEW k, IInv(k), Register(k) \/ Deliver(k) \/ LeaveOut(k) \/ Move(k)
  PROVE  IInv(k)'
<1> SUFFICES ASSUME ~reused'[k] PROVE IInv(k)'
  BY DEF IInv
<1>1. ~reused[k] /\ log'[k] = log[k]
  BY DEF Register, Deliver, LeaveOut, Move, StoreSame
<1>2. /\ log[k] \subseteq Nat /\ start[k] \in Int /\ cursor[k] \in Int
      /\ NotAhead(k) /\ Covered(k)
  BY <1>1 DEF IInv
<1>3. CASE Register(k)
  <2>1. start'[k] \in Nat /\ cursor'[k] \in {-1, start'[k]}
    BY <1>3 DEF Register
  <2>2. NotAhead(k)' /\ Covered(k)'
    BY <1>1, <1>2, <2>1 DEF NotAhead, Covered
  <2> QED BY <1>1, <1>2, <2>1, <2>2 DEF IInv
<1>4. CASE Deliver(k) \/ LeaveOut(k)
  <2>1. /\ handled[k] \subseteq handled'[k] /\ skipped[k] \subseteq skipped'[k]
        /\ cursor'[k] = cursor[k] /\ start'[k] = start[k]
    BY <1>4 DEF Deliver, LeaveOut, PositionSame
  <2>2. NotAhead(k)' /\ Covered(k)'
    BY <1>1, <1>2, <2>1 DEF NotAhead, Covered, Settled
  <2> QED BY <1>1, <1>2, <2>1, <2>2 DEF IInv
<1>5. CASE Move(k)
  <2>1. /\ cursor'[k] \in Int /\ start'[k] = start[k]
        /\ cursor'[k] <= start[k] \/ \E m \in log[k] : cursor'[k] <= m
        /\ \A m \in log[k] : start[k] < m /\ m <= cursor'[k] => Settled(k, m)
        /\ handled'[k] = handled[k] /\ skipped'[k] = skipped[k]
    BY <1>5 DEF Move, ConsumerSame
  <2>2. NotAhead(k)' /\ Covered(k)'
    BY <1>1, <1>2, <2>1 DEF NotAhead, Covered, Settled
  <2> QED BY <1>1, <1>2, <2>1, <2>2 DEF IInv
<1> QED BY <1>3, <1>4, <1>5

\* Every step of a feed keeps the invariant of every consumer.
LEMMA FeedNextCovers == FeedInv /\ [FeedNext]_feedVars => FeedInv'
<1> SUFFICES ASSUME FeedInv, [FeedNext]_feedVars, NEW k \in Consumers PROVE IInv(k)'
  BY DEF FeedInv
<1>1. IInv(k)
  BY DEF FeedInv
<1>2. CASE UNCHANGED feedVars
  BY <1>1, <1>2 DEF feedVars, IInv, NotAhead, Covered, Settled
<1>3. CASE Promised(k)
  BY <1>1, <1>3, StoreCovers, PruneCovers, ConsumerCovers DEF Promised
<1>4. CASE reused[k] /\ reused'[k]
  BY <1>4 DEF IInv
<1> QED BY <1>2, <1>3, <1>4 DEF FeedNext

\* Whoever is fed as Feed says has settled every stored event between where it
\* started and where it would resume: a crash or a lost answer repeats
\* deliveries and loses none (push/worker.go, subscribe/handler.go, forward.go).
THEOREM AtLeastOnce == FeedSpec => []CursorCoversSettled
<1>1. FeedInit => FeedInv
  BY DEF FeedInit, FeedInv, IInv, NotAhead, Covered
<1>2. FeedInv => CursorCoversSettled
  BY DEF FeedInv, IInv, Covered, CursorCoversSettled
<1> QED BY <1>1, <1>2, FeedNextCovers, PTL DEF FeedSpec
=============================================================================
