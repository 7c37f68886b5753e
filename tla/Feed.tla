--------------------------------- MODULE Feed ---------------------------------
(***************************************************************************)
(* What the consumers of the log are promised, pushed or pulled: whatever  *)
(* is stored above the position a consumer was given is settled in order,  *)
(* and the position it resumes from never passes what is not settled.      *)
(* Push and Forward implement it.                                          *)
(*                                                                         *)
(* Once the newest row of a source has been pruned its numbers are given   *)
(* out again and mean something else: nothing is promised from then on.    *)
(***************************************************************************)
EXTENDS Integers

CONSTANT Consumers

VARIABLES
  log,       \* consumer -> sequences of the events that are stored
  handled,   \* consumer -> sequences its target has processed
  skipped,   \* consumer -> sequences that were left out of a backlog as stale
  cursor,    \* consumer -> where it resumes; -1 when there is no consumer
  start,     \* consumer -> the position it was given; -1 before
  reused     \* consumer -> the newest row of its source has been pruned

feedVars == <<log, handled, skipped, cursor, start, reused>>

Settled(k, n) == n \in handled[k] \cup skipped[k]

\* The consumer's side and the store's side of a step.
ConsumerSame(k) == handled'[k] = handled[k] /\ skipped'[k] = skipped[k]
PositionSame(k) == cursor'[k] = cursor[k] /\ start'[k] = start[k]
StoreSame(k) == log'[k] = log[k] /\ reused'[k] = reused[k]

\* A reader never finds a row below what it has seen.
Store(k) ==
  /\ log[k] \subseteq log'[k] /\ log'[k] \subseteq Nat
  /\ \A n \in log'[k] \ log[k] : \A m \in log[k] : m < n
  /\ reused'[k] = reused[k] /\ ConsumerSame(k) /\ PositionSame(k)

\* Numbers are reused when a row goes above which none remains.
Prune(k) ==
  /\ log'[k] \subseteq log[k]
  /\ reused'[k] = (reused[k] \/ \E n \in log[k] \ log'[k] : \A m \in log'[k] : m <= n)
  /\ ConsumerSame(k) /\ PositionSame(k)

Register(k) ==
  /\ start[k] = -1 /\ start'[k] \in Nat
  /\ cursor'[k] \in {-1, start'[k]}
  /\ StoreSame(k) /\ ConsumerSame(k)

\* Deliveries may repeat, but the first ones are in order.
Deliver(k) ==
  /\ handled[k] \subseteq handled'[k]
  /\ \A n \in handled'[k] \ handled[k] : \A m \in log[k] : start[k] < m /\ m < n => Settled(k, m)
  /\ skipped'[k] = skipped[k] /\ StoreSame(k) /\ PositionSame(k)

LeaveOut(k) ==
  /\ skipped[k] \subseteq skipped'[k]
  /\ handled'[k] = handled[k] /\ StoreSame(k) /\ PositionSame(k)

\* Forwards over what is settled, or back to any earlier position.
Move(k) ==
  /\ cursor'[k] \in Int
  /\ cursor'[k] <= start[k] \/ \E m \in log[k] : cursor'[k] <= m
  /\ \A m \in log[k] : start[k] < m /\ m <= cursor'[k] => Settled(k, m)
  /\ start'[k] = start[k] /\ StoreSame(k) /\ ConsumerSame(k)

Promised(k) ==
  LeaveOut(k) \/ Deliver(k) \/ Store(k) \/ Prune(k) \/ Register(k) \/ Move(k)

FeedInit ==
  \A k \in Consumers :
    /\ log[k] = {} /\ handled[k] = {} /\ skipped[k] = {}
    /\ start[k] \in {-1, 0} /\ cursor[k] = start[k]
    /\ ~reused[k]

FeedNext == \A k \in Consumers : Promised(k) \/ (reused[k] /\ reused'[k])

FeedSpec == FeedInit /\ [][FeedNext]_feedVars

-----------------------------------------------------------------------------
\* At least once: a stored event that a cursor has passed is settled.
CursorCoversSettled ==
  \A k \in Consumers : ~reused[k] =>
    \A m \in log[k] : start[k] < m /\ m <= cursor[k] => Settled(k, m)
=============================================================================
