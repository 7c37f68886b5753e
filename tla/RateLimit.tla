------------------------------- MODULE RateLimit -------------------------------
(***************************************************************************)
(* The token buckets before login, sign-up and pairing                     *)
(* (internal/ratelimit): several limits per key, every one of which must   *)
(* have a token, or none is taken; keys idle for long are forgotten.       *)
(*                                                                         *)
(* The code counts tokens in floating point.  Here a bucket of limit i     *)
(* counts in units of 1/Limits[i].per tokens, which makes a refill of      *)
(* burst units per second exact.                                           *)
(***************************************************************************)
EXTENDS Tables, Sequences, FiniteSetsExt

CONSTANTS Limits,   \* the limiter's limits, in seconds
          Addresses, \* keys: client addresses, or user ids
          MaxInstant \* bound on the limiter's clock

Kinds == DOMAIN Limits

BucketsRow == [tokens : [Kinds -> Nat], seen : Nat]

ASSUME LimitsAssumption ==
  /\ Limits \in Seq([per : Nat \ {0}, burst : Nat \ {0}])
  /\ Limits # << >>
  /\ MaxInstant \in Nat
  /\ None \notin Nat /\ None \notin BucketsRow

VARIABLES
  instant,       \* now(), in seconds
  limiter,       \* key -> its buckets and when it was last seen
  admitted,      \* history: key -> second -> requests admitted by its end
  told           \* history: key -> second by which a refusal said to come back

limitVars == <<instant, limiter, admitted, told>>

Full == [i \in Kinds |-> Limits[i].burst * Limits[i].per]
Entry(a) == IF limiter[a] = None THEN [tokens |-> Full, seen |-> instant] ELSE limiter[a]

\* Up to burst tokens, at burst per Per.
Refilled(a) ==
  [i \in Kinds |-> Min({Full[i], Entry(a).tokens[i] + (instant - Entry(a).seen) * Limits[i].burst})]

Short(tokens) == {i \in Kinds : tokens[i] < Limits[i].per}

Spent(tokens, kinds) == [i \in Kinds |-> IF i \in kinds THEN tokens[i] - Limits[i].per ELSE tokens[i]]

\* Whole seconds until every bucket has a token, as the middleware rounds them up.
RetryAfter(tokens) ==
  Max({(Limits[i].per - tokens[i] + Limits[i].burst - 1) \div Limits[i].burst : i \in Short(tokens)})

Count(a) == [t \in 0..MaxInstant |-> IF t < instant THEN admitted[a][t] ELSE admitted[a][t] + 1]

\* Mutant of Allow: a refused request takes a token from the buckets that have one.
AllowTaking(a) ==
  LET tokens == Refilled(a) IN
  /\ limiter' = [limiter EXCEPT ![a] = [tokens |-> Spent(tokens, Kinds \ Short(tokens)), seen |-> instant]]
  /\ IF Short(tokens) = {}
     THEN admitted' = [admitted EXCEPT ![a] = Count(a)] /\ told' = [told EXCEPT ![a] = None]
     ELSE told' = [told EXCEPT ![a] = IF @ = None THEN instant + RetryAfter(tokens) ELSE @] /\ UNCHANGED admitted

\* A request of key a: admitted when every bucket has a token, which is taken.
Allow(a) ==
  LET tokens == Refilled(a)
      ok == Short(tokens) = {}
  IN
  /\ limiter' = [limiter EXCEPT ![a] = [tokens |-> IF ok THEN Spent(tokens, Kinds) ELSE tokens,
                                        seen |-> instant]]
  /\ IF ok
     THEN admitted' = [admitted EXCEPT ![a] = Count(a)] /\ told' = [told EXCEPT ![a] = None]
     ELSE /\ told' = [told EXCEPT ![a] = IF @ = None THEN instant + RetryAfter(tokens) ELSE @]
          /\ UNCHANGED admitted

Middleware(a) == Allow(a) /\ UNCHANGED instant

\* Mutant of SweepIdle: the shortest limit decides.
SweepIdleShortest ==
  LET idle == 2 * Min({Limits[i].per : i \in Kinds}) IN
  /\ limiter' = [a \in Addresses |->
                   IF limiter[a] # None /\ instant - limiter[a].seen > idle THEN None ELSE limiter[a]]
  /\ UNCHANGED <<instant, admitted, told>>

\* Sweep: keys that have been idle for twice the longest limit.
SweepIdle ==
  LET idle == 2 * Max({Limits[i].per : i \in Kinds}) IN
  /\ limiter' = [a \in Addresses |->
                   IF limiter[a] # None /\ instant - limiter[a].seen > idle THEN None ELSE limiter[a]]
  /\ UNCHANGED <<instant, admitted, told>>

Advance ==
  /\ instant < MaxInstant
  /\ instant' = instant + 1
  /\ UNCHANGED <<limiter, admitted, told>>

\* New: a limiter does not survive the process.
NoneAdmitted(a) == [i \in 0..MaxInstant |-> 0]

LimitInit ==
  /\ instant = 0
  /\ limiter = [a \in Addresses |-> None]
  /\ admitted = [a \in Addresses |-> NoneAdmitted(a)]
  /\ told = [a \in Addresses |-> None]

LimitNext == (\E a \in Addresses : Middleware(a)) \/ SweepIdle \/ Advance

LimitRestart ==
  /\ limiter' = [a \in Addresses |-> None]
  /\ admitted' = [a \in Addresses |-> NoneAdmitted(a)]
  /\ told' = [a \in Addresses |-> None]
  /\ UNCHANGED instant

-----------------------------------------------------------------------------
(* Properties.                                                             *)

LimitTypeOK ==
  /\ instant \in 0..MaxInstant
  /\ limiter \in [Addresses -> BucketsRow \cup {None}]
  /\ \A a \in Addresses : limiter[a] # None =>
       /\ limiter[a].seen \in 0..instant
       /\ \A i \in Kinds : limiter[a].tokens[i] \in 0..Full[i]
  /\ admitted \in [Addresses -> [0..MaxInstant -> Nat]]
  /\ told \in [Addresses -> Nat \cup {None}]

Within(counts, from, to) == counts[to] - IF from = 0 THEN 0 ELSE counts[from - 1]

\* Whatever the interval, no more requests of a key are admitted in it than each
\* limit's burst and what it refills meanwhile, even when the key is forgotten
\* and seen again.
RateBounded ==
  \A a \in Addresses : \A from, to \in 0..instant : from <= to => \A i \in Kinds :
    Limits[i].per * Within(admitted[a], from, to) <= Limits[i].burst * (Limits[i].per + to - from)

\* A client that comes back when it was told to is admitted, even if it had tried
\* before: refusals cost nothing.
RetryAfterSuffices ==
  \A a \in Addresses : told[a] # None /\ instant >= told[a] => Short(Refilled(a)) = {}
=============================================================================
