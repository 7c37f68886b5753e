------------------------------ MODULE MCEnrolment ------------------------------
(* Values for TLC: two administrators and a developer, each with a session *)
(* or a token to begin with, and somebody who may sign up.                 *)
EXTENDS Enrolment, TLC

CONSTANTS a1, a2, u1, u2, s1, s2, s3, k1, k2, k3, p1, p2, t1, t2

Row(role, scopes) == [role |-> role, active |-> TRUE, pw |-> 1, scopes |-> scopes]

MCUsers ==
  a1 :> Row("admin", {}) @@ a2 :> Row("admin", {}) @@ u1 :> Row("user", {"render"}) @@ u2 :> None

MCSessions == s1 :> a1 @@ s2 :> u1 @@ s3 :> None

\* The listener of a running forward, and an administrator's personal token.
MCTokens ==
  LET row(owner, kind, ephemeral, scope) ==
        [owner |-> owner, kind |-> kind, ephemeral |-> ephemeral, scopes |-> {scope},
         revoked |-> FALSE, created |-> 0, lastUsed |-> None]
  IN k1 :> row(u1, "listener", TRUE, "render") @@ k2 :> row(a2, "pat", FALSE, "admin") @@ k3 :> None

MCSubs == p1 :> [owner |-> u1, paused |-> FALSE] @@ p2 :> None

MCProfile == t1 :> k2 @@ t2 :> None

\* As sign-up's: few at once, and few in a longer time.
MCLimits == <<[per |-> 1, burst |-> 1], [per |-> 8, burst |-> 2]>>

Bounds(n, t) == [ops |-> n, time |-> t]

MCScenarios ==
  {"session", "bearer", "deactivate", "reactivate", "restart"} :> Bounds(4, 0)
  @@ {"session", "bearer", "deactivate", "mint"} :> Bounds(3, 0)
  @@ {"session", "bearer", "deactivate", "reactivate", "transfer"} :> Bounds(4, 0)
  @@ {"session", "deactivate", "reactivate", "push"} :> Bounds(4, 0)
  @@ {"session", "bearer", "deactivate", "issue", "revoke"} :> Bounds(3, 0)
  @@ {"login", "logout", "session", "reset", "restart"} :> Bounds(4, 0)
  @@ {"session", "profile", "mint", "revoke"} :> Bounds(3, 0)
  @@ {"login", "session"} :> Bounds(3, 4)
  @@ {"bearer", "restart"} :> Bounds(3, 5)
  @@ {"init", "signup", "restart"} :> Bounds(3, 3)
  @@ {"session", "invite", "signup"} :> Bounds(4, 0)
  @@ {"session", "pairing"} :> Bounds(2, 3)
  @@ {"session", "pairing", "restart"} :> Bounds(3, 0)
  @@ {"session", "pairing", "deactivate"} :> Bounds(3, 0)
  @@ {"session", "forward", "logout", "deactivate"} :> Bounds(4, 0)
  @@ {"cli"} :> Bounds(2, 0)
  @@ {"limit", "restart"} :> Bounds(1, 0)

InviteScenario == {"cli"} :> Bounds(1, 0)

Symmetry == Permutations(Callers)
=============================================================================
