------------------------------- MODULE Accounts -------------------------------
(***************************************************************************)
(* User accounts and the credentials that act for them: sessions and their *)
(* sliding expiry (internal/auth), bearer tokens and their debounced       *)
(* last_used_at (internal/tokens), the self-service API (internal/me), the *)
(* administrators' API and forms (internal/admin, internal/inspector), the *)
(* cascade of a deactivation (internal/store) and the two sweeps that end  *)
(* idle credentials.                                                       *)
(*                                                                         *)
(* A request is authorised once, from rows it reads when it arrives, and   *)
(* its handler goes on with that snapshot: everything an administrator     *)
(* does in between is unknown to it.  A store call is one step, so is a    *)
(* transaction; nothing else is atomic.                                    *)
(*                                                                         *)
(* Users are created by Enrolment, which extends this module.  No operation *)
(* of the program changes a role or deletes a user.                        *)
(***************************************************************************)
EXTENDS Tables

CONSTANTS
  Users, Sessions, Tokens, Subs, \* ids that uuid.NewString may hand out
  InitialUsers, InitialSessions, InitialTokens, InitialSubs, \* rows at the start
  Callers,             \* concurrent requests
  Scopes,              \* scopes that exist: "admin" and source ids
  SessionTTL,          \* CookieOptions.TTL
  SlideAfter,          \* auth.MinSlideInterval
  TouchAfter,          \* tokens.TouchInterval
  IdleLimit,           \* idle time after which an ephemeral token is revoked
  Scenarios,           \* sets of operations used together in one behaviour, each
                       \* with bounds on the requests and on the clock
  MaxPassword          \* bound on the passwords a user goes through

UserRow == [role : {"admin", "user"}, active : BOOLEAN, pw : Nat, scopes : SUBSET Scopes]
SessionRow == [user : Users, lastUsed : Nat, expires : Nat]
TokenRow == [owner : Users \cup {None}, kind : {"pat", "listener"}, ephemeral : BOOLEAN,
             scopes : SUBSET Scopes, revoked : BOOLEAN, created : Nat, lastUsed : Nat \cup {None}]
SubRow == [owner : Users \cup {None}, paused : BOOLEAN]

ASSUME AccountsAssumption ==
  /\ "admin" \in Scopes
  /\ None \notin Users \cup Tokens
  /\ None \notin UserRow /\ None \notin TokenRow /\ None \notin SubRow
  /\ Tokens \cap (Subs \cup Sessions) = {} /\ Callers \cap Sessions = {}
  /\ InitialUsers \in [Users -> UserRow \cup {None}]
  /\ InitialSessions \in [Sessions -> Users \cup {None}]
  /\ InitialTokens \in [Tokens -> TokenRow \cup {None}]
  /\ InitialSubs \in [Subs -> SubRow \cup {None}]
  /\ {SessionTTL, SlideAfter, TouchAfter, IdleLimit} \subseteq Nat \ {0}
  /\ MaxPassword \in Nat
  /\ \A kinds \in DOMAIN Scenarios : Scenarios[kinds] \in [ops : Nat, time : Nat]

\* The rows at the start name users that exist, with the first of their passwords,
\* and what belongs to one who is deactivated is revoked or paused.
ASSUME InitialRowsAssumption ==
  /\ \A u \in Users : InitialUsers[u] # None => InitialUsers[u].pw = 1
  /\ \A s \in Sessions : InitialSessions[s] # None => InitialUsers[InitialSessions[s]] # None
  /\ \A k \in Tokens : InitialTokens[k] # None /\ InitialTokens[k].owner # None =>
       /\ InitialUsers[InitialTokens[k].owner] # None
       /\ InitialUsers[InitialTokens[k].owner].active \/ InitialTokens[k].revoked
  /\ \A s \in Subs : InitialSubs[s] # None /\ InitialSubs[s].owner # None =>
       /\ InitialUsers[InitialSubs[s].owner] # None
       /\ InitialUsers[InitialSubs[s].owner].active \/ InitialSubs[s].paused

VARIABLES
  users, sessions, tokens, subs,   \* the tables
  touched,       \* Authenticator.lastTouchedAt
  call,          \* request -> where its handler is
  clock,
  enabled,       \* the scenario of this behaviour
  opsLeft,       \* remaining budget of requests
  late,          \* history: rows given to a user who was deactivated already
  evicted,       \* history: user -> password whose reset has been acknowledged
  verified,      \* history: session -> password its login verified
  overtaken,     \* history: logins and sessions verified before an eviction
  lastUse        \* history: session or token -> clock of its last use

storeVars == <<users, sessions, tokens, subs>>
histVars == <<late, evicted, verified, overtaken, lastUse>>
vars == <<storeVars, touched, call, clock, enabled, opsLeft, histVars>>

\* What a handler knows of its caller: the user (None for a token without
\* owner) with the default scopes its row had, the routes it may act on, and the
\* token it came with (None for a session).
Snapshot == [user : Users \cup {None}, may : SUBSET {"admin", "me"},
             scopes : SUBSET Scopes, token : Tokens \cup {None}]

Idle == [pc |-> "idle"]
Can(kind) == kind \in enabled

Begin(c, next) ==
  /\ call[c] = Idle
  /\ opsLeft > 0
  /\ opsLeft' = opsLeft - 1
  /\ call' = [call EXCEPT ![c] = next]
Step(c, next) == call' = [call EXCEPT ![c] = next] /\ UNCHANGED opsLeft
Done(c) == Step(c, Idle)

IsActive(u) == users[u] # None /\ users[u].active

Authorised(may, u, k) ==
  [pc |-> "authorised", as |-> [user |-> u, may |-> may, token |-> k,
                                scopes |-> IF u = None THEN {} ELSE users[u].scopes]]

-----------------------------------------------------------------------------
(* Sessions (auth.Manager).                                                *)

\* Login: the row is read and the password verified against it ...
Authenticate(c, u) ==
  /\ Can("login")
  /\ IsActive(u)
  /\ Begin(c, [pc |-> "login", user |-> u, pw |-> users[u].pw])
  /\ UNCHANGED <<storeVars, touched, clock, enabled, histVars>>

\* ... and the session inserted, whatever became of the user meanwhile.
CreateSession(c) ==
  /\ call[c].pc = "login"
  /\ \E s \in Sessions :
       /\ verified[s] = 0
       /\ sessions' = InsertSession(sessions, s, [user |-> call[c].user, lastUsed |-> clock,
                                                  expires |-> clock + SessionTTL])
       /\ verified' = [verified EXCEPT ![s] = call[c].pw]
       /\ overtaken' = IF c \in overtaken THEN (overtaken \ {c}) \cup {s} ELSE overtaken
       /\ lastUse' = [lastUse EXCEPT ![s] = clock]
  /\ Done(c)
  /\ UNCHANGED <<users, tokens, subs, touched, clock, enabled, late, evicted>>

\* The API's Login and the form are these two calls.
Login(c) == (\E u \in Users : Authenticate(c, u)) \/ CreateSession(c)

\* Mutant of Lookup: slides only after more than the interval.
LookupLate(c, s) ==
  /\ Can("session")
  /\ sessions[s] # None
  /\ Begin(c, IF clock > sessions[s].expires THEN [pc |-> "drop", session |-> s]
              ELSE [pc |-> "user", session |-> s, user |-> sessions[s].user,
                    slide |-> clock - sessions[s].lastUsed > SlideAfter])
  /\ UNCHANGED <<storeVars, touched, clock, enabled, histVars>>

\* The session middleware looks the cookie up: first the session's row ...
Lookup(c, s) ==
  /\ Can("session")
  /\ sessions[s] # None
  /\ Begin(c, IF clock > sessions[s].expires THEN [pc |-> "drop", session |-> s]
              ELSE [pc |-> "user", session |-> s, user |-> sessions[s].user,
                    slide |-> clock - sessions[s].lastUsed >= SlideAfter])
  /\ UNCHANGED <<storeVars, touched, clock, enabled, histVars>>

\* ... then the user's, which is the snapshot the request goes on with.
LookupUser(c) ==
  LET u == call[c].user
      s == call[c].session
      next == Authorised(IF users[u].role = "admin" THEN {"admin", "me"} ELSE {"me"}, u, None)
  IN
  /\ call[c].pc = "user"
  /\ IF users[u].active
     THEN /\ Step(c, IF call[c].slide THEN [pc |-> "slide", session |-> s, next |-> next] ELSE next)
          /\ lastUse' = [lastUse EXCEPT ![s] = clock]
     ELSE /\ Step(c, [pc |-> "drop", session |-> s])
          /\ UNCHANGED lastUse
  /\ UNCHANGED <<storeVars, touched, clock, enabled, late, evicted, verified, overtaken>>

\* The stored expiry slides; the browser's cookie, with its MaxAge, is not sent again.
SlideSession(c) ==
  /\ call[c].pc = "slide"
  /\ sessions' = TouchSession(sessions, call[c].session, clock, clock + SessionTTL)
  /\ Step(c, call[c].next)
  /\ UNCHANGED <<users, tokens, subs, touched, clock, enabled, histVars>>

\* An expired session, or one of a deactivated user, is deleted on sight.
DropSession(c) ==
  /\ call[c].pc = "drop"
  /\ sessions' = DeleteSession(sessions, call[c].session)
  /\ Done(c)
  /\ UNCHANGED <<users, tokens, subs, touched, clock, enabled, histVars>>

\* Logout.
Logout(c, s) ==
  /\ Can("logout")
  /\ sessions[s] # None
  /\ Begin(c, Idle)
  /\ sessions' = DeleteSession(sessions, s)
  /\ UNCHANGED <<users, tokens, subs, touched, clock, enabled, histVars>>

\* RunSweeper.
SweepSessions ==
  /\ sessions' = DeleteExpiredSessions(sessions, clock)
  /\ UNCHANGED <<users, tokens, subs, touched, call, clock, enabled, opsLeft, histVars>>

-----------------------------------------------------------------------------
(* Bearer tokens (tokens.Authenticator).                                   *)

\* requireAdmin with a bearer: the token's scope decides; its owner is looked
\* up for the audit trail only.
AuthorizeAdmin(k) ==
  IF "admin" \in tokens[k].scopes THEN {Authorised({"admin"}, tokens[k].owner, k)} ELSE {}

\* AuthorizeSource: the subscription handler streams for as long as the client
\* stays, and looks at the token no more.
AuthorizeSource(k) ==
  IF tokens[k].kind = "listener" /\ tokens[k].scopes \ {"admin"} # {}
  THEN {[pc |-> "stream", token |-> k]} ELSE {}

\* resolveCaller of /api/me: a personal token with an owner, who is then read.
ResolveCaller(k) ==
  IF tokens[k].kind = "pat" /\ tokens[k].owner # None
  THEN {[pc |-> "owner", token |-> k, user |-> tokens[k].owner]} ELSE {}

\* Mutant of Resolve: the debounce is one unit too long.
ResolveDebounced(c, k) ==
  LET due == touched[k] = None \/ clock - touched[k] > TouchAfter IN
  /\ Can("bearer")
  /\ k \in ListActiveTokens(tokens)
  /\ \E next \in AuthorizeAdmin(k) \cup AuthorizeSource(k) \cup ResolveCaller(k) \cup {Idle} :
       Begin(c, IF due THEN [pc |-> "touch", token |-> k, next |-> next] ELSE next)
  /\ touched' = IF due THEN [touched EXCEPT ![k] = clock] ELSE touched
  /\ lastUse' = [lastUse EXCEPT ![k] = clock]
  /\ UNCHANGED <<storeVars, clock, enabled, late, evicted, verified, overtaken>>

\* ResolvePlaintext: the active rows are compared; maybeTouch records in memory
\* that it is going to write last_used_at.
Resolve(c, k) ==
  LET due == touched[k] = None \/ clock - touched[k] >= TouchAfter IN
  /\ Can("bearer")
  /\ k \in ListActiveTokens(tokens)
  /\ \E next \in AuthorizeAdmin(k) \cup AuthorizeSource(k) \cup ResolveCaller(k) \cup {Idle} :
       Begin(c, IF due THEN [pc |-> "touch", token |-> k, next |-> next] ELSE next)
  /\ touched' = IF due THEN [touched EXCEPT ![k] = clock] ELSE touched
  /\ lastUse' = [lastUse EXCEPT ![k] = clock]
  /\ UNCHANGED <<storeVars, clock, enabled, late, evicted, verified, overtaken>>

TouchLastUsed(c) ==
  /\ call[c].pc = "touch"
  /\ tokens' = TouchTokenLastUsed(tokens, call[c].token, clock)
  /\ Step(c, call[c].next)
  /\ UNCHANGED <<users, sessions, subs, touched, clock, enabled, histVars>>

ReadOwner(c) ==
  LET u == call[c].user IN
  /\ call[c].pc = "owner"
  /\ Step(c, IF users[u].active THEN Authorised({"me"}, u, call[c].token) ELSE Idle)
  /\ UNCHANGED <<storeVars, touched, clock, enabled, histVars>>

\* The subscriber goes away.
Disconnect(c) ==
  /\ call[c].pc = "stream"
  /\ Done(c)
  /\ UNCHANGED <<storeVars, touched, clock, enabled, histVars>>

\* The pruner's last step.
SweepTokens ==
  /\ tokens' = ExpireEphemeralTokensIdle(tokens, clock - IdleLimit)
  /\ UNCHANGED <<users, sessions, subs, touched, call, clock, enabled, opsLeft, histVars>>

-----------------------------------------------------------------------------
(* What an authorised request does.  The inspector's forms take sessions,  *)
(* the token API takes bearers, the others take either.                    *)

May(c, route) == call[c].pc = "authorised" /\ route \in call[c].as.may
FromSession(c) == call[c].as.token = None

OwnedBy(T, u) == {x \in Keys(T) : T[x].owner = u}

\* History: x now belongs to u.
Handed(x, u) == late' = IF u # None /\ ~users[u].active THEN late \cup {x} ELSE late \ {x}

\* Mutants of DeactivateUserCascade: the guard counts the user himself; the
\* ephemeral tokens are left to the sweep.
CascadeCountingSelf(u) ==
  /\ IsActive(u)
  /\ users[u].role = "admin" => ActiveAdmins(users) # {}
  /\ users' = DeactivateUser(users, u)
  /\ tokens' = RevokeTokensByOwner(tokens, u)
  /\ subs' = PausePushByOwner(subs, u)

CascadeSparingEphemeral(u) ==
  /\ IsActive(u)
  /\ users[u].role = "admin" => ActiveAdminsExcluding(users, u) # {}
  /\ users' = DeactivateUser(users, u)
  /\ tokens' = [k \in Tokens |-> IF tokens[k] # None /\ tokens[k].ephemeral THEN tokens[k]
                                 ELSE RevokeTokensByOwner(tokens, u)[k]]
  /\ subs' = PausePushByOwner(subs, u)

\* One transaction; the count is taken inside it.
DeactivateUserCascade(u) ==
  /\ IsActive(u)
  /\ users[u].role = "admin" => ActiveAdminsExcluding(users, u) # {}
  /\ users' = DeactivateUser(users, u)
  /\ tokens' = RevokeTokensByOwner(tokens, u)
  /\ subs' = PausePushByOwner(subs, u)

\* admin.API.Deactivate; its look-up of the target only checks the confirmation.
Deactivate(c, u) ==
  /\ Can("deactivate") /\ May(c, "admin")
  /\ DeactivateUserCascade(u)
  /\ Done(c)
  /\ UNCHANGED <<sessions, touched, clock, enabled, histVars>>

UsersDeactivate(c, u) == May(c, "admin") /\ FromSession(c) /\ Deactivate(c, u)

\* What the cascade took away is not given back.
Reactivate(c, u) ==
  /\ Can("reactivate") /\ May(c, "admin")
  /\ users[u] # None
  /\ users' = ReactivateUser(users, u)
  /\ late' = late \ (OwnedBy(tokens, u) \cup OwnedBy(subs, u))
  /\ Done(c)
  /\ UNCHANGED <<sessions, tokens, subs, touched, clock, enabled, evicted, verified, overtaken,
                 lastUse>>

UsersReactivate(c, u) == May(c, "admin") /\ FromSession(c) /\ Reactivate(c, u)

\* History: logins of u at work with a password older than pw.
Overtaking(u, pw) == {d \in Callers : call[d].pc = "login" /\ call[d].user = u /\ call[d].pw < pw}

\* The hash is stored ...
ResetPassword(c, u) ==
  /\ Can("reset") /\ May(c, "admin")
  /\ users[u] # None /\ users[u].pw < MaxPassword
  /\ users' = SetUserPasswordHash(users, u, users[u].pw + 1)
  /\ Step(c, [pc |-> "evict", user |-> u, pw |-> users[u].pw + 1, by |-> call[c].as.user])
  /\ UNCHANGED <<sessions, tokens, subs, touched, clock, enabled, histVars>>

UsersResetPassword(c, u) == May(c, "admin") /\ FromSession(c) /\ ResetPassword(c, u)

\* Mutant of EvictSessions: ends the sessions of the administrator.
EvictSessionsOfCaller(c) ==
  LET u == call[c].user pw == call[c].pw IN
  /\ call[c].pc = "evict"
  /\ \/ /\ sessions' = DeleteSessionsByUser(sessions, call[c].by)
        /\ evicted' = [evicted EXCEPT ![u] = IF @ < pw THEN pw ELSE @]
        /\ overtaken' = overtaken \cup Overtaking(u, pw)
     \/ UNCHANGED <<sessions, evicted, overtaken>>
  /\ Done(c)
  /\ UNCHANGED <<users, tokens, subs, touched, clock, enabled, late, verified, lastUse>>

\* ... then the sessions are deleted; when that fails the request is answered
\* 500 and they stay.
EvictSessions(c) ==
  LET u == call[c].user pw == call[c].pw IN
  /\ call[c].pc = "evict"
  /\ \/ /\ sessions' = DeleteSessionsByUser(sessions, u)
        /\ evicted' = [evicted EXCEPT ![u] = IF @ < pw THEN pw ELSE @]
        /\ overtaken' = overtaken \cup Overtaking(u, pw)
     \/ UNCHANGED <<sessions, evicted, overtaken>>
  /\ Done(c)
  /\ UNCHANGED <<users, tokens, subs, touched, clock, enabled, late, verified, lastUse>>

\* PatchUser: the row is read ...
PatchUser(c, u) ==
  /\ Can("profile") /\ May(c, "admin")
  /\ users[u] # None
  /\ \E scopes \in {users[u].scopes} \cup SUBSET Scopes :
       Step(c, [pc |-> "patch", user |-> u, scopes |-> scopes])
  /\ UNCHANGED <<storeVars, touched, clock, enabled, histVars>>

UsersUpdate(c, u) == May(c, "admin") /\ FromSession(c) /\ PatchUser(c, u)

\* ... and written back with the scopes of the request, or those that were read.
WriteProfile(c) ==
  /\ call[c].pc = "patch"
  /\ users' = UpdateUserProfile(users, call[c].user, call[c].scopes)
  /\ Done(c)
  /\ UNCHANGED <<sessions, tokens, subs, touched, clock, enabled, histVars>>

\* PatchMe: the name of the request, with the scopes of the caller's snapshot.
PatchMe(c) ==
  /\ Can("profile") /\ May(c, "me")
  /\ users' = UpdateUserProfile(users, call[c].as.user, call[c].as.scopes)
  /\ Done(c)
  /\ UNCHANGED <<sessions, tokens, subs, touched, clock, enabled, histVars>>

-----------------------------------------------------------------------------
(* Tokens.                                                                 *)

TokenStep == UNCHANGED <<users, sessions, subs, touched, clock, enabled, evicted, verified,
                         overtaken, lastUse>>

Issued(u, kind, ephemeral, scopes) ==
  [owner |-> u, kind |-> kind, ephemeral |-> ephemeral, scopes |-> scopes, revoked |-> FALSE,
   created |-> clock, lastUsed |-> None]

Give(c, row) ==
  /\ \E k \in Tokens :
       /\ tokens[k] = None
       /\ tokens' = InsertToken(tokens, k, row)
       /\ Handed(k, row.owner)
  /\ Done(c)
  /\ TokenStep

\* Issue, for the token API: a listener without owner.
Issue(c) ==
  /\ Can("issue") /\ May(c, "admin") /\ ~FromSession(c)
  /\ \E scopes \in SUBSET Scopes \ {{}} : Give(c, Issued(None, "listener", FALSE, scopes))

\* tokensCreate: for anyone there is, deactivated or not.
TokensCreate(c) ==
  /\ Can("issue") /\ May(c, "admin") /\ FromSession(c)
  /\ \E u \in Keys(users) \cup {None} : \E kind \in {"pat", "listener"} :
     \E scopes \in SUBSET Scopes \ {{}} :
       Give(c, Issued(u, kind, FALSE, scopes))

\* HeldByUser: an administrator holds every scope.
HeldScopes(c) == IF users[call[c].as.user].role = "admin" THEN Scopes ELSE call[c].as.scopes

\* CreateToken.
CreateToken(c) ==
  /\ Can("mint") /\ May(c, "me")
  /\ \E kind \in {"pat", "listener"} : \E ephemeral \in BOOLEAN :
     \E scopes \in SUBSET HeldScopes(c) \ {{}} :
       Give(c, Issued(call[c].as.user, kind, ephemeral, scopes))

\* meCreateToken: an ephemeral personal token, possibly without other scopes.
MeCreateToken(c) ==
  /\ Can("mint") /\ May(c, "me") /\ FromSession(c)
  /\ \E scopes \in SUBSET HeldScopes(c) : Give(c, Issued(call[c].as.user, "pat", TRUE, scopes))

\* The API's revoke and tokensRevoke.
Revoke(c, k) ==
  /\ Can("revoke") /\ May(c, "admin")
  /\ tokens' = RevokeToken(tokens, k)
  /\ Done(c)
  /\ UNCHANGED late
  /\ TokenStep

TokensRevoke(c, k) == May(c, "admin") /\ FromSession(c) /\ Revoke(c, k)

\* RevokeOwnToken of /api/me: the owner is checked ("self" is the token of the
\* request) ...
RevokeOwn(c, k) ==
  /\ Can("revoke") /\ May(c, "me")
  /\ tokens[k] # None /\ tokens[k].owner = call[c].as.user
  /\ Step(c, [pc |-> "revoke", token |-> k])
  /\ UNCHANGED <<tokens, late>>
  /\ TokenStep

MeRevokeToken(c, k) == May(c, "me") /\ FromSession(c) /\ RevokeOwn(c, k)

\* ... then the row revoked.
RevokeChecked(c) ==
  /\ call[c].pc = "revoke"
  /\ tokens' = RevokeToken(tokens, call[c].token)
  /\ Done(c)
  /\ UNCHANGED late
  /\ TokenStep

\* Mutant of TransferToken: "system" is stored as a user's id.
TransferTokenVerbatim(c, k) ==
  /\ Can("transfer") /\ May(c, "admin") /\ ~FromSession(c)
  /\ tokens[k] # None
  /\ \E u \in Keys(users) \cup {"system"} :
       /\ tokens' = UpdateTokenOwner(tokens, k, u)
       /\ UNCHANGED late
  /\ Done(c)
  /\ TokenStep

\* patch: the new owner is any user, or none ("system").
TransferToken(c, k) ==
  /\ Can("transfer") /\ May(c, "admin") /\ ~FromSession(c)
  /\ tokens[k] # None
  /\ \E u \in Keys(users) \cup {None} :
       /\ tokens' = UpdateTokenOwner(tokens, k, u)
       /\ Handed(k, u)
  /\ Done(c)
  /\ TokenStep

-----------------------------------------------------------------------------
(* Push subscriptions, as far as who owns them and whether they are        *)
(* paused; Push models what follows in the dispatcher.                     *)

SubStep == UNCHANGED <<users, sessions, tokens, touched, clock, enabled, evicted, verified,
                       overtaken, lastUse>>

Register(c, u) ==
  /\ \E s \in Subs :
       /\ subs[s] = None
       /\ subs' = InsertPush(subs, s, [owner |-> u, paused |-> FALSE])
       /\ Handed(s, u)
  /\ Done(c)
  /\ SubStep

\* CreateSub: for the caller, with a scope for the source.
CreateSub(c) ==
  /\ Can("push") /\ May(c, "me")
  /\ HeldScopes(c) \ {"admin"} # {}
  /\ Register(c, call[c].as.user)

\* pushCreate and the push API's create: without owner.
PushCreate(c) == Can("push") /\ May(c, "admin") /\ Register(c, None)

\* requireOwnedSub; the operation follows.
RequireOwnedSub(c, s) ==
  /\ Can("push") /\ May(c, "me")
  /\ subs[s] # None /\ subs[s].owner = call[c].as.user
  /\ \E act \in {"pause", "resume", "delete"} : Step(c, [pc |-> act, sub |-> s])
  /\ UNCHANGED <<subs, late>>
  /\ SubStep

\* Either after that check, or at once for an administrator.
Proceeds(c, s, act) ==
  \/ call[c].pc = act /\ call[c].sub = s
  \/ Can("push") /\ May(c, "admin") /\ subs[s] # None

PauseSub(c, s) ==
  /\ Proceeds(c, s, "pause")
  /\ subs' = PausePush(subs, s)
  /\ Done(c)
  /\ UNCHANGED late
  /\ SubStep

ResumeSub(c, s) ==
  /\ Proceeds(c, s, "resume")
  /\ subs' = ResumePush(subs, s)
  /\ IF subs[s] = None THEN UNCHANGED late ELSE Handed(s, subs[s].owner)
  /\ Done(c)
  /\ SubStep

DeleteSub(c, s) ==
  /\ Proceeds(c, s, "delete")
  /\ subs' = DeletePush(subs, s)
  /\ late' = late \ {s}
  /\ Done(c)
  /\ SubStep

\* The forms of the inspector.
MeRequireOwnedSub(c, s) == May(c, "me") /\ FromSession(c) /\ RequireOwnedSub(c, s)
PushFormPause(c, s) == May(c, "admin") /\ FromSession(c) /\ PauseSub(c, s)
PushFormResume(c, s) == May(c, "admin") /\ FromSession(c) /\ ResumeSub(c, s)
PushFormDelete(c, s) == May(c, "admin") /\ FromSession(c) /\ DeleteSub(c, s)

\* patch of the push API.
TransferSub(c, s) ==
  /\ Can("transfer") /\ May(c, "admin") /\ ~FromSession(c)
  /\ subs[s] # None
  /\ \E u \in Keys(users) \cup {None} :
       /\ subs' = UpdatePushOwner(subs, s, u)
       /\ Handed(s, u)
  /\ Done(c)
  /\ SubStep

-----------------------------------------------------------------------------
\* The request only reads, or is refused by its handler.
Answer(c) ==
  /\ call[c].pc = "authorised"
  /\ Done(c)
  /\ UNCHANGED <<storeVars, touched, clock, enabled, histVars>>

\* Credentials are looked up within a tick: the properties are about hours.
Tick ==
  /\ clock < Scenarios[enabled].time
  /\ \A c \in Callers : call[c].pc \notin {"user", "slide", "touch"}
  /\ clock' = clock + 1
  /\ UNCHANGED <<storeVars, touched, call, enabled, opsLeft, histVars>>

\* The process stops and starts.  A use whose touch is lost does not count.
Restart ==
  /\ Can("restart")
  /\ opsLeft > 0
  /\ opsLeft' = opsLeft - 1
  /\ call' = [c \in Callers |-> Idle]
  /\ touched' = [k \in Tokens |-> None]
  /\ overtaken' = overtaken \ Callers
  /\ lastUse' = [x \in Sessions \cup Tokens |->
                   IF \E c \in Callers : call[c].pc = "touch" /\ call[c].token = x
                   THEN IF tokens[x].lastUsed = None THEN tokens[x].created ELSE tokens[x].lastUsed
                   ELSE IF \E c \in Callers : call[c].pc = "slide" /\ call[c].session = x
                        THEN IF sessions[x] = None THEN 0 ELSE sessions[x].lastUsed
                   ELSE lastUse[x]]
  /\ UNCHANGED <<storeVars, clock, enabled, late, evicted, verified>>

\* Where `hooks init` is part of the scenario the database is new.
AtStart(T) == IF Can("init") THEN [x \in DOMAIN T |-> None] ELSE T

Init ==
  /\ enabled \in DOMAIN Scenarios
  /\ users = AtStart(InitialUsers)
  /\ sessions = AtStart([s \in Sessions |->
       IF InitialSessions[s] = None THEN None
       ELSE [user |-> InitialSessions[s], lastUsed |-> 0, expires |-> SessionTTL]])
  /\ tokens = AtStart(InitialTokens)
  /\ subs = AtStart(InitialSubs)
  /\ touched = [k \in Tokens |-> None]
  /\ call = [c \in Callers |-> Idle]
  /\ clock = 0
  /\ opsLeft = Scenarios[enabled].ops
  /\ late = {}
  /\ evicted = [u \in Users |-> 1]
  /\ verified = [s \in Sessions |-> IF sessions[s] = None THEN 0 ELSE 1]
  /\ overtaken = {}
  /\ lastUse = [x \in Sessions \cup Tokens |-> 0]

SessionAction(c) ==
  \/ Login(c)
  \/ \E s \in Sessions : Lookup(c, s) \/ Logout(c, s)
  \/ LookupUser(c) \/ SlideSession(c) \/ DropSession(c)

BearerAction(c) ==
  \/ \E k \in Tokens : Resolve(c, k)
  \/ TouchLastUsed(c) \/ ReadOwner(c) \/ Disconnect(c)

UserAction(c) ==
  \/ \E u \in Users :
       \/ Deactivate(c, u) \/ UsersDeactivate(c, u) \/ Reactivate(c, u) \/ UsersReactivate(c, u)
       \/ ResetPassword(c, u) \/ UsersResetPassword(c, u) \/ PatchUser(c, u) \/ UsersUpdate(c, u)
  \/ EvictSessions(c) \/ WriteProfile(c) \/ PatchMe(c)

TokenAction(c) ==
  \/ Issue(c) \/ TokensCreate(c) \/ CreateToken(c) \/ MeCreateToken(c) \/ RevokeChecked(c)
  \/ \E k \in Tokens :
       \/ Revoke(c, k) \/ TokensRevoke(c, k) \/ RevokeOwn(c, k) \/ MeRevokeToken(c, k)
       \/ TransferToken(c, k)

SubAction(c) ==
  \/ CreateSub(c) \/ PushCreate(c)
  \/ \E s \in Subs :
       \/ RequireOwnedSub(c, s) \/ PauseSub(c, s) \/ ResumeSub(c, s) \/ DeleteSub(c, s)
       \/ MeRequireOwnedSub(c, s) \/ PushFormPause(c, s) \/ PushFormResume(c, s) \/ PushFormDelete(c, s)
       \/ TransferSub(c, s)

Serve ==
  \/ \E c \in Callers :
       SessionAction(c) \/ BearerAction(c) \/ UserAction(c) \/ TokenAction(c) \/ SubAction(c)
       \/ Answer(c)
  \/ SweepSessions \/ SweepTokens \/ Tick

Next == Serve \/ Restart

Spec == Init /\ [][Next]_vars

-----------------------------------------------------------------------------
(* Properties.                                                             *)

Pending ==
  {Idle} \cup [pc : {"authorised"}, as : Snapshot]
  \cup [pc : {"stream"}, token : Tokens] \cup [pc : {"owner"}, token : Tokens, user : Users]
Call ==
  Pending \cup [pc : {"login"}, user : Users, pw : Nat]
  \cup [pc : {"user"}, session : Sessions, user : Users, slide : BOOLEAN]
  \cup [pc : {"slide"}, session : Sessions, next : Pending] \cup [pc : {"drop"}, session : Sessions]
  \cup [pc : {"touch"}, token : Tokens, next : Pending]
  \cup [pc : {"evict"}, user : Users, pw : Nat, by : Users \cup {None}]
  \cup [pc : {"patch"}, user : Users, scopes : SUBSET Scopes] \cup [pc : {"revoke"}, token : Tokens]
  \cup [pc : {"pause", "resume", "delete"}, sub : Subs]

AccountsTypeOK ==
  /\ users \in [Users -> UserRow \cup {None}]
  /\ sessions \in [Sessions -> SessionRow \cup {None}]
  /\ tokens \in [Tokens -> TokenRow \cup {None}]
  /\ subs \in [Subs -> SubRow \cup {None}]
  /\ touched \in [Tokens -> Nat \cup {None}]
  /\ call \in [Callers -> Call]
  /\ clock \in 0..Scenarios[enabled].time /\ opsLeft \in 0..Scenarios[enabled].ops
  /\ late \subseteq Tokens \cup Subs
  /\ evicted \in [Users -> Nat] /\ verified \in [Sessions -> Nat]
  /\ overtaken \subseteq Callers \cup Sessions
  /\ lastUse \in [Sessions \cup Tokens -> Nat]

\* "At least one active admin remains", whatever administrators that were
\* authorised at the same time do to each other.
AdminRemains == [][ActiveAdmins(users) # {} => ActiveAdmins(users') # {}]_vars

\* What a deactivated user owns is revoked and paused, apart from what another
\* request gave the user after the deactivation: nothing that existed before it
\* is missed or comes back, through transfers, resumptions and reactivations.
CascadeComplete ==
  \A u \in Users : users[u] # None /\ ~users[u].active =>
    /\ \A k \in OwnedBy(tokens, u) : ~tokens[k].revoked => k \in late
    /\ \A s \in OwnedBy(subs, u) : ~subs[s].paused => s \in late

\* Once a reset has been acknowledged no session of an older password is left,
\* apart from those of logins that were under way: no request that is looking a
\* session up, and no later reset, brings one back.
SessionsFollowPassword ==
  \A s \in Keys(sessions) :
    verified[s] >= evicted[sessions[s].user] \/ s \in overtaken

\* "Sliding on each authenticated request": a session outlives its last use by
\* its TTL, less the interval within which the expiry is not moved again.
SessionOutlivesUse ==
  \A s \in Keys(sessions) :
    (\A c \in Callers : call[c].pc = "slide" => call[c].session # s)
    => sessions[s].expires > lastUse[s] + SessionTTL - SlideAfter

\* The sweep revokes a token only when it was idle for the limit, less the
\* interval within which a use is not recorded again.
SweepSparesUsed ==
  [][SweepTokens => \A k \in Keys(tokens) :
       /\ ~tokens[k].revoked /\ tokens'[k].revoked
       /\ \A c \in Callers : call[c].pc = "touch" => call[c].token # k
       => lastUse[k] - TouchAfter + 1 < clock - IdleLimit]_vars
=============================================================================
