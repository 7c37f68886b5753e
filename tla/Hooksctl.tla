-------------------------------- MODULE Hooksctl -------------------------------
(***************************************************************************)
(* The other commands of hooksctl (me, token, push, invite, whoami): each  *)
(* sends one request with a bearer token and decides by the status of the  *)
(* answer whether it succeeded.  A request may not reach the server, and   *)
(* an answer may be lost: the exit code is then 1 whatever happened.       *)
(*                                                                         *)
(* A handler is one step here (Accounts has them in parts): an endpoint is *)
(* the set of its outcomes, each a status with the tables as they are then. *)
(* 400 and 500 stand for bodies that do not parse and store errors.        *)
(***************************************************************************)
EXTENDS DevicePairing

VARIABLE finished   \* history: the last command that ended

Reply(status) == [status |-> status, tokens |-> tokens, subs |-> subs]

Fails == {Reply(400), Reply(500)}

\* requireAdmin and resolveCaller, for a bearer.
AsAdmin(k, outcomes) ==
  IF k \in ListActiveTokens(tokens) /\ "admin" \in tokens[k].scopes THEN outcomes ELSE {Reply(403)}

AsPersonal(k, outcomes) ==
  IF Accepted(k) /\ tokens[k].kind = "pat" THEN outcomes ELSE {Reply(401)}

\* requireAdmin of the invite API looks for the session that the middleware
\* attached, which it does for a cookie only.
AsInviteAdmin(k) == {Reply(401)}

OwnToken(k, n, outcomes) ==
  IF tokens[n] # None /\ tokens[n].owner = tokens[k].owner THEN outcomes ELSE {Reply(404)}
OwnSub(k, s, outcomes) ==
  IF subs[s] # None /\ subs[s].owner = tokens[k].owner THEN outcomes ELSE {Reply(404)}
Existing(row, outcomes) == IF row # None THEN outcomes ELSE {Reply(404)}

Held(u) == IF users[u].role = "admin" THEN Scopes ELSE users[u].scopes

WithToken(n, row) == [Reply(201) EXCEPT !.tokens = InsertToken(tokens, n, row)]
WithSub(s, row) == [Reply(201) EXCEPT !.subs = InsertPush(subs, s, row)]
WithSubs(status, S) == [Reply(status) EXCEPT !.subs = S]

Fresh(T) == {x \in DOMAIN T : T[x] = None}

-----------------------------------------------------------------------------
(* The endpoints.                                                          *)

GetMe(k) == AsPersonal(k, {Reply(200)})

GetMeTokens(k) == AsPersonal(k, {Reply(200), Reply(500)})

PostMeTokens(k) ==
  AsPersonal(k, Fails \cup
    IF Held(tokens[k].owner) = {} THEN {Reply(403)}
    ELSE {WithToken(n, Issued(tokens[k].owner, kind, FALSE, Held(tokens[k].owner))) :
            n \in Fresh(tokens), kind \in {"pat", "listener"}})

PostMeTokenRevoke(k, n) ==
  AsPersonal(k, OwnToken(k, n, {Reply(500), [Reply(204) EXCEPT !.tokens = RevokeToken(tokens, n)]}))

GetMeSubs(k) == AsPersonal(k, {Reply(200), Reply(500)})

GetMeSub(k, s) == AsPersonal(k, OwnSub(k, s, {Reply(200)}))

PostMeSubs(k) ==
  AsPersonal(k, Fails \cup
    IF Held(tokens[k].owner) \ {"admin"} = {} THEN {Reply(403)}
    ELSE {WithSub(s, [owner |-> tokens[k].owner, paused |-> FALSE]) : s \in Fresh(subs)})

PauseMeSub(k, s) == AsPersonal(k, OwnSub(k, s, {Reply(500), WithSubs(204, PausePush(subs, s))}))

\* The row is resumed before the dispatcher, which may fail.
ResumeMeSub(k, s) ==
  AsPersonal(k, OwnSub(k, s, {Reply(500), WithSubs(500, ResumePush(subs, s)),
                              WithSubs(204, ResumePush(subs, s))}))

RotateMeSub(k, s) == AsPersonal(k, OwnSub(k, s, {Reply(500), Reply(200)}))

TestMeSub(k, s) == AsPersonal(k, OwnSub(k, s, {Reply(502), Reply(204)}))

DeleteMeSub(k, s) == AsPersonal(k, OwnSub(k, s, {Reply(500), WithSubs(204, DeletePush(subs, s))}))

GetTokens(k) == AsAdmin(k, {Reply(200), Reply(500)})

PostTokens(k) ==
  AsAdmin(k, Fails \cup {WithToken(n, Issued(None, "listener", FALSE, Scopes)) : n \in Fresh(tokens)})

PostTokenRevoke(k, n) ==
  AsAdmin(k, Existing(tokens[n], {Reply(500), [Reply(204) EXCEPT !.tokens = RevokeToken(tokens, n)]}))

GetPushes(k) == AsAdmin(k, {Reply(200), Reply(500)})

GetPush(k, s) == AsAdmin(k, Existing(subs[s], {Reply(200), Reply(500)}))

PostPushes(k) ==
  AsAdmin(k, Fails \cup {WithSub(s, [owner |-> None, paused |-> FALSE]) : s \in Fresh(subs)})

PausePushSub(k, s) == AsAdmin(k, Existing(subs[s], {Reply(500), WithSubs(204, PausePush(subs, s))}))

ResumePushSub(k, s) ==
  AsAdmin(k, Existing(subs[s], {Reply(500), WithSubs(500, ResumePush(subs, s)),
                                WithSubs(204, ResumePush(subs, s))}))

RotatePushSub(k, s) == AsAdmin(k, Existing(subs[s], {Reply(500), Reply(200)}))

\* A subscription that does not exist is a bad gateway too.
TestPushSub(k, s) == AsAdmin(k, {Reply(502)} \cup IF subs[s] = None THEN {} ELSE {Reply(204)})

DeletePushSub(k, s) == AsAdmin(k, Existing(subs[s], {Reply(500), WithSubs(204, DeletePush(subs, s))}))

-----------------------------------------------------------------------------
(* The commands.                                                           *)

\* resolveProfile: the token of the command line, or the environment, or else the
\* profile's.  Whoever has the former may use any token there is.
Presented(l) == Keys(tokens)

\* History: a row handed to a deactivated user, as in Handed.
HandedTo(T) ==
  late' = late \cup {s \in Keys(T) : T[s].owner # None /\ ~users[T[s].owner].active /\ ~T[s].paused
                                     /\ (subs[s] = None \/ subs[s].paused)}

\* One request and what becomes of it; the command succeeds when an answer with a
\* status it expects arrives.  goal holds the outcomes in which what the user asked
\* for is done.
Command(l, name, k, outcomes, expected, goal) ==
  /\ Can("cli")
  /\ Run(l)
  /\ \E o \in outcomes \cup {Reply(0)} : \E arrives \in BOOLEAN :
       /\ tokens' = o.tokens
       /\ subs' = o.subs
       /\ HandedTo(o.subs)
       /\ finished' =
            [name |-> name, admin |-> "admin" \in tokens[k].scopes /\ ~tokens[k].revoked,
             status |-> IF arrives THEN o.status ELSE 0,
             code |-> IF arrives /\ o.status \in expected THEN 0 ELSE 1,
             reached |-> o \in goal, changed |-> o.tokens # tokens \/ o.subs # subs]
  /\ UNCHANGED <<users, sessions, touched, call, clock, enabled, evicted, verified, overtaken,
                 lastUse, pairingVars>>

\* A command that only asks, or whose effect is not on these tables.
Query(l, name, k, outcomes, expected) == Command(l, name, k, outcomes, expected, outcomes)

\* What the others are for.
NewToken(outcomes) == {o \in outcomes : Keys(o.tokens) \ Keys(tokens) # {}}
NewSub(outcomes) == {o \in outcomes : Keys(o.subs) \ Keys(subs) # {}}
Revoked(outcomes, n) == {o \in outcomes : o.tokens[n] # None /\ o.tokens[n].revoked}
Paused(outcomes, s, paused) == {o \in outcomes : o.subs[s] # None /\ o.subs[s].paused = paused}
Gone(outcomes, s) == {o \in outcomes : o.subs[s] = None}

Whoami(l, k) == Query(l, "whoami", k, GetMe(k), {200})

MeTokenAdd(l, k) ==
  Command(l, "me token add", k, PostMeTokens(k), {201}, NewToken(PostMeTokens(k)))
MeTokenList(l, k) == Query(l, "me token list", k, GetMeTokens(k), {200})
MeTokenRevoke(l, k, n) ==
  Command(l, "me token revoke", k, PostMeTokenRevoke(k, n), {204}, Revoked(PostMeTokenRevoke(k, n), n))

MeSubAdd(l, k) == Command(l, "me sub add", k, PostMeSubs(k), {201}, NewSub(PostMeSubs(k)))
MeSubList(l, k) == Query(l, "me sub list", k, GetMeSubs(k), {200})
MeSubGet(l, k, s) == Query(l, "me sub get", k, GetMeSub(k, s), {200})
MeSubAction(l, k, s) ==
  \/ Command(l, "me sub pause", k, PauseMeSub(k, s), {200, 204}, Paused(PauseMeSub(k, s), s, TRUE))
  \/ Command(l, "me sub resume", k, ResumeMeSub(k, s), {200, 204}, Paused(ResumeMeSub(k, s), s, FALSE))
  \/ Query(l, "me sub test", k, TestMeSub(k, s), {200, 204})
MeSubRotate(l, k, s) == Query(l, "me sub rotate-secret", k, RotateMeSub(k, s), {200})

\* Mutant of MeSubDelete: expects the status of the other operations.
MeSubDeleteOK(l, k, s) ==
  Command(l, "me sub rm", k, DeleteMeSub(k, s), {200}, Gone(DeleteMeSub(k, s), s))

MeSubDelete(l, k, s) ==
  Command(l, "me sub rm", k, DeleteMeSub(k, s), {204}, Gone(DeleteMeSub(k, s), s))

TokenAdd(l, k) == Command(l, "token add", k, PostTokens(k), {201}, NewToken(PostTokens(k)))
TokenList(l, k) == Query(l, "token list", k, GetTokens(k), {200})
TokenRevoke(l, k, n) ==
  Command(l, "token revoke", k, PostTokenRevoke(k, n), {204}, Revoked(PostTokenRevoke(k, n), n))

PushAdd(l, k) == Command(l, "push add", k, PostPushes(k), {201}, NewSub(PostPushes(k)))
PushList(l, k) == Query(l, "push list", k, GetPushes(k), {200})
PushSimpleGet(l, k, s) == Query(l, "push get", k, GetPush(k, s), {200})
PushAction(l, k, s) ==
  \/ Command(l, "push pause", k, PausePushSub(k, s), {200, 204}, Paused(PausePushSub(k, s), s, TRUE))
  \/ Command(l, "push resume", k, ResumePushSub(k, s), {200, 204}, Paused(ResumePushSub(k, s), s, FALSE))
PushRotate(l, k, s) == Query(l, "push rotate-secret", k, RotatePushSub(k, s), {200})
PushDelete(l, k, s) == Command(l, "push rm", k, DeletePushSub(k, s), {204}, Gone(DeletePushSub(k, s), s))
PushTest(l, k, s) == Query(l, "push test", k, TestPushSub(k, s), {204})

InviteCreate(l, k) == Query(l, "invite create", k, AsInviteAdmin(k), {201})
InviteList(l, k) == Query(l, "invite list", k, AsInviteAdmin(k), {200})
InviteRevoke(l, k) == Query(l, "invite revoke", k, AsInviteAdmin(k), {204})

CmdMe(l, k) ==
  \/ MeTokenAdd(l, k) \/ MeTokenList(l, k) \/ MeSubAdd(l, k) \/ MeSubList(l, k)
  \/ \E n \in Tokens : MeTokenRevoke(l, k, n)
  \/ \E s \in Subs : MeSubGet(l, k, s) \/ MeSubAction(l, k, s) \/ MeSubRotate(l, k, s)
                    \/ MeSubDelete(l, k, s)
CmdToken(l, k) == TokenAdd(l, k) \/ TokenList(l, k) \/ \E n \in Tokens : TokenRevoke(l, k, n)
CmdPush(l, k) ==
  \/ PushAdd(l, k) \/ PushList(l, k)
  \/ \E s \in Subs : PushSimpleGet(l, k, s) \/ PushAction(l, k, s) \/ PushRotate(l, k, s)
                    \/ PushDelete(l, k, s) \/ PushTest(l, k, s)
CmdInvite(l, k) == InviteCreate(l, k) \/ InviteList(l, k) \/ InviteRevoke(l, k)

HooksctlInit == finished = None

HooksctlNext ==
  \E l \in Terminals : \E k \in Presented(l) :
    Whoami(l, k) \/ CmdMe(l, k) \/ CmdToken(l, k) \/ CmdPush(l, k) \/ CmdInvite(l, k)

-----------------------------------------------------------------------------
(* Properties.                                                             *)

\* A command that exits 0 has done what it was for; one that was answered and
\* exits 1 has changed nothing, unless the server failed half-way.
ExitTellsOutcome ==
  finished # None =>
    /\ finished.code = 0 => finished.reached
    /\ finished.code = 1 /\ finished.status \in 200..499 => ~finished.changed

\* developer-accounts spec: "the CLI subcommands `hooksctl invite create | list |
\* revoke` (remote, hits `/api/invites` using the admin's PAT)".
InviteCommandsAuthorised ==
  finished # None /\ finished.admin
  /\ finished.name \in {"invite create", "invite list", "invite revoke"}
  => finished.status \notin {401, 403}
=============================================================================
