----------------------------- MODULE EnrolmentProofs ----------------------------
(***************************************************************************)
(* Promises of the accounts, for any number of users, requests and         *)
(* credentials: there is always an active administrator, a deactivation    *)
(* leaves its user nothing that acts, and the exit code of a command tells *)
(* what has become of its request.                                         *)
(*                                                                         *)
(* The invariant is that rows and handlers under way name users that       *)
(* exist, and that rows have their columns.  What types the tables and the *)
(* handlers have follows from it.                                          *)
(***************************************************************************)
EXTENDS Enrolment, TLAPS

SessionsKnown(T, U) ==
  /\ DOMAIN T = Sessions
  /\ \A s \in Sessions : T[s] # None => "user" \in DOMAIN T[s] /\ T[s].user \in Keys(U)

TokensKnown(T, U) ==
  /\ DOMAIN T = Tokens
  /\ \A k \in Tokens : T[k] # None =>
       {"owner", "revoked"} \subseteq DOMAIN T[k] /\ T[k].owner \in Keys(U) \cup {None}

SubsKnown(T) ==
  /\ DOMAIN T = Subs
  /\ \A s \in Subs : T[s] # None => {"owner", "paused"} \subseteq DOMAIN T[s]

\* The continuation of a request whose credential has been looked up.
NextKnown(x, U) ==
  /\ x.pc = "authorised" /\ "me" \in x.as.may => x.as.user \in Keys(U) /\ x.as.scopes \subseteq Scopes
  /\ x.pc = "owner" => x.user \in Keys(U)

CallKnown(x, U) ==
  /\ NextKnown(x, U)
  /\ x.pc \in {"slide", "touch"} =>
       /\ NextKnown(x.next, U)
       /\ x.next.pc \notin {"slide", "touch", "login", "user", "patch", "evict"}
  /\ x.pc \in {"login", "user"} => x.user \in Keys(U)
  /\ x.pc = "patch" => x.user \in Users /\ x.scopes \subseteq Scopes

CallsKnown(C, U) == DOMAIN C = Callers /\ \A c \in Callers : CallKnown(C[c], U)

RowKnown(row) == row.role \in {"admin", "user"} /\ row.scopes \subseteq Scopes

InvitesKnown(T) ==
  /\ DOMAIN T = Codes
  /\ \A i \in Codes : T[i] # None => {"role", "scopes"} \subseteq DOMAIN T[i] /\ RowKnown(T[i])

SignupsKnown(S) ==
  /\ DOMAIN S = Callers
  /\ \A c \in Callers : S[c].pc = "signup" => S[c].user \in Users /\ RowKnown(S[c])

ApprovalsKnown(A, U) ==
  /\ DOMAIN A = Callers
  /\ \A c \in Callers : A[c].pc = "approve" => A[c].user \in Keys(U)

Known ==
  /\ users \in [Users -> UserRow \cup {None}]
  /\ SessionsKnown(sessions, users)
  /\ TokensKnown(tokens, users)
  /\ SubsKnown(subs)
  /\ CallsKnown(call, users)
  /\ InvitesKnown(invites) /\ SignupsKnown(signup)
  /\ ApprovalsKnown(approval, users)

-----------------------------------------------------------------------------
(* What a step may do, table by table.                                     *)

\* A row is added or amended; nobody is demoted or deactivated.
Amend(u, row) ==
  /\ users' = [users EXCEPT ![u] = row]
  /\ users[u] = None => row.active
  /\ users[u] # None => row.role = users[u].role /\ (users[u].active => row.active)

UsersStep ==
  \/ users' = users
  \/ \E u \in Users : DeactivateUserCascade(u)
  \/ \E u \in Users : \E row \in UserRow : Amend(u, row)

\* A token is as good as it was, or given to nobody, to somebody active, or late.
TokenStays(k) ==
  /\ tokens[k] # None
  /\ tokens'[k].owner = tokens[k].owner
  /\ tokens[k].revoked => tokens'[k].revoked
  /\ k \in late => k \in late'

TokenGiven(k) ==
  \/ tokens'[k].owner = None
  \/ users'[tokens'[k].owner].active
  \/ k \in late'

TokensStep ==
  /\ TokensKnown(tokens', users)
  /\ \A k \in Tokens : tokens'[k] # None => TokenStays(k) \/ TokenGiven(k)

SubStays(s) ==
  /\ subs[s] # None
  /\ subs'[s].owner = subs[s].owner
  /\ subs[s].paused => subs'[s].paused
  /\ s \in late => s \in late'

SubGiven(s) ==
  \/ subs'[s].owner = None
  \/ users'[subs'[s].owner].active
  \/ s \in late'

SubsStep ==
  /\ SubsKnown(subs')
  /\ \A s \in Subs : subs'[s] # None => SubStays(s) \/ SubGiven(s)

AccountsStep ==
  /\ UsersStep
  /\ SessionsKnown(sessions', users)
  /\ TokensStep
  /\ SubsStep
  /\ CallsKnown(call', users)

-----------------------------------------------------------------------------
(* Statements.                                                             *)

LEMMA UsersSame ==
  ASSUME users' = users
  PROVE  UsersStep
BY DEF UsersStep

LEMMA TokensSame ==
  ASSUME Known, tokens' = tokens, \A k \in Tokens : k \in late => k \in late'
  PROVE  TokensStep
BY DEF Known, TokensStep, TokensKnown, TokenStays

LEMMA SubsSame ==
  ASSUME Known, subs' = subs, \A s \in Subs : s \in late => s \in late'
  PROVE  SubsStep
BY DEF Known, SubsStep, SubsKnown, SubStays

LEMMA CallTo ==
  ASSUME Known, NEW c \in Callers, NEW next, CallKnown(next, users),
         call' = [call EXCEPT ![c] = next]
  PROVE  CallsKnown(call', users)
BY DEF Known, CallsKnown

LEMMA CallSame ==
  ASSUME Known, call' = call
  PROVE  CallsKnown(call', users)
BY DEF Known, CallsKnown

LEMMA CallIdle ==
  ASSUME Known, NEW c \in Callers, Done(c)
  PROVE  CallsKnown(call', users)
BY CallTo DEF Done, Step, Idle, CallKnown, NextKnown

\* UPDATEs of a token that leave its owner and can only end it.
LEMMA TokenUpdated ==
  ASSUME Known, NEW k, NEW column \in {"revoked", "lastUsed"}, NEW value,
         column = "revoked" => value,
         tokens' = Update(tokens, k, column, value),
         \A n \in Tokens : n \in late => n \in late'
  PROVE  TokensStep
BY DEF Known, TokensStep, TokensKnown, TokenStays, Update

LEMMA TokensSwept ==
  ASSUME Known, NEW cutoff, tokens' = ExpireEphemeralTokensIdle(tokens, cutoff), late' = late
  PROVE  TokensStep
BY DEF Known, TokensStep, TokensKnown, TokenStays, ExpireEphemeralTokensIdle

LEMMA TokenInserted ==
  ASSUME Known, NEW k \in Tokens, NEW row, tokens' = InsertToken(tokens, k, row),
         Handed(k, row.owner), users' = users,
         {"owner", "revoked"} \subseteq DOMAIN row, row.owner \in Keys(users) \cup {None}
  PROVE  TokensStep /\ (subs' = subs => SubsStep)
<1>1. TokensKnown(tokens', users)
  BY DEF Known, TokensKnown, InsertToken
<1>2. \A n \in Tokens : tokens'[n] # None => TokenStays(n) \/ TokenGiven(n)
  BY DEF Known, TokensKnown, InsertToken, TokenStays, TokenGiven, Handed
<1>3. \A s \in Subs : s \in late => s \in late'
  BY AccountsAssumption DEF Handed
<1> QED BY <1>1, <1>2, <1>3, SubsSame DEF TokensStep

LEMMA TokenTransferred ==
  ASSUME Known, NEW k \in Tokens, NEW u \in Keys(users) \cup {None}, tokens[k] # None,
         tokens' = UpdateTokenOwner(tokens, k, u), Handed(k, u), users' = users
  PROVE  TokensStep /\ (subs' = subs => SubsStep)
<1>1. TokensKnown(tokens', users)
  BY DEF Known, TokensKnown, UpdateTokenOwner, Update
<1>2. \A n \in Tokens : tokens'[n] # None => TokenStays(n) \/ TokenGiven(n)
  BY DEF Known, TokensKnown, UpdateTokenOwner, Update, TokenStays, TokenGiven, Handed
<1>3. \A s \in Subs : s \in late => s \in late'
  BY AccountsAssumption DEF Handed
<1> QED BY <1>1, <1>2, <1>3, SubsSame DEF TokensStep

\* UPDATEs of a subscription that leave its owner.
LEMMA SubPaused ==
  ASSUME Known, NEW s, subs' = PausePush(subs, s), \A x \in Subs : x \in late => x \in late'
  PROVE  SubsStep
BY DEF Known, SubsStep, SubsKnown, SubStays, PausePush, Update

LEMMA SubsPaused ==
  ASSUME Known, NEW u, subs' = PausePushByOwner(subs, u), late' = late
  PROVE  SubsStep
BY DEF Known, SubsStep, SubsKnown, SubStays, PausePushByOwner

LEMMA SubResumed ==
  ASSUME Known, NEW s \in Subs, subs' = ResumePush(subs, s), users' = users,
         IF subs[s] = None THEN late' = late ELSE Handed(s, subs[s].owner)
  PROVE  SubsStep /\ (tokens' = tokens => TokensStep)
<1>1. SubsKnown(subs')
  BY DEF Known, SubsKnown, ResumePush, Update
<1>2. \A x \in Subs : subs'[x] # None => SubStays(x) \/ SubGiven(x)
  BY DEF Known, SubsKnown, ResumePush, Update, SubStays, SubGiven, Handed
<1>3. \A k \in Tokens : k \in late => k \in late'
  BY AccountsAssumption DEF Handed
<1> QED BY <1>1, <1>2, <1>3, TokensSame DEF SubsStep

LEMMA SubDeleted ==
  ASSUME Known, NEW s \in Subs, subs' = DeletePush(subs, s), late' = late \ {s}
  PROVE  SubsStep /\ (tokens' = tokens => TokensStep)
<1>1. SubsKnown(subs')
  BY DEF Known, SubsKnown, DeletePush
<1>2. \A x \in Subs : subs'[x] # None => SubStays(x) \/ SubGiven(x)
  BY DEF Known, SubsKnown, DeletePush, SubStays
<1>3. \A k \in Tokens : k \in late => k \in late'
  BY AccountsAssumption
<1> QED BY <1>1, <1>2, <1>3, TokensSame DEF SubsStep

LEMMA SubInserted ==
  ASSUME Known, NEW s \in Subs, NEW row, subs' = InsertPush(subs, s, row), Handed(s, row.owner),
         users' = users, {"owner", "paused"} \subseteq DOMAIN row
  PROVE  SubsStep /\ (tokens' = tokens => TokensStep)
<1>1. SubsKnown(subs')
  BY DEF Known, SubsKnown, InsertPush
<1>2. \A x \in Subs : subs'[x] # None => SubStays(x) \/ SubGiven(x)
  BY DEF Known, SubsKnown, InsertPush, SubStays, SubGiven, Handed
<1>3. \A k \in Tokens : k \in late => k \in late'
  BY AccountsAssumption DEF Handed
<1> QED BY <1>1, <1>2, <1>3, TokensSame DEF SubsStep

LEMMA SubTransferred ==
  ASSUME Known, NEW s \in Subs, NEW u, subs[s] # None, subs' = UpdatePushOwner(subs, s, u),
         Handed(s, u), users' = users
  PROVE  SubsStep /\ (tokens' = tokens => TokensStep)
<1>1. SubsKnown(subs')
  BY DEF Known, SubsKnown, UpdatePushOwner, Update
<1>2. \A x \in Subs : subs'[x] # None => SubStays(x) \/ SubGiven(x)
  BY DEF Known, SubsKnown, UpdatePushOwner, Update, SubStays, SubGiven, Handed
<1>3. \A k \in Tokens : k \in late => k \in late'
  BY AccountsAssumption DEF Handed
<1> QED BY <1>1, <1>2, <1>3, TokensSame DEF SubsStep

LEMMA SessionsSame ==
  ASSUME Known, sessions' = sessions
  PROVE  SessionsKnown(sessions', users)
BY DEF Known

\* What most actions leave alone.
LEMMA OnlyCall ==
  ASSUME Known, UNCHANGED <<users, tokens, subs, late>>, SessionsKnown(sessions', users),
         CallsKnown(call', users)
  PROVE  AccountsStep
BY UsersSame, TokensSame, SubsSame DEF AccountsStep

-----------------------------------------------------------------------------
(* The requests of Accounts.                                               *)

LEMMA SessionActionStep ==
  ASSUME Known, NEW c \in Callers, SessionAction(c)
  PROVE  AccountsStep
<1>1. CASE \E u \in Users : Authenticate(c, u)
  <2>1. PICK u \in Users : Authenticate(c, u)
    BY <1>1
  <2>2. CallKnown([pc |-> "login", user |-> u, pw |-> users[u].pw], users)
    BY <2>1 DEF Known, CallKnown, NextKnown, Authenticate, IsActive, Keys
  <2>3. CallsKnown(call', users)
    BY <2>1, <2>2, CallTo DEF Authenticate, Begin
  <2> QED BY <2>1, <2>3, OnlyCall, SessionsSame DEF Authenticate, storeVars, histVars
<1>2. CASE CreateSession(c)
  <2>1. SessionsKnown(sessions', users)
    BY <1>2 DEF CreateSession, Known, SessionsKnown, InsertSession, CallsKnown, CallKnown
  <2>2. CallsKnown(call', users)
    BY <1>2, CallIdle DEF CreateSession
  <2> QED BY <1>2, <2>1, <2>2, OnlyCall DEF CreateSession
<1>3. ASSUME NEW s \in Sessions, Lookup(c, s) PROVE AccountsStep
  <2>1. CallKnown([pc |-> "drop", session |-> s], users)
    BY DEF CallKnown, NextKnown
  <2>2. CallKnown([pc |-> "user", session |-> s, user |-> sessions[s].user,
                   slide |-> clock - sessions[s].lastUsed >= SlideAfter], users)
    BY <1>3 DEF CallKnown, NextKnown, Lookup, Known, SessionsKnown
  <2>3. CallsKnown(call', users)
    BY <1>3, <2>1, <2>2, CallTo DEF Lookup, Begin
  <2> QED BY <1>3, <2>3, OnlyCall, SessionsSame DEF Lookup, storeVars, histVars
<1>4. ASSUME NEW s \in Sessions, Logout(c, s) PROVE AccountsStep
  <2>1. SessionsKnown(sessions', users)
    BY <1>4 DEF Logout, Known, SessionsKnown, DeleteSession
  <2>2. CallsKnown(call', users)
    BY <1>4, CallTo DEF Logout, Begin, Idle, CallKnown, NextKnown
  <2> QED BY <1>4, <2>1, <2>2, OnlyCall DEF Logout, histVars
<1>5. CASE LookupUser(c)
  <2> DEFINE u == call[c].user
             next == Authorised(IF users[u].role = "admin" THEN {"admin", "me"} ELSE {"me"}, u, None)
  <2>1. u \in Keys(users) /\ users[u].scopes \subseteq Scopes /\ u # None
    BY <1>5, AccountsAssumption DEF LookupUser, Known, CallsKnown, CallKnown, Keys, UserRow
  <2>2. CallKnown(next, users) /\ NextKnown(next, users) /\ next.pc = "authorised"
    BY <2>1 DEF CallKnown, NextKnown, Authorised
  <2>3. CallKnown([pc |-> "drop", session |-> call[c].session], users)
    BY DEF CallKnown, NextKnown
  <2>4. CallKnown([pc |-> "slide", session |-> call[c].session, next |-> next], users)
    BY <2>2 DEF CallKnown, NextKnown
  <2>5. CallsKnown(call', users)
    BY <1>5, <2>2, <2>3, <2>4, CallTo DEF LookupUser, Step
  <2> QED BY <1>5, <2>5, OnlyCall, SessionsSame DEF LookupUser, storeVars
<1>6. CASE SlideSession(c)
  <2>1. SessionsKnown(sessions', users)
    BY <1>6 DEF SlideSession, Known, SessionsKnown, TouchSession
  <2>2. CallKnown(call[c].next, users)
    BY <1>6 DEF SlideSession, Known, CallsKnown, CallKnown
  <2>3. CallsKnown(call', users)
    BY <1>6, <2>2, CallTo DEF SlideSession, Step
  <2> QED BY <1>6, <2>1, <2>3, OnlyCall DEF SlideSession, histVars
<1>7. CASE DropSession(c)
  <2>1. SessionsKnown(sessions', users)
    BY <1>7 DEF DropSession, Known, SessionsKnown, DeleteSession
  <2>2. CallsKnown(call', users)
    BY <1>7, CallIdle DEF DropSession
  <2> QED BY <1>7, <2>1, <2>2, OnlyCall DEF DropSession, histVars
<1> QED BY <1>1, <1>2, <1>3, <1>4, <1>5, <1>6, <1>7 DEF SessionAction, Login

LEMMA BearerActionStep ==
  ASSUME Known, NEW c \in Callers, BearerAction(c)
  PROVE  AccountsStep
<1>1. ASSUME NEW k \in Tokens, Resolve(c, k) PROVE AccountsStep
  <2>1. k \in Keys(tokens)
    BY <1>1 DEF Resolve, ListActiveTokens
  <2>2. ASSUME NEW next \in AuthorizeAdmin(k) \cup AuthorizeSource(k) \cup ResolveCaller(k) \cup {Idle}
        PROVE  CallKnown(next, users) /\ CallKnown([pc |-> "touch", token |-> k, next |-> next], users)
    <3>1. CASE next \in AuthorizeAdmin(k)
      BY <3>1 DEF AuthorizeAdmin, Authorised, CallKnown, NextKnown
    <3>2. CASE next \in AuthorizeSource(k)
      BY <3>2 DEF AuthorizeSource, CallKnown, NextKnown
    <3>3. CASE next \in ResolveCaller(k)
      BY <2>1, <3>3 DEF ResolveCaller, CallKnown, NextKnown, Known, TokensKnown, Keys
    <3>4. CASE next = Idle
      BY <3>4 DEF Idle, CallKnown, NextKnown
    <3> QED BY <3>1, <3>2, <3>3, <3>4
  <2>3. CallsKnown(call', users)
    BY <1>1, <2>2, CallTo DEF Resolve, Begin
  <2> QED BY <1>1, <2>3, OnlyCall, SessionsSame DEF Resolve, storeVars
<1>2. CASE TouchLastUsed(c)
  <2>1. TokensStep
    BY <1>2, TokenUpdated DEF TouchLastUsed, TouchTokenLastUsed, histVars
  <2>2. CallKnown(call[c].next, users)
    BY <1>2 DEF TouchLastUsed, Known, CallsKnown, CallKnown
  <2>3. CallsKnown(call', users)
    BY <1>2, <2>2, CallTo DEF TouchLastUsed, Step
  <2> QED BY <1>2, <2>1, <2>3, UsersSame, SubsSame, SessionsSame DEF TouchLastUsed, histVars, AccountsStep
<1>3. CASE ReadOwner(c)
  <2>1. call[c].user \in Keys(users) /\ users[call[c].user].scopes \subseteq Scopes
    BY <1>3 DEF ReadOwner, Known, CallsKnown, CallKnown, NextKnown, Keys, UserRow
  <2>2. call[c].user # None
    BY <2>1, AccountsAssumption DEF Known, Keys
  <2>3. CallKnown(Authorised({"me"}, call[c].user, call[c].token), users) /\ CallKnown(Idle, users)
    BY <2>1, <2>2 DEF Authorised, CallKnown, NextKnown, Idle
  <2>4. CallsKnown(call', users)
    BY <1>3, <2>3, CallTo DEF ReadOwner, Step
  <2> QED BY <1>3, <2>4, OnlyCall, SessionsSame DEF ReadOwner, storeVars, histVars
<1>4. CASE Disconnect(c)
  BY <1>4, CallIdle, OnlyCall, SessionsSame DEF Disconnect, storeVars, histVars
<1> QED BY <1>1, <1>2, <1>3, <1>4 DEF BearerAction

\* Rows of users that an action amends.
LEMMA Amended ==
  ASSUME Known, NEW u \in Users, NEW column \in {"active", "pw", "scopes"}, NEW value,
         column = "active" => value = TRUE, column = "pw" => value \in Nat,
         column = "scopes" => value \subseteq Scopes,
         users' = Update(users, u, column, value)
  PROVE  UsersStep
<1>1. CASE users[u] = None
  BY <1>1 DEF Known, Update, UsersStep
<1>2. CASE users[u] # None
  <2> DEFINE row == [users[u] EXCEPT ![column] = value]
  <2>1. users[u] \in UserRow
    BY <1>2 DEF Known
  <2>2. row \in UserRow /\ row.role = users[u].role /\ (users[u].active => row.active)
    BY <2>1 DEF UserRow
  <2>3. Amend(u, row)
    BY <1>2, <2>2 DEF Known, Update, Amend
  <2> QED BY <2>2, <2>3 DEF UsersStep
<1> QED BY <1>1, <1>2

LEMMA DeactivateStep ==
  ASSUME Known, NEW c \in Callers, NEW u \in Users, Deactivate(c, u)
  PROVE  AccountsStep
<1>1. UsersStep
  BY DEF Deactivate, UsersStep
<1>2. TokensStep
  BY DEF Deactivate, DeactivateUserCascade, RevokeTokensByOwner, Known, TokensStep, TokensKnown,
         TokenStays, histVars
<1>3. SubsStep
  BY SubsPaused DEF Deactivate, DeactivateUserCascade, histVars
<1> QED BY <1>1, <1>2, <1>3, CallIdle, SessionsSame DEF Deactivate, AccountsStep

LEMMA ReactivateStep ==
  ASSUME Known, NEW c \in Callers, NEW u \in Users, Reactivate(c, u)
  PROVE  AccountsStep
<1>1. UsersStep
  BY Amended DEF Reactivate, ReactivateUser
<1>2. users'[u].active
  BY DEF Reactivate, ReactivateUser, Update, Known, UserRow
<1>3. \A k \in Tokens : k \notin OwnedBy(subs, u)
  BY AccountsAssumption DEF OwnedBy, Keys, Known, SubsKnown
<1>4. \A s \in Subs : s \notin OwnedBy(tokens, u)
  BY AccountsAssumption DEF OwnedBy, Keys, Known, TokensKnown
<1>5. TokensStep
  BY <1>2, <1>3 DEF Reactivate, OwnedBy, Known, TokensStep, TokensKnown, TokenStays, TokenGiven
<1>6. SubsStep
  BY <1>2, <1>4 DEF Reactivate, OwnedBy, Known, SubsStep, SubsKnown, SubStays, SubGiven
<1> QED BY <1>1, <1>5, <1>6, CallIdle, SessionsSame DEF Reactivate, AccountsStep

LEMMA UserActionStep ==
  ASSUME Known, NEW c \in Callers, UserAction(c)
  PROVE  AccountsStep
<1>1. ASSUME NEW u \in Users, ResetPassword(c, u) PROVE AccountsStep
  <2>1. users[u].pw + 1 \in Nat
    BY <1>1 DEF ResetPassword, Known, UserRow
  <2>4. UsersStep
    BY <1>1, <2>1, Amended DEF ResetPassword, SetUserPasswordHash
  <2>2. CallKnown([pc |-> "evict", user |-> u, pw |-> users[u].pw + 1, by |-> call[c].as.user], users)
    BY DEF CallKnown, NextKnown
  <2>3. CallsKnown(call', users)
    BY <1>1, <2>2, CallTo DEF ResetPassword, Step
  <2> QED BY <1>1, <2>4, <2>3, TokensSame, SubsSame, SessionsSame DEF ResetPassword, histVars, AccountsStep
<1>2. CASE EvictSessions(c)
  <2>1. SessionsKnown(sessions', users)
    BY <1>2 DEF EvictSessions, Known, SessionsKnown, DeleteSessionsByUser
  <2> QED BY <1>2, <2>1, CallIdle, OnlyCall DEF EvictSessions
<1>3. ASSUME NEW u \in Users, PatchUser(c, u) PROVE AccountsStep
  <2>1. ASSUME NEW scopes \in {users[u].scopes} \cup SUBSET Scopes
        PROVE  CallKnown([pc |-> "patch", user |-> u, scopes |-> scopes], users)
    BY <1>3 DEF PatchUser, Known, UserRow, CallKnown, NextKnown
  <2>2. CallsKnown(call', users)
    BY <1>3, <2>1, CallTo DEF PatchUser, Step
  <2> QED BY <1>3, <2>2, OnlyCall, SessionsSame DEF PatchUser, storeVars, histVars
<1>4. CASE WriteProfile(c)
  <2>1. call[c].user \in Users /\ call[c].scopes \subseteq Scopes
    BY <1>4 DEF WriteProfile, Known, CallsKnown, CallKnown
  <2>2. UsersStep
    BY <1>4, <2>1, Amended DEF WriteProfile, UpdateUserProfile
  <2> QED BY <1>4, <2>2, CallIdle, TokensSame, SubsSame, SessionsSame DEF WriteProfile, histVars, AccountsStep
<1>5. CASE PatchMe(c)
  <2>1. call[c].as.user \in Users /\ call[c].as.scopes \subseteq Scopes
    BY <1>5 DEF PatchMe, May, Known, CallsKnown, CallKnown, NextKnown, Keys
  <2>2. UsersStep
    BY <1>5, <2>1, Amended DEF PatchMe, UpdateUserProfile
  <2> QED BY <1>5, <2>2, CallIdle, TokensSame, SubsSame, SessionsSame DEF PatchMe, histVars, AccountsStep
<1> QED BY <1>1, <1>2, <1>3, <1>4, <1>5, DeactivateStep, ReactivateStep
     DEF UserAction, UsersDeactivate, UsersReactivate, UsersResetPassword, UsersUpdate

-----------------------------------------------------------------------------
\* A new token: the row of Issued, for a user that exists.
LEMMA GiveStep ==
  ASSUME Known, NEW c \in Callers, NEW u \in Keys(users) \cup {None}, NEW kind, NEW ephemeral,
         NEW scopes, Give(c, Issued(u, kind, ephemeral, scopes))
  PROVE  AccountsStep
<1>1. PICK k \in Tokens : /\ tokens' = InsertToken(tokens, k, Issued(u, kind, ephemeral, scopes))
                          /\ Handed(k, Issued(u, kind, ephemeral, scopes).owner)
  BY DEF Give
<1>2. TokensStep /\ SubsStep
  BY <1>1, TokenInserted DEF Give, TokenStep, Issued
<1> QED BY <1>2, UsersSame, CallIdle, SessionsSame DEF Give, TokenStep, AccountsStep

LEMMA TokenActionStep ==
  ASSUME Known, NEW c \in Callers, TokenAction(c)
  PROVE  AccountsStep
<1>1. CASE Issue(c)
  BY <1>1, GiveStep DEF Issue
<1>2. CASE TokensCreate(c)
  BY <1>2, GiveStep DEF TokensCreate
<1>3. ASSUME May(c, "me") PROVE call[c].as.user \in Keys(users)
  BY <1>3 DEF May, Known, CallsKnown, CallKnown, NextKnown
<1>4. CASE CreateToken(c)
  BY <1>3, <1>4, GiveStep DEF CreateToken
<1>5. CASE MeCreateToken(c)
  BY <1>3, <1>5, GiveStep DEF MeCreateToken
<1>6. ASSUME NEW k \in Tokens, Revoke(c, k) PROVE AccountsStep
  <2>1. TokensStep
    BY <1>6, TokenUpdated DEF Revoke, RevokeToken
  <2> QED BY <1>6, <2>1, UsersSame, SubsSame, CallIdle, SessionsSame DEF Revoke, TokenStep, AccountsStep
<1>7. ASSUME NEW k \in Tokens, RevokeOwn(c, k) PROVE AccountsStep
  <2>1. CallsKnown(call', users)
    BY <1>7, CallTo DEF RevokeOwn, Step, CallKnown, NextKnown
  <2> QED BY <1>7, <2>1, OnlyCall, SessionsSame DEF RevokeOwn, TokenStep
<1>8. CASE RevokeChecked(c)
  <2>1. TokensStep
    BY <1>8, TokenUpdated DEF RevokeChecked, RevokeToken
  <2> QED BY <1>8, <2>1, UsersSame, SubsSame, CallIdle, SessionsSame DEF RevokeChecked, TokenStep, AccountsStep
<1>9. ASSUME NEW k \in Tokens, TransferToken(c, k) PROVE AccountsStep
  <2>1. PICK u \in Keys(users) \cup {None} : tokens' = UpdateTokenOwner(tokens, k, u) /\ Handed(k, u)
    BY <1>9 DEF TransferToken
  <2>2. TokensStep /\ SubsStep
    BY <1>9, <2>1, TokenTransferred DEF TransferToken, TokenStep
  <2> QED BY <1>9, <2>2, UsersSame, CallIdle, SessionsSame DEF TransferToken, TokenStep, AccountsStep
<1> QED BY <1>1, <1>2, <1>4, <1>5, <1>6, <1>7, <1>8, <1>9 DEF TokenAction, TokensRevoke, MeRevokeToken

LEMMA RegisterStep ==
  ASSUME Known, NEW c \in Callers, NEW u, Register(c, u)
  PROVE  AccountsStep
<1>1. PICK s \in Subs : subs' = InsertPush(subs, s, [owner |-> u, paused |-> FALSE]) /\ Handed(s, u)
  BY DEF Register
<1>2. TokensStep /\ SubsStep
  BY <1>1, SubInserted DEF Register, SubStep
<1> QED BY <1>2, UsersSame, CallIdle, SessionsSame DEF Register, SubStep, AccountsStep

LEMMA SubActionStep ==
  ASSUME Known, NEW c \in Callers, SubAction(c)
  PROVE  AccountsStep
<1>1. CASE CreateSub(c) \/ PushCreate(c)
  BY <1>1, RegisterStep DEF CreateSub, PushCreate
<1>2. ASSUME NEW s \in Subs, RequireOwnedSub(c, s) PROVE AccountsStep
  <2>1. ASSUME NEW act \in {"pause", "resume", "delete"}
        PROVE  CallKnown([pc |-> act, sub |-> s], users)
    BY DEF CallKnown, NextKnown
  <2>2. CallsKnown(call', users)
    BY <1>2, <2>1, CallTo DEF RequireOwnedSub, Step
  <2> QED BY <1>2, <2>2, OnlyCall, SessionsSame DEF RequireOwnedSub, SubStep
<1>3. ASSUME NEW s \in Subs, PauseSub(c, s) PROVE AccountsStep
  <2>1. SubsStep
    BY <1>3, SubPaused DEF PauseSub
  <2> QED BY <1>3, <2>1, UsersSame, TokensSame, CallIdle, SessionsSame DEF PauseSub, SubStep, AccountsStep
<1>4. ASSUME NEW s \in Subs, ResumeSub(c, s) PROVE AccountsStep
  <2>1. SubsStep /\ TokensStep
    BY <1>4, SubResumed DEF ResumeSub, SubStep
  <2> QED BY <1>4, <2>1, UsersSame, CallIdle, SessionsSame DEF ResumeSub, SubStep, AccountsStep
<1>5. ASSUME NEW s \in Subs, DeleteSub(c, s) PROVE AccountsStep
  <2>1. SubsStep /\ TokensStep
    BY <1>5, SubDeleted DEF DeleteSub, SubStep
  <2> QED BY <1>5, <2>1, UsersSame, CallIdle, SessionsSame DEF DeleteSub, SubStep, AccountsStep
<1>6. ASSUME NEW s \in Subs, TransferSub(c, s) PROVE AccountsStep
  <2>1. PICK u : subs' = UpdatePushOwner(subs, s, u) /\ Handed(s, u)
    BY <1>6 DEF TransferSub
  <2>2. SubsStep /\ TokensStep
    BY <1>6, <2>1, SubTransferred DEF TransferSub, SubStep
  <2> QED BY <1>6, <2>2, UsersSame, CallIdle, SessionsSame DEF TransferSub, SubStep, AccountsStep
<1> QED BY <1>1, <1>2, <1>3, <1>4, <1>5, <1>6
     DEF SubAction, MeRequireOwnedSub, PushFormPause, PushFormResume, PushFormDelete

LEMMA ServeStep ==
  ASSUME Known, Serve
  PROVE  AccountsStep
<1>1. ASSUME NEW c \in Callers, Answer(c) PROVE AccountsStep
  BY <1>1, CallIdle, OnlyCall, SessionsSame DEF Answer, storeVars, histVars
<1>2. CASE SweepSessions
  <2>1. SessionsKnown(sessions', users)
    BY <1>2 DEF SweepSessions, DeleteExpiredSessions, Known, SessionsKnown
  <2> QED BY <1>2, <2>1, CallSame, OnlyCall DEF SweepSessions, histVars
<1>3. CASE SweepTokens
  <2>1. TokensStep
    BY <1>3, TokensSwept DEF SweepTokens, histVars
  <2> QED BY <1>3, <2>1, UsersSame, SubsSame, CallSame, SessionsSame DEF SweepTokens, histVars, AccountsStep
<1>4. CASE Tick
  BY <1>4, CallSame, OnlyCall, SessionsSame DEF Tick, storeVars, histVars
<1> QED BY <1>1, <1>2, <1>3, <1>4, SessionActionStep, BearerActionStep, UserActionStep, TokenActionStep,
     SubActionStep DEF Serve

LEMMA RestartStep ==
  ASSUME Known, Restart
  PROVE  AccountsStep
<1>1. CallsKnown(call', users)
  BY DEF Restart, CallsKnown, CallKnown, NextKnown, Idle
<1> QED BY <1>1, OnlyCall, SessionsSame DEF Restart, storeVars

-----------------------------------------------------------------------------
(* Invites, pairings and commands.                                         *)

EnrolmentStep ==
  /\ AccountsStep
  /\ InvitesKnown(invites') /\ SignupsKnown(signup')
  /\ ApprovalsKnown(approval', users)

LEMMA AccountsSame ==
  ASSUME Known, UNCHANGED <<users, sessions, tokens, subs, call, late>>
  PROVE  AccountsStep
BY OnlyCall, CallSame, SessionsSame

LEMMA InvitesSame ==
  ASSUME Known, UNCHANGED <<invites, signup>>
  PROVE  InvitesKnown(invites') /\ SignupsKnown(signup')
BY DEF Known, InvitesKnown, SignupsKnown, RowKnown

LEMMA ApprovalsSame ==
  ASSUME Known, approval' = approval
  PROVE  ApprovalsKnown(approval', users)
BY DEF Known

LEMMA InviteAdded ==
  ASSUME Known, NEW T, InvitesKnown(T), NEW i, NEW role \in {"admin", "user"},
         NEW scopes \in SUBSET Scopes, NEW bootstrap
  PROVE  InvitesKnown(InsertInvite(T, i, Invite(role, scopes, bootstrap)))
BY DEF InvitesKnown, RowKnown, InsertInvite, Invite

LEMMA NewInviteKnown ==
  ASSUME Known, NewInvite
  PROVE  InvitesKnown(invites')
<1>1. PICK role \in {"admin", "user"}, scopes \in {{}, Scopes \ {"admin"}}, i \in Codes :
        invites' = InsertInvite(invites, i, Invite(role, scopes, FALSE))
  BY DEF NewInvite, AddInvite
<1> QED BY <1>1, InviteAdded DEF Known

LEMMA InvitesNextStep ==
  ASSUME Known, InvitesNext, approval' = approval
  PROVE  EnrolmentStep
<1>1. ASSUME NEW c \in Callers, Create(c) PROVE EnrolmentStep
  <2>1. AccountsStep
    BY <1>1, CallIdle, OnlyCall, SessionsSame DEF Create, storeVars, histVars
  <2>2. SignupsKnown(signup')
    BY <1>1 DEF Create, Known, SignupsKnown, RowKnown
  <2> QED BY <1>1, <2>1, <2>2, NewInviteKnown, ApprovalsSame DEF Create, EnrolmentStep
<1>2. ASSUME NEW c \in Callers, Delete(c) PROVE EnrolmentStep
  <2>1. CallsKnown(call', users)
    BY <1>2, CallIdle, CallSame DEF Delete, vars
  <2>2. AccountsStep
    BY <1>2, <2>1, OnlyCall, SessionsSame DEF Delete, vars, storeVars, histVars
  <2>3. InvitesKnown(invites') /\ SignupsKnown(signup')
    BY <1>2 DEF Delete, Known, InvitesKnown, SignupsKnown, RowKnown, DeleteInvite, Idle
  <2> QED BY <2>2, <2>3, ApprovalsSame DEF EnrolmentStep
<1>3. ASSUME NEW c \in Callers, NEW i \in Codes, NEW u \in Users, Provision(c, i, u) PROVE EnrolmentStep
  <2>1. AccountsStep
    BY <1>3, AccountsSame DEF Provision, storeVars, histVars
  <2>2. InvitesKnown(invites') /\ SignupsKnown(signup')
    BY <1>3 DEF Provision, Known, InvitesKnown, SignupsKnown, RowKnown
  <2> QED BY <2>1, <2>2, ApprovalsSame DEF EnrolmentStep
<1>4. ASSUME NEW c \in Callers, Signup(c) PROVE EnrolmentStep
  <2> DEFINE u == signup[c].user
             row == [role |-> signup[c].role, active |-> TRUE, pw |-> 1, scopes |-> signup[c].scopes]
  <2>1. u \in Users /\ row \in UserRow
    BY <1>4 DEF Signup, Known, SignupsKnown, RowKnown, UserRow
  <2>2. users' = users \/ Amend(u, row)
    BY <1>4 DEF Signup, SignupTx, Created, InsertUser, Amend
  <2>3. UsersStep
    BY <2>1, <2>2 DEF UsersStep
  <2>4. InvitesKnown(invites')
    BY <1>4 DEF Signup, SignupTx, MarkBootstrapInvitesConsumed, MarkInviteConsumed, Known,
                InvitesKnown, RowKnown
  <2>5. SignupsKnown(signup')
    BY <1>4 DEF Signup, Known, SignupsKnown, RowKnown, Idle
  <2> QED BY <1>4, <2>3, <2>4, <2>5, TokensSame, SubsSame, SessionsSame, CallSame, ApprovalsSame
       DEF Signup, histVars, AccountsStep, EnrolmentStep
<1>5. CASE RunInvite
  <2>1. AccountsStep
    BY <1>5, AccountsSame DEF RunInvite, storeVars, histVars
  <2>2. SignupsKnown(signup')
    BY <1>5 DEF RunInvite, Known, SignupsKnown, RowKnown
  <2> QED BY <1>5, <2>1, <2>2, NewInviteKnown, ApprovalsSame DEF RunInvite, EnrolmentStep
<1>6. CASE InitStep
  <2>1. ASSUME NEW k \in Tokens,
               tokens' = InsertToken(tokens, k, Issued(None, "listener", FALSE, {"admin"}))
        PROVE  TokensStep
    <3>1. TokensKnown(tokens', users)
      BY <2>1 DEF InsertToken, Issued, Known, TokensKnown
    <3> QED BY <1>6, <2>1, <3>1 DEF InitStep, histVars, InsertToken, Issued, Known, TokensKnown,
                                    TokensStep, TokenStays, TokenGiven
  <2>2. TokensStep
    BY <1>6, <2>1, TokensSame DEF InitStep, RunInit, histVars
  <2>3. InvitesKnown(DeleteBootstrapInvite(invites))
    BY DEF Known, InvitesKnown, RowKnown, DeleteBootstrapInvite
  <2>4. ASSUME EnsureBootstrapInvite PROVE InvitesKnown(invites')
    <3>1. CASE invites' = invites
      BY <3>1 DEF Known
    <3>2. ASSUME NEW i \in Codes,
                 invites' = InsertInvite(DeleteBootstrapInvite(invites), i, Invite("admin", {}, TRUE))
          PROVE  InvitesKnown(invites')
      BY <2>3, <3>2, InviteAdded
    <3> QED BY <2>4, <3>1, <3>2 DEF EnsureBootstrapInvite
  <2>5. InvitesKnown(invites') /\ SignupsKnown(signup')
    BY <1>6, <2>4, InvitesSame DEF InitStep, RunInit, Known, SignupsKnown, RowKnown
  <2> QED BY <1>6, <2>2, <2>5, UsersSame, SubsSame, SessionsSame, CallSame, ApprovalsSame
       DEF InitStep, histVars, AccountsStep, EnrolmentStep
<1> QED BY <1>1, <1>2, <1>3, <1>4, <1>5, <1>6 DEF InvitesNext, UsersInvite

LEMMA TerminalActionStep ==
  ASSUME Known, NEW l \in Terminals,
         \/ Start(l) \/ Poll(l) \/ WriteToken(l) \/ WriteFails(l) \/ Receive(l) \/ GiveUp(l)
         \/ DeleteProfile(l)
  PROVE  AccountsStep /\ approval' = approval
BY AccountsSame DEF Start, Poll, WriteToken, WriteFails, Receive, GiveUp, DeleteProfile, accountVars,
                    vars, storeVars, histVars

LEMMA RevokeAttempted ==
  ASSUME Known, NEW k, tokens' \in {tokens, IF Accepted(k) THEN RevokeToken(tokens, k) ELSE tokens},
         late' = late
  PROVE  TokensStep
<1>1. CASE tokens' = tokens
  BY <1>1, TokensSame
<1>2. CASE tokens' = RevokeToken(tokens, k)
  BY <1>2, TokenUpdated DEF RevokeToken
<1> QED BY <1>1, <1>2

LEMMA PairingNextStep ==
  ASSUME Known, PairingNext, UNCHANGED <<invites, signup>>
  PROVE  EnrolmentStep
<1>1. ASSUME NEW l \in Terminals, RevokeBearer(l) PROVE AccountsStep /\ approval' = approval
  <2>1. TokensStep
    BY <1>1, RevokeAttempted DEF RevokeBearer, histVars
  <2> QED BY <1>1, <2>1, UsersSame, SubsSame, SessionsSame, CallSame DEF RevokeBearer, histVars, AccountsStep
<1>2. ASSUME NEW l \in Terminals, RevokeEphemeralListener(l) PROVE AccountsStep /\ approval' = approval
  <2>1. tokens' = tokens \/ tokens' = RevokeToken(tokens, login[l].token)
    BY <1>2 DEF RevokeEphemeralListener
  <2>2. TokensStep
    BY <1>2, <2>1, TokensSame, TokenUpdated DEF RevokeEphemeralListener, RevokeToken, histVars
  <2> QED BY <1>2, <2>2, UsersSame, SubsSame, SessionsSame, CallSame
       DEF RevokeEphemeralListener, histVars, AccountsStep
<1>3. ASSUME NEW l \in Terminals, MintEphemeralListener(l) PROVE AccountsStep /\ approval' = approval
  <2> DEFINE owner == tokens[profile[l]].owner
             row == Issued(owner, "listener", TRUE, Scopes \ {"admin"})
  <2>1. PICK k \in Tokens : tokens' = InsertToken(tokens, k, row) /\ Handed(k, owner)
    BY <1>3 DEF MintEphemeralListener
  <2>2. owner \in Keys(users) \cup {None}
    BY <1>3 DEF MintEphemeralListener, Accepted, ListActiveTokens, Known, TokensKnown, Keys
  <2>3. row.owner = owner /\ {"owner", "revoked"} \subseteq DOMAIN row
    BY DEF Issued
  <2> HIDE DEF row, owner
  <2>4. TokensStep /\ SubsStep
    BY <1>3, <2>1, <2>2, <2>3, TokenInserted DEF MintEphemeralListener
  <2> QED BY <1>3, <2>4, UsersSame, SessionsSame, CallSame DEF MintEphemeralListener, AccountsStep
<1>4. ASSUME NEW c \in Callers, ApproveCore(c) PROVE AccountsStep /\ ApprovalsKnown(approval', users)
  <2>1. call[c].as.user \in Keys(users)
    BY <1>4 DEF ApproveCore, May, Known, CallsKnown, CallKnown, NextKnown
  <2>2. ApprovalsKnown(approval', users)
    BY <1>4, <2>1 DEF ApproveCore, Known, ApprovalsKnown
  <2> QED BY <1>4, <2>2, CallIdle, OnlyCall, SessionsSame DEF ApproveCore, storeVars, histVars
<1>5. ASSUME NEW c \in Callers, Approve(c) PROVE AccountsStep /\ ApprovalsKnown(approval', users)
  <2> DEFINE u == approval[c].user
             row == Issued(u, "pat", FALSE, approval[c].scopes)
  <2>1. u \in Keys(users)
    BY <1>5 DEF Approve, Known, ApprovalsKnown
  <2>2. row.owner = u /\ {"owner", "revoked"} \subseteq DOMAIN row
    BY DEF Issued
  <2>3. \/ \E k \in Tokens : tokens' = InsertToken(tokens, k, row) /\ Handed(k, u)
        \/ UNCHANGED <<tokens, late>>
    BY <1>5 DEF Approve, ApproveDevicePairing
  <2>4. ApprovalsKnown(approval', users)
    BY <1>5 DEF Approve, Known, ApprovalsKnown, Idle
  <2> HIDE DEF row, u
  <2>5. TokensStep /\ SubsStep
    BY <1>5, <2>1, <2>2, <2>3, TokenInserted, TokensSame, SubsSame DEF Approve
  <2> QED BY <1>5, <2>4, <2>5, UsersSame, SessionsSame, CallSame DEF Approve, AccountsStep
<1>6. ASSUME NEW c \in Callers, Deny(c) PROVE AccountsStep /\ approval' = approval
  BY <1>6, CallIdle, OnlyCall, SessionsSame DEF Deny, storeVars, histVars
<1>7. ASSUME \E p \in Pairings : MarkFetched(p) PROVE AccountsStep /\ approval' = approval
  BY <1>7, AccountsSame DEF MarkFetched, accountVars, vars, storeVars, histVars
<1>8. CASE SweepPairings
  BY <1>8, AccountsSame, ApprovalsSame, InvitesSame
     DEF SweepPairings, accountVars, vars, storeVars, histVars, EnrolmentStep
<1> QED BY <1>1, <1>2, <1>3, <1>4, <1>5, <1>6, <1>7, <1>8, TerminalActionStep, ApprovalsSame, InvitesSame
     DEF PairingNext, EnrolmentStep

-----------------------------------------------------------------------------
(* Types.                                                                  *)

CallsTyped ==
  /\ call \in [Callers -> Call]
  /\ \A c \in Callers : call[c].pc = "touch" => tokens[call[c].token] # None

CountsTyped ==
  /\ enabled \in DOMAIN Scenarios
  /\ clock \in 0..Scenarios[enabled].time /\ opsLeft \in 0..Scenarios[enabled].ops

SessionsTyped == sessions \in [Sessions -> SessionRow \cup {None}]
TokensTyped == tokens \in [Tokens -> TokenRow \cup {None}]
SubsTyped == subs \in [Subs -> SubRow \cup {None}]

HistoryTyped ==
  /\ evicted \in [Users -> Nat] /\ verified \in [Sessions -> Nat]
  /\ overtaken \subseteq Callers \cup Sessions

UsesTyped ==
  /\ touched \in [Tokens -> Nat \cup {None}]
  /\ lastUse \in [Sessions \cup Tokens -> Nat]

LateTyped == late \subseteq Tokens \cup Subs

AccountsTyped ==
  /\ SessionsTyped /\ TokensTyped /\ SubsTyped
  /\ CallsTyped /\ CountsTyped /\ HistoryTyped /\ UsesTyped /\ LateTyped

\* What a table keeps when its rows are written.
TokensGrow(T) ==
  /\ T \in [Tokens -> TokenRow \cup {None}]
  /\ \A k \in Tokens : tokens[k] # None => T[k] # None

\* Rows stay as old as they are, and a new one has not been used.
TokensAge(T) ==
  \A k \in Tokens : T[k] # None =>
    IF tokens[k] = None THEN T[k].lastUsed = None
    ELSE T[k].created = tokens[k].created /\ T[k].lastUsed = tokens[k].lastUsed

LEMMA CallForms ==
  ASSUME NEW x \in Call
  PROVE  /\ x.pc = "authorised" => x.as \in Snapshot
         /\ x.pc \in {"stream", "owner", "touch", "revoke"} => x.token \in Tokens
         /\ x.pc \in {"login", "user", "owner", "evict", "patch"} => x.user \in Users
         /\ x.pc \in {"login", "evict"} => x.pw \in Nat
         /\ x.pc \in {"user", "slide", "drop"} => x.session \in Sessions
         /\ x.pc \in {"slide", "touch"} => x.next \in Pending
BY DEF Call, Pending, Idle

LEMMA PendingForms ==
  ASSUME NEW x \in Pending
  PROVE  x \in Call /\ x.pc \notin {"touch", "slide"}
BY DEF Call, Pending, Idle

LEMMA IdleForm == Idle \in Pending /\ Idle \in Call /\ Idle.pc = "idle"
BY DEF Call, Pending, Idle

\* A handler goes on.
LEMMA CallGoesOn ==
  ASSUME Known, AccountsTyped, NEW c \in Callers, NEW x \in Call,
         x.pc = "touch" => tokens[x.token] # None,
         call' = [call EXCEPT ![c] = x],
         tokens' = tokens \/ TokensGrow(tokens')
  PROVE  CallsTyped'
<1>1. call' \in [Callers -> Call]
  BY DEF AccountsTyped, CallsTyped
<1>2. ASSUME NEW d \in Callers, call'[d].pc = "touch" PROVE tokens'[call'[d].token] # None
  <2>1. call'[d].token \in Tokens
    BY <1>1, <1>2, CallForms
  <2>2. tokens[call'[d].token] # None
    BY <1>2 DEF AccountsTyped, CallsTyped
  <2> QED BY <2>1, <2>2 DEF TokensGrow
<1> QED BY <1>1, <1>2 DEF CallsTyped

LEMMA CallEnds ==
  ASSUME Known, AccountsTyped, NEW c \in Callers, Done(c), tokens' = tokens \/ TokensGrow(tokens')
  PROVE  CallsTyped'
BY CallGoesOn, IdleForm DEF Done, Step

LEMMA CallsKept ==
  ASSUME Known, AccountsTyped, call' = call, tokens' = tokens \/ TokensGrow(tokens')
  PROVE  CallsTyped'
<1>1. ASSUME NEW d \in Callers, call'[d].pc = "touch" PROVE tokens'[call'[d].token] # None
  <2>1. call[d].token \in Tokens
    BY <1>1, CallForms DEF AccountsTyped, CallsTyped
  <2> QED BY <1>1, <2>1 DEF AccountsTyped, CallsTyped, TokensGrow
<1> QED BY <1>1 DEF AccountsTyped, CallsTyped

LEMMA CountsKept ==
  ASSUME AccountsTyped, UNCHANGED <<enabled, clock>>,
         \/ opsLeft' = opsLeft
         \/ opsLeft > 0 /\ opsLeft' = opsLeft - 1
  PROVE  CountsTyped'
<1>1. Scenarios[enabled].ops \in Nat
  BY AccountsAssumption DEF AccountsTyped, CountsTyped
<1> QED BY <1>1 DEF AccountsTyped, CountsTyped

\* Rows.
LEMMA TokenColumn ==
  ASSUME Known, AccountsTyped, NEW k, NEW column \in {"owner", "revoked", "lastUsed"}, NEW value,
         column = "owner" => value \in Users \cup {None},
         column = "revoked" => value \in BOOLEAN,
         column = "lastUsed" => value \in Nat
  PROVE  TokensGrow(Update(tokens, k, column, value))
<1> DEFINE T == Update(tokens, k, column, value)
<1>1. ASSUME NEW n \in Tokens, tokens[n] # None
      PROVE  /\ [tokens[n] EXCEPT ![column] = value] \in TokenRow
  <2>1. tokens[n] \in TokenRow
    BY <1>1 DEF AccountsTyped, TokensTyped
  <2> QED BY <2>1 DEF TokenRow
<1>2. ASSUME NEW n \in Tokens
      PROVE  T[n] \in TokenRow \cup {None} /\ (tokens[n] # None => T[n] # None)
  <2>1. CASE n = k /\ tokens[n] # None
    BY <1>1, <2>1, AccountsAssumption DEF AccountsTyped, TokensTyped, Update
  <2>2. CASE ~(n = k /\ tokens[n] # None)
    BY <2>2 DEF AccountsTyped, TokensTyped, Update
  <2> QED BY <2>1, <2>2
<1>3. DOMAIN T = Tokens /\ T = [n \in Tokens |-> T[n]]
  BY DEF AccountsTyped, TokensTyped, Update
<1> QED BY <1>2, <1>3 DEF TokensGrow

LEMMA TokenInsertion ==
  ASSUME Known, AccountsTyped, NEW k, NEW row \in TokenRow
  PROVE  TokensGrow(InsertToken(tokens, k, row))
BY AccountsAssumption DEF AccountsTyped, TokensTyped, TokensGrow, InsertToken

LEMMA IssuedRow ==
  ASSUME AccountsTyped, NEW u \in Users \cup {None}, NEW kind \in {"pat", "listener"},
         NEW ephemeral \in BOOLEAN, NEW scopes \in SUBSET Scopes
  PROVE  Issued(u, kind, ephemeral, scopes) \in TokenRow
<1>1. clock \in Nat
  BY DEF AccountsTyped, CountsTyped
<1> QED BY <1>1 DEF Issued, TokenRow

LEMMA TokensRevoked ==
  ASSUME Known, AccountsTyped, NEW u
  PROVE  TokensGrow(RevokeTokensByOwner(tokens, u))
<1>1. ASSUME NEW n \in Tokens, tokens[n] # None
      PROVE  [tokens[n] EXCEPT !.revoked = TRUE] \in TokenRow
  <2>1. tokens[n] \in TokenRow
    BY <1>1 DEF AccountsTyped, TokensTyped
  <2> QED BY <2>1 DEF TokenRow
<1> QED BY <1>1, AccountsAssumption DEF AccountsTyped, TokensTyped, TokensGrow, RevokeTokensByOwner

LEMMA TokensExpired ==
  ASSUME Known, AccountsTyped, NEW cutoff
  PROVE  TokensGrow(ExpireEphemeralTokensIdle(tokens, cutoff))
<1>1. ASSUME NEW n \in Tokens, tokens[n] # None
      PROVE  [tokens[n] EXCEPT !.revoked = TRUE] \in TokenRow
  <2>1. tokens[n] \in TokenRow
    BY <1>1 DEF AccountsTyped, TokensTyped
  <2> QED BY <2>1 DEF TokenRow
<1> QED BY <1>1, AccountsAssumption DEF AccountsTyped, TokensTyped, TokensGrow, ExpireEphemeralTokensIdle

LEMMA AgeColumn ==
  ASSUME Known, AccountsTyped, NEW k, NEW column \in {"owner", "revoked"}, NEW value
  PROVE  TokensAge(Update(tokens, k, column, value))
<1>1. ASSUME NEW n \in Tokens, tokens[n] # None
      PROVE  LET row == [tokens[n] EXCEPT ![column] = value] IN
             row.created = tokens[n].created /\ row.lastUsed = tokens[n].lastUsed
  <2>1. tokens[n] \in TokenRow
    BY <1>1 DEF AccountsTyped, TokensTyped
  <2> QED BY <2>1 DEF TokenRow
<1> QED BY <1>1 DEF AccountsTyped, TokensTyped, Update, TokensAge

LEMMA AgeInsertion ==
  ASSUME AccountsTyped, NEW k, tokens[k] = None, NEW row, row.lastUsed = None
  PROVE  TokensAge(InsertToken(tokens, k, row))
BY DEF AccountsTyped, TokensTyped, InsertToken, TokensAge

LEMMA AgeEnded ==
  ASSUME AccountsTyped
  PROVE  /\ \A u : TokensAge(RevokeTokensByOwner(tokens, u))
         /\ \A cutoff : TokensAge(ExpireEphemeralTokensIdle(tokens, cutoff))
<1>1. ASSUME NEW n \in Tokens, tokens[n] # None
      PROVE  LET row == [tokens[n] EXCEPT !.revoked = TRUE] IN
             row.created = tokens[n].created /\ row.lastUsed = tokens[n].lastUsed
  <2>1. tokens[n] \in TokenRow
    BY <1>1 DEF AccountsTyped, TokensTyped
  <2> QED BY <2>1 DEF TokenRow
<1>2. \A u : TokensAge(RevokeTokensByOwner(tokens, u))
  BY <1>1 DEF AccountsTyped, TokensTyped, RevokeTokensByOwner, TokensAge
<1>3. \A cutoff : TokensAge(ExpireEphemeralTokensIdle(tokens, cutoff))
  BY <1>1 DEF AccountsTyped, TokensTyped, ExpireEphemeralTokensIdle, TokensAge
<1> QED BY <1>2, <1>3

SubsKept(S) == S \in [Subs -> SubRow \cup {None}]

LEMMA SubColumn ==
  ASSUME Known, AccountsTyped, NEW s, NEW column \in {"owner", "paused"}, NEW value,
         column = "owner" => value \in Users \cup {None},
         column = "paused" => value \in BOOLEAN
  PROVE  SubsKept(Update(subs, s, column, value))
<1>1. ASSUME NEW n \in Subs, subs[n] # None
      PROVE  [subs[n] EXCEPT ![column] = value] \in SubRow
  <2>1. subs[n] \in SubRow
    BY <1>1 DEF AccountsTyped, SubsTyped
  <2> QED BY <2>1 DEF SubRow
<1> QED BY <1>1 DEF AccountsTyped, SubsTyped, Update, SubsKept

LEMMA SubInsertion ==
  ASSUME Known, AccountsTyped, NEW s, NEW u \in Users \cup {None}
  PROVE  SubsKept(InsertPush(subs, s, [owner |-> u, paused |-> FALSE]))
BY DEF AccountsTyped, SubsTyped, InsertPush, SubsKept, SubRow

LEMMA SubDeletion ==
  ASSUME Known, AccountsTyped, NEW s
  PROVE  SubsKept(DeletePush(subs, s))
BY DEF AccountsTyped, SubsTyped, DeletePush, SubsKept

LEMMA SubsPausing ==
  ASSUME Known, AccountsTyped, NEW u
  PROVE  SubsKept(PausePushByOwner(subs, u))
<1>1. ASSUME NEW n \in Subs, subs[n] # None
      PROVE  [subs[n] EXCEPT !.paused = TRUE] \in SubRow
  <2>1. subs[n] \in SubRow
    BY <1>1 DEF AccountsTyped, SubsTyped
  <2> QED BY <2>1 DEF SubRow
<1> QED BY <1>1 DEF AccountsTyped, SubsTyped, PausePushByOwner, SubsKept

LEMMA HandedTyped ==
  ASSUME AccountsTyped, NEW x \in Tokens \cup Subs, NEW u, Handed(x, u)
  PROVE  LateTyped'
BY DEF AccountsTyped, LateTyped, Handed

-----------------------------------------------------------------------------
(* The outcomes of commands.                                               *)

\* What an endpoint may leave behind, whatever the status.
OutcomeKnown(o) ==
  /\ TokensKnown(o.tokens, users)
  /\ \A n \in Tokens : o.tokens[n] # None =>
       \/ /\ tokens[n] # None
          /\ o.tokens[n].owner = tokens[n].owner
          /\ tokens[n].revoked => o.tokens[n].revoked
       \/ o.tokens[n].owner = None
       \/ users[o.tokens[n].owner].active
  /\ SubsKnown(o.subs)
  /\ \A s \in Subs : o.subs[s] # None =>
       IF subs[s] = None THEN ~o.subs[s].paused ELSE o.subs[s].owner = subs[s].owner
  /\ AccountsTyped => TokensGrow(o.tokens) /\ TokensAge(o.tokens) /\ SubsKept(o.subs)

OutcomesKnown(R) == \A o \in R : OutcomeKnown(o)

LEMMA RowsKept ==
  ASSUME AccountsTyped
  PROVE  TokensGrow(tokens) /\ TokensAge(tokens) /\ SubsKept(subs)
BY DEF AccountsTyped, TokensTyped, SubsTyped, TokensGrow, TokensAge, SubsKept

LEMMA ReplyKnown ==
  ASSUME Known, NEW status
  PROVE  OutcomeKnown(Reply(status))
BY RowsKept DEF Known, OutcomeKnown, TokensKnown, SubsKnown, Reply

LEMMA FailsKnown ==
  ASSUME Known
  PROVE  OutcomesKnown(Fails)
BY ReplyKnown DEF OutcomesKnown, Fails

LEMMA RevokedKnown ==
  ASSUME Known, NEW n
  PROVE  OutcomeKnown([Reply(204) EXCEPT !.tokens = RevokeToken(tokens, n)])
<1> DEFINE o == [Reply(204) EXCEPT !.tokens = RevokeToken(tokens, n)]
<1>1. o.tokens = RevokeToken(tokens, n) /\ o.subs = subs
  BY DEF Reply
<1>2. AccountsTyped => /\ TokensGrow(RevokeToken(tokens, n)) /\ TokensAge(RevokeToken(tokens, n))
                       /\ SubsKept(subs)
  BY TokenColumn, AgeColumn, RowsKept DEF RevokeToken
<1> HIDE DEF o
<1>3. OutcomeKnown(o)
  BY <1>1, <1>2 DEF Known, OutcomeKnown, TokensKnown, SubsKnown, RevokeToken, Update
<1> QED BY <1>3 DEF o

LEMMA WithTokenKnown ==
  ASSUME Known, NEW n \in Fresh(tokens), NEW row, {"owner", "revoked"} \subseteq DOMAIN row,
         row.owner = None \/ (row.owner \in Keys(users) /\ users[row.owner].active),
         row.lastUsed = None, AccountsTyped => row \in TokenRow
  PROVE  OutcomeKnown(WithToken(n, row))
<1> DEFINE o == WithToken(n, row)
<1>1. o.tokens = InsertToken(tokens, n, row) /\ o.subs = subs
  BY DEF WithToken, Reply
<1>2. AccountsTyped => /\ TokensGrow(InsertToken(tokens, n, row))
                       /\ TokensAge(InsertToken(tokens, n, row)) /\ SubsKept(subs)
  BY TokenInsertion, AgeInsertion, RowsKept DEF Fresh
<1> HIDE DEF o
<1>3. OutcomeKnown(o)
  BY <1>1, <1>2 DEF Known, OutcomeKnown, TokensKnown, SubsKnown, InsertToken
<1> QED BY <1>3 DEF o

LEMMA WithSubKnown ==
  ASSUME Known, NEW s \in Fresh(subs), NEW u, AccountsTyped => u \in Users \cup {None}
  PROVE  OutcomeKnown(WithSub(s, [owner |-> u, paused |-> FALSE]))
<1> DEFINE row == [owner |-> u, paused |-> FALSE]
           o == WithSub(s, row)
<1>1. o.tokens = tokens /\ o.subs = InsertPush(subs, s, row)
  BY DEF WithSub, Reply
<1>2. AccountsTyped => TokensGrow(tokens) /\ TokensAge(tokens) /\ SubsKept(InsertPush(subs, s, row))
  BY SubInsertion, RowsKept
<1> HIDE DEF o
<1>3. OutcomeKnown(o)
  BY <1>1, <1>2 DEF Known, OutcomeKnown, TokensKnown, SubsKnown, InsertPush, Fresh
<1> QED BY <1>3 DEF o

LEMMA WithSubsKnown ==
  ASSUME Known, NEW s, NEW status, NEW S \in {PausePush(subs, s), ResumePush(subs, s), DeletePush(subs, s)}
  PROVE  OutcomeKnown(WithSubs(status, S))
<1>1. SubsKnown(S) /\ \A x \in Subs : S[x] # None => subs[x] # None /\ S[x].owner = subs[x].owner
  <2>1. CASE S = PausePush(subs, s)
    BY <2>1 DEF Known, SubsKnown, PausePush, Update
  <2>2. CASE S = ResumePush(subs, s)
    BY <2>2 DEF Known, SubsKnown, ResumePush, Update
  <2>3. CASE S = DeletePush(subs, s)
    BY <2>3 DEF Known, SubsKnown, DeletePush
  <2> QED BY <2>1, <2>2, <2>3
<1>2. AccountsTyped => TokensGrow(tokens) /\ TokensAge(tokens) /\ SubsKept(S)
  BY SubColumn, SubDeletion, RowsKept DEF PausePush, ResumePush
<1> HIDE DEF PausePush, ResumePush, DeletePush
<1> QED BY <1>1, <1>2 DEF Known, OutcomeKnown, TokensKnown, Reply, WithSubs

LEMMA PersonalKnown ==
  ASSUME Known, NEW k, NEW R,
         Accepted(k) => OutcomesKnown(R)
  PROVE  OutcomesKnown(AsPersonal(k, R))
BY ReplyKnown DEF AsPersonal, OutcomesKnown

LEMMA AdminKnown ==
  ASSUME Known, NEW k, NEW R, OutcomesKnown(R)
  PROVE  OutcomesKnown(AsAdmin(k, R))
BY ReplyKnown DEF AsAdmin, OutcomesKnown

LEMMA EndpointsKnown ==
  ASSUME Known, NEW k
  PROVE  /\ OutcomesKnown(GetMe(k)) /\ OutcomesKnown(GetMeTokens(k)) /\ OutcomesKnown(PostMeTokens(k))
         /\ \A n : OutcomesKnown(PostMeTokenRevoke(k, n))
         /\ OutcomesKnown(GetMeSubs(k)) /\ OutcomesKnown(PostMeSubs(k))
         /\ \A s : /\ OutcomesKnown(GetMeSub(k, s)) /\ OutcomesKnown(PauseMeSub(k, s))
                   /\ OutcomesKnown(ResumeMeSub(k, s)) /\ OutcomesKnown(RotateMeSub(k, s))
                   /\ OutcomesKnown(TestMeSub(k, s)) /\ OutcomesKnown(DeleteMeSub(k, s))
<1>1. OutcomesKnown(GetMe(k)) /\ OutcomesKnown(GetMeTokens(k)) /\ OutcomesKnown(GetMeSubs(k))
  BY ReplyKnown, PersonalKnown DEF GetMe, GetMeTokens, GetMeSubs, OutcomesKnown
<1>2. OutcomesKnown(PostMeTokens(k))
  <2> DEFINE row(kind) == Issued(tokens[k].owner, kind, FALSE, Held(tokens[k].owner))
             R == Fails \cup
               IF Held(tokens[k].owner) = {} THEN {Reply(403)}
               ELSE {WithToken(n, row(kind)) : n \in Fresh(tokens), kind \in {"pat", "listener"}}
  <2>1. ASSUME NEW kind
        PROVE  /\ row(kind).owner = tokens[k].owner /\ row(kind).lastUsed = None
               /\ {"owner", "revoked"} \subseteq DOMAIN row(kind)
    BY DEF Issued
  <2>2. ASSUME Accepted(k)
        PROVE  /\ tokens[k].owner \in Keys(users) /\ users[tokens[k].owner].active
               /\ tokens[k].owner \in Users /\ Held(tokens[k].owner) \subseteq Scopes
    BY <2>2 DEF Accepted, ListActiveTokens, IsActive, Known, TokensKnown, Keys, Held, UserRow
  <2>5. ASSUME Accepted(k), AccountsTyped, NEW kind \in {"pat", "listener"}
        PROVE  row(kind) \in TokenRow
    BY <2>2, <2>5, IssuedRow
  <2> HIDE DEF row
  <2>3. Accepted(k) => OutcomesKnown(R)
    BY <2>1, <2>2, <2>5, WithTokenKnown, FailsKnown, ReplyKnown DEF OutcomesKnown
  <2>4. PostMeTokens(k) = AsPersonal(k, R)
    BY DEF PostMeTokens, row
  <2> QED BY <2>3, <2>4, PersonalKnown
<1>3. ASSUME NEW n PROVE OutcomesKnown(PostMeTokenRevoke(k, n))
  <2>1. OutcomesKnown(OwnToken(k, n, {Reply(500), [Reply(204) EXCEPT !.tokens = RevokeToken(tokens, n)]}))
    BY ReplyKnown, RevokedKnown DEF OwnToken, OutcomesKnown
  <2> QED BY <2>1, PersonalKnown DEF PostMeTokenRevoke
<1>4. OutcomesKnown(PostMeSubs(k))
  <2> DEFINE R == Fails \cup
               IF Held(tokens[k].owner) \ {"admin"} = {} THEN {Reply(403)}
               ELSE {WithSub(s, [owner |-> tokens[k].owner, paused |-> FALSE]) : s \in Fresh(subs)}
  <2>1. ASSUME Accepted(k) PROVE tokens[k].owner \in Users
    BY <2>1 DEF Accepted, IsActive, ListActiveTokens, Known, TokensKnown, Keys
  <2>2. Accepted(k) => OutcomesKnown(R)
    BY <2>1, WithSubKnown, ReplyKnown DEF OutcomesKnown, Fails
  <2> QED BY <2>2, PersonalKnown DEF PostMeSubs
<1>5. ASSUME NEW s, NEW R, OutcomesKnown(R) PROVE OutcomesKnown(AsPersonal(k, OwnSub(k, s, R)))
  <2>1. OutcomesKnown(OwnSub(k, s, R))
    BY <1>5, ReplyKnown DEF OwnSub, OutcomesKnown
  <2> QED BY <2>1, PersonalKnown
<1>6. ASSUME NEW s
      PROVE  /\ OutcomesKnown(GetMeSub(k, s)) /\ OutcomesKnown(PauseMeSub(k, s))
             /\ OutcomesKnown(ResumeMeSub(k, s)) /\ OutcomesKnown(RotateMeSub(k, s))
             /\ OutcomesKnown(TestMeSub(k, s)) /\ OutcomesKnown(DeleteMeSub(k, s))
  <2>1. OutcomesKnown({Reply(200)}) /\ OutcomesKnown({Reply(500), Reply(200)}) /\ OutcomesKnown({Reply(502), Reply(204)})
    BY ReplyKnown DEF OutcomesKnown
  <2>2. /\ OutcomesKnown({Reply(500), WithSubs(204, PausePush(subs, s))})
        /\ OutcomesKnown({Reply(500), WithSubs(500, ResumePush(subs, s)), WithSubs(204, ResumePush(subs, s))})
        /\ OutcomesKnown({Reply(500), WithSubs(204, DeletePush(subs, s))})
    BY ReplyKnown, WithSubsKnown DEF OutcomesKnown
  <2> QED BY <1>5, <2>1, <2>2 DEF GetMeSub, PauseMeSub, ResumeMeSub, RotateMeSub, TestMeSub, DeleteMeSub
<1> QED BY <1>1, <1>2, <1>3, <1>4, <1>6

LEMMA AdminEndpointsKnown ==
  ASSUME Known, NEW k
  PROVE  /\ OutcomesKnown(GetTokens(k)) /\ OutcomesKnown(PostTokens(k)) /\ OutcomesKnown(GetPushes(k))
         /\ OutcomesKnown(PostPushes(k)) /\ OutcomesKnown(AsInviteAdmin(k))
         /\ \A n : OutcomesKnown(PostTokenRevoke(k, n))
         /\ \A s : /\ OutcomesKnown(GetPush(k, s)) /\ OutcomesKnown(PausePushSub(k, s))
                   /\ OutcomesKnown(ResumePushSub(k, s)) /\ OutcomesKnown(RotatePushSub(k, s))
                   /\ OutcomesKnown(TestPushSub(k, s)) /\ OutcomesKnown(DeletePushSub(k, s))
<1>1. OutcomesKnown(GetTokens(k)) /\ OutcomesKnown(GetPushes(k)) /\ OutcomesKnown(AsInviteAdmin(k))
  BY ReplyKnown, AdminKnown DEF GetTokens, GetPushes, AsInviteAdmin, OutcomesKnown
<1>2. OutcomesKnown(PostTokens(k))
  <2> DEFINE unowned == Issued(None, "listener", FALSE, Scopes)
             R == Fails \cup {WithToken(n, unowned) : n \in Fresh(tokens)}
  <2>1. /\ unowned.owner = None /\ unowned.lastUsed = None /\ {"owner", "revoked"} \subseteq DOMAIN unowned
        /\ AccountsTyped => unowned \in TokenRow
    BY IssuedRow DEF Issued
  <2> HIDE DEF unowned
  <2>2. ASSUME NEW n \in Fresh(tokens) PROVE OutcomeKnown(WithToken(n, unowned))
    BY <2>1, WithTokenKnown
  <2>3. OutcomesKnown(R)
    BY <2>2, FailsKnown DEF OutcomesKnown
  <2>4. PostTokens(k) = AsAdmin(k, R)
    BY DEF PostTokens, unowned
  <2> QED BY <2>3, <2>4, AdminKnown
<1>3. OutcomesKnown(PostPushes(k))
  <2>1. OutcomesKnown(Fails \cup {WithSub(s, [owner |-> None, paused |-> FALSE]) : s \in Fresh(subs)})
    BY WithSubKnown, ReplyKnown DEF OutcomesKnown, Fails
  <2> QED BY <2>1, AdminKnown DEF PostPushes
<1>4. ASSUME NEW row, NEW R, OutcomesKnown(R) PROVE OutcomesKnown(AsAdmin(k, Existing(row, R)))
  <2>1. OutcomesKnown(Existing(row, R))
    BY <1>4, ReplyKnown DEF Existing, OutcomesKnown
  <2> QED BY <2>1, AdminKnown
<1>5. ASSUME NEW n PROVE OutcomesKnown(PostTokenRevoke(k, n))
  <2>1. OutcomesKnown({Reply(500), [Reply(204) EXCEPT !.tokens = RevokeToken(tokens, n)]})
    BY ReplyKnown, RevokedKnown DEF OutcomesKnown
  <2> QED BY <1>4, <2>1 DEF PostTokenRevoke
<1>6. ASSUME NEW s
      PROVE  /\ OutcomesKnown(GetPush(k, s)) /\ OutcomesKnown(PausePushSub(k, s))
             /\ OutcomesKnown(ResumePushSub(k, s)) /\ OutcomesKnown(RotatePushSub(k, s))
             /\ OutcomesKnown(TestPushSub(k, s)) /\ OutcomesKnown(DeletePushSub(k, s))
  <2>1. OutcomesKnown({Reply(200), Reply(500)}) /\ OutcomesKnown({Reply(500), Reply(200)})
    BY ReplyKnown DEF OutcomesKnown
  <2>2. OutcomesKnown(TestPushSub(k, s))
    <3>1. OutcomesKnown({Reply(502)} \cup IF subs[s] = None THEN {} ELSE {Reply(204)})
      BY ReplyKnown DEF OutcomesKnown
    <3> QED BY <3>1, AdminKnown DEF TestPushSub
  <2>3. /\ OutcomesKnown({Reply(500), WithSubs(204, PausePush(subs, s))})
        /\ OutcomesKnown({Reply(500), WithSubs(500, ResumePush(subs, s)), WithSubs(204, ResumePush(subs, s))})
        /\ OutcomesKnown({Reply(500), WithSubs(204, DeletePush(subs, s))})
    BY ReplyKnown, WithSubsKnown DEF OutcomesKnown
  <2> QED BY <1>4, <2>1, <2>2, <2>3 DEF GetPush, PausePushSub, ResumePushSub, RotatePushSub, DeletePushSub
<1> QED BY <1>1, <1>2, <1>3, <1>5, <1>6

LEMMA CommandStep ==
  ASSUME Known, NEW l, NEW name, NEW k, NEW R, NEW expected, NEW goal, OutcomesKnown(R),
         Command(l, name, k, R, expected, goal)
  PROVE  /\ AccountsStep /\ approval' = approval
         /\ AccountsTyped => AccountsTyped' /\ TokensGrow(tokens') /\ TokensAge(tokens')
<1>1. PICK o \in R \cup {Reply(0)} : tokens' = o.tokens /\ subs' = o.subs /\ HandedTo(o.subs)
  BY DEF Command
<1>2. OutcomeKnown(o)
  BY ReplyKnown DEF OutcomesKnown
<1>3. users' = users /\ late \subseteq late'
  BY <1>1 DEF Command, HandedTo
<1>4. TokensStep
  BY <1>1, <1>2, <1>3 DEF OutcomeKnown, TokensStep, TokenStays, TokenGiven
<1>5. ASSUME NEW s \in Subs, subs'[s] # None PROVE SubStays(s) \/ SubGiven(s)
  <2>1. CASE subs[s] # None /\ (subs[s].paused => subs'[s].paused)
    BY <1>1, <1>2, <1>3, <1>5, <2>1 DEF OutcomeKnown, SubStays
  <2>2. CASE subs'[s].owner = None \/ users[subs'[s].owner].active
    BY <1>3, <2>2 DEF SubGiven
  <2>3. CASE /\ subs'[s].owner # None /\ ~users[subs'[s].owner].active
             /\ subs[s] = None \/ (subs[s].paused /\ ~subs'[s].paused)
    BY <1>1, <1>2, <1>5, <2>3 DEF OutcomeKnown, HandedTo, SubGiven, Keys, SubsKnown
  <2> QED BY <2>1, <2>2, <2>3
<1>6. SubsStep
  BY <1>1, <1>2, <1>5 DEF OutcomeKnown, SubsStep
<1>7. ASSUME AccountsTyped PROVE AccountsTyped' /\ TokensGrow(tokens') /\ TokensAge(tokens')
  <2>1. TokensGrow(tokens') /\ TokensAge(tokens') /\ SubsKept(subs')
    BY <1>1, <1>2, <1>7 DEF OutcomeKnown
  <2>2. CallsTyped' /\ CountsTyped'
    BY <1>7, <2>1, CallsKept, CountsKept DEF Command, Run
  <2>3. LateTyped'
    BY <1>1, <1>7, <2>1 DEF HandedTo, Keys, SubsKept, AccountsTyped, LateTyped
  <2> QED BY <1>7, <2>1, <2>2, <2>3 DEF Command, AccountsTyped, SessionsTyped, TokensTyped, TokensGrow,
           SubsTyped, SubsKept, HistoryTyped, UsesTyped
<1> QED BY <1>3, <1>4, <1>6, <1>7, UsersSame, SessionsSame, CallSame DEF Command, pairingVars, AccountsStep

LEMMA HooksctlNextStep ==
  ASSUME Known, HooksctlNext, UNCHANGED <<invites, signup>>
  PROVE  EnrolmentStep /\ (AccountsTyped => AccountsTyped' /\ TokensGrow(tokens') /\ TokensAge(tokens'))
<1>1. PICK l \in Terminals : \E k \in Presented(l) :
        Whoami(l, k) \/ CmdMe(l, k) \/ CmdToken(l, k) \/ CmdPush(l, k) \/ CmdInvite(l, k)
  BY DEF HooksctlNext
<1>7. PICK k \in Presented(l) :
        Whoami(l, k) \/ CmdMe(l, k) \/ CmdToken(l, k) \/ CmdPush(l, k) \/ CmdInvite(l, k)
  BY <1>1
<1>2. CASE Whoami(l, k)
  BY <1>2, EndpointsKnown, CommandStep, ApprovalsSame, InvitesSame DEF Whoami, Query, EnrolmentStep
<1>3. CASE CmdMe(l, k)
  <2>1. /\ AccountsStep /\ approval' = approval
        /\ AccountsTyped => AccountsTyped' /\ TokensGrow(tokens') /\ TokensAge(tokens')
    BY <1>3, EndpointsKnown, CommandStep
       DEF CmdMe, MeTokenAdd, MeTokenList, MeTokenRevoke, MeSubAdd, MeSubList, MeSubGet, MeSubAction,
           MeSubRotate, MeSubDelete, Query
  <2> QED BY <2>1, ApprovalsSame, InvitesSame DEF EnrolmentStep
<1>4. CASE CmdToken(l, k)
  BY <1>4, AdminEndpointsKnown, CommandStep, ApprovalsSame, InvitesSame
     DEF CmdToken, TokenAdd, TokenList, TokenRevoke, Query, EnrolmentStep
<1>5. CASE CmdPush(l, k)
  <2>1. /\ AccountsStep /\ approval' = approval
        /\ AccountsTyped => AccountsTyped' /\ TokensGrow(tokens') /\ TokensAge(tokens')
    BY <1>5, AdminEndpointsKnown, CommandStep
       DEF CmdPush, PushAdd, PushList, PushSimpleGet, PushAction, PushRotate, PushDelete, PushTest, Query
  <2> QED BY <2>1, ApprovalsSame, InvitesSame DEF EnrolmentStep
<1>6. CASE CmdInvite(l, k)
  BY <1>6, AdminEndpointsKnown, CommandStep, ApprovalsSame, InvitesSame
     DEF CmdInvite, InviteCreate, InviteList, InviteRevoke, Query, EnrolmentStep
<1> QED BY <1>7, <1>2, <1>3, <1>4, <1>5, <1>6

\* A command of hooksctl writes tokens and subscriptions only.
LEMMA CommandQuiet ==
  ASSUME NEW l, NEW name, NEW k, NEW R, NEW expected, NEW goal,
         Command(l, name, k, R, expected, goal)
  PROVE  UNCHANGED <<users, sessions, touched, call, clock, evicted, verified, overtaken,
                     lastUse, pairingVars>>
BY DEF Command

LEMMA HooksctlQuiet ==
  ASSUME HooksctlNext
  PROVE  UNCHANGED <<users, sessions, touched, call, clock, evicted, verified, overtaken,
                     lastUse, pairingVars>>
<1>1. PICK l \in Terminals : \E k \in Presented(l) :
        Whoami(l, k) \/ CmdMe(l, k) \/ CmdToken(l, k) \/ CmdPush(l, k) \/ CmdInvite(l, k)
  BY DEF HooksctlNext
<1>2. PICK k \in Presented(l) :
        Whoami(l, k) \/ CmdMe(l, k) \/ CmdToken(l, k) \/ CmdPush(l, k) \/ CmdInvite(l, k)
  BY <1>1
<1>3. CASE Whoami(l, k)
  BY <1>3, CommandQuiet DEF Whoami, Query
<1>4. CASE CmdMe(l, k)
  BY <1>4, CommandQuiet DEF CmdMe, MeTokenAdd, MeTokenList, MeTokenRevoke, MeSubAdd, MeSubList,
     MeSubGet, MeSubAction, MeSubRotate, MeSubDelete, Query
<1>5. CASE CmdToken(l, k)
  BY <1>5, CommandQuiet DEF CmdToken, TokenAdd, TokenList, TokenRevoke, Query
<1>6. CASE CmdPush(l, k)
  BY <1>6, CommandQuiet DEF CmdPush, PushAdd, PushList, PushSimpleGet, PushAction, PushRotate,
     PushDelete, PushTest, Query
<1>7. CASE CmdInvite(l, k)
  BY <1>7, CommandQuiet DEF CmdInvite, InviteCreate, InviteList, InviteRevoke, Query
<1> QED BY <1>2, <1>3, <1>4, <1>5, <1>6, <1>7

-----------------------------------------------------------------------------
(* The invariant.                                                          *)

LEMMA EnrolmentNextStep ==
  ASSUME Known, [EnrolmentNext]_enrolmentVars
  PROVE  EnrolmentStep
<1>1. CASE Serve /\ UNCHANGED <<inviteVars, pairingVars, finished, limitVars>>
  BY <1>1, ServeStep, InvitesSame, ApprovalsSame DEF inviteVars, pairingVars, EnrolmentStep
<1>2. CASE InvitesNext /\ UNCHANGED <<pairingVars, finished, limitVars>>
  BY <1>2, InvitesNextStep DEF pairingVars
<1>3. CASE PairingNext /\ UNCHANGED <<inviteVars, finished, limitVars>>
  BY <1>3, PairingNextStep DEF inviteVars
<1>4. CASE HooksctlNext /\ UNCHANGED <<inviteVars, limitVars>>
  BY <1>4, HooksctlNextStep DEF inviteVars
<1>5. CASE UNCHANGED <<vars, inviteVars, pairingVars>>
  BY <1>5, AccountsSame, InvitesSame, ApprovalsSame
     DEF vars, storeVars, histVars, inviteVars, pairingVars, EnrolmentStep
<1>6. CASE ServerRestart
  <2>1. AccountsStep
    BY <1>6, RestartStep DEF ServerRestart
  <2>2. InvitesKnown(invites') /\ SignupsKnown(signup')
    BY <1>6 DEF ServerRestart, InvitesRestart, SignupsKnown, Idle, Known
  <2>3. ApprovalsKnown(approval', users)
    BY <1>6 DEF ServerRestart, PairingRestart, ApprovalsKnown, Idle
  <2> QED BY <2>1, <2>2, <2>3 DEF EnrolmentStep
<1> QED BY <1>1, <1>2, <1>3, <1>4, <1>5, <1>6 DEF EnrolmentNext, enrolmentVars

LEMMA UsersGrow ==
  ASSUME Known, UsersStep
  PROVE  users' \in [Users -> UserRow \cup {None}] /\ Keys(users) \subseteq Keys(users')
<1>1. CASE users' = users
  BY <1>1 DEF Known
<1>2. ASSUME NEW u \in Users, DeactivateUserCascade(u)
      PROVE  users' \in [Users -> UserRow \cup {None}] /\ Keys(users) \subseteq Keys(users')
  <2>1. users[u] \in UserRow /\ users' = [users EXCEPT ![u] = [users[u] EXCEPT !["active"] = FALSE]]
    BY <1>2 DEF DeactivateUserCascade, DeactivateUser, Update, IsActive, Known
  <2>2. [users[u] EXCEPT !["active"] = FALSE] \in UserRow
    BY <2>1 DEF UserRow
  <2> QED BY <2>1, <2>2, AccountsAssumption DEF Known, Keys
<1>3. ASSUME NEW u \in Users, NEW row \in UserRow, Amend(u, row)
      PROVE  users' \in [Users -> UserRow \cup {None}] /\ Keys(users) \subseteq Keys(users')
  BY <1>3, AccountsAssumption DEF Amend, Known, Keys
<1> QED BY <1>1, <1>2, <1>3 DEF UsersStep

LEMMA KnownStep ==
  ASSUME Known, EnrolmentStep
  PROVE  Known'
<1>1. users' \in [Users -> UserRow \cup {None}] /\ Keys(users) \subseteq Keys(users')
  BY UsersGrow DEF EnrolmentStep, AccountsStep
<1>2. SessionsKnown(sessions', users')
  BY <1>1 DEF EnrolmentStep, AccountsStep, SessionsKnown
<1>3. TokensKnown(tokens', users')
  BY <1>1 DEF EnrolmentStep, AccountsStep, TokensStep, TokensKnown
<1>4. CallsKnown(call', users')
  BY <1>1 DEF EnrolmentStep, AccountsStep, CallsKnown, CallKnown, NextKnown
<1>5. ApprovalsKnown(approval', users')
  BY <1>1 DEF EnrolmentStep, ApprovalsKnown
<1> QED BY <1>1, <1>2, <1>3, <1>4, <1>5 DEF EnrolmentStep, AccountsStep, SubsStep, Known

LEMMA InitKnown ==
  ASSUME EnrolmentInit
  PROVE  Known
<1>1. users \in [Users -> UserRow \cup {None}]
  BY AccountsAssumption DEF EnrolmentInit, Init, AtStart
<1>2. SessionsKnown(sessions, users)
  BY AccountsAssumption, InitialRowsAssumption DEF EnrolmentInit, Init, AtStart, SessionsKnown, Keys
<1>3. TokensKnown(tokens, users)
  BY AccountsAssumption, InitialRowsAssumption
     DEF EnrolmentInit, Init, AtStart, TokensKnown, TokenRow, Keys
<1>4. SubsKnown(subs)
  BY AccountsAssumption DEF EnrolmentInit, Init, AtStart, SubsKnown, SubRow
<1>5. CallsKnown(call, users)
  BY DEF EnrolmentInit, Init, CallsKnown, CallKnown, NextKnown, Idle
<1>6. InvitesKnown(invites) /\ SignupsKnown(signup)
  BY DEF EnrolmentInit, InvitesInit, InvitesKnown, SignupsKnown, Idle
<1>7. ApprovalsKnown(approval, users)
  BY DEF EnrolmentInit, PairingInit, ApprovalsKnown, Idle
<1> QED BY <1>1, <1>2, <1>3, <1>4, <1>5, <1>6, <1>7 DEF Known

\* Rows and handlers under way name users that exist: no user is deleted, and
\* every row is inserted for a user that has just been read.
THEOREM EnrolmentInvariance == EnrolmentSpec => []Known
<1>1. EnrolmentInit => Known
  BY InitKnown
<1>2. Known /\ [EnrolmentNext]_enrolmentVars => Known'
  BY EnrolmentNextStep, KnownStep
<1> QED BY <1>1, <1>2, PTL DEF EnrolmentSpec

-----------------------------------------------------------------------------
(* What the invariant is for.                                              *)

\* The last active administrator stays one, whatever is under way: the count and
\* the update of a deactivation are one transaction, and nothing else demotes.
THEOREM AdminStays == EnrolmentSpec => AdminRemains
<1>1. ASSUME Known, UsersStep, ActiveAdmins(users) # {} PROVE ActiveAdmins(users') # {}
  <2>1. CASE users' = users
    BY <1>1, <2>1
  <2>2. ASSUME NEW u \in Users, DeactivateUserCascade(u) PROVE ActiveAdmins(users') # {}
    <3>1. PICK v \in ActiveAdmins(users) : v # u
      <4>1. CASE users[u].role = "admin"
        BY <2>2, <4>1 DEF DeactivateUserCascade, ActiveAdminsExcluding
      <4>2. CASE users[u].role # "admin"
        BY <1>1, <4>2 DEF ActiveAdmins
      <4> QED BY <4>1, <4>2
    <3>2. v \in ActiveAdmins(users')
      BY <1>1, <2>2, <3>1 DEF DeactivateUserCascade, DeactivateUser, Update, ActiveAdmins, Keys, Known
    <3> QED BY <3>2
  <2>3. ASSUME NEW u \in Users, NEW row \in UserRow, Amend(u, row) PROVE ActiveAdmins(users') # {}
    <3>1. PICK v : v \in ActiveAdmins(users)
      BY <1>1
    <3>2. v \in ActiveAdmins(users')
      BY <1>1, <2>3, <3>1, AccountsAssumption DEF Amend, ActiveAdmins, Keys, Known
    <3> QED BY <3>2
  <2> QED BY <1>1, <2>1, <2>2, <2>3 DEF UsersStep
<1>2. Known /\ [EnrolmentNext]_enrolmentVars
      => [ActiveAdmins(users) # {} => ActiveAdmins(users') # {}]_vars
  BY <1>1, EnrolmentNextStep DEF EnrolmentStep, AccountsStep
<1> QED BY <1>2, EnrolmentInvariance, PTL DEF EnrolmentSpec, AdminRemains

LEMMA CascadeInit ==
  ASSUME EnrolmentInit
  PROVE  CascadeComplete
BY AccountsAssumption, InitialRowsAssumption
   DEF EnrolmentInit, Init, AtStart, CascadeComplete, OwnedBy, Keys

LEMMA CascadeStep ==
  ASSUME Known, EnrolmentStep, CascadeComplete
  PROVE  CascadeComplete'
<1> SUFFICES ASSUME NEW v \in Users, users'[v] # None, ~users'[v].active
             PROVE  /\ \A k \in OwnedBy(tokens', v) : ~tokens'[k].revoked => k \in late'
                    /\ \A s \in OwnedBy(subs', v) : ~subs'[s].paused => s \in late'
  BY DEF CascadeComplete, OwnedBy, Keys
<1>1. v # None
  BY AccountsAssumption
<1>2. ASSUME users[v] # None, ~users[v].active
      PROVE  /\ \A k \in OwnedBy(tokens', v) : ~tokens'[k].revoked => k \in late'
             /\ \A s \in OwnedBy(subs', v) : ~subs'[s].paused => s \in late'
  <2>1. ASSUME NEW k \in OwnedBy(tokens', v), ~tokens'[k].revoked PROVE k \in late'
    <3>1. k \in Tokens /\ tokens'[k] # None /\ tokens'[k].owner = v
      BY <2>1 DEF OwnedBy, Keys, EnrolmentStep, AccountsStep, TokensStep, TokensKnown
    <3>2. CASE TokenStays(k)
      BY <1>2, <2>1, <3>1, <3>2 DEF TokenStays, CascadeComplete, OwnedBy, Keys, Known, TokensKnown
    <3>3. CASE TokenGiven(k)
      BY <1>1, <3>1, <3>3 DEF TokenGiven
    <3> QED BY <3>1, <3>2, <3>3 DEF EnrolmentStep, AccountsStep, TokensStep
  <2>2. ASSUME NEW s \in OwnedBy(subs', v), ~subs'[s].paused PROVE s \in late'
    <3>1. s \in Subs /\ subs'[s] # None /\ subs'[s].owner = v
      BY <2>2 DEF OwnedBy, Keys, EnrolmentStep, AccountsStep, SubsStep, SubsKnown
    <3>2. CASE SubStays(s)
      BY <1>2, <2>2, <3>1, <3>2 DEF SubStays, CascadeComplete, OwnedBy, Keys, Known, SubsKnown
    <3>3. CASE SubGiven(s)
      BY <1>1, <3>1, <3>3 DEF SubGiven
    <3> QED BY <3>1, <3>2, <3>3 DEF EnrolmentStep, AccountsStep, SubsStep
  <2> QED BY <2>1, <2>2
<1>3. ASSUME NEW u \in Users, DeactivateUserCascade(u), v = u
      PROVE  /\ \A k \in OwnedBy(tokens', v) : ~tokens'[k].revoked => k \in late'
             /\ \A s \in OwnedBy(subs', v) : ~subs'[s].paused => s \in late'
  <2>1. \A k \in OwnedBy(tokens', v) : tokens'[k].revoked
    BY <1>3 DEF DeactivateUserCascade, RevokeTokensByOwner, OwnedBy, Keys, Known, TokensKnown
  <2>2. \A s \in OwnedBy(subs', v) : subs'[s].paused
    BY <1>3 DEF DeactivateUserCascade, PausePushByOwner, OwnedBy, Keys, Known, SubsKnown
  <2> QED BY <2>1, <2>2
<1>4. \/ users[v] # None /\ ~users[v].active
      \/ \E u \in Users : DeactivateUserCascade(u) /\ v = u
  <2>1. CASE users' = users
    BY <2>1
  <2>2. ASSUME NEW u \in Users, DeactivateUserCascade(u), v # u PROVE users[v] # None /\ ~users[v].active
    BY <2>2 DEF DeactivateUserCascade, DeactivateUser, Update, Known
  <2>3. ASSUME NEW u \in Users, NEW row \in UserRow, Amend(u, row)
        PROVE  users[v] # None /\ ~users[v].active
    BY <2>3 DEF Amend, Known
  <2> QED BY <2>1, <2>2, <2>3 DEF EnrolmentStep, AccountsStep, UsersStep
<1> QED BY <1>2, <1>3, <1>4

\* What a deactivated user owns stays revoked and paused, apart from what was given
\* to the user later, through transfers, pairings, commands and reactivations.
THEOREM CascadeHolds == EnrolmentSpec => []CascadeComplete
<1>1. EnrolmentInit => CascadeComplete
  BY CascadeInit
<1>2. Known /\ [EnrolmentNext]_enrolmentVars /\ CascadeComplete => CascadeComplete'
  BY EnrolmentNextStep, CascadeStep
<1> QED BY <1>1, <1>2, EnrolmentInvariance, PTL DEF EnrolmentSpec

-----------------------------------------------------------------------------
(* The requests of Accounts keep the types.                                *)

LEMMA SessionsWritten ==
  ASSUME AccountsTyped,
         \/ sessions' = sessions
         \/ \E s : sessions' = DeleteSession(sessions, s)
         \/ \E u : sessions' = DeleteSessionsByUser(sessions, u)
         \/ \E at : sessions' = DeleteExpiredSessions(sessions, at)
  PROVE  SessionsTyped'
BY DEF AccountsTyped, SessionsTyped, DeleteSession, DeleteSessionsByUser, DeleteExpiredSessions

LEMMA SessionActionTyped ==
  ASSUME Known, AccountsTyped, NEW c \in Callers, SessionAction(c)
  PROVE  AccountsTyped'
<1> USE DEF AccountsTyped
<1>1. clock \in Nat /\ SessionTTL \in Nat
  BY AccountsAssumption DEF CountsTyped
<1>2. ASSUME NEW u \in Users, Authenticate(c, u) PROVE AccountsTyped'
  <2>1. users[u].pw \in Nat
    BY <1>2 DEF Authenticate, IsActive, Known, UserRow
  <2>2. [pc |-> "login", user |-> u, pw |-> users[u].pw] \in Call
    BY <2>1 DEF Call
  <2>3. CallsTyped'
    BY <1>2, <2>2, CallGoesOn DEF Authenticate, Begin, storeVars
  <2>4. CountsTyped'
    BY <1>2, CountsKept DEF Authenticate, Begin
  <2> QED BY <1>2, <2>3, <2>4 DEF Authenticate, storeVars, histVars, SessionsTyped, TokensTyped,
           SubsTyped, HistoryTyped, UsesTyped, LateTyped
<1>3. CASE CreateSession(c)
  <2>1. call[c].user \in Users /\ call[c].pw \in Nat
    BY <1>3, CallForms DEF CreateSession, CallsTyped
  <2>2. PICK s \in Sessions :
          /\ sessions' = [sessions EXCEPT ![s] = [user |-> call[c].user, lastUsed |-> clock,
                                                  expires |-> clock + SessionTTL]]
          /\ verified' = [verified EXCEPT ![s] = call[c].pw]
          /\ overtaken' = IF c \in overtaken THEN (overtaken \ {c}) \cup {s} ELSE overtaken
          /\ lastUse' = [lastUse EXCEPT ![s] = clock]
    BY <1>3 DEF CreateSession, InsertSession
  <2>3. SessionsTyped'
    BY <1>1, <2>1, <2>2 DEF SessionsTyped, SessionRow
  <2>4. HistoryTyped'
    BY <1>3, <2>1, <2>2 DEF HistoryTyped, CreateSession
  <2>5. UsesTyped'
    BY <1>1, <1>3, <2>2 DEF UsesTyped, CreateSession
  <2>6. CallsTyped' /\ CountsTyped'
    BY <1>3, CallEnds, CountsKept DEF CreateSession, Done, Step
  <2> QED BY <1>3, <2>3, <2>4, <2>5, <2>6 DEF CreateSession, TokensTyped, SubsTyped, LateTyped
<1>4. ASSUME NEW s \in Sessions, Lookup(c, s) PROVE AccountsTyped'
  <2> DEFINE slides == clock - sessions[s].lastUsed >= SlideAfter
  <2>1. sessions[s].user \in Users
    BY <1>4 DEF Lookup, SessionsTyped, SessionRow
  <2>2. slides \in BOOLEAN
    OBVIOUS
  <2> HIDE DEF slides
  <2>3. /\ [pc |-> "drop", session |-> s] \in Call
        /\ [pc |-> "user", session |-> s, user |-> sessions[s].user, slide |-> slides] \in Call
    BY <2>1, <2>2 DEF Call
  <2>4. CallsTyped'
    BY <1>4, <2>3, CallGoesOn DEF Lookup, Begin, storeVars, slides
  <2>5. CountsTyped'
    BY <1>4, CountsKept DEF Lookup, Begin
  <2> QED BY <1>4, <2>4, <2>5 DEF Lookup, storeVars, histVars, SessionsTyped, TokensTyped,
           SubsTyped, HistoryTyped, UsesTyped, LateTyped
<1>5. ASSUME NEW s \in Sessions, Logout(c, s) PROVE AccountsTyped'
  <2>1. CallsTyped' /\ CountsTyped'
    BY <1>5, IdleForm, CallGoesOn, CountsKept DEF Logout, Begin
  <2>2. SessionsTyped'
    BY <1>5, SessionsWritten DEF Logout
  <2> QED BY <1>5, <2>1, <2>2 DEF Logout, histVars, TokensTyped, SubsTyped, HistoryTyped, UsesTyped,
           LateTyped
<1>6. CASE LookupUser(c)
  <2> DEFINE u == call[c].user
             s == call[c].session
             next == Authorised(IF users[u].role = "admin" THEN {"admin", "me"} ELSE {"me"}, u, None)
  <2>1. u \in Users /\ s \in Sessions /\ users[u].scopes \subseteq Scopes
    BY <1>6, CallForms DEF LookupUser, CallsTyped, Known, CallsKnown, CallKnown, Keys, UserRow
  <2>2. next \in Pending /\ next.pc = "authorised"
    BY <2>1 DEF Authorised, Pending, Snapshot
  <2> HIDE DEF next
  <2>3. /\ [pc |-> "slide", session |-> s, next |-> next] \in Call /\ next \in Call
        /\ [pc |-> "drop", session |-> s] \in Call
    BY <2>1, <2>2, PendingForms DEF Call
  <2>4. CallsTyped'
    BY <1>6, <2>2, <2>3, CallGoesOn DEF LookupUser, Step, storeVars, next
  <2>5. CountsTyped'
    BY <1>6, CountsKept DEF LookupUser, Step
  <2>6. UsesTyped'
    BY <1>1, <1>6, <2>1 DEF LookupUser, UsesTyped
  <2> QED BY <1>6, <2>4, <2>5, <2>6 DEF LookupUser, storeVars, SessionsTyped, TokensTyped, SubsTyped,
           HistoryTyped, LateTyped
<1>7. CASE SlideSession(c)
  <2>1. call[c].next \in Call /\ call[c].next.pc # "touch"
    BY <1>7, CallForms, PendingForms DEF SlideSession, CallsTyped
  <2>2. CallsTyped' /\ CountsTyped'
    BY <1>7, <2>1, CallGoesOn, CountsKept DEF SlideSession, Step
  <2>3. ASSUME NEW s \in Sessions, sessions[s] # None
        PROVE  [sessions[s] EXCEPT !.lastUsed = clock, !.expires = clock + SessionTTL] \in SessionRow
    <3>1. sessions[s] \in SessionRow
      BY <2>3 DEF SessionsTyped
    <3>2. clock + SessionTTL \in Nat
      BY <1>1
    <3> QED BY <1>1, <3>1, <3>2 DEF SessionRow
  <2>4. SessionsTyped'
    BY <1>7, <2>3 DEF SlideSession, TouchSession, SessionsTyped
  <2> QED BY <1>7, <2>2, <2>4 DEF SlideSession, histVars, TokensTyped, SubsTyped, HistoryTyped,
           UsesTyped, LateTyped
<1>8. CASE DropSession(c)
  <2>1. CallsTyped' /\ CountsTyped'
    BY <1>8, CallEnds, CountsKept DEF DropSession, Done, Step
  <2>2. SessionsTyped'
    BY <1>8, SessionsWritten DEF DropSession
  <2> QED BY <1>8, <2>1, <2>2 DEF DropSession, histVars, TokensTyped, SubsTyped, HistoryTyped,
           UsesTyped, LateTyped
<1> QED BY <1>2, <1>3, <1>4, <1>5, <1>6, <1>7, <1>8 DEF SessionAction, Login

LEMMA BearerActionTyped ==
  ASSUME Known, AccountsTyped, NEW c \in Callers, BearerAction(c)
  PROVE  AccountsTyped'
<1> USE DEF AccountsTyped
<1>1. clock \in Nat
  BY DEF CountsTyped
<1>2. ASSUME NEW k \in Tokens, Resolve(c, k) PROVE AccountsTyped'
  <2>1. tokens[k] # None /\ tokens[k] \in TokenRow
    BY <1>2 DEF Resolve, ListActiveTokens, Keys, TokensTyped
  <2>2. tokens[k].owner # None => users[tokens[k].owner].scopes \subseteq Scopes
    BY <2>1 DEF Known, TokensKnown, Keys, UserRow
  <2>3. ASSUME NEW next \in AuthorizeAdmin(k) \cup AuthorizeSource(k) \cup ResolveCaller(k) \cup {Idle}
        PROVE  next \in Pending
    <3>1. CASE next \in AuthorizeAdmin(k)
      BY <2>1, <2>2, <3>1 DEF AuthorizeAdmin, Authorised, Pending, Snapshot, TokenRow
    <3>2. CASE next \in AuthorizeSource(k)
      BY <3>2 DEF AuthorizeSource, Pending
    <3>3. CASE next \in ResolveCaller(k)
      BY <2>1, <3>3 DEF ResolveCaller, Pending, TokenRow
    <3> QED BY <2>3, <3>1, <3>2, <3>3, IdleForm
  <2>4. ASSUME NEW next \in Pending
        PROVE  /\ next \in Call /\ next.pc # "touch"
               /\ [pc |-> "touch", token |-> k, next |-> next] \in Call
    BY PendingForms DEF Call
  <2>5. CallsTyped' /\ CountsTyped'
    BY <1>2, <2>1, <2>3, <2>4, CallGoesOn, CountsKept DEF Resolve, Begin, storeVars
  <2>6. UsesTyped'
    BY <1>1, <1>2 DEF Resolve, UsesTyped
  <2> QED BY <1>2, <2>5, <2>6 DEF Resolve, storeVars, SessionsTyped, TokensTyped, SubsTyped,
           HistoryTyped, LateTyped
<1>3. CASE TouchLastUsed(c)
  <2>1. call[c].next \in Call /\ call[c].next.pc # "touch"
    BY <1>3, CallForms, PendingForms DEF TouchLastUsed, CallsTyped
  <2>2. TokensGrow(tokens')
    BY <1>1, <1>3, TokenColumn DEF TouchLastUsed, TouchTokenLastUsed
  <2>3. CallsTyped' /\ CountsTyped'
    BY <1>3, <2>1, <2>2, CallGoesOn, CountsKept DEF TouchLastUsed, Step
  <2> QED BY <1>3, <2>2, <2>3 DEF TouchLastUsed, histVars, TokensGrow, TokensTyped, SessionsTyped, SubsTyped,
           HistoryTyped, UsesTyped, LateTyped
<1>4. CASE ReadOwner(c)
  <2> DEFINE u == call[c].user
  <2>1. u \in Users /\ call[c].token \in Tokens /\ users[u].scopes \subseteq Scopes
    BY <1>4, CallForms DEF ReadOwner, CallsTyped, Known, CallsKnown, CallKnown, NextKnown, Keys, UserRow
  <2>2. Authorised({"me"}, u, call[c].token) \in Pending
    BY <2>1 DEF Authorised, Pending, Snapshot
  <2>3. CallsTyped' /\ CountsTyped'
    BY <1>4, <2>2, IdleForm, PendingForms, CallGoesOn, CountsKept DEF ReadOwner, Step, storeVars
  <2> QED BY <1>4, <2>3 DEF ReadOwner, storeVars, histVars, SessionsTyped, TokensTyped, SubsTyped,
           HistoryTyped, UsesTyped, LateTyped
<1>5. CASE Disconnect(c)
  <2>1. CallsTyped' /\ CountsTyped'
    BY <1>5, CallEnds, CountsKept DEF Disconnect, Done, Step, storeVars
  <2> QED BY <1>5, <2>1 DEF Disconnect, storeVars, histVars, SessionsTyped, TokensTyped, SubsTyped,
           HistoryTyped, UsesTyped, LateTyped
<1> QED BY <1>2, <1>3, <1>4, <1>5 DEF BearerAction

LEMMA UserActionTyped ==
  ASSUME Known, AccountsTyped, NEW c \in Callers, UserAction(c)
  PROVE  AccountsTyped'
<1> USE DEF AccountsTyped
<1>1. ASSUME NEW u \in Users, Deactivate(c, u) PROVE AccountsTyped'
  <2>1. TokensGrow(tokens')
    BY <1>1, TokensRevoked DEF Deactivate, DeactivateUserCascade
  <2>2. SubsTyped'
    BY <1>1, SubsPausing DEF Deactivate, DeactivateUserCascade, SubsKept, SubsTyped
  <2>3. CallsTyped' /\ CountsTyped'
    BY <1>1, <2>1, CallEnds, CountsKept DEF Deactivate, Done, Step
  <2> QED BY <1>1, <2>1, <2>2, <2>3 DEF Deactivate, histVars, TokensGrow, TokensTyped, SessionsTyped,
           HistoryTyped, UsesTyped, LateTyped
<1>2. ASSUME NEW u \in Users, Reactivate(c, u) PROVE AccountsTyped'
  <2>1. CallsTyped' /\ CountsTyped'
    BY <1>2, CallEnds, CountsKept DEF Reactivate, Done, Step
  <2> QED BY <1>2, <2>1 DEF Reactivate, SessionsTyped, TokensTyped, SubsTyped, HistoryTyped,
           UsesTyped, LateTyped
<1>3. ASSUME NEW u \in Users, ResetPassword(c, u) PROVE AccountsTyped'
  <2>1. users[u].pw + 1 \in Nat
    BY <1>3 DEF ResetPassword, Known, UserRow
  <2>2. call[c].as.user \in Users \cup {None}
    BY <1>3, CallForms DEF ResetPassword, May, CallsTyped, Snapshot
  <2>3. [pc |-> "evict", user |-> u, pw |-> users[u].pw + 1, by |-> call[c].as.user] \in Call
    BY <2>1, <2>2 DEF Call
  <2>4. CallsTyped' /\ CountsTyped'
    BY <1>3, <2>3, CallGoesOn, CountsKept DEF ResetPassword, Step
  <2> QED BY <1>3, <2>4 DEF ResetPassword, histVars, SessionsTyped, TokensTyped, SubsTyped,
           HistoryTyped, UsesTyped, LateTyped
<1>4. CASE EvictSessions(c)
  <2>1. call[c].user \in Users /\ call[c].pw \in Nat
    BY <1>4, CallForms DEF EvictSessions, CallsTyped
  <2>2. CallsTyped' /\ CountsTyped'
    BY <1>4, CallEnds, CountsKept DEF EvictSessions, Done, Step
  <2>3. SessionsTyped'
    BY <1>4, SessionsWritten DEF EvictSessions
  <2>4. HistoryTyped'
    BY <1>4, <2>1 DEF EvictSessions, HistoryTyped, Overtaking
  <2> QED BY <1>4, <2>2, <2>3, <2>4 DEF EvictSessions, TokensTyped, SubsTyped, UsesTyped, LateTyped
<1>5. ASSUME NEW u \in Users, PatchUser(c, u) PROVE AccountsTyped'
  <2>1. users[u].scopes \in SUBSET Scopes
    BY <1>5 DEF PatchUser, Known, UserRow
  <2>2. ASSUME NEW scopes \in {users[u].scopes} \cup SUBSET Scopes
        PROVE  [pc |-> "patch", user |-> u, scopes |-> scopes] \in Call
    BY <2>1 DEF Call
  <2>3. CallsTyped' /\ CountsTyped'
    BY <1>5, <2>2, CallGoesOn, CountsKept DEF PatchUser, Step, storeVars
  <2> QED BY <1>5, <2>3 DEF PatchUser, storeVars, histVars, SessionsTyped, TokensTyped, SubsTyped,
           HistoryTyped, UsesTyped, LateTyped
<1>6. CASE WriteProfile(c) \/ PatchMe(c)
  <2>1. CallsTyped' /\ CountsTyped'
    BY <1>6, CallEnds, CountsKept DEF WriteProfile, PatchMe, Done, Step
  <2> QED BY <1>6, <2>1 DEF WriteProfile, PatchMe, histVars, SessionsTyped, TokensTyped, SubsTyped,
           HistoryTyped, UsesTyped, LateTyped
<1> QED BY <1>1, <1>2, <1>3, <1>4, <1>5, <1>6
        DEF UserAction, UsersDeactivate, UsersReactivate, UsersResetPassword, UsersUpdate

LEMMA GiveTyped ==
  ASSUME Known, AccountsTyped, NEW c \in Callers, NEW u \in Users \cup {None},
         NEW kind \in {"pat", "listener"}, NEW ephemeral \in BOOLEAN, NEW scopes \in SUBSET Scopes,
         Give(c, Issued(u, kind, ephemeral, scopes))
  PROVE  AccountsTyped'
<1> USE DEF AccountsTyped
<1> DEFINE row == Issued(u, kind, ephemeral, scopes)
<1>1. row \in TokenRow
  BY IssuedRow
<1> HIDE DEF row
<1>2. PICK k \in Tokens : tokens' = InsertToken(tokens, k, row) /\ Handed(k, row.owner)
  BY DEF Give, row
<1>3. TokensGrow(tokens')
  BY <1>1, <1>2, TokenInsertion
<1>4. CallsTyped' /\ CountsTyped'
  BY <1>3, CallEnds, CountsKept DEF Give, TokenStep, Done, Step
<1> QED BY <1>2, <1>3, <1>4, HandedTyped DEF Give, TokenStep, TokensGrow, TokensTyped, SessionsTyped, SubsTyped,
         HistoryTyped, UsesTyped

LEMMA HeldTyped ==
  ASSUME Known, AccountsTyped, NEW c \in Callers, May(c, "me")
  PROVE  call[c].as.user \in Users /\ HeldScopes(c) \subseteq Scopes
BY DEF May, Known, CallsKnown, CallKnown, NextKnown, Keys, HeldScopes

LEMMA TokenActionTyped ==
  ASSUME Known, AccountsTyped, NEW c \in Callers, TokenAction(c)
  PROVE  AccountsTyped'
<1> USE DEF AccountsTyped
<1>1. CASE Issue(c)
  BY <1>1, GiveTyped DEF Issue
<1>2. CASE TokensCreate(c)
  <2>1. Keys(users) \subseteq Users
    BY DEF Known, Keys
  <2> QED BY <1>2, <2>1, GiveTyped DEF TokensCreate
<1>3. CASE CreateToken(c)
  <2>1. call[c].as.user \in Users /\ HeldScopes(c) \subseteq Scopes
    BY <1>3, HeldTyped DEF CreateToken
  <2> QED BY <1>3, <2>1, GiveTyped DEF CreateToken
<1>4. CASE MeCreateToken(c)
  <2>1. call[c].as.user \in Users /\ HeldScopes(c) \subseteq Scopes
    BY <1>4, HeldTyped DEF MeCreateToken
  <2> QED BY <1>4, <2>1, GiveTyped DEF MeCreateToken
<1>5. ASSUME NEW k, tokens' = RevokeToken(tokens, k), Done(c), late' = late, TokenStep
      PROVE  AccountsTyped'
  <2>1. TokensGrow(tokens')
    BY <1>5, TokenColumn DEF RevokeToken
  <2>2. CallsTyped' /\ CountsTyped'
    BY <1>5, <2>1, CallEnds, CountsKept DEF TokenStep, Done, Step
  <2> QED BY <1>5, <2>1, <2>2 DEF TokenStep, TokensGrow, TokensTyped, SessionsTyped, SubsTyped, HistoryTyped,
           UsesTyped, LateTyped
<1>6. ASSUME NEW k \in Tokens, RevokeOwn(c, k) PROVE AccountsTyped'
  <2>1. [pc |-> "revoke", token |-> k] \in Call
    BY DEF Call
  <2>2. CallsTyped' /\ CountsTyped'
    BY <1>6, <2>1, CallGoesOn, CountsKept DEF RevokeOwn, TokenStep, Step
  <2> QED BY <1>6, <2>2 DEF RevokeOwn, TokenStep, SessionsTyped, TokensTyped, SubsTyped, HistoryTyped,
           UsesTyped, LateTyped
<1>7. ASSUME NEW k \in Tokens, TransferToken(c, k) PROVE AccountsTyped'
  <2>1. PICK u \in Users \cup {None} : tokens' = UpdateTokenOwner(tokens, k, u) /\ Handed(k, u)
    BY <1>7 DEF TransferToken, Keys, Known
  <2>2. TokensGrow(tokens')
    BY <2>1, TokenColumn DEF UpdateTokenOwner
  <2>3. CallsTyped' /\ CountsTyped'
    BY <1>7, <2>2, CallEnds, CountsKept DEF TransferToken, TokenStep, Done, Step
  <2> QED BY <1>7, <2>1, <2>2, <2>3, HandedTyped DEF TransferToken, TokenStep, TokensGrow, TokensTyped,
           SessionsTyped, SubsTyped, HistoryTyped, UsesTyped
<1> QED BY <1>1, <1>2, <1>3, <1>4, <1>5, <1>6, <1>7
        DEF TokenAction, TokensRevoke, MeRevokeToken, Revoke, RevokeChecked

LEMMA SubsWritten ==
  ASSUME Known, AccountsTyped, NEW c \in Callers, SubsTyped', LateTyped', Done(c), SubStep
  PROVE  AccountsTyped'
<1>1. CallsTyped' /\ CountsTyped'
  BY CallEnds, CountsKept DEF SubStep, Done, Step
<1> QED BY <1>1 DEF AccountsTyped, SubStep, SessionsTyped, TokensTyped, HistoryTyped, UsesTyped

LEMMA SubActionTyped ==
  ASSUME Known, AccountsTyped, NEW c \in Callers, SubAction(c)
  PROVE  AccountsTyped'
<1>1. CASE CreateSub(c) \/ PushCreate(c)
  <2>1. PICK u \in Users \cup {None} : Register(c, u)
    BY <1>1, HeldTyped DEF CreateSub, PushCreate
  <2>2. PICK s \in Subs : subs' = InsertPush(subs, s, [owner |-> u, paused |-> FALSE]) /\ Handed(s, u)
    BY <2>1 DEF Register
  <2>3. SubsTyped' /\ LateTyped'
    BY <2>2, SubInsertion, HandedTyped DEF SubsTyped, SubsKept
  <2> QED BY <2>1, <2>3, SubsWritten DEF Register
<1>2. ASSUME NEW s \in Subs, RequireOwnedSub(c, s) PROVE AccountsTyped'
  <2>1. \A act \in {"pause", "resume", "delete"} : [pc |-> act, sub |-> s] \in Call
    BY DEF Call
  <2>2. CallsTyped' /\ CountsTyped'
    BY <1>2, <2>1, CallGoesOn, CountsKept DEF AccountsTyped, RequireOwnedSub, SubStep, Step
  <2> QED BY <1>2, <2>2 DEF AccountsTyped, RequireOwnedSub, SubStep, SessionsTyped, TokensTyped,
           SubsTyped, HistoryTyped, UsesTyped, LateTyped
<1>3. ASSUME NEW s \in Subs, PauseSub(c, s) PROVE AccountsTyped'
  <2>1. SubsTyped' /\ LateTyped'
    BY <1>3, SubColumn DEF PauseSub, PausePush, SubsTyped, SubsKept, AccountsTyped, LateTyped
  <2> QED BY <1>3, <2>1, SubsWritten DEF PauseSub
<1>4. ASSUME NEW s \in Subs, ResumeSub(c, s) PROVE AccountsTyped'
  <2>1. SubsTyped'
    BY <1>4, SubColumn DEF ResumeSub, ResumePush, SubsTyped, SubsKept
  <2>2. LateTyped'
    BY <1>4, HandedTyped DEF ResumeSub, AccountsTyped, LateTyped
  <2> QED BY <1>4, <2>1, <2>2, SubsWritten DEF ResumeSub
<1>5. ASSUME NEW s \in Subs, DeleteSub(c, s) PROVE AccountsTyped'
  <2>1. SubsTyped' /\ LateTyped'
    BY <1>5, SubDeletion DEF DeleteSub, SubsTyped, SubsKept, AccountsTyped, LateTyped
  <2> QED BY <1>5, <2>1, SubsWritten DEF DeleteSub
<1>6. ASSUME NEW s \in Subs, TransferSub(c, s) PROVE AccountsTyped'
  <2>1. PICK u \in Users \cup {None} : subs' = UpdatePushOwner(subs, s, u) /\ Handed(s, u)
    BY <1>6 DEF TransferSub, Keys, Known
  <2>2. SubsTyped' /\ LateTyped'
    BY <2>1, SubColumn, HandedTyped DEF UpdatePushOwner, SubsTyped, SubsKept
  <2> QED BY <1>6, <2>2, SubsWritten DEF TransferSub
<1> QED BY <1>1, <1>2, <1>3, <1>4, <1>5, <1>6
     DEF SubAction, MeRequireOwnedSub, PushFormPause, PushFormResume, PushFormDelete

LEMMA ServeTyped ==
  ASSUME Known, AccountsTyped, Serve
  PROVE  AccountsTyped'
<1> USE DEF AccountsTyped
<1>1. ASSUME NEW c \in Callers, Answer(c) PROVE AccountsTyped'
  <2>1. CallsTyped' /\ CountsTyped'
    BY <1>1, CallEnds, CountsKept DEF Answer, Done, Step, storeVars
  <2> QED BY <1>1, <2>1 DEF Answer, storeVars, histVars, SessionsTyped, TokensTyped, SubsTyped,
           HistoryTyped, UsesTyped, LateTyped
<1>2. CASE SweepSessions
  <2>1. SessionsTyped'
    BY <1>2, SessionsWritten DEF SweepSessions
  <2>2. CallsTyped' /\ CountsTyped'
    BY <1>2, CallsKept, CountsKept DEF SweepSessions
  <2> QED BY <1>2, <2>1, <2>2 DEF SweepSessions, histVars, TokensTyped, SubsTyped, HistoryTyped,
           UsesTyped, LateTyped
<1>3. CASE SweepTokens
  <2>1. TokensGrow(tokens')
    BY <1>3, TokensExpired DEF SweepTokens
  <2>2. CallsTyped' /\ CountsTyped'
    BY <1>3, <2>1, CallsKept, CountsKept DEF SweepTokens
  <2> QED BY <1>3, <2>1, <2>2 DEF SweepTokens, histVars, TokensGrow, TokensTyped, SessionsTyped, SubsTyped,
           HistoryTyped, UsesTyped, LateTyped
<1>4. CASE Tick
  <2>1. CountsTyped'
    BY <1>4, AccountsAssumption DEF Tick, CountsTyped
  <2>2. CallsTyped'
    BY <1>4, CallsKept DEF Tick, storeVars
  <2> QED BY <1>4, <2>1, <2>2 DEF Tick, storeVars, histVars, SessionsTyped, TokensTyped, SubsTyped,
           HistoryTyped, UsesTyped, LateTyped
<1> QED BY <1>1, <1>2, <1>3, <1>4, SessionActionTyped, BearerActionTyped, UserActionTyped,
        TokenActionTyped, SubActionTyped DEF Serve

LEMMA RestartTyped ==
  ASSUME Known, AccountsTyped, Restart
  PROVE  AccountsTyped'
<1> USE DEF AccountsTyped
<1>1. CallsTyped'
  BY IdleForm DEF Restart, CallsTyped
<1>2. CountsTyped'
  BY CountsKept DEF Restart
<1>3. ASSUME NEW x \in Sessions \cup Tokens PROVE lastUse'[x] \in Nat
  <2>1. CASE \E c \in Callers : call[c].pc = "touch" /\ call[c].token = x
    <3>1. x \in Tokens /\ tokens[x] # None
      BY <2>1, CallForms DEF CallsTyped
    <3>2. tokens[x].lastUsed \in Nat \cup {None} /\ tokens[x].created \in Nat
      BY <3>1 DEF TokensTyped, TokenRow
    <3> QED BY <2>1, <3>2 DEF Restart
  <2>2. CASE \E c \in Callers : call[c].pc = "slide" /\ call[c].session = x
    <3>1. x \in Sessions
      BY <2>2, CallForms DEF CallsTyped
    <3>2. sessions[x] # None => sessions[x].lastUsed \in Nat
      BY <3>1 DEF SessionsTyped, SessionRow
    <3> QED BY <2>1, <2>2, <3>2 DEF Restart
  <2> QED BY <2>1, <2>2 DEF Restart, UsesTyped
<1>4. UsesTyped'
  BY <1>3 DEF Restart, UsesTyped
<1>5. HistoryTyped'
  BY DEF Restart, HistoryTyped
<1> QED BY <1>1, <1>2, <1>4, <1>5 DEF Restart, storeVars, SessionsTyped, TokensTyped, SubsTyped,
         LateTyped

-----------------------------------------------------------------------------
(* So do invites, pairings and commands.                                   *)

Types == AccountsTyped /\ InvitesTypeOK /\ PairingTypeOK

LEMMA AccountsAlone ==
  ASSUME Known, AccountsTyped,
         UNCHANGED <<sessions, tokens, subs, touched, call, clock, enabled, histVars>>,
         \/ opsLeft' = opsLeft
         \/ opsLeft > 0 /\ opsLeft' = opsLeft - 1
  PROVE  AccountsTyped'
<1>1. CallsTyped' /\ CountsTyped'
  BY CallsKept, CountsKept
<1> QED BY <1>1 DEF AccountsTyped, histVars, SessionsTyped, TokensTyped, SubsTyped, HistoryTyped,
         UsesTyped, LateTyped

LEMMA AccountsAnswer ==
  ASSUME Known, AccountsTyped, NEW c \in Callers, Done(c),
         UNCHANGED <<storeVars, touched, clock, enabled, histVars>>
  PROVE  AccountsTyped'
<1>1. CallsTyped' /\ CountsTyped'
  BY CallEnds, CountsKept DEF Done, Step, storeVars
<1> QED BY <1>1 DEF AccountsTyped, histVars, storeVars, SessionsTyped, TokensTyped, SubsTyped,
         HistoryTyped, UsesTyped, LateTyped

\* A step that writes tokens, outside of a request.
LEMMA AccountsTokens ==
  ASSUME Known, AccountsTyped, TokensGrow(tokens'), LateTyped',
         UNCHANGED <<sessions, subs, touched, call, clock, enabled, evicted, verified, overtaken, lastUse>>,
         \/ opsLeft' = opsLeft
         \/ opsLeft > 0 /\ opsLeft' = opsLeft - 1
  PROVE  AccountsTyped'
<1>1. CallsTyped' /\ CountsTyped'
  BY CallsKept, CountsKept
<1> QED BY <1>1 DEF AccountsTyped, TokensGrow, SessionsTyped, TokensTyped, SubsTyped, HistoryTyped,
         UsesTyped

InviteTable == [Codes -> InviteRow \cup {None}]

LEMMA InviteInsertion ==
  ASSUME AccountsTyped, NEW T \in InviteTable, NEW i \in Codes, NEW role \in {"admin", "user"},
         NEW scopes \in SUBSET Scopes, NEW bootstrap \in BOOLEAN
  PROVE  InsertInvite(T, i, Invite(role, scopes, bootstrap)) \in InviteTable
<1>1. clock + InviteTTL \in Nat
  BY InvitesAssumption DEF AccountsTyped, CountsTyped
<1>2. Invite(role, scopes, bootstrap) \in InviteRow
  BY <1>1 DEF Invite, InviteRow
<1> QED BY <1>2 DEF InviteTable, InsertInvite

LEMMA InviteConsumption ==
  ASSUME InvitesTypeOK, NEW i, NEW u \in Users
  PROVE  MarkBootstrapInvitesConsumed(MarkInviteConsumed(invites, i, u), u) \in InviteTable
<1>1. ASSUME NEW row \in InviteRow PROVE [row EXCEPT !.user = u] \in InviteRow
  BY DEF InviteRow
<1>2. ASSUME NEW T \in InviteTable PROVE MarkInviteConsumed(T, i, u) \in InviteTable
  BY <1>1 DEF InviteTable, MarkInviteConsumed
<1>3. ASSUME NEW T \in InviteTable PROVE MarkBootstrapInvitesConsumed(T, u) \in InviteTable
  BY <1>1 DEF InviteTable, MarkBootstrapInvitesConsumed
<1> QED BY <1>2, <1>3 DEF InvitesTypeOK, InviteTable

LEMMA InviteDeletion ==
  ASSUME InvitesTypeOK
  PROVE  /\ \A i : DeleteInvite(invites, i) \in InviteTable
         /\ DeleteBootstrapInvite(invites) \in InviteTable
BY DEF InvitesTypeOK, InviteTable, DeleteInvite, DeleteBootstrapInvite

LEMMA NewInviteTyped ==
  ASSUME AccountsTyped, InvitesTypeOK, NewInvite
  PROVE  invites' \in InviteTable /\ issued' \subseteq Codes
<1>1. PICK role \in {"admin", "user"}, scopes \in {{}, Scopes \ {"admin"}}, i \in Codes :
        /\ invites' = InsertInvite(invites, i, Invite(role, scopes, FALSE))
        /\ issued' = issued \cup {i}
  BY DEF NewInvite, AddInvite
<1> QED BY <1>1, InviteInsertion DEF InvitesTypeOK, InviteTable

LEMMA InvitesNextTyped ==
  ASSUME Known, AccountsTyped, InvitesTypeOK, InvitesNext
  PROVE  AccountsTyped' /\ InvitesTypeOK'
<1> USE DEF InvitesTypeOK
<1>1. ASSUME NEW c \in Callers, Create(c) PROVE AccountsTyped' /\ InvitesTypeOK'
  BY <1>1, AccountsAnswer, NewInviteTyped DEF Create, InviteTable
<1>2. CASE RunInvite
  BY <1>2, AccountsAlone, NewInviteTyped DEF RunInvite, InviteTable, storeVars
<1>3. ASSUME NEW c \in Callers, Delete(c) PROVE AccountsTyped' /\ InvitesTypeOK'
  <2>1. AccountsTyped'
    BY <1>3, AccountsAnswer, AccountsAlone DEF Delete, vars, storeVars, histVars
  <2>2. invites' \in InviteTable
    BY <1>3, InviteDeletion DEF Delete, InviteTable
  <2>3. UNCHANGED <<init, issued, via>>
    BY <1>3 DEF Delete
  <2>4. \/ signup' = [signup EXCEPT ![c] = Idle]
        \/ \E i \in Codes : signup' = [signup EXCEPT ![c] = [pc |-> "delete", code |-> i]]
    BY <1>3 DEF Delete, Keys
  <2> QED BY <2>1, <2>2, <2>3, <2>4 DEF InviteTable
<1>4. ASSUME NEW c \in Callers, NEW i \in Codes, NEW u \in Users, Provision(c, i, u)
      PROVE  AccountsTyped' /\ InvitesTypeOK'
  <2>1. AccountsTyped'
    BY <1>4, AccountsAlone DEF Provision, storeVars
  <2>2. invites[i].role \in {"admin", "user"} /\ invites[i].scopes \in SUBSET Scopes
    BY <1>4 DEF Provision, InviteRow
  <2> QED BY <1>4, <2>1, <2>2 DEF Provision
<1>5. ASSUME NEW c \in Callers, Signup(c) PROVE AccountsTyped' /\ InvitesTypeOK'
  <2>1. AccountsTyped'
    BY <1>5, AccountsAlone DEF Signup
  <2>2. signup[c].user \in Users /\ signup[c].code \in Codes
    BY <1>5 DEF Signup, Idle
  <2>3. invites' \in InviteTable
    BY <1>5, <2>2, InviteConsumption DEF Signup, SignupTx, InviteTable
  <2>4. via' \in [Users -> Codes \cup {None}]
    BY <1>5, <2>2 DEF Signup, SignupTx
  <2> QED BY <1>5, <2>1, <2>3, <2>4 DEF Signup, InviteTable
<1>6. CASE InitStep
  <2>1. "admin" \in Scopes
    BY AccountsAssumption
  <2>2. tokens' = tokens \/ TokensGrow(tokens')
    <3>1. \/ tokens' = tokens
          \/ \E k \in Tokens : tokens' = InsertToken(tokens, k, Issued(None, "listener", FALSE, {"admin"}))
      BY <1>6 DEF InitStep, RunInit
    <3>2. Issued(None, "listener", FALSE, {"admin"}) \in TokenRow
      BY <2>1, IssuedRow
    <3> QED BY <3>1, <3>2, TokenInsertion
  <2>3. AccountsTyped'
    <3>1. UNCHANGED <<sessions, subs, touched, call, clock, enabled, histVars>>
      BY <1>6 DEF InitStep
    <3>2. opsLeft' = opsLeft \/ (opsLeft > 0 /\ opsLeft' = opsLeft - 1)
      BY <1>6 DEF InitStep, RunInit
    <3>3. LateTyped'
      BY <3>1 DEF AccountsTyped, LateTyped, histVars
    <3> QED BY <2>2, <3>1, <3>2, <3>3, AccountsAlone, AccountsTokens DEF histVars
  <2>4. ASSUME EnsureBootstrapInvite PROVE invites' \in InviteTable /\ issued' \subseteq Codes
    <3>1. CASE UNCHANGED <<invites, issued>>
      BY <3>1 DEF InviteTable
    <3>2. ASSUME NEW i \in Codes,
                 invites' = InsertInvite(DeleteBootstrapInvite(invites), i, Invite("admin", {}, TRUE)),
                 issued' = issued \cup {i}
          PROVE  invites' \in InviteTable /\ issued' \subseteq Codes
      BY <3>2, InviteInsertion, InviteDeletion
    <3> QED BY <2>4, <3>1, <3>2 DEF EnsureBootstrapInvite
  <2>5. invites' \in InviteTable /\ issued' \subseteq Codes /\ init' \in {"off", "admins", "users", "ensure"}
    BY <1>6, <2>4 DEF InitStep, RunInit, InviteTable
  <2> QED BY <1>6, <2>3, <2>5 DEF InitStep, InviteTable
<1> QED BY <1>1, <1>2, <1>3, <1>4, <1>5, <1>6 DEF InvitesNext, UsersInvite

PairingTable == [Pairings -> PairingRow \cup {None}]

LEMMA PairingForms ==
  ASSUME PairingTypeOK, NEW p \in Pairings, pairings[p] # None
  PROVE  /\ pairings[p] \in PairingRow /\ pairings[p].status \in Statuses
         /\ pairings[p].scopes \subseteq Scopes /\ pairings[p].token \in Tokens \cup {None}
BY DEF PairingTypeOK, PairingRow

LEMMA PairingUpdates ==
  ASSUME PairingTypeOK, NEW p, NEW u \in Users
  PROVE  /\ \A k \in Tokens : UpdateDevicePairingApproved(pairings, p, u, k) \in PairingTable
         /\ UpdateDevicePairingDenied(pairings, p, u) \in PairingTable
<1> USE DEF PairingTypeOK, PairingTable
<1>1. ASSUME NEW row \in PairingRow, NEW k \in Tokens
      PROVE  [row EXCEPT !.status = "approved_unfetched", !.user = u, !.token = k, !.plaintext = TRUE]
               \in PairingRow
  BY DEF PairingRow, Statuses
<1>2. ASSUME NEW row \in PairingRow PROVE [row EXCEPT !.status = "denied", !.user = u] \in PairingRow
  BY DEF PairingRow, Statuses
<1>3. \A k \in Tokens : UpdateDevicePairingApproved(pairings, p, u, k) \in PairingTable
  BY <1>1 DEF UpdateDevicePairingApproved
<1>4. UpdateDevicePairingDenied(pairings, p, u) \in PairingTable
  BY <1>2 DEF UpdateDevicePairingDenied
<1> QED BY <1>3, <1>4

LEMMA PairingEnds ==
  ASSUME PairingTypeOK, NEW p, NEW time
  PROVE  /\ MarkDevicePairingFetched(pairings, p) \in PairingTable
         /\ ExpirePendingDevicePairings(pairings, time) \in PairingTable
<1> USE DEF PairingTypeOK, PairingTable
<1>1. ASSUME NEW row \in PairingRow
      PROVE  /\ [row EXCEPT !.status = "done", !.plaintext = FALSE] \in PairingRow
             /\ [row EXCEPT !.status = "expired"] \in PairingRow
  BY DEF PairingRow, Statuses
<1>2. MarkDevicePairingFetched(pairings, p) \in PairingTable
  BY <1>1 DEF MarkDevicePairingFetched
<1>3. ExpirePendingDevicePairings(pairings, time) \in PairingTable
  BY <1>1 DEF ExpirePendingDevicePairings
<1> QED BY <1>2, <1>3

Polling == [pc : Outcomes \cup {"poll", "written"}, pairing : Pairings, deadline : Nat,
            token : Tokens \cup {None}]
LoginForm == {Off, [pc |-> "logout"]} \cup [pc : {"forward"}, token : Tokens] \cup Polling

LEMMA LoginForms ==
  ASSUME NEW x \in LoginForm
  PROVE  /\ x.pc \in Outcomes \cup {"poll", "written"} => x \in Polling
         /\ x.pc = "forward" => x.token \in Tokens
<1> DEFINE P == Outcomes \cup {"poll", "written"}
           R == [pc : P, pairing : Pairings, deadline : Nat, token : Tokens \cup {None}]
<1>1. LoginForm = {[pc |-> "off"], [pc |-> "logout"]} \cup [pc : {"forward"}, token : Tokens] \cup R
  BY DEF LoginForm, Off, Polling
<1>2. {"off", "logout", "forward"} \cap P = {}
  BY DEF Outcomes
<1> HIDE DEF P
<1>3. x.pc \in P => x \in R
  BY <1>1, <1>2
<1>4. x.pc = "forward" => x.token \in Tokens
  BY <1>1, <1>2
<1> QED BY <1>3, <1>4 DEF P, Polling

\* What a terminal's own step changes.
PairingsKept == UNCHANGED <<pairings, approval, marking, opened, mintedFor, sent>>

LEMMA PairingsAlone ==
  ASSUME PairingTypeOK, PairingsKept,
         login' \in [Terminals -> LoginForm], profile' \in [Terminals -> Tokens \cup {None}]
  PROVE  PairingTypeOK'
BY DEF PairingTypeOK, PairingsKept, LoginForm, Polling

LEMMA LoginNext ==
  ASSUME PairingTypeOK, NEW l \in Terminals, NEW x \in LoginForm, login' = [login EXCEPT ![l] = x]
  PROVE  login' \in [Terminals -> LoginForm]
BY DEF PairingTypeOK, LoginForm, Polling

LEMMA TerminalTyped ==
  ASSUME Known, AccountsTyped, PairingTypeOK, NEW l \in Terminals,
         Start(l) \/ Poll(l) \/ WriteToken(l) \/ WriteFails(l) \/ Receive(l) \/ GiveUp(l)
  PROVE  AccountsTyped' /\ PairingTypeOK'
<1> USE DEF PairingTypeOK
<1>1. login[l] \in LoginForm /\ Off \in LoginForm
  BY DEF LoginForm, Polling
<1>2. clock \in Nat
  BY DEF AccountsTyped, CountsTyped
<1>3. CASE Start(l)
  <2>1. AccountsTyped'
    BY <1>3, AccountsAlone DEF Start, Run, storeVars
  <2>2. PICK p \in Pairings, scopes \in {{}, {"admin"}} :
          /\ pairings' = InsertDevicePairing(pairings, p,
               [status |-> "pending", scopes |-> scopes, created |-> clock,
                expires |-> clock + PairingTTL, user |-> None, token |-> None, plaintext |-> FALSE])
          /\ opened' = opened \cup {p}
          /\ \E next \in {Off, [pc |-> "poll", pairing |-> p, deadline |-> clock + PairingTTL, token |-> None]} :
               login' = [login EXCEPT ![l] = next]
    BY <1>3 DEF Start
  <2>3. clock + PairingTTL \in Nat /\ scopes \in SUBSET Scopes
    BY <1>2, PairingAssumption, AccountsAssumption
  <2>4. [status |-> "pending", scopes |-> scopes, created |-> clock,
         expires |-> clock + PairingTTL, user |-> None, token |-> None, plaintext |-> FALSE] \in PairingRow
    BY <1>2, <2>3 DEF PairingRow, Statuses
  <2>5. pairings' \in [Pairings -> PairingRow \cup {None}]
    BY <2>2, <2>4 DEF InsertDevicePairing
  <2>6. [pc |-> "poll", pairing |-> p, deadline |-> clock + PairingTTL, token |-> None] \in LoginForm
    BY <2>3 DEF LoginForm, Polling
  <2>7. login' \in [Terminals -> LoginForm]
    BY <1>1, <2>2, <2>6, LoginNext
  <2> QED BY <1>3, <2>1, <2>2, <2>5, <2>7 DEF Start, LoginForm, Polling
<1>4. ASSUME Poll(l) \/ WriteToken(l) \/ WriteFails(l) \/ Receive(l) \/ GiveUp(l) PROVE AccountsTyped'
  BY <1>4, AccountsAlone DEF Poll, WriteToken, WriteFails, Receive, GiveUp, accountVars, vars, storeVars
<1>5. CASE Poll(l)
  <2> DEFINE p == login[l].pairing
             token == IF PollAnswer(p) = "token" THEN pairings[p].token ELSE None
  <2>1. login[l] \in Polling /\ p \in Pairings /\ login[l].pc = "poll"
    BY <1>1, <1>5, LoginForms DEF Poll, Polling
  <2>2. PollAnswer(p) \in Outcomes
    BY <2>1, PairingForms DEF PollAnswer, Outcomes, Statuses
  <2>3. token \in Tokens \cup {None}
    BY <2>1, PairingForms DEF PollAnswer
  <2>4. Answered(l, p) = [login[l] EXCEPT !.pc = PollAnswer(p), !.token = token]
    BY DEF Answered
  <2> HIDE DEF token
  <2>6. Answered(l, p) \in LoginForm
    BY <2>1, <2>2, <2>3, <2>4 DEF LoginForm, Polling
  <2>5. login' \in [Terminals -> LoginForm]
    BY <1>5, <2>6, LoginNext DEF Poll
  <2> QED BY <1>4, <1>5, <2>5, PairingsAlone DEF Poll, PairingsKept
<1>6. CASE WriteToken(l)
  <2>1. login[l] \in Polling
    BY <1>1, <1>6, LoginForms DEF WriteToken, Outcomes
  <2>2. [login[l] EXCEPT !.pc = "written"] \in LoginForm /\ login[l].pairing \in Pairings
    BY <2>1 DEF LoginForm, Polling
  <2>3. login' \in [Terminals -> LoginForm]
    BY <1>6, <2>2, LoginNext DEF WriteToken
  <2> QED BY <1>4, <1>6, <2>2, <2>3 DEF WriteToken, LoginForm, Polling
<1>7. ASSUME login[l].pc \in Outcomes \cup {"poll", "written"}
      PROVE  [login[l] EXCEPT !.pc = "poll", !.token = None] \in LoginForm
  <2>1. login[l] \in Polling
    BY <1>1, <1>7, LoginForms
  <2> QED BY <2>1 DEF LoginForm, Polling
<1>8. CASE WriteFails(l)
  <2>1. login' \in [Terminals -> LoginForm]
    BY <1>7, <1>8, LoginNext DEF WriteFails, Outcomes
  <2> QED BY <1>4, <1>8, <2>1, PairingsAlone DEF WriteFails, PairingsKept
<1>9. CASE Receive(l)
  <2>1. login' \in [Terminals -> LoginForm]
    BY <1>1, <1>7, <1>9, LoginNext DEF Receive
  <2>2. login[l].token \in Tokens \cup {None} \/ profile' = profile
    BY <1>1, <1>9, LoginForms DEF Receive, Polling
  <2>3. profile' \in [Terminals -> Tokens \cup {None}]
    BY <1>9, <2>2 DEF Receive
  <2> QED BY <1>4, <1>9, <2>1, <2>3, PairingsAlone DEF Receive, PairingsKept
<1>10. CASE GiveUp(l)
  <2>1. login' \in [Terminals -> LoginForm]
    BY <1>1, <1>10, LoginNext DEF GiveUp
  <2> QED BY <1>4, <1>10, <2>1, PairingsAlone DEF GiveUp, PairingsKept
<1> QED BY <1>3, <1>5, <1>6, <1>8, <1>9, <1>10

\* RevokeToken, when the request gets through.
LEMMA RevocationTyped ==
  ASSUME Known, AccountsTyped, NEW k, tokens' = tokens \/ tokens' = RevokeToken(tokens, k),
         UNCHANGED <<sessions, subs, touched, call, clock, enabled, histVars>>,
         \/ opsLeft' = opsLeft
         \/ opsLeft > 0 /\ opsLeft' = opsLeft - 1
  PROVE  AccountsTyped'
<1>1. CASE tokens' = tokens
  BY <1>1, AccountsAlone
<1>2. CASE tokens' = RevokeToken(tokens, k)
  <2>1. TokensGrow(tokens')
    BY <1>2, TokenColumn DEF RevokeToken
  <2>2. LateTyped'
    BY DEF AccountsTyped, LateTyped, histVars
  <2> QED BY <2>1, <2>2, AccountsTokens DEF histVars
<1> QED BY <1>1, <1>2

LEMMA TerminalTokenTyped ==
  ASSUME Known, AccountsTyped, PairingTypeOK, NEW l \in Terminals,
         \/ RevokeBearer(l) \/ DeleteProfile(l)
         \/ MintEphemeralListener(l) \/ RevokeEphemeralListener(l)
  PROVE  AccountsTyped' /\ PairingTypeOK'
<1>1. Off \in LoginForm /\ [pc |-> "logout"] \in LoginForm
  BY DEF LoginForm
<1>2. profile \in [Terminals -> Tokens \cup {None}] /\ PairingTypeOK
  BY DEF PairingTypeOK
<1>3. CASE RevokeBearer(l)
  <2>1. AccountsTyped'
    BY <1>3, RevocationTyped DEF RevokeBearer, Run
  <2>2. login' \in [Terminals -> LoginForm]
    BY <1>1, <1>3, LoginNext DEF RevokeBearer
  <2> QED BY <1>2, <1>3, <2>1, <2>2, PairingsAlone DEF RevokeBearer, PairingsKept
<1>4. CASE DeleteProfile(l)
  <2>1. AccountsTyped'
    BY <1>4, AccountsAlone DEF DeleteProfile, accountVars, vars, storeVars
  <2>2. login' \in [Terminals -> LoginForm]
    BY <1>1, <1>4, LoginNext DEF DeleteProfile
  <2>3. profile' \in [Terminals -> Tokens \cup {None}]
    BY <1>2, <1>4 DEF DeleteProfile
  <2> QED BY <1>4, <2>1, <2>2, <2>3, PairingsAlone DEF DeleteProfile, PairingsKept
<1>5. CASE MintEphemeralListener(l)
  <2> DEFINE owner == tokens[profile[l]].owner
             row == Issued(owner, "listener", TRUE, Scopes \ {"admin"})
  <2>1. PICK k \in Tokens :
          /\ tokens' = InsertToken(tokens, k, row) /\ Handed(k, owner)
          /\ \E next \in {Off, [pc |-> "forward", token |-> k]} : login' = [login EXCEPT ![l] = next]
    BY <1>5 DEF MintEphemeralListener
  <2>2. owner \in Users \cup {None}
    BY <1>5 DEF MintEphemeralListener, Accepted, ListActiveTokens, Known, TokensKnown, Keys
  <2>3. row \in TokenRow
    BY <2>2, IssuedRow
  <2> HIDE DEF row, owner
  <2>4. TokensGrow(tokens') /\ LateTyped'
    BY <2>1, <2>3, TokenInsertion, HandedTyped
  <2>5. AccountsTyped'
    BY <1>5, <2>4, AccountsTokens DEF MintEphemeralListener, Run
  <2>6. login' \in [Terminals -> LoginForm]
    <3>1. [pc |-> "forward", token |-> k] \in LoginForm
      BY DEF LoginForm
    <3> QED BY <1>1, <2>1, <3>1, LoginNext
  <2> QED BY <1>2, <1>5, <2>5, <2>6, PairingsAlone DEF MintEphemeralListener, PairingsKept
<1>6. CASE RevokeEphemeralListener(l)
  <2>1. tokens' = tokens \/ tokens' = RevokeToken(tokens, login[l].token)
    BY <1>6 DEF RevokeEphemeralListener
  <2>2. AccountsTyped'
    BY <1>6, <2>1, RevocationTyped DEF RevokeEphemeralListener
  <2>3. login' \in [Terminals -> LoginForm]
    BY <1>1, <1>6, LoginNext DEF RevokeEphemeralListener
  <2> QED BY <1>2, <1>6, <2>2, <2>3, PairingsAlone DEF RevokeEphemeralListener, PairingsKept
<1> QED BY <1>3, <1>4, <1>5, <1>6

LEMMA DecisionTyped ==
  ASSUME Known, AccountsTyped, PairingTypeOK, NEW c \in Callers, ApproveCore(c) \/ Approve(c) \/ Deny(c)
  PROVE  AccountsTyped' /\ PairingTypeOK'
<1> DEFINE Deciding == [pc : {"approve"}, pairing : Pairings, user : Users, scopes : SUBSET Scopes]
<1>1. approval \in [Callers -> {Idle} \cup Deciding] /\ DOMAIN pairings = Pairings
  BY DEF PairingTypeOK
<1>2. CASE ApproveCore(c)
  <2>1. AccountsTyped'
    BY <1>2, AccountsAnswer DEF ApproveCore
  <2>2. PICK p \in Keys(pairings) : \E scopes \in SUBSET (pairings[p].scopes \cap HeldScopes(c)) :
          approval' = [approval EXCEPT ![c] =
            [pc |-> "approve", pairing |-> p, user |-> call[c].as.user,
             scopes |-> IF scopes = {} THEN pairings[p].scopes ELSE scopes]]
    BY <1>2 DEF ApproveCore
  <2>3. p \in Pairings /\ pairings[p].scopes \subseteq Scopes
    BY <1>1, <2>2, PairingForms DEF Keys
  <2>4. call[c].as.user \in Users
    BY <1>2, HeldTyped DEF ApproveCore
  <2>5. approval' \in [Callers -> {Idle} \cup Deciding]
    BY <1>1, <2>2, <2>3, <2>4
  <2> QED BY <1>2, <2>1, <2>5 DEF ApproveCore, PairingTypeOK
<1>3. CASE Approve(c)
  <2> DEFINE p == approval[c].pairing
             u == approval[c].user
             row == Issued(u, "pat", FALSE, approval[c].scopes)
  <2>1. approval[c] \in Deciding
    BY <1>1, <1>3 DEF Approve, Idle
  <2>2. p \in Pairings /\ u \in Users /\ row \in TokenRow
    BY <2>1, IssuedRow
  <2>3. approval' \in [Callers -> {Idle} \cup Deciding]
    BY <1>1, <1>3 DEF Approve
  <2> HIDE DEF row
  <2>4. CASE \E k \in Tokens : /\ tokens' = InsertToken(tokens, k, row)
                               /\ pairings' = UpdateDevicePairingApproved(pairings, p, u, k)
                               /\ mintedFor' = [mintedFor EXCEPT ![k] = p]
                               /\ Handed(k, u)
    <3>1. PICK k \in Tokens : /\ tokens' = InsertToken(tokens, k, row)
                              /\ pairings' = UpdateDevicePairingApproved(pairings, p, u, k)
                              /\ mintedFor' = [mintedFor EXCEPT ![k] = p]
                              /\ Handed(k, u)
      BY <2>4
    <3>2. TokensGrow(tokens') /\ LateTyped'
      BY <2>2, <3>1, TokenInsertion, HandedTyped
    <3>3. AccountsTyped'
      BY <1>3, <3>2, AccountsTokens DEF Approve
    <3>4. pairings' \in PairingTable
      BY <2>2, <3>1, PairingUpdates
    <3>5. mintedFor' \in [Tokens -> Pairings \cup {None}]
      BY <2>2, <3>1 DEF PairingTypeOK
    <3> QED BY <1>3, <2>3, <3>3, <3>4, <3>5 DEF Approve, PairingTypeOK, PairingTable
  <2>5. CASE UNCHANGED <<tokens, pairings, mintedFor, late>>
    <3>1. AccountsTyped'
      BY <1>3, <2>5, AccountsAlone DEF Approve, histVars
    <3> QED BY <1>3, <2>3, <2>5, <3>1 DEF Approve, PairingTypeOK
  <2> QED BY <1>3, <2>4, <2>5 DEF Approve, ApproveDevicePairing, row
<1>4. CASE Deny(c)
  <2>1. AccountsTyped'
    BY <1>4, AccountsAnswer DEF Deny
  <2>2. call[c].as.user \in Users
    BY <1>4, HeldTyped DEF Deny
  <2>3. pairings' \in PairingTable
    BY <1>4, <2>2, PairingUpdates DEF Deny
  <2> QED BY <1>4, <2>1, <2>3 DEF Deny, PairingTypeOK, PairingTable
<1> QED BY <1>2, <1>3, <1>4

LEMMA PairingNextTyped ==
  ASSUME Known, AccountsTyped, PairingTypeOK, PairingNext
  PROVE  AccountsTyped' /\ PairingTypeOK'
<1>1. ASSUME pairings' \in PairingTable, marking' \subseteq marking,
             UNCHANGED <<approval, login, profile, opened, mintedFor, sent>>
      PROVE  PairingTypeOK'
  BY <1>1 DEF PairingTypeOK, PairingTable
<1>2. ASSUME NEW p \in Pairings, MarkFetched(p) PROVE AccountsTyped' /\ PairingTypeOK'
  <2>1. AccountsTyped'
    BY <1>2, AccountsAlone DEF MarkFetched, accountVars, vars, storeVars
  <2>2. pairings' \in PairingTable
    BY <1>2, PairingEnds DEF MarkFetched
  <2> QED BY <1>1, <1>2, <2>1, <2>2 DEF MarkFetched
<1>3. CASE SweepPairings
  <2>1. AccountsTyped'
    BY <1>3, AccountsAlone DEF SweepPairings, accountVars, vars, storeVars
  <2>2. ExpirePendingDevicePairings(pairings, clock) \in PairingTable
    BY PairingEnds
  <2>3. pairings' \in PairingTable
    BY <1>3, <2>2 DEF SweepPairings, DeleteOldDevicePairings, PairingTable
  <2> QED BY <1>1, <1>3, <2>1, <2>3 DEF SweepPairings
<1> QED BY <1>2, <1>3, TerminalTyped, TerminalTokenTyped, DecisionTyped DEF PairingNext

LEMMA PairingRestartTyped ==
  ASSUME PairingTypeOK, PairingRestart
  PROVE  PairingTypeOK'
<1>1. ASSUME NEW l \in Terminals PROVE login'[l] \in LoginForm
  <2>1. login[l] \in LoginForm
    BY DEF PairingTypeOK, LoginForm, Polling
  <2>2. CASE login[l].pc \in Outcomes \cup {"written"}
    <3>1. login[l] \in Polling
      BY <2>1, <2>2, LoginForms
    <3>2. [login[l] EXCEPT !.pc = "poll", !.token = None] \in LoginForm
      BY <3>1 DEF LoginForm, Polling
    <3> QED BY <2>2, <3>2 DEF PairingRestart
  <2> QED BY <2>1, <2>2 DEF PairingRestart
<1>2. login' \in [Terminals -> LoginForm]
  BY <1>1 DEF PairingRestart
<1> QED BY <1>2 DEF PairingRestart, PairingTypeOK, LoginForm, Polling

-----------------------------------------------------------------------------
(* The types of the whole.                                                 *)

LEMMA TypesStep ==
  ASSUME Known, Types, [EnrolmentNext]_enrolmentVars
  PROVE  Types'
<1>1. InvitesTypeOK /\ UNCHANGED inviteVars => InvitesTypeOK'
  BY DEF InvitesTypeOK, inviteVars
<1>2. PairingTypeOK /\ UNCHANGED pairingVars => PairingTypeOK'
  BY DEF PairingTypeOK, pairingVars
<1>3. CASE Serve /\ UNCHANGED <<inviteVars, pairingVars, finished, limitVars>>
  BY <1>1, <1>2, <1>3, ServeTyped DEF Types
<1>4. CASE InvitesNext /\ UNCHANGED <<pairingVars, finished, limitVars>>
  BY <1>2, <1>4, InvitesNextTyped DEF Types
<1>5. CASE PairingNext /\ UNCHANGED <<inviteVars, finished, limitVars>>
  BY <1>1, <1>5, PairingNextTyped DEF Types
<1>6. CASE HooksctlNext /\ UNCHANGED <<inviteVars, limitVars>>
  <2>1. UNCHANGED pairingVars
    BY <1>6, HooksctlQuiet
  <2>2. AccountsTyped'
    BY <1>6, HooksctlNextStep DEF Types, inviteVars
  <2> QED BY <1>1, <1>2, <1>6, <2>1, <2>2 DEF Types
<1>7. CASE UNCHANGED <<vars, inviteVars, pairingVars>>
  <2>1. AccountsTyped'
    BY <1>7, AccountsAlone DEF Types, vars, storeVars
  <2> QED BY <1>1, <1>2, <1>7, <2>1 DEF Types
<1>8. CASE ServerRestart
  <2>1. AccountsTyped' /\ PairingTypeOK'
    BY <1>8, RestartTyped, PairingRestartTyped DEF ServerRestart, Types
  <2>2. InvitesTypeOK'
    BY <1>8 DEF ServerRestart, Types, InvitesRestart, InvitesTypeOK
  <2> QED BY <2>1, <2>2 DEF Types
<1> QED BY <1>3, <1>4, <1>5, <1>6, <1>7, <1>8 DEF EnrolmentNext, enrolmentVars

LEMMA InitTypes ==
  ASSUME EnrolmentInit
  PROVE  Types
<1>0. CountsTyped
  <2>1. enabled \in DOMAIN Scenarios /\ clock = 0 /\ opsLeft = Scenarios[enabled].ops
    BY DEF EnrolmentInit, Init
  <2>2. Scenarios[enabled].ops \in Nat /\ Scenarios[enabled].time \in Nat
    BY <2>1, AccountsAssumption
  <2> QED BY <2>1, <2>2 DEF CountsTyped
<1> USE AccountsAssumption DEF EnrolmentInit, Init
<1>1. SessionsTyped
  <2>1. SessionTTL \in Nat /\ InitialSessions \in [Sessions -> Users \cup {None}]
    OBVIOUS
  <2>2. ASSUME NEW u \in Users PROVE [user |-> u, lastUsed |-> 0, expires |-> SessionTTL] \in SessionRow
    BY <2>1 DEF SessionRow
  <2> DEFINE T == [s \in Sessions |->
                     IF InitialSessions[s] = None THEN None
                     ELSE [user |-> InitialSessions[s], lastUsed |-> 0, expires |-> SessionTTL]]
  <2>3. T \in [Sessions -> SessionRow \cup {None}]
    BY <2>1, <2>2
  <2>4. sessions = AtStart(T)
    OBVIOUS
  <2> HIDE DEF T
  <2> QED BY <2>3, <2>4 DEF SessionsTyped, AtStart
<1>2. TokensTyped /\ SubsTyped
  BY DEF TokensTyped, SubsTyped, AtStart
<1>3. CallsTyped
  BY IdleForm DEF CallsTyped
<1>5. HistoryTyped /\ UsesTyped /\ LateTyped
  BY DEF HistoryTyped, UsesTyped, LateTyped
<1>6. InvitesTypeOK
  BY DEF InvitesInit, InvitesTypeOK
<1>7. PairingTypeOK
  <2>1. Off \in LoginForm
    BY DEF LoginForm
  <2>2. login \in [Terminals -> LoginForm] /\ profile \in [Terminals -> Tokens \cup {None}]
    BY <2>1, PairingAssumption DEF PairingInit
  <2> QED BY <2>2 DEF PairingInit, PairingTypeOK, LoginForm, Polling
<1> QED BY <1>0, <1>1, <1>2, <1>3, <1>5, <1>6, <1>7 DEF AccountsTyped, Types

\* Handlers and commands under way are of the forms the code has, tables keep their
\* columns, and a request that is to record a token's use has the token's row.
THEOREM EnrolmentTypes == EnrolmentSpec => []Types
<1>1. EnrolmentInit => Types
  BY InitTypes
<1>2. Known /\ Types /\ [EnrolmentNext]_enrolmentVars => Types'
  BY TypesStep
<1> QED BY <1>1, <1>2, EnrolmentInvariance, PTL DEF EnrolmentSpec

-----------------------------------------------------------------------------
(* What the exit code of a command says.                                   *)

Silent(o) == o.tokens = tokens /\ o.subs = subs

Refused(o) == Silent(o) /\ o.status \in {400, 401, 403, 404, 500, 502}

\* An expected status comes with what the command is for, and another answer that is
\* not a failure of the server with nothing.
Tells(R, expected, goal) ==
  \A o \in R : /\ o.status \in expected => o \in goal
               /\ o.status \in 200..499 /\ o.status \notin expected => Silent(o)

LEMMA CommandTells ==
  ASSUME NEW l, NEW name, NEW k, NEW R, NEW expected \in SUBSET {200, 201, 204}, NEW goal,
         Tells(R, expected, goal), Command(l, name, k, R, expected, goal)
  PROVE  ExitTellsOutcome'
<1>1. PICK o \in R \cup {Reply(0)} : \E arrives \in BOOLEAN :
        finished' =
          [name |-> name, admin |-> "admin" \in tokens[k].scopes /\ ~tokens[k].revoked,
           status |-> IF arrives THEN o.status ELSE 0,
           code |-> IF arrives /\ o.status \in expected THEN 0 ELSE 1,
           reached |-> o \in goal, changed |-> o.tokens # tokens \/ o.subs # subs]
  BY DEF Command
<1>2. PICK arrives \in BOOLEAN :
        finished' =
          [name |-> name, admin |-> "admin" \in tokens[k].scopes /\ ~tokens[k].revoked,
           status |-> IF arrives THEN o.status ELSE 0,
           code |-> IF arrives /\ o.status \in expected THEN 0 ELSE 1,
           reached |-> o \in goal, changed |-> o.tokens # tokens \/ o.subs # subs]
  BY <1>1
<1>3. o \in R \/ (o.status = 0 /\ Silent(o))
  BY DEF Reply, Silent
<1>4. /\ o.status \in expected => o \in goal
      /\ o.status \in 200..499 /\ o.status \notin expected => Silent(o)
  BY <1>3 DEF Tells
<1>5. /\ finished'.status = IF arrives THEN o.status ELSE 0
      /\ finished'.code = IF arrives /\ o.status \in expected THEN 0 ELSE 1
      /\ finished'.reached <=> o \in goal
      /\ finished'.changed <=> ~Silent(o)
  BY <1>2 DEF Silent
<1> QED BY <1>4, <1>5 DEF ExitTellsOutcome

\* Every outcome is a refusal, or one of W.
Either(R, W) == \A o \in R : Refused(o) \/ o \in W

LEMMA Replies ==
  /\ \A status : Reply(status).status = status /\ Silent(Reply(status))
  /\ \A status \in {400, 401, 403, 404, 500, 502} : Refused(Reply(status))
BY DEF Reply, Silent, Refused

\* What a guard adds to the outcomes are refusals.
LEMMA GuardsTell ==
  ASSUME NEW k, NEW R, NEW W
  PROVE  /\ (Accepted(k) => Either(R, W)) => Either(AsPersonal(k, R), W)
         /\ Either(R, W) => Either(AsAdmin(k, R), W)
         /\ Either(AsInviteAdmin(k), W)
         /\ \A n : (tokens[n] # None => Either(R, W)) => Either(OwnToken(k, n, R), W)
         /\ \A s : (subs[s] # None => Either(R, W)) => Either(OwnSub(k, s, R), W)
         /\ \A row : (row # None => Either(R, W)) => Either(Existing(row, R), W)
<1>1. Refused(Reply(401)) /\ Refused(Reply(403)) /\ Refused(Reply(404))
  BY Replies
<1> QED BY <1>1 DEF Either, AsPersonal, AsAdmin, AsInviteAdmin, OwnToken, OwnSub, Existing

\* What a write leaves behind.
LEMMA TokenAdded ==
  ASSUME AccountsTyped, NEW n \in Fresh(tokens), NEW row \in TokenRow
  PROVE  WithToken(n, row).status = 201 /\ Keys(WithToken(n, row).tokens) \ Keys(tokens) # {}
<1>1. WithToken(n, row).status = 201 /\ WithToken(n, row).tokens = InsertToken(tokens, n, row)
  BY DEF WithToken, Reply
<1>2. n \in Keys(InsertToken(tokens, n, row)) /\ n \notin Keys(tokens)
  BY AccountsAssumption DEF InsertToken, Keys, Fresh
<1> QED BY <1>1, <1>2

LEMMA SubAdded ==
  ASSUME AccountsTyped, NEW s \in Fresh(subs), NEW row \in SubRow
  PROVE  WithSub(s, row).status = 201 /\ Keys(WithSub(s, row).subs) \ Keys(subs) # {}
<1>1. WithSub(s, row).status = 201 /\ WithSub(s, row).subs = InsertPush(subs, s, row)
  BY DEF WithSub, Reply
<1>2. s \in Keys(InsertPush(subs, s, row)) /\ s \notin Keys(subs)
  BY AccountsAssumption DEF InsertPush, Keys, Fresh
<1> QED BY <1>1, <1>2

LEMMA TokenEnded ==
  ASSUME AccountsTyped, NEW n \in Tokens, tokens[n] # None
  PROVE  RevokeToken(tokens, n)[n] # None /\ RevokeToken(tokens, n)[n].revoked
<1>1. tokens[n] \in TokenRow
  BY DEF AccountsTyped, TokensTyped
<1>2. [tokens[n] EXCEPT !["revoked"] = TRUE] \in TokenRow /\ [tokens[n] EXCEPT !["revoked"] = TRUE].revoked
  BY <1>1 DEF TokenRow
<1>3. RevokeToken(tokens, n)[n] = [tokens[n] EXCEPT !["revoked"] = TRUE]
  BY DEF RevokeToken, Update, AccountsTyped, TokensTyped
<1> QED BY <1>2, <1>3, AccountsAssumption

LEMMA SubWritten ==
  ASSUME AccountsTyped, NEW s \in Subs, subs[s] # None
  PROVE  /\ PausePush(subs, s)[s] # None /\ PausePush(subs, s)[s].paused = TRUE
         /\ ResumePush(subs, s)[s] # None /\ ResumePush(subs, s)[s].paused = FALSE
         /\ DeletePush(subs, s)[s] = None
<1>1. subs[s] \in SubRow /\ DOMAIN subs = Subs
  BY DEF AccountsTyped, SubsTyped
<1>2. ASSUME NEW paused \in BOOLEAN
      PROVE  /\ Update(subs, s, "paused", paused)[s] # None
             /\ Update(subs, s, "paused", paused)[s].paused = paused
  <2>1. /\ [subs[s] EXCEPT !["paused"] = paused] \in SubRow
        /\ [subs[s] EXCEPT !["paused"] = paused].paused = paused
    BY <1>1 DEF SubRow
  <2>2. Update(subs, s, "paused", paused)[s] = [subs[s] EXCEPT !["paused"] = paused]
    BY <1>1 DEF Update
  <2> QED BY <2>1, <2>2, AccountsAssumption
<1> QED BY <1>1, <1>2 DEF PausePush, ResumePush, DeletePush

LEMMA WithSubsForm ==
  ASSUME NEW status, NEW S
  PROVE  WithSubs(status, S).status = status /\ WithSubs(status, S).subs = S
BY DEF WithSubs, Reply

\* A query changes nothing, and any outcome is what it is for.
LEMMA QueryTells ==
  ASSUME NEW R, NEW expected, Either(R, {Reply(200), Reply(204)})
  PROVE  Tells(R, expected, R)
BY Replies DEF Either, Refused, Tells

LEMMA QueriesTell ==
  ASSUME NEW k, NEW s, NEW expected
  PROVE  /\ Tells(GetMe(k), expected, GetMe(k))
         /\ Tells(GetMeTokens(k), expected, GetMeTokens(k))
         /\ Tells(GetMeSubs(k), expected, GetMeSubs(k))
         /\ Tells(GetMeSub(k, s), expected, GetMeSub(k, s))
         /\ Tells(RotateMeSub(k, s), expected, RotateMeSub(k, s))
         /\ Tells(TestMeSub(k, s), expected, TestMeSub(k, s))
         /\ Tells(GetTokens(k), expected, GetTokens(k))
         /\ Tells(GetPushes(k), expected, GetPushes(k))
         /\ Tells(GetPush(k, s), expected, GetPush(k, s))
         /\ Tells(RotatePushSub(k, s), expected, RotatePushSub(k, s))
         /\ Tells(TestPushSub(k, s), expected, TestPushSub(k, s))
         /\ Tells(AsInviteAdmin(k), expected, AsInviteAdmin(k))
<1> DEFINE Asked == {Reply(200), Reply(204)}
           A == {Reply(200)}
           B == {Reply(200), Reply(500)}
           C == {Reply(500), Reply(200)}
           D == {Reply(502), Reply(204)}
           E == {Reply(502)} \cup IF subs[s] = None THEN {} ELSE {Reply(204)}
<1>1. Either(A, Asked) /\ Either(B, Asked) /\ Either(C, Asked) /\ Either(D, Asked) /\ Either(E, Asked)
  BY Replies DEF Either
<1>2. /\ GetMe(k) = AsPersonal(k, A) /\ GetMeTokens(k) = AsPersonal(k, B) /\ GetMeSubs(k) = AsPersonal(k, B)
      /\ GetMeSub(k, s) = AsPersonal(k, OwnSub(k, s, A))
      /\ RotateMeSub(k, s) = AsPersonal(k, OwnSub(k, s, C))
      /\ TestMeSub(k, s) = AsPersonal(k, OwnSub(k, s, D))
      /\ GetTokens(k) = AsAdmin(k, B) /\ GetPushes(k) = AsAdmin(k, B)
      /\ GetPush(k, s) = AsAdmin(k, Existing(subs[s], B))
      /\ RotatePushSub(k, s) = AsAdmin(k, Existing(subs[s], C))
      /\ TestPushSub(k, s) = AsAdmin(k, E)
  BY DEF GetMe, GetMeTokens, GetMeSubs, GetMeSub, RotateMeSub, TestMeSub, GetTokens, GetPushes, GetPush,
         RotatePushSub, TestPushSub
<1>3. \A R : Either(R, Asked) => Tells(R, expected, R)
  BY QueryTells
<1> HIDE DEF Asked, A, B, C, D, E
<1>4. /\ Either(OwnSub(k, s, A), Asked) /\ Either(OwnSub(k, s, C), Asked) /\ Either(OwnSub(k, s, D), Asked)
      /\ Either(Existing(subs[s], B), Asked) /\ Either(Existing(subs[s], C), Asked)
  BY <1>1, GuardsTell
<1>5. /\ Either(GetMe(k), Asked) /\ Either(GetMeTokens(k), Asked) /\ Either(GetMeSubs(k), Asked)
      /\ Either(GetMeSub(k, s), Asked) /\ Either(RotateMeSub(k, s), Asked) /\ Either(TestMeSub(k, s), Asked)
  BY <1>1, <1>2, <1>4, GuardsTell
<1>6. /\ Either(GetTokens(k), Asked) /\ Either(GetPushes(k), Asked) /\ Either(AsInviteAdmin(k), Asked)
      /\ Either(GetPush(k, s), Asked) /\ Either(RotatePushSub(k, s), Asked) /\ Either(TestPushSub(k, s), Asked)
  BY <1>1, <1>2, <1>4, GuardsTell
<1> QED BY <1>3, <1>5, <1>6

\* The commands that create a row.
LEMMA CreatesTell ==
  ASSUME NEW R, NEW W
  PROVE  /\ /\ Either(R, W)
            /\ \A o \in W : o.status = 201 /\ Keys(o.tokens) \ Keys(tokens) # {}
            => Tells(R, {201}, NewToken(R))
         /\ /\ Either(R, W)
            /\ \A o \in W : o.status = 201 /\ Keys(o.subs) \ Keys(subs) # {}
            => Tells(R, {201}, NewSub(R))
<1>1. ASSUME NEW o, Refused(o) PROVE o.status # 201 /\ Silent(o)
  BY <1>1 DEF Refused
<1> QED BY <1>1 DEF Either, Tells, NewToken, NewSub

LEMMA PostMeTokensTells ==
  ASSUME Known, AccountsTyped, NEW k
  PROVE  Tells(PostMeTokens(k), {201}, NewToken(PostMeTokens(k)))
<1> DEFINE u == tokens[k].owner
           row(kind) == Issued(u, kind, FALSE, Held(u))
           Rest == IF Held(u) = {} THEN {Reply(403)}
                   ELSE {WithToken(n, row(kind)) :
                           n \in Fresh(tokens), kind \in {"pat", "listener"}}
           W == {WithToken(n, r) : n \in Fresh(tokens), r \in TokenRow}
<1>1. ASSUME Accepted(k) PROVE Either(Fails \cup Rest, W)
  <2>1. u \in Users /\ Held(u) \subseteq Scopes
    BY <1>1 DEF Accepted, ListActiveTokens, IsActive, Known, TokensKnown, Keys, Held, UserRow
  <2>2. \A kind \in {"pat", "listener"} : row(kind) \in TokenRow
    BY <2>1, IssuedRow
  <2> HIDE DEF u, row
  <2>3. \A o \in Rest : Refused(o) \/ o \in W
    BY <2>2, Replies
  <2>4. \A o \in Fails : Refused(o)
    BY Replies DEF Fails
  <2> HIDE DEF Rest, W
  <2> QED BY <2>3, <2>4 DEF Either
<1>2. \A o \in W : o.status = 201 /\ Keys(o.tokens) \ Keys(tokens) # {}
  BY TokenAdded
<1>3. PostMeTokens(k) = AsPersonal(k, Fails \cup Rest)
  BY DEF PostMeTokens
<1> HIDE DEF row, Rest, W
<1>4. Either(PostMeTokens(k), W)
  BY <1>1, <1>3, GuardsTell
<1> QED BY <1>2, <1>4, CreatesTell

LEMMA PostTokensTells ==
  ASSUME AccountsTyped, NEW k
  PROVE  Tells(PostTokens(k), {201}, NewToken(PostTokens(k)))
<1> DEFINE row == Issued(None, "listener", FALSE, Scopes)
           Rest == {WithToken(n, row) : n \in Fresh(tokens)}
           W == {WithToken(n, r) : n \in Fresh(tokens), r \in TokenRow}
<1>1. row \in TokenRow
  BY IssuedRow
<1>2. Either(Fails \cup Rest, W)
  <2>1. \A o \in Fails : Refused(o)
    BY Replies DEF Fails
  <2> HIDE DEF row
  <2>2. \A o \in Rest : o \in W
    BY <1>1
  <2> HIDE DEF Rest, W
  <2> QED BY <2>1, <2>2 DEF Either
<1>3. \A o \in W : o.status = 201 /\ Keys(o.tokens) \ Keys(tokens) # {}
  BY TokenAdded
<1>4. PostTokens(k) = AsAdmin(k, Fails \cup Rest)
  BY DEF PostTokens
<1> HIDE DEF row, Rest, W
<1>5. Either(PostTokens(k), W)
  BY <1>2, <1>4, GuardsTell
<1> QED BY <1>3, <1>5, CreatesTell

LEMMA SubAddsTell ==
  ASSUME Known, AccountsTyped, NEW k
  PROVE  /\ Tells(PostMeSubs(k), {201}, NewSub(PostMeSubs(k)))
         /\ Tells(PostPushes(k), {201}, NewSub(PostPushes(k)))
<1> DEFINE mine == [owner |-> tokens[k].owner, paused |-> FALSE]
           global == [owner |-> None, paused |-> FALSE]
           Mine == IF Held(tokens[k].owner) \ {"admin"} = {} THEN {Reply(403)}
                   ELSE {WithSub(s, mine) : s \in Fresh(subs)}
           Global == {WithSub(s, global) : s \in Fresh(subs)}
           W == {WithSub(s, r) : s \in Fresh(subs), r \in SubRow}
<1>1. \A o \in Fails : Refused(o)
  BY Replies DEF Fails
<1>2. Accepted(k) => mine \in SubRow
  <2>1. Accepted(k) => tokens[k].owner \in Users
    BY DEF Accepted, ListActiveTokens, IsActive, Known, TokensKnown, Keys
  <2> QED BY <2>1 DEF SubRow
<1>3. global \in SubRow
  BY DEF SubRow
<1>4. \A o \in W : o.status = 201 /\ Keys(o.subs) \ Keys(subs) # {}
  BY SubAdded
<1>5. PostMeSubs(k) = AsPersonal(k, Fails \cup Mine) /\ PostPushes(k) = AsAdmin(k, Fails \cup Global)
  BY DEF PostMeSubs, PostPushes
<1> HIDE DEF mine, global
<1>6. ASSUME Accepted(k), NEW o \in Mine PROVE Refused(o) \/ o \in W
  BY <1>2, <1>6, Replies
<1>7. \A o \in Global : o \in W
  BY <1>3
<1> HIDE DEF Mine, Global, W
<1>8. (Accepted(k) => Either(Fails \cup Mine, W)) /\ Either(Fails \cup Global, W)
  BY <1>1, <1>6, <1>7 DEF Either
<1>9. Either(PostMeSubs(k), W) /\ Either(PostPushes(k), W)
  BY <1>5, <1>8, GuardsTell
<1> QED BY <1>4, <1>9, CreatesTell

\* The commands that write a row: a resumed subscription may come with a failure.
LEMMA RevokesTell ==
  ASSUME AccountsTyped, NEW k, NEW n \in Tokens
  PROVE  /\ Tells(PostMeTokenRevoke(k, n), {204}, Revoked(PostMeTokenRevoke(k, n), n))
         /\ Tells(PostTokenRevoke(k, n), {204}, Revoked(PostTokenRevoke(k, n), n))
<1> DEFINE X == [Reply(204) EXCEPT !.tokens = RevokeToken(tokens, n)]
           R == {Reply(500), X}
           W == {o \in {X} : tokens[n] # None}
<1>1. \A o \in W : o.status = 204 /\ o.tokens[n] # None /\ o.tokens[n].revoked
  <2>1. X.status = 204 /\ X.tokens = RevokeToken(tokens, n)
    BY DEF Reply
  <2> HIDE DEF X
  <2> QED BY <2>1, TokenEnded
<1>2. /\ PostMeTokenRevoke(k, n) = AsPersonal(k, OwnToken(k, n, R))
      /\ PostTokenRevoke(k, n) = AsAdmin(k, Existing(tokens[n], R))
  BY DEF PostMeTokenRevoke, PostTokenRevoke
<1> HIDE DEF X
<1>3. tokens[n] # None => Either(R, W)
  BY Replies DEF Either
<1> HIDE DEF R, W
<1>4. Either(OwnToken(k, n, R), W) /\ Either(Existing(tokens[n], R), W)
  BY <1>3, GuardsTell
<1>5. Either(PostMeTokenRevoke(k, n), W) /\ Either(PostTokenRevoke(k, n), W)
  BY <1>2, <1>4, GuardsTell
<1>6. ASSUME NEW T, Either(T, W) PROVE Tells(T, {204}, Revoked(T, n))
  <2>1. ASSUME NEW o, Refused(o) PROVE o.status # 204 /\ Silent(o)
    BY <2>1 DEF Refused
  <2> QED BY <1>1, <1>6, <2>1 DEF Either, Tells, Revoked
<1> QED BY <1>5, <1>6

LEMMA PausesTell ==
  ASSUME AccountsTyped, NEW k, NEW s \in Subs
  PROVE  /\ Tells(PauseMeSub(k, s), {200, 204}, Paused(PauseMeSub(k, s), s, TRUE))
         /\ Tells(PausePushSub(k, s), {200, 204}, Paused(PausePushSub(k, s), s, TRUE))
<1> DEFINE X == WithSubs(204, PausePush(subs, s))
           R == {Reply(500), X}
           W == {o \in {X} : subs[s] # None}
<1>1. \A o \in W : o.status = 204 /\ o.subs[s] # None /\ o.subs[s].paused = TRUE
  <2>1. X.status = 204 /\ X.subs = PausePush(subs, s)
    BY WithSubsForm
  <2>2. ASSUME subs[s] # None PROVE PausePush(subs, s)[s] # None /\ PausePush(subs, s)[s].paused = TRUE
    BY <2>2, SubWritten, Zenon
  <2> HIDE DEF X
  <2> QED BY <2>1, <2>2
<1>2. /\ PauseMeSub(k, s) = AsPersonal(k, OwnSub(k, s, R))
      /\ PausePushSub(k, s) = AsAdmin(k, Existing(subs[s], R))
  BY DEF PauseMeSub, PausePushSub
<1> HIDE DEF X
<1>3. subs[s] # None => Either(R, W)
  BY Replies DEF Either
<1> HIDE DEF R, W
<1>4. Either(OwnSub(k, s, R), W) /\ Either(Existing(subs[s], R), W)
  BY <1>3, GuardsTell
<1>5. Either(PauseMeSub(k, s), W) /\ Either(PausePushSub(k, s), W)
  BY <1>2, <1>4, GuardsTell
<1>6. ASSUME NEW T, Either(T, W) PROVE Tells(T, {200, 204}, Paused(T, s, TRUE))
  <2>1. ASSUME NEW o, Refused(o) PROVE o.status \notin {200, 204} /\ Silent(o)
    BY <2>1 DEF Refused
  <2> QED BY <1>1, <1>6, <2>1 DEF Either, Tells, Paused
<1> QED BY <1>5, <1>6

LEMMA ResumesTell ==
  ASSUME AccountsTyped, NEW k, NEW s \in Subs
  PROVE  /\ Tells(ResumeMeSub(k, s), {200, 204}, Paused(ResumeMeSub(k, s), s, FALSE))
         /\ Tells(ResumePushSub(k, s), {200, 204}, Paused(ResumePushSub(k, s), s, FALSE))
<1> DEFINE X == WithSubs(204, ResumePush(subs, s))
           F == WithSubs(500, ResumePush(subs, s))
           R == {Reply(500), F, X}
           W == {o \in {F, X} : subs[s] # None}
<1>1. \A o \in W : o.status = 500 \/ (o.status = 204 /\ o.subs[s] # None /\ o.subs[s].paused = FALSE)
  <2>1. F.status = 500 /\ X.status = 204 /\ X.subs = ResumePush(subs, s)
    BY WithSubsForm
  <2>2. ASSUME subs[s] # None PROVE ResumePush(subs, s)[s] # None /\ ResumePush(subs, s)[s].paused = FALSE
    BY <2>2, SubWritten, Zenon
  <2>3. subs[s] # None => X.subs[s] # None /\ X.subs[s].paused = FALSE
    BY <2>1, <2>2
  <2> HIDE DEF X, F
  <2> QED BY <2>1, <2>3
<1>2. /\ ResumeMeSub(k, s) = AsPersonal(k, OwnSub(k, s, R))
      /\ ResumePushSub(k, s) = AsAdmin(k, Existing(subs[s], R))
  BY DEF ResumeMeSub, ResumePushSub
<1> HIDE DEF X, F
<1>3. subs[s] # None => Either(R, W)
  BY Replies DEF Either
<1> HIDE DEF R, W
<1>4. Either(OwnSub(k, s, R), W) /\ Either(Existing(subs[s], R), W)
  BY <1>3, GuardsTell
<1>5. Either(ResumeMeSub(k, s), W) /\ Either(ResumePushSub(k, s), W)
  BY <1>2, <1>4, GuardsTell
<1>6. ASSUME NEW T, Either(T, W) PROVE Tells(T, {200, 204}, Paused(T, s, FALSE))
  <2>1. ASSUME NEW o, Refused(o) PROVE o.status \notin {200, 204} /\ Silent(o)
    BY <2>1 DEF Refused
  <2> QED BY <1>1, <1>6, <2>1 DEF Either, Tells, Paused
<1> QED BY <1>5, <1>6

LEMMA DeletesTell ==
  ASSUME AccountsTyped, NEW k, NEW s \in Subs
  PROVE  /\ Tells(DeleteMeSub(k, s), {204}, Gone(DeleteMeSub(k, s), s))
         /\ Tells(DeletePushSub(k, s), {204}, Gone(DeletePushSub(k, s), s))
<1> DEFINE X == WithSubs(204, DeletePush(subs, s))
           R == {Reply(500), X}
           W == {o \in {X} : subs[s] # None}
<1>1. \A o \in W : o.status = 204 /\ o.subs[s] = None
  <2>1. X.status = 204 /\ X.subs = DeletePush(subs, s)
    BY WithSubsForm
  <2>2. ASSUME subs[s] # None PROVE DeletePush(subs, s)[s] = None
    BY <2>2, SubWritten, Zenon
  <2> HIDE DEF X
  <2> QED BY <2>1, <2>2
<1>2. /\ DeleteMeSub(k, s) = AsPersonal(k, OwnSub(k, s, R))
      /\ DeletePushSub(k, s) = AsAdmin(k, Existing(subs[s], R))
  BY DEF DeleteMeSub, DeletePushSub
<1> HIDE DEF X
<1>3. subs[s] # None => Either(R, W)
  BY Replies DEF Either
<1> HIDE DEF R, W
<1>4. Either(OwnSub(k, s, R), W) /\ Either(Existing(subs[s], R), W)
  BY <1>3, GuardsTell
<1>5. Either(DeleteMeSub(k, s), W) /\ Either(DeletePushSub(k, s), W)
  BY <1>2, <1>4, GuardsTell
<1>6. ASSUME NEW T, Either(T, W) PROVE Tells(T, {204}, Gone(T, s))
  <2>1. ASSUME NEW o, Refused(o) PROVE o.status # 204 /\ Silent(o)
    BY <2>1 DEF Refused
  <2> QED BY <1>1, <1>6, <2>1 DEF Either, Tells, Gone
<1> QED BY <1>5, <1>6

LEMMA MeCommandTells ==
  ASSUME Known, AccountsTyped, NEW l, NEW k, CmdMe(l, k)
  PROVE  ExitTellsOutcome'
<1> DEFINE S == SUBSET {200, 201, 204}
<1>0. {200} \in S /\ {201} \in S /\ {204} \in S /\ {200, 204} \in S
  OBVIOUS
<1> HIDE DEF S
<1>c. ASSUME NEW name, NEW R, NEW expected \in S, NEW goal,
             Tells(R, expected, goal), Command(l, name, k, R, expected, goal)
      PROVE  ExitTellsOutcome'
  BY <1>c, CommandTells DEF S
<1>1. CASE MeTokenAdd(l, k)
  BY <1>0, <1>1, <1>c, PostMeTokensTells DEF MeTokenAdd
<1>2. CASE MeTokenList(l, k)
  BY <1>0, <1>2, <1>c, QueriesTell DEF MeTokenList, Query
<1>3. CASE MeSubAdd(l, k)
  BY <1>0, <1>3, <1>c, SubAddsTell DEF MeSubAdd
<1>4. CASE MeSubList(l, k)
  BY <1>0, <1>4, <1>c, QueriesTell DEF MeSubList, Query
<1>5. ASSUME NEW n \in Tokens, MeTokenRevoke(l, k, n) PROVE ExitTellsOutcome'
  BY <1>0, <1>5, <1>c, RevokesTell DEF MeTokenRevoke
<1>6. ASSUME NEW s \in Subs, MeSubGet(l, k, s) PROVE ExitTellsOutcome'
  BY <1>0, <1>6, <1>c, QueriesTell DEF MeSubGet, Query
<1>7. ASSUME NEW s \in Subs, MeSubAction(l, k, s) PROVE ExitTellsOutcome'
  <2>1. CASE Command(l, "me sub pause", k, PauseMeSub(k, s), {200, 204}, Paused(PauseMeSub(k, s), s, TRUE))
    BY <1>0, <2>1, <1>c, PausesTell
  <2>2. CASE Command(l, "me sub resume", k, ResumeMeSub(k, s), {200, 204}, Paused(ResumeMeSub(k, s), s, FALSE))
    BY <1>0, <2>2, <1>c, ResumesTell
  <2>3. CASE Query(l, "me sub test", k, TestMeSub(k, s), {200, 204})
    BY <1>0, <2>3, <1>c, QueriesTell DEF Query
  <2> QED BY <1>7, <2>1, <2>2, <2>3 DEF MeSubAction
<1>8. ASSUME NEW s \in Subs, MeSubRotate(l, k, s) PROVE ExitTellsOutcome'
  BY <1>0, <1>8, <1>c, QueriesTell DEF MeSubRotate, Query
<1>9. ASSUME NEW s \in Subs, MeSubDelete(l, k, s) PROVE ExitTellsOutcome'
  BY <1>0, <1>9, <1>c, DeletesTell DEF MeSubDelete
<1> QED BY <1>1, <1>2, <1>3, <1>4, <1>5, <1>6, <1>7, <1>8, <1>9 DEF CmdMe

LEMMA AdminCommandTells ==
  ASSUME Known, AccountsTyped, NEW l, NEW k, CmdToken(l, k) \/ CmdPush(l, k) \/ CmdInvite(l, k)
  PROVE  ExitTellsOutcome'
<1> DEFINE S == SUBSET {200, 201, 204}
<1>0. {200} \in S /\ {201} \in S /\ {204} \in S /\ {200, 204} \in S
  OBVIOUS
<1> HIDE DEF S
<1>c. ASSUME NEW name, NEW R, NEW expected \in S, NEW goal,
             Tells(R, expected, goal), Command(l, name, k, R, expected, goal)
      PROVE  ExitTellsOutcome'
  BY <1>c, CommandTells DEF S
<1>1. CASE CmdToken(l, k)
  <2>1. CASE TokenAdd(l, k)
    BY <1>0, <2>1, <1>c, PostTokensTells DEF TokenAdd
  <2>2. CASE TokenList(l, k)
    BY <1>0, <2>2, <1>c, QueriesTell DEF TokenList, Query
  <2>3. ASSUME NEW n \in Tokens, TokenRevoke(l, k, n) PROVE ExitTellsOutcome'
    BY <1>0, <2>3, <1>c, RevokesTell DEF TokenRevoke
  <2> QED BY <1>1, <2>1, <2>2, <2>3 DEF CmdToken
<1>2. CASE CmdPush(l, k)
  <2>1. CASE PushAdd(l, k)
    BY <1>0, <2>1, <1>c, SubAddsTell DEF PushAdd
  <2>2. CASE PushList(l, k)
    BY <1>0, <2>2, <1>c, QueriesTell DEF PushList, Query
  <2>3. ASSUME NEW s \in Subs, PushSimpleGet(l, k, s) PROVE ExitTellsOutcome'
    BY <1>0, <2>3, <1>c, QueriesTell DEF PushSimpleGet, Query
  <2>4. ASSUME NEW s \in Subs, PushAction(l, k, s) PROVE ExitTellsOutcome'
    <3>1. CASE Command(l, "push pause", k, PausePushSub(k, s), {200, 204}, Paused(PausePushSub(k, s), s, TRUE))
      BY <1>0, <3>1, <1>c, PausesTell
    <3>2. CASE Command(l, "push resume", k, ResumePushSub(k, s), {200, 204}, Paused(ResumePushSub(k, s), s, FALSE))
      BY <1>0, <3>2, <1>c, ResumesTell
    <3> QED BY <2>4, <3>1, <3>2 DEF PushAction
  <2>5. ASSUME NEW s \in Subs, PushRotate(l, k, s) PROVE ExitTellsOutcome'
    BY <1>0, <2>5, <1>c, QueriesTell DEF PushRotate, Query
  <2>6. ASSUME NEW s \in Subs, PushDelete(l, k, s) PROVE ExitTellsOutcome'
    BY <1>0, <2>6, <1>c, DeletesTell DEF PushDelete
  <2>7. ASSUME NEW s \in Subs, PushTest(l, k, s) PROVE ExitTellsOutcome'
    BY <1>0, <2>7, <1>c, QueriesTell DEF PushTest, Query
  <2> QED BY <1>2, <2>1, <2>2, <2>3, <2>4, <2>5, <2>6, <2>7 DEF CmdPush
<1>3. CASE CmdInvite(l, k)
  <2>1. CASE InviteCreate(l, k)
    BY <1>0, <2>1, <1>c, QueriesTell DEF InviteCreate, Query
  <2>2. CASE InviteList(l, k)
    BY <1>0, <2>2, <1>c, QueriesTell DEF InviteList, Query
  <2>3. CASE InviteRevoke(l, k)
    BY <1>0, <2>3, <1>c, QueriesTell DEF InviteRevoke, Query
  <2> QED BY <1>3, <2>1, <2>2, <2>3 DEF CmdInvite
<1> QED BY <1>1, <1>2, <1>3

LEMMA HooksctlTells ==
  ASSUME Known, AccountsTyped, HooksctlNext
  PROVE  ExitTellsOutcome'
<1>1. PICK l \in Terminals : \E k \in Presented(l) :
        Whoami(l, k) \/ CmdMe(l, k) \/ CmdToken(l, k) \/ CmdPush(l, k) \/ CmdInvite(l, k)
  BY DEF HooksctlNext
<1>2. PICK k \in Presented(l) :
        Whoami(l, k) \/ CmdMe(l, k) \/ CmdToken(l, k) \/ CmdPush(l, k) \/ CmdInvite(l, k)
  BY <1>1
<1>3. CASE Whoami(l, k)
  <2>1. {200} \in SUBSET {200, 201, 204}
    OBVIOUS
  <2> QED BY <1>3, <2>1, QueriesTell, CommandTells DEF Whoami, Query
<1> QED BY <1>2, <1>3, MeCommandTells, AdminCommandTells

\* A command that exits 0 has done what it was for, and one that was answered and exits
\* 1 has changed nothing unless the server failed, for every endpoint, whatever has
\* become of the token, its owner and the rows it asks for.
THEOREM ExitIsHonest == EnrolmentSpec => []ExitTellsOutcome
<1>1. EnrolmentInit => ExitTellsOutcome
  BY DEF EnrolmentInit, HooksctlInit, ExitTellsOutcome
<1>2. Known /\ Types /\ ExitTellsOutcome /\ [EnrolmentNext]_enrolmentVars => ExitTellsOutcome'
  <2> SUFFICES ASSUME Known, Types, ExitTellsOutcome, [EnrolmentNext]_enrolmentVars
               PROVE  ExitTellsOutcome'
    OBVIOUS
  <2>1. CASE HooksctlNext
    BY <2>1, HooksctlTells DEF Types
  <2>2. CASE UNCHANGED finished
    BY <2>2 DEF ExitTellsOutcome
  <2> QED BY <2>1, <2>2 DEF EnrolmentNext, enrolmentVars, ServerRestart
<1> QED BY <1>1, <1>2, EnrolmentInvariance, EnrolmentTypes, PTL DEF EnrolmentSpec
=============================================================================
