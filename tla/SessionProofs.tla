------------------------------ MODULE SessionProofs ------------------------------
(***************************************************************************)
(* Sessions and tokens, for any number of requests, users, resets and      *)
(* look-ups at once: a password that has been reset gives nobody a         *)
(* session, a session that is used does not expire, and a token that is    *)
(* used is not swept.                                                      *)
(***************************************************************************)
EXTENDS EnrolmentProofs

\* A login under way verified a password its user had, and one that has been evicted
\* since is known to be overtaken; an eviction is of a password that was stored.
LoginSound(c, x) ==
  /\ x.pc = "login" =>
       /\ x.user \in Keys(users) /\ x.pw \in Nat /\ x.pw <= users[x.user].pw
       /\ x.pw >= evicted[x.user] \/ c \in overtaken
  /\ x.pc = "evict" => x.user \in Keys(users) /\ x.pw \in Nat /\ x.pw <= users[x.user].pw

SessionsSound ==
  /\ evicted \in [Users -> Nat] /\ verified \in [Sessions -> Nat]
  /\ \A u \in Users : evicted[u] <= IF users[u] = None THEN 1 ELSE users[u].pw
  /\ \A c \in Callers : LoginSound(c, call[c])

SessionInv == SessionsSound /\ SessionsFollowPassword

LEMMA SessionInitInv ==
  ASSUME EnrolmentInit
  PROVE  SessionInv
<1>1. /\ evicted = [u \in Users |-> 1] /\ call = [c \in Callers |-> Idle]
      /\ verified = [s \in Sessions |-> IF sessions[s] = None THEN 0 ELSE 1]
      /\ \A u \in Users : users[u] # None => users[u].pw = 1
  BY InitialRowsAssumption, AccountsAssumption DEF EnrolmentInit, Init, AtStart
<1>2. \A c \in Callers : LoginSound(c, call[c])
  BY <1>1 DEF LoginSound, Idle
<1>3. SessionsSound
  BY <1>1, <1>2 DEF SessionsSound
<1>4. SessionsFollowPassword
  BY <1>1, InitKnown DEF SessionsFollowPassword, Known, SessionsKnown, Keys
<1> QED BY <1>3, <1>4 DEF SessionInv

-----------------------------------------------------------------------------
(* Steps other than logins, resets and evictions.                          *)

\* Passwords stay, and a new user has the first.
PasswordsStay ==
  \A u \in Users :
    /\ users[u] # None => users'[u].pw = users[u].pw
    /\ users[u] = None => users'[u] = None \/ users'[u].pw = 1

\* Sessions end, or stay with their user.
SessionsStay ==
  /\ DOMAIN sessions' = Sessions
  /\ \A s \in Sessions : sessions'[s] # None => sessions[s] # None /\ sessions'[s].user = sessions[s].user

\* Handlers under way go on to neither a login nor an eviction.
LoginsStay ==
  \A c \in Callers : call'[c].pc \in {"login", "evict"} => call'[c] = call[c]

Quiet == PasswordsStay /\ SessionsStay /\ LoginsStay /\ UNCHANGED <<evicted, verified, overtaken>>

LEMMA QuietInv ==
  ASSUME Known, SessionInv, Quiet, EnrolmentStep
  PROVE  SessionInv'
<1>0. Keys(users) \subseteq Keys(users')
  BY UsersGrow DEF EnrolmentStep, AccountsStep
<1>1. \A u \in Users : evicted'[u] <= IF users'[u] = None THEN 1 ELSE users'[u].pw
  BY <1>0 DEF Quiet, PasswordsStay, SessionInv, SessionsSound, Keys, Known
<1>2. ASSUME NEW c \in Callers PROVE LoginSound(c, call[c])'
  <2>1. CASE call'[c].pc \in {"login", "evict"}
    <3>1. call'[c] = call[c] /\ LoginSound(c, call[c])
      BY <2>1 DEF Quiet, LoginsStay, SessionInv, SessionsSound
    <3>2. \A u \in Keys(users) : u \in Keys(users') /\ users'[u].pw = users[u].pw
      BY <1>0 DEF Quiet, PasswordsStay, Known, Keys
    <3> QED BY <3>1, <3>2 DEF Quiet, LoginSound
  <2>2. CASE call'[c].pc \notin {"login", "evict"}
    BY <2>2 DEF LoginSound
  <2> QED BY <2>1, <2>2
<1>3. SessionsSound'
  BY <1>1, <1>2 DEF Quiet, SessionInv, SessionsSound
<1>4. SessionsFollowPassword'
  BY DEF Quiet, SessionsStay, Known, SessionsKnown, Keys, SessionInv, SessionsFollowPassword
<1> QED BY <1>3, <1>4 DEF SessionInv

LEMMA UsersQuiet ==
  ASSUME users' = users
  PROVE  PasswordsStay
BY DEF PasswordsStay

LEMMA ColumnQuiet ==
  ASSUME Known, NEW u, NEW column, column # "pw", NEW value, users' = Update(users, u, column, value)
  PROVE  PasswordsStay
<1>1. ASSUME NEW v \in Users, users[v] # None PROVE users'[v].pw = users[v].pw
  <2>1. users[v] \in UserRow
    BY <1>1 DEF Known
  <2>2. "pw" \in DOMAIN users[v]
    BY <2>1 DEF UserRow
  <2> QED BY <1>1, <2>2 DEF Update, Known
<1>2. ASSUME NEW v \in Users, users[v] = None PROVE users'[v] = None
  BY <1>2 DEF Update, Known
<1> QED BY <1>1, <1>2 DEF PasswordsStay

LEMMA SessionsQuiet ==
  ASSUME Known, sessions' = sessions
  PROVE  SessionsStay
BY DEF Known, SessionsKnown, SessionsStay

LEMMA OneSessionQuiet ==
  ASSUME Known, NEW s, \/ sessions' = DeleteSession(sessions, s)
                      \/ \E at, expires : sessions' = TouchSession(sessions, s, at, expires)
  PROVE  SessionsStay
<1>1. CASE sessions' = DeleteSession(sessions, s)
  BY <1>1 DEF Known, SessionsKnown, SessionsStay, DeleteSession
<1>2. ASSUME NEW at, NEW expires, sessions' = TouchSession(sessions, s, at, expires)
      PROVE  SessionsStay
  BY <1>2 DEF Known, SessionsKnown, SessionsStay, TouchSession
<1> QED BY <1>1, <1>2

LEMMA LoginsQuiet ==
  ASSUME call' = call
  PROVE  LoginsStay
BY DEF LoginsStay

LEMMA NextQuiet ==
  ASSUME Known, NEW c \in Callers, NEW x, x.pc \notin {"login", "evict"}, call' = [call EXCEPT ![c] = x]
  PROVE  LoginsStay
BY DEF LoginsStay, Known, CallsKnown

LEMMA DoneQuiet ==
  ASSUME Known, NEW c \in Callers, Done(c)
  PROVE  LoginsStay
BY NextQuiet DEF Done, Step, Idle

LEMMA SessionActionQuiet ==
  ASSUME Known, SessionInv, NEW c \in Callers, SessionAction(c)
  PROVE  Quiet \/ (\E u \in Users : Authenticate(c, u)) \/ CreateSession(c)
<1>1. ASSUME NEW s \in Sessions, Lookup(c, s) PROVE Quiet
  <2> DEFINE x == IF clock > sessions[s].expires THEN [pc |-> "drop", session |-> s]
                  ELSE [pc |-> "user", session |-> s, user |-> sessions[s].user,
                        slide |-> clock - sessions[s].lastUsed >= SlideAfter]
  <2>1. x.pc \notin {"login", "evict"} /\ call' = [call EXCEPT ![c] = x]
    BY <1>1 DEF Lookup, Begin
  <2> HIDE DEF x
  <2> QED BY <1>1, <2>1, UsersQuiet, SessionsQuiet, NextQuiet DEF Lookup, storeVars, histVars, Quiet
<1>2. ASSUME NEW s \in Sessions, Logout(c, s) PROVE Quiet
  <2>1. LoginsStay
    BY <1>2, NextQuiet DEF Logout, Begin, Idle
  <2> QED BY <1>2, <2>1, UsersQuiet, OneSessionQuiet DEF Logout, histVars, Quiet
<1>3. CASE LookupUser(c)
  <2>1. PICK x : x.pc \notin {"login", "evict"} /\ call' = [call EXCEPT ![c] = x]
    <3>1. \A may : Authorised(may, call[c].user, None).pc = "authorised"
      BY DEF Authorised
    <3> QED BY <1>3, <3>1 DEF LookupUser, Step
  <2> QED BY <1>3, <2>1, UsersQuiet, SessionsQuiet, NextQuiet DEF LookupUser, storeVars, histVars, Quiet
<1>4. CASE SlideSession(c)
  <2>1. call' = [call EXCEPT ![c] = call[c].next] /\ call[c].next.pc \notin {"login", "evict"}
    BY <1>4 DEF SlideSession, Step, Known, CallsKnown, CallKnown
  <2> QED BY <1>4, <2>1, UsersQuiet, OneSessionQuiet, NextQuiet DEF SlideSession, histVars, Quiet
<1>5. CASE DropSession(c)
  BY <1>5, UsersQuiet, OneSessionQuiet, DoneQuiet DEF DropSession, histVars, Quiet
<1> QED BY <1>1, <1>2, <1>3, <1>4, <1>5 DEF SessionAction, Login

LEMMA BearerActionQuiet ==
  ASSUME Known, SessionInv, NEW c \in Callers, BearerAction(c)
  PROVE  Quiet
<1>1. ASSUME NEW k \in Tokens, Resolve(c, k) PROVE Quiet
  <2>1. PICK x : x.pc \notin {"login", "evict"} /\ call' = [call EXCEPT ![c] = x]
    BY <1>1 DEF Resolve, Begin, AuthorizeAdmin, AuthorizeSource, ResolveCaller, Authorised, Idle
  <2> QED BY <1>1, <2>1, UsersQuiet, SessionsQuiet, NextQuiet DEF Resolve, storeVars, histVars, Quiet
<1>2. CASE TouchLastUsed(c)
  <2>1. call' = [call EXCEPT ![c] = call[c].next] /\ call[c].next.pc \notin {"login", "evict"}
    BY <1>2 DEF TouchLastUsed, Step, Known, CallsKnown, CallKnown
  <2> QED BY <1>2, <2>1, UsersQuiet, SessionsQuiet, NextQuiet DEF TouchLastUsed, histVars, Quiet
<1>3. CASE ReadOwner(c)
  <2>1. PICK x : x.pc \notin {"login", "evict"} /\ call' = [call EXCEPT ![c] = x]
    BY <1>3 DEF ReadOwner, Step, Authorised, Idle
  <2> QED BY <1>3, <2>1, UsersQuiet, SessionsQuiet, NextQuiet DEF ReadOwner, storeVars, histVars, Quiet
<1>4. CASE Disconnect(c)
  BY <1>4, UsersQuiet, SessionsQuiet, DoneQuiet DEF Disconnect, storeVars, histVars, Quiet
<1> QED BY <1>1, <1>2, <1>3, <1>4 DEF BearerAction

LEMMA TokenActionQuiet ==
  ASSUME Known, SessionInv, NEW c \in Callers, TokenAction(c)
  PROVE  Quiet
<1>1. UNCHANGED <<users, sessions, evicted, verified, overtaken>>
  BY DEF TokenAction, Issue, TokensCreate, CreateToken, MeCreateToken, RevokeChecked, Revoke,
     TokensRevoke, RevokeOwn, MeRevokeToken, TransferToken, Give, TokenStep
<1>2. ASSUME NEW k \in Tokens, RevokeOwn(c, k) \/ MeRevokeToken(c, k) PROVE LoginsStay
  BY <1>2, NextQuiet DEF RevokeOwn, MeRevokeToken, Step
<1>3. LoginsStay
  BY <1>2, DoneQuiet DEF TokenAction, Issue, TokensCreate, CreateToken, MeCreateToken, RevokeChecked,
     Revoke, TokensRevoke, TransferToken, Give
<1> QED BY <1>1, <1>3, UsersQuiet, SessionsQuiet DEF Quiet

LEMMA SubActionQuiet ==
  ASSUME Known, SessionInv, NEW c \in Callers, SubAction(c)
  PROVE  Quiet
<1>1. UNCHANGED <<users, sessions, evicted, verified, overtaken>>
  BY DEF SubAction, CreateSub, PushCreate, Register, RequireOwnedSub, PauseSub, ResumeSub,
     DeleteSub, MeRequireOwnedSub, PushFormPause, PushFormResume, PushFormDelete, TransferSub, SubStep
<1>2. ASSUME NEW s \in Subs, RequireOwnedSub(c, s) \/ MeRequireOwnedSub(c, s) PROVE LoginsStay
  <2>1. PICK act \in {"pause", "resume", "delete"} : call' = [call EXCEPT ![c] = [pc |-> act, sub |-> s]]
    BY <1>2 DEF RequireOwnedSub, MeRequireOwnedSub, Step
  <2> QED BY <2>1, NextQuiet
<1>3. LoginsStay
  BY <1>2, DoneQuiet DEF SubAction, CreateSub, PushCreate, Register, PauseSub, ResumeSub, DeleteSub,
     PushFormPause, PushFormResume, PushFormDelete, TransferSub
<1> QED BY <1>1, <1>3, UsersQuiet, SessionsQuiet DEF Quiet
LEMMA UserActionQuiet ==
  ASSUME Known, SessionInv, NEW c \in Callers, UserAction(c)
  PROVE  Quiet \/ (\E u \in Users : ResetPassword(c, u)) \/ EvictSessions(c)
<1>1. ASSUME NEW u \in Users, Deactivate(c, u) PROVE Quiet
  <2>1. PasswordsStay
    BY <1>1, ColumnQuiet DEF Deactivate, DeactivateUserCascade, DeactivateUser
  <2> QED BY <1>1, <2>1, SessionsQuiet, DoneQuiet DEF Deactivate, histVars, Quiet
<1>2. ASSUME NEW u \in Users, Reactivate(c, u) PROVE Quiet
  <2>1. PasswordsStay
    BY <1>2, ColumnQuiet DEF Reactivate, ReactivateUser
  <2> QED BY <1>2, <2>1, SessionsQuiet, DoneQuiet DEF Reactivate, Quiet
<1>3. ASSUME NEW u \in Users, PatchUser(c, u) PROVE Quiet
  <2>1. PICK x : x.pc = "patch" /\ call' = [call EXCEPT ![c] = x]
    BY <1>3 DEF PatchUser, Step
  <2> QED BY <1>3, <2>1, UsersQuiet, SessionsQuiet, NextQuiet DEF PatchUser, storeVars, histVars, Quiet
<1>4. CASE WriteProfile(c) \/ PatchMe(c)
  <2>1. PasswordsStay
    BY <1>4, ColumnQuiet DEF WriteProfile, PatchMe, UpdateUserProfile
  <2> QED BY <1>4, <2>1, SessionsQuiet, DoneQuiet DEF WriteProfile, PatchMe, histVars, Quiet
<1> QED BY <1>1, <1>2, <1>3, <1>4
        DEF UserAction, UsersDeactivate, UsersReactivate, UsersResetPassword, UsersUpdate

-----------------------------------------------------------------------------
(* Logins, resets and evictions.                                           *)

\* The password is the user's own when it is verified.
LEMMA AuthenticateInv ==
  ASSUME Known, SessionInv, NEW c \in Callers, NEW u \in Users, Authenticate(c, u)
  PROVE  SessionInv'
<1> DEFINE x == [pc |-> "login", user |-> u, pw |-> users[u].pw]
<1>1. /\ call' = [call EXCEPT ![c] = x] /\ users[u] # None
      /\ UNCHANGED <<users, sessions, evicted, verified, overtaken>>
  BY DEF Authenticate, Begin, IsActive, storeVars, histVars
<1>2. users[u] \in UserRow
  BY <1>1 DEF Known
<1>3. users[u].pw \in Nat /\ evicted[u] <= users[u].pw
  BY <1>1, <1>2 DEF UserRow, SessionInv, SessionsSound
<1>4. LoginSound(c, x)
  BY <1>1, <1>3 DEF LoginSound, Keys, Known, SessionInv, SessionsSound
<1> HIDE DEF x
<1>5. ASSUME NEW d \in Callers PROVE LoginSound(d, call[d])'
  <2>1. (call'[d] = x /\ d = c) \/ call'[d] = call[d]
    BY <1>1 DEF Known, CallsKnown
  <2>2. LoginSound(d, call'[d])
    BY <1>4, <2>1 DEF SessionInv, SessionsSound
  <2> QED BY <1>1, <2>2 DEF LoginSound
<1> QED BY <1>1, <1>5 DEF SessionInv, SessionsSound, SessionsFollowPassword

\* The session that a login inserts is overtaken if the login is.
LEMMA CreateSessionInv ==
  ASSUME Known, SessionInv, NEW c \in Callers, CreateSession(c)
  PROVE  SessionInv'
<1> DEFINE x == call[c]
<1>1. PICK s \in Sessions :
        /\ sessions' = InsertSession(sessions, s, [user |-> x.user, lastUsed |-> clock,
                                                   expires |-> clock + SessionTTL])
        /\ verified' = [verified EXCEPT ![s] = x.pw]
        /\ overtaken' = IF c \in overtaken THEN (overtaken \ {c}) \cup {s} ELSE overtaken
  BY DEF CreateSession
<1>2. /\ x.pc = "login" /\ UNCHANGED <<users, evicted>> /\ call' = [call EXCEPT ![c] = Idle]
      /\ DOMAIN call = Callers
  BY DEF CreateSession, Done, Step, Known, CallsKnown
<1>3. /\ x.user \in Keys(users) /\ x.pw \in Nat
      /\ x.pw >= evicted[x.user] \/ c \in overtaken
  BY <1>2 DEF SessionInv, SessionsSound, LoginSound
<1>4. \A d \in Callers \cup Sessions : d \in overtaken /\ d # c => d \in overtaken'
  BY <1>1
<1>5. c \notin Sessions
  BY AccountsAssumption
<1>6. ASSUME NEW d \in Callers PROVE LoginSound(d, call[d])'
  <2>1. CASE d = c
    BY <1>2, <2>1 DEF LoginSound, Idle
  <2>2. CASE d # c
    <3>1. call'[d] = call[d] /\ LoginSound(d, call[d])
      BY <1>2, <2>2 DEF SessionInv, SessionsSound
    <3> QED BY <1>2, <1>4, <2>2, <3>1 DEF LoginSound
  <2> QED BY <2>1, <2>2
<1>7. SessionsSound'
  BY <1>1, <1>2, <1>3, <1>6 DEF SessionInv, SessionsSound
<1>8. ASSUME NEW n \in Sessions, sessions'[n] # None
      PROVE  verified'[n] >= evicted'[sessions'[n].user] \/ n \in overtaken'
  <2>1. CASE n = s
    <3>1. sessions'[n].user = x.user /\ verified'[n] = x.pw
      BY <1>1, <2>1 DEF InsertSession, Known, SessionsKnown, SessionInv, SessionsSound
    <3> QED BY <1>1, <1>2, <1>3, <2>1, <3>1
  <2>2. CASE n # s
    <3>1. sessions'[n] = sessions[n] /\ verified'[n] = verified[n] /\ n \in Keys(sessions)
      BY <1>1, <1>8, <2>2 DEF InsertSession, Known, SessionsKnown, SessionInv, SessionsSound, Keys
    <3> QED BY <1>2, <1>4, <1>5, <3>1 DEF SessionInv, SessionsFollowPassword
  <2> QED BY <2>1, <2>2
<1>9. Keys(sessions') \subseteq Sessions
  BY <1>1 DEF InsertSession, Keys, Known, SessionsKnown
<1> QED BY <1>7, <1>8, <1>9 DEF SessionInv, SessionsFollowPassword, Keys

\* A reset ends nothing yet: passwords only grow.
LEMMA ResetPasswordInv ==
  ASSUME Known, SessionInv, NEW c \in Callers, NEW u \in Users, ResetPassword(c, u), EnrolmentStep
  PROVE  SessionInv'
<1> DEFINE x == [pc |-> "evict", user |-> u, pw |-> users[u].pw + 1, by |-> call[c].as.user]
<1>1. /\ call' = [call EXCEPT ![c] = x] /\ users[u] # None /\ DOMAIN call = Callers
      /\ users' = Update(users, u, "pw", users[u].pw + 1)
      /\ UNCHANGED <<sessions, evicted, verified, overtaken>>
  BY DEF ResetPassword, Step, SetUserPasswordHash, histVars, Known, CallsKnown
<1>2. users[u] \in UserRow /\ users[u].pw \in Nat /\ "pw" \in DOMAIN users[u]
  BY <1>1 DEF Known, UserRow
<1>3. Keys(users) \subseteq Keys(users')
  BY UsersGrow DEF EnrolmentStep, AccountsStep
<1>4. /\ users'[u].pw = users[u].pw + 1
      /\ \A v \in Users : v # u => users'[v] = users[v]
  BY <1>1, <1>2 DEF Update, Known
<1>5. \A v \in Keys(users) : v \in Keys(users') /\ users'[v].pw >= users[v].pw /\ users[v].pw \in Nat
                           /\ users'[v].pw \in Nat
  BY <1>2, <1>3, <1>4 DEF Known, Keys, UserRow
<1>6. x.pc = "evict" /\ x.user = u /\ x.pw = users'[u].pw /\ u \in Keys(users) /\ x.pc # "login"
  BY <1>1, <1>4 DEF Known, Keys
<1> HIDE DEF x
<1>7. ASSUME NEW d \in Callers PROVE LoginSound(d, call[d])'
  <2>1. CASE d = c
    <3>1. call'[d] = x
      BY <1>1, <2>1
    <3> QED BY <1>5, <1>6, <3>1 DEF LoginSound
  <2>2. CASE d # c
    <3>1. call'[d] = call[d] /\ LoginSound(d, call[d])
      BY <1>1, <2>2 DEF SessionInv, SessionsSound
    <3> QED BY <1>1, <1>5, <3>1 DEF LoginSound
  <2> QED BY <2>1, <2>2
<1>8. \A v \in Users : evicted'[v] <= IF users'[v] = None THEN 1 ELSE users'[v].pw
  <2>1. ASSUME NEW v \in Users, v \in Keys(users) PROVE evicted'[v] <= users'[v].pw /\ users'[v] # None
    BY <1>1, <1>5, <2>1 DEF SessionInv, SessionsSound, Keys
  <2>2. ASSUME NEW v \in Users, v \notin Keys(users) PROVE users'[v] = None /\ evicted'[v] <= 1
    BY <1>1, <1>4, <2>2 DEF SessionInv, SessionsSound, Keys, Known
  <2> QED BY <2>1, <2>2
<1> QED BY <1>1, <1>7, <1>8 DEF SessionInv, SessionsSound, SessionsFollowPassword

\* An eviction ends the sessions of its user, and logins with an older password are
\* overtaken by it.
LEMMA EvictSessionsInv ==
  ASSUME Known, SessionInv, NEW c \in Callers, EvictSessions(c)
  PROVE  SessionInv'
<1> DEFINE u == call[c].user
           pw == call[c].pw
<1>1. /\ call[c].pc = "evict" /\ UNCHANGED <<users, verified>> /\ call' = [call EXCEPT ![c] = Idle]
      /\ DOMAIN call = Callers
  BY DEF EvictSessions, Done, Step, Known, CallsKnown
<1>2. u \in Keys(users) /\ u \in Users /\ pw \in Nat /\ pw <= users[u].pw /\ evicted[u] \in Nat
  BY <1>1 DEF SessionInv, SessionsSound, LoginSound, Known, Keys
<1>3. CASE /\ sessions' = DeleteSessionsByUser(sessions, u)
           /\ evicted' = [evicted EXCEPT ![u] = IF @ < pw THEN pw ELSE @]
           /\ overtaken' = overtaken \cup Overtaking(u, pw)
  <2>1. /\ evicted' \in [Users -> Nat]
        /\ \A v \in Users : v # u => evicted'[v] = evicted[v]
        /\ evicted'[u] = IF evicted[u] < pw THEN pw ELSE evicted[u]
    BY <1>2, <1>3 DEF SessionInv, SessionsSound
  <2>2. ASSUME NEW d \in Callers PROVE LoginSound(d, call[d])'
    <3>1. CASE d = c
      BY <1>1, <3>1 DEF LoginSound, Idle
    <3>2. CASE d # c
      <4>1. call'[d] = call[d] /\ LoginSound(d, call[d])
        BY <1>1, <3>2 DEF SessionInv, SessionsSound
      <4>2. CASE call[d].pc = "login" /\ call[d].user = u /\ call[d].pw < pw
        <5>1. d \in overtaken'
          BY <1>3, <4>2 DEF Overtaking
        <5> QED BY <1>1, <4>1, <4>2, <5>1 DEF LoginSound
      <4>3. CASE call[d].pc = "login" /\ ~(call[d].user = u /\ call[d].pw < pw)
        <5>1. call[d].user \in Users /\ call[d].pw \in Nat
          BY <4>1, <4>3 DEF LoginSound, Keys, Known
        <5>2. call[d].pw >= evicted'[call[d].user] \/ d \in overtaken'
          BY <1>2, <1>3, <2>1, <4>1, <4>3, <5>1 DEF LoginSound
        <5> QED BY <1>1, <4>1, <4>3, <5>2 DEF LoginSound
      <4>4. CASE call[d].pc # "login"
        BY <1>1, <4>1, <4>4 DEF LoginSound
      <4> QED BY <4>2, <4>3, <4>4
    <3> QED BY <3>1, <3>2
  <2>3. \A v \in Users : evicted'[v] <= IF users'[v] = None THEN 1 ELSE users'[v].pw
    BY <1>1, <1>2, <2>1 DEF SessionInv, SessionsSound, Keys, Known
  <2>4. \A s \in Keys(sessions') : s \in Keys(sessions) /\ sessions'[s] = sessions[s] /\ sessions[s].user # u
    BY <1>3 DEF DeleteSessionsByUser, Keys
  <2>5. \A s \in Keys(sessions) : sessions[s].user \in Users
    BY DEF Known, SessionsKnown, Keys
  <2>6. SessionsFollowPassword'
    BY <1>1, <1>3, <2>1, <2>4, <2>5 DEF SessionInv, SessionsFollowPassword
  <2> QED BY <1>1, <2>1, <2>2, <2>3, <2>6 DEF SessionInv, SessionsSound
<1>4. CASE UNCHANGED <<sessions, evicted, overtaken>>
  <2>1. ASSUME NEW d \in Callers PROVE LoginSound(d, call[d])'
    <3>1. call'[d] = Idle \/ call'[d] = call[d]
      BY <1>1
    <3>2. LoginSound(d, call'[d])
      BY <3>1 DEF LoginSound, Idle, SessionInv, SessionsSound
    <3> QED BY <1>1, <1>4, <3>2 DEF LoginSound
  <2> QED BY <1>1, <1>4, <2>1 DEF SessionInv, SessionsSound, SessionsFollowPassword
<1> QED BY <1>3, <1>4 DEF EvictSessions

-----------------------------------------------------------------------------
LEMMA ServeInv ==
  ASSUME Known, SessionInv, Serve, EnrolmentStep
  PROVE  SessionInv'
<1>1. ASSUME NEW c \in Callers, Answer(c) PROVE Quiet
  BY <1>1, UsersQuiet, SessionsQuiet, DoneQuiet DEF Answer, storeVars, histVars, Quiet
<1>2. CASE SweepSessions
  <2>1. SessionsStay
    BY <1>2 DEF SweepSessions, DeleteExpiredSessions, Known, SessionsKnown, SessionsStay
  <2> QED BY <1>2, <2>1, QuietInv, UsersQuiet, LoginsQuiet DEF SweepSessions, histVars, Quiet
<1>3. CASE SweepTokens
  BY <1>3, QuietInv, UsersQuiet, SessionsQuiet, LoginsQuiet DEF SweepTokens, histVars, Quiet
<1>4. CASE Tick
  BY <1>4, QuietInv, UsersQuiet, SessionsQuiet, LoginsQuiet DEF Tick, storeVars, histVars, Quiet
<1>5. ASSUME NEW c \in Callers,
             \/ SessionAction(c) \/ BearerAction(c) \/ UserAction(c) \/ TokenAction(c)
             \/ SubAction(c) \/ Answer(c)
      PROVE  SessionInv'
  <2>1. CASE SessionAction(c)
    BY <2>1, SessionActionQuiet, QuietInv, AuthenticateInv, CreateSessionInv
  <2>2. CASE UserAction(c)
    BY <2>2, UserActionQuiet, QuietInv, ResetPasswordInv, EvictSessionsInv
  <2>3. CASE BearerAction(c) \/ TokenAction(c) \/ SubAction(c) \/ Answer(c)
    BY <1>1, <2>3, BearerActionQuiet, TokenActionQuiet, SubActionQuiet, QuietInv
  <2> QED BY <1>5, <2>1, <2>2, <2>3
<1> QED BY <1>2, <1>3, <1>4, <1>5 DEF Serve

LEMMA InvitesNextQuiet ==
  ASSUME Known, InvitesNext
  PROVE  Quiet
<1>1. ASSUME NEW c \in Callers, Create(c) \/ UsersInvite(c) PROVE Quiet
  BY <1>1, UsersQuiet, SessionsQuiet, DoneQuiet DEF Create, UsersInvite, storeVars, histVars, Quiet
<1>2. ASSUME NEW c \in Callers, Delete(c) PROVE Quiet
  <2>1. UNCHANGED <<users, sessions, evicted, verified, overtaken>>
    BY <1>2 DEF Delete, vars, storeVars, histVars
  <2>2. call' = call \/ Done(c)
    BY <1>2 DEF Delete, vars
  <2> QED BY <2>1, <2>2, UsersQuiet, SessionsQuiet, DoneQuiet, LoginsQuiet DEF Quiet
<1>3. ASSUME NEW c \in Callers, Signup(c) PROVE Quiet
  <2>1. UNCHANGED <<sessions, call, evicted, verified, overtaken>>
    BY <1>3 DEF Signup, histVars
  <2>2. PasswordsStay
    <3>1. CASE users' = users
      BY <3>1, UsersQuiet
    <3>2. CASE users[signup[c].user] = None /\ users' = Created(c)
      <4> DEFINE row == [role |-> signup[c].role, active |-> TRUE, pw |-> 1, scopes |-> signup[c].scopes]
      <4>1. users' = [users EXCEPT ![signup[c].user] = row] /\ row.pw = 1
        BY <3>2 DEF Created, InsertUser
      <4> HIDE DEF row
      <4> QED BY <3>2, <4>1 DEF PasswordsStay, Known
    <3> QED BY <1>3, <3>1, <3>2 DEF Signup, SignupTx
  <2> QED BY <2>1, <2>2, SessionsQuiet, LoginsQuiet DEF Quiet
<1>4. ASSUME \/ RunInvite \/ InitStep
             \/ \E c \in Callers : \E i \in Codes : \E u \in Users : Provision(c, i, u)
      PROVE  Quiet
  BY <1>4, UsersQuiet, SessionsQuiet, LoginsQuiet
     DEF RunInvite, InitStep, Provision, storeVars, histVars, Quiet
<1> QED BY <1>1, <1>2, <1>3, <1>4 DEF InvitesNext

LEMMA PairingNextQuiet ==
  ASSUME Known, PairingNext
  PROVE  Quiet
<1>1. ASSUME NEW l \in Terminals,
             \/ Start(l) \/ Poll(l) \/ WriteToken(l) \/ WriteFails(l) \/ Receive(l) \/ GiveUp(l)
             \/ RevokeBearer(l) \/ DeleteProfile(l)
             \/ MintEphemeralListener(l) \/ RevokeEphemeralListener(l)
      PROVE  Quiet
  <2>1. UNCHANGED <<users, sessions, call, evicted, verified, overtaken>>
    BY <1>1 DEF Start, Poll, WriteToken, WriteFails, Receive, GiveUp, RevokeBearer, DeleteProfile,
       MintEphemeralListener, RevokeEphemeralListener, accountVars, vars, storeVars, histVars
  <2> QED BY <2>1, UsersQuiet, SessionsQuiet, LoginsQuiet DEF Quiet
<1>2. ASSUME NEW c \in Callers, ApproveCore(c) \/ Deny(c) PROVE Quiet
  BY <1>2, UsersQuiet, SessionsQuiet, DoneQuiet DEF ApproveCore, Deny, storeVars, histVars, Quiet
<1>3. ASSUME NEW c \in Callers, Approve(c) PROVE Quiet
  BY <1>3, UsersQuiet, SessionsQuiet, LoginsQuiet DEF Approve, Quiet
<1>4. ASSUME (\E p \in Pairings : MarkFetched(p)) \/ SweepPairings PROVE Quiet
  BY <1>4, UsersQuiet, SessionsQuiet, LoginsQuiet
     DEF MarkFetched, SweepPairings, accountVars, vars, storeVars, histVars, Quiet
<1> QED BY <1>1, <1>2, <1>3, <1>4 DEF PairingNext

\* A restart ends the logins under way; the sessions are another kind of id.
LEMMA SessionRestartInv ==
  ASSUME Known, SessionInv, ServerRestart
  PROVE  SessionInv'
<1>1. /\ UNCHANGED <<users, sessions, evicted, verified>> /\ overtaken' = overtaken \ Callers
      /\ call' = [c \in Callers |-> Idle]
  BY DEF ServerRestart, Restart, storeVars
<1>2. \A c \in Callers : LoginSound(c, call[c])'
  BY <1>1 DEF LoginSound, Idle
<1>3. \A s \in Sessions : s \in overtaken => s \in overtaken'
  BY <1>1, AccountsAssumption
<1> QED BY <1>1, <1>2, <1>3
        DEF SessionInv, SessionsSound, SessionsFollowPassword, Known, SessionsKnown, Keys

LEMMA SessionStep ==
  ASSUME Known, SessionInv, [EnrolmentNext]_enrolmentVars
  PROVE  SessionInv'
<1>1. EnrolmentStep
  BY EnrolmentNextStep
<1>2. CASE Serve
  BY <1>1, <1>2, ServeInv
<1>3. CASE InvitesNext \/ PairingNext
  BY <1>1, <1>3, InvitesNextQuiet, PairingNextQuiet, QuietInv
<1>4. CASE HooksctlNext \/ UNCHANGED vars
  <2>1. UNCHANGED <<users, sessions, call, evicted, verified, overtaken>>
    BY <1>4, HooksctlQuiet DEF vars, storeVars, histVars
  <2> QED BY <1>1, <2>1, UsersQuiet, SessionsQuiet, LoginsQuiet, QuietInv DEF Quiet
<1>5. CASE ServerRestart
  BY <1>5, SessionRestartInv
<1> QED BY <1>2, <1>3, <1>4, <1>5 DEF EnrolmentNext, enrolmentVars

\* After an acknowledged reset only logins that were under way have sessions of an
\* older password, whatever look-ups, slides, other resets and restarts do.
THEOREM ResetEndsSessions == EnrolmentSpec => []SessionsFollowPassword
<1>1. EnrolmentInit => SessionInv
  BY SessionInitInv
<1>2. Known /\ SessionInv /\ [EnrolmentNext]_enrolmentVars => SessionInv'
  BY SessionStep
<1>3. SessionInv => SessionsFollowPassword
  BY DEF SessionInv
<1> QED BY <1>1, <1>2, <1>3, EnrolmentInvariance, PTL DEF EnrolmentSpec

-----------------------------------------------------------------------------
(* Sliding expiry.                                                         *)

\* A session's expiry is its last touch and the TTL.
RowTimed(row) ==
  /\ DOMAIN row = {"user", "lastUsed", "expires"}
  /\ row.lastUsed \in Nat /\ row.lastUsed <= clock /\ row.expires = row.lastUsed + SessionTTL

\* A look-up that goes on without sliding found a touch that is recent enough.
LookupTimed(x) ==
  /\ x.pc = "user" => /\ x.session \in Sessions
                      /\ sessions[x.session] # None /\ ~x.slide =>
                           clock - sessions[x.session].lastUsed < SlideAfter
  /\ x.pc = "slide" => x.session \in Sessions
  /\ x.pc = "touch" => x.token \in Tokens

Sliding(s) == \E c \in Callers : call[c].pc = "slide" /\ call[c].session = s

Recent(s) == lastUse[s] - sessions[s].lastUsed < SlideAfter

UseInv ==
  /\ clock \in Nat
  /\ DOMAIN lastUse = Sessions \cup Tokens
  /\ \A s \in Sessions : lastUse[s] \in Nat /\ lastUse[s] <= clock
  /\ \A s \in Sessions : sessions[s] # None => RowTimed(sessions[s])
  /\ \A c \in Callers : LookupTimed(call[c])
  /\ \A s \in Sessions : sessions[s] # None /\ ~Sliding(s) => Recent(s)

LEMMA UseInitInv ==
  ASSUME EnrolmentInit
  PROVE  UseInv
<1>1. /\ clock = 0 /\ call = [c \in Callers |-> Idle] /\ lastUse = [x \in Sessions \cup Tokens |-> 0]
  BY DEF EnrolmentInit, Init
<1>2. ASSUME NEW s \in Sessions, sessions[s] # None
      PROVE  sessions[s] = [user |-> InitialSessions[s], lastUsed |-> 0, expires |-> SessionTTL]
  BY <1>2 DEF EnrolmentInit, Init, AtStart
<1>3. SessionTTL \in Nat /\ SlideAfter \in Nat \ {0}
  BY AccountsAssumption
<1>4. ASSUME NEW s \in Sessions, sessions[s] # None PROVE RowTimed(sessions[s]) /\ Recent(s)
  <2> DEFINE row == [user |-> InitialSessions[s], lastUsed |-> 0, expires |-> SessionTTL]
  <2>1. sessions[s] = row
    BY <1>2, <1>4
  <2>2. DOMAIN row = {"user", "lastUsed", "expires"} /\ row.lastUsed = 0 /\ row.expires = SessionTTL
    OBVIOUS
  <2> HIDE DEF row
  <2> QED BY <1>1, <1>3, <2>1, <2>2 DEF RowTimed, Recent
<1>5. \A c \in Callers : LookupTimed(call[c])
  BY <1>1 DEF LookupTimed, Idle
<1> QED BY <1>1, <1>4, <1>5 DEF UseInv

\* Steps that touch no session: handlers look none up and finish no slide.
HandlersStay ==
  \A c \in Callers :
    /\ call'[c].pc \in {"user", "slide"} => call'[c] = call[c]
    /\ call[c].pc = "slide" => call'[c] = call[c]
    /\ call'[c].pc = "touch" => call'[c] = call[c] \/ call'[c].token \in Tokens

UsesStay ==
  /\ DOMAIN lastUse' = DOMAIN lastUse
  /\ \A s \in Sessions : lastUse'[s] = lastUse[s]

SessionsEnd == \A s \in Sessions : sessions'[s] # None => sessions'[s] = sessions[s]

Calm == HandlersStay /\ UsesStay /\ SessionsEnd /\ UNCHANGED clock

LEMMA CalmInv ==
  ASSUME UseInv, Calm
  PROVE  UseInv'
<1>1. \A s \in Sessions : sessions'[s] # None => RowTimed(sessions[s])'
  BY DEF UseInv, Calm, SessionsEnd, RowTimed
<1>2. ASSUME NEW c \in Callers PROVE LookupTimed(call[c])'
  <2>1. CASE call'[c] = call[c]
    BY <2>1 DEF UseInv, Calm, SessionsEnd, LookupTimed
  <2>2. CASE call'[c] # call[c]
    BY <2>2 DEF Calm, HandlersStay, LookupTimed
  <2> QED BY <2>1, <2>2
<1>3. ASSUME NEW s \in Sessions, sessions'[s] # None, ~Sliding(s)' PROVE Recent(s)'
  <2>1. ~Sliding(s)
    BY <1>3 DEF Calm, HandlersStay, Sliding
  <2> QED BY <1>3, <2>1 DEF UseInv, Calm, SessionsEnd, UsesStay, Recent
<1> QED BY <1>1, <1>2, <1>3 DEF UseInv, Calm, UsesStay

LEMMA CalmCalls ==
  ASSUME call' = call
  PROVE  HandlersStay
BY DEF HandlersStay

LEMMA CalmNext ==
  ASSUME Known, NEW c \in Callers, NEW x, x.pc \notin {"user", "slide", "touch"},
         call[c].pc # "slide", call' = [call EXCEPT ![c] = x]
  PROVE  HandlersStay
BY DEF HandlersStay, Known, CallsKnown

LEMMA CalmDone ==
  ASSUME Known, NEW c \in Callers, call[c].pc # "slide", Done(c)
  PROVE  HandlersStay
BY CalmNext DEF Done, Step, Idle

LEMMA CalmUses ==
  ASSUME lastUse' = lastUse
  PROVE  UsesStay
BY DEF UsesStay

LEMMA CalmSessions ==
  ASSUME Known, \/ sessions' = sessions
                \/ \E s : sessions' = DeleteSession(sessions, s)
                \/ \E u : sessions' = DeleteSessionsByUser(sessions, u)
                \/ \E at : sessions' = DeleteExpiredSessions(sessions, at)
  PROVE  SessionsEnd
<1>1. CASE sessions' = sessions
  BY <1>1 DEF SessionsEnd
<1>2. ASSUME NEW s, sessions' = DeleteSession(sessions, s) PROVE SessionsEnd
  BY <1>2 DEF SessionsEnd, DeleteSession, Known, SessionsKnown
<1>3. ASSUME NEW u, sessions' = DeleteSessionsByUser(sessions, u) PROVE SessionsEnd
  BY <1>3 DEF SessionsEnd, DeleteSessionsByUser, Known, SessionsKnown
<1>4. ASSUME NEW at, sessions' = DeleteExpiredSessions(sessions, at) PROVE SessionsEnd
  BY <1>4 DEF SessionsEnd, DeleteExpiredSessions, Known, SessionsKnown
<1> QED BY <1>1, <1>2, <1>3, <1>4

LEMMA BearerActionCalm ==
  ASSUME Known, UseInv, NEW c \in Callers, BearerAction(c)
  PROVE  Calm
<1>1. ASSUME NEW k \in Tokens, Resolve(c, k) PROVE Calm
  <2>1. PICK x : /\ x.pc \notin {"user", "slide"} /\ (x.pc = "touch" => x.token = k)
                 /\ call' = [call EXCEPT ![c] = x]
    BY <1>1 DEF Resolve, Begin, AuthorizeAdmin, AuthorizeSource, ResolveCaller, Authorised, Idle
  <2>2. HandlersStay
    BY <1>1, <2>1 DEF Resolve, Begin, Idle, HandlersStay, Known, CallsKnown
  <2>3. lastUse' = [lastUse EXCEPT ![k] = clock]
    BY <1>1 DEF Resolve
  <2>4. UsesStay
    BY <2>3, AccountsAssumption DEF UsesStay, UseInv
  <2> QED BY <1>1, <2>2, <2>4, CalmSessions DEF Resolve, storeVars, Calm
<1>2. CASE TouchLastUsed(c)
  <2>1. /\ call' = [call EXCEPT ![c] = call[c].next] /\ call[c].pc = "touch"
        /\ call[c].next.pc \notin {"user", "slide", "touch"}
    BY <1>2 DEF TouchLastUsed, Step, Known, CallsKnown, CallKnown
  <2> QED BY <1>2, <2>1, CalmNext, CalmSessions, CalmUses DEF TouchLastUsed, histVars, Calm
<1>3. CASE ReadOwner(c)
  <2>1. PICK x : x.pc \notin {"user", "slide", "touch"} /\ call' = [call EXCEPT ![c] = x]
    BY <1>3 DEF ReadOwner, Step, Authorised, Idle
  <2>2. call[c].pc = "owner"
    BY <1>3 DEF ReadOwner
  <2> QED BY <1>3, <2>1, <2>2, CalmNext, CalmSessions, CalmUses DEF ReadOwner, storeVars, histVars, Calm
<1>4. CASE Disconnect(c)
  BY <1>4, CalmDone, CalmSessions, CalmUses DEF Disconnect, storeVars, histVars, Calm
<1> QED BY <1>1, <1>2, <1>3, <1>4 DEF BearerAction

LEMMA TokenActionCalm ==
  ASSUME Known, UseInv, NEW c \in Callers, TokenAction(c)
  PROVE  Calm
<1>1. UNCHANGED <<sessions, clock, lastUse>>
  BY DEF TokenAction, Issue, TokensCreate, CreateToken, MeCreateToken, RevokeChecked, Revoke,
     TokensRevoke, RevokeOwn, MeRevokeToken, TransferToken, Give, TokenStep
<1>2. ASSUME NEW k \in Tokens, RevokeOwn(c, k) \/ MeRevokeToken(c, k) PROVE HandlersStay
  BY <1>2, CalmNext DEF RevokeOwn, MeRevokeToken, Step, May
<1>3. HandlersStay
  BY <1>2, CalmDone DEF TokenAction, Issue, TokensCreate, CreateToken, MeCreateToken, RevokeChecked,
     Revoke, TokensRevoke, TransferToken, Give, May
<1> QED BY <1>1, <1>3, CalmSessions, CalmUses DEF Calm

LEMMA SubActionCalm ==
  ASSUME Known, UseInv, NEW c \in Callers, SubAction(c)
  PROVE  Calm
<1>1. UNCHANGED <<sessions, clock, lastUse>>
  BY DEF SubAction, CreateSub, PushCreate, Register, RequireOwnedSub, PauseSub, ResumeSub,
     DeleteSub, MeRequireOwnedSub, PushFormPause, PushFormResume, PushFormDelete, TransferSub, SubStep
<1>2. ASSUME NEW s \in Subs, RequireOwnedSub(c, s) \/ MeRequireOwnedSub(c, s) PROVE HandlersStay
  <2>1. PICK act \in {"pause", "resume", "delete"} : call' = [call EXCEPT ![c] = [pc |-> act, sub |-> s]]
    BY <1>2 DEF RequireOwnedSub, MeRequireOwnedSub, Step
  <2>2. call[c].pc = "authorised"
    BY <1>2 DEF RequireOwnedSub, MeRequireOwnedSub, May
  <2> QED BY <2>1, <2>2, CalmNext
<1>3. ASSUME NEW s \in Subs,
             \/ PauseSub(c, s) \/ ResumeSub(c, s) \/ DeleteSub(c, s) \/ TransferSub(c, s)
             \/ PushFormPause(c, s) \/ PushFormResume(c, s) \/ PushFormDelete(c, s)
      PROVE  HandlersStay
  <2>1. Done(c) /\ call[c].pc \in {"authorised", "pause", "resume", "delete"}
    BY <1>3 DEF PauseSub, ResumeSub, DeleteSub, PushFormPause, PushFormResume, PushFormDelete,
       TransferSub, Proceeds, May
  <2> QED BY <2>1, CalmDone
<1>4. ASSUME CreateSub(c) \/ PushCreate(c) PROVE HandlersStay
  <2>1. Done(c) /\ call[c].pc = "authorised"
    BY <1>4 DEF CreateSub, PushCreate, Register, May
  <2> QED BY <2>1, CalmDone
<1>5. HandlersStay
  BY <1>2, <1>3, <1>4 DEF SubAction
<1> QED BY <1>1, <1>5, CalmSessions, CalmUses DEF Calm

LEMMA UserActionCalm ==
  ASSUME Known, UseInv, NEW c \in Callers, UserAction(c)
  PROVE  Calm
<1>1. ASSUME NEW u \in Users, Deactivate(c, u) \/ Reactivate(c, u) PROVE Calm
  <2>1. Done(c) /\ call[c].pc = "authorised" /\ UNCHANGED <<sessions, clock, lastUse>>
    BY <1>1 DEF Deactivate, Reactivate, May, histVars
  <2> QED BY <2>1, CalmDone, CalmSessions, CalmUses DEF Calm
<1>2. ASSUME NEW u \in Users, ResetPassword(c, u) PROVE Calm
  <2>1. PICK x : x.pc = "evict" /\ call' = [call EXCEPT ![c] = x]
    BY <1>2 DEF ResetPassword, Step
  <2>2. call[c].pc = "authorised" /\ UNCHANGED <<sessions, clock, lastUse>>
    BY <1>2 DEF ResetPassword, May, histVars
  <2> QED BY <2>1, <2>2, CalmNext, CalmSessions, CalmUses DEF Calm
<1>3. ASSUME NEW u \in Users, PatchUser(c, u) PROVE Calm
  <2>1. PICK x : x.pc = "patch" /\ call' = [call EXCEPT ![c] = x]
    BY <1>3 DEF PatchUser, Step
  <2>2. call[c].pc = "authorised" /\ UNCHANGED <<sessions, clock, lastUse>>
    BY <1>3 DEF PatchUser, May, storeVars, histVars
  <2> QED BY <2>1, <2>2, CalmNext, CalmSessions, CalmUses DEF Calm
<1>4. CASE WriteProfile(c) \/ PatchMe(c)
  <2>1. Done(c) /\ call[c].pc \in {"authorised", "patch"} /\ UNCHANGED <<sessions, clock, lastUse>>
    BY <1>4 DEF WriteProfile, PatchMe, May, histVars
  <2> QED BY <2>1, CalmDone, CalmSessions, CalmUses DEF Calm
<1>5. CASE EvictSessions(c)
  <2>1. Done(c) /\ call[c].pc = "evict" /\ UNCHANGED <<clock, lastUse>>
    BY <1>5 DEF EvictSessions
  <2>2. SessionsEnd
    BY <1>5, CalmSessions DEF EvictSessions
  <2> QED BY <2>1, <2>2, CalmDone, CalmUses DEF Calm
<1> QED BY <1>1, <1>2, <1>3, <1>4, <1>5
        DEF UserAction, UsersDeactivate, UsersReactivate, UsersResetPassword, UsersUpdate

LEMMA SessionActionCalm ==
  ASSUME Known, UseInv, NEW c \in Callers, SessionAction(c)
  PROVE  \/ Calm \/ CreateSession(c) \/ LookupUser(c) \/ SlideSession(c)
         \/ \E s \in Sessions : Lookup(c, s)
<1>1. ASSUME NEW u \in Users, Authenticate(c, u) PROVE Calm
  <2>1. PICK x : x.pc = "login" /\ call' = [call EXCEPT ![c] = x]
    BY <1>1 DEF Authenticate, Begin
  <2>2. call[c].pc # "slide" /\ UNCHANGED <<sessions, clock, lastUse>>
    BY <1>1 DEF Authenticate, Begin, Idle, storeVars, histVars
  <2> QED BY <2>1, <2>2, CalmNext, CalmSessions, CalmUses DEF Calm
<1>2. ASSUME NEW s \in Sessions, Logout(c, s) PROVE Calm
  <2>1. call' = [call EXCEPT ![c] = Idle] /\ call[c].pc # "slide" /\ Idle.pc = "idle"
    BY <1>2 DEF Logout, Begin, Idle
  <2>2. SessionsEnd /\ UNCHANGED <<clock, lastUse>>
    BY <1>2, CalmSessions DEF Logout, histVars
  <2> QED BY <2>1, <2>2, CalmNext, CalmUses DEF Calm
<1>3. CASE DropSession(c)
  <2>1. Done(c) /\ call[c].pc = "drop" /\ UNCHANGED <<clock, lastUse>>
    BY <1>3 DEF DropSession, histVars
  <2>2. SessionsEnd
    BY <1>3, CalmSessions DEF DropSession
  <2> QED BY <2>1, <2>2, CalmDone, CalmUses DEF Calm
<1> QED BY <1>1, <1>2, <1>3 DEF SessionAction, Login

-----------------------------------------------------------------------------
(* Steps that look a session up, use it, slide it or insert it.            *)

\* Whether to slide is decided from the row and the clock of the look-up.
LEMMA LookupUse ==
  ASSUME Known, UseInv, NEW c \in Callers, NEW s \in Sessions, Lookup(c, s)
  PROVE  UseInv'
<1> DEFINE x == IF clock > sessions[s].expires THEN [pc |-> "drop", session |-> s]
                ELSE [pc |-> "user", session |-> s, user |-> sessions[s].user,
                      slide |-> clock - sessions[s].lastUsed >= SlideAfter]
<1>1. /\ call' = [call EXCEPT ![c] = x] /\ call[c] = Idle /\ sessions[s] # None
      /\ UNCHANGED <<sessions, clock, lastUse>> /\ DOMAIN call = Callers
  BY DEF Lookup, Begin, storeVars, histVars, Known, CallsKnown
<1>2. sessions[s].lastUsed \in Nat /\ SlideAfter \in Nat /\ clock \in Nat
  BY <1>1, AccountsAssumption DEF UseInv, RowTimed
<1>3. x.pc \in {"drop", "user"} /\ LookupTimed(x)
  <2>1. CASE clock > sessions[s].expires
    <3>1. x.pc = "drop"
      BY <2>1
    <3> QED BY <3>1 DEF LookupTimed
  <2>2. CASE ~(clock > sessions[s].expires)
    <3>1. /\ x.pc = "user" /\ x.session = s
          /\ x.slide = (clock - sessions[s].lastUsed >= SlideAfter)
      BY <2>2
    <3> HIDE DEF x
    <3>2. ~x.slide => clock - sessions[s].lastUsed < SlideAfter
      <4>1. ~x.slide => ~(clock - sessions[s].lastUsed >= SlideAfter)
        BY <3>1, Zenon
      <4> QED BY <1>2, <4>1
    <3> QED BY <3>1, <3>2 DEF LookupTimed
  <2> QED BY <2>1, <2>2
<1> HIDE DEF x
<1>4. ASSUME NEW d \in Callers PROVE LookupTimed(call[d])'
  <2>1. call'[d] = x \/ call'[d] = call[d]
    BY <1>1
  <2>2. LookupTimed(call'[d])
    BY <1>3, <2>1 DEF UseInv
  <2> QED BY <1>1, <2>2 DEF LookupTimed
<1>5. ASSUME NEW n \in Sessions, ~Sliding(n)' PROVE ~Sliding(n)
  <2>1. \A d \in Callers : call[d].pc = "slide" => call'[d] = call[d]
    BY <1>1 DEF Idle
  <2> QED BY <1>5, <2>1 DEF Sliding
<1>6. ASSUME NEW n \in Sessions, sessions'[n] # None PROVE RowTimed(sessions[n])'
  BY <1>1, <1>6 DEF UseInv, RowTimed
<1>7. ASSUME NEW n \in Sessions, sessions'[n] # None, ~Sliding(n)' PROVE Recent(n)'
  BY <1>1, <1>5, <1>7 DEF UseInv, Recent
<1> QED BY <1>1, <1>4, <1>6, <1>7 DEF UseInv

\* The use counts from here on; the expiry is moved next, or need not be.
LEMMA LookupUserUse ==
  ASSUME Known, UseInv, NEW c \in Callers, LookupUser(c)
  PROVE  UseInv'
<1> DEFINE s == call[c].session
           next == Authorised(IF users[call[c].user].role = "admin" THEN {"admin", "me"} ELSE {"me"},
                              call[c].user, None)
           x == IF call[c].slide THEN [pc |-> "slide", session |-> s, next |-> next] ELSE next
<1>1. /\ call[c].pc = "user" /\ UNCHANGED <<sessions, clock>> /\ DOMAIN call = Callers
      /\ s \in Sessions /\ clock \in Nat
      /\ sessions[s] # None /\ ~call[c].slide => clock - sessions[s].lastUsed < SlideAfter
  BY DEF LookupUser, storeVars, Known, CallsKnown, UseInv, LookupTimed
<1>2. CASE lastUse' = lastUse /\ call' = [call EXCEPT ![c] = [pc |-> "drop", session |-> s]]
  <2>1. HandlersStay
    BY <1>1, <1>2, CalmNext
  <2> QED BY <1>1, <1>2, <2>1, CalmSessions, CalmUses, CalmInv DEF Calm
<1>3. CASE lastUse' = [lastUse EXCEPT ![s] = clock] /\ call' = [call EXCEPT ![c] = x]
  <2>1. next.pc = "authorised"
    BY DEF Authorised
  <2> HIDE DEF next
  <2>2. /\ x.pc \in {"slide", "authorised"}
        /\ x.pc = "slide" => x.session = s
        /\ x.pc # "slide" => ~call[c].slide
    BY <2>1
  <2> HIDE DEF x, s
  <2>3. ASSUME NEW d \in Callers PROVE LookupTimed(call[d])'
    <3>1. call'[d] = x \/ call'[d] = call[d]
      BY <1>1, <1>3
    <3>2. LookupTimed(call'[d])
      BY <1>1, <2>2, <3>1 DEF LookupTimed, UseInv
    <3> QED BY <1>1, <3>2 DEF LookupTimed
  <2>4. /\ DOMAIN lastUse' = Sessions \cup Tokens
        /\ \A n \in Sessions : lastUse'[n] = IF n = s THEN clock ELSE lastUse[n]
    BY <1>1, <1>3 DEF UseInv
  <2>5. ASSUME NEW n \in Sessions, ~Sliding(n)' PROVE ~Sliding(n)
    <3>1. \A d \in Callers : call[d].pc = "slide" => call'[d] = call[d]
      BY <1>1, <1>3
    <3> QED BY <2>5, <3>1 DEF Sliding
  <2>6. ASSUME NEW n \in Sessions, sessions'[n] # None, ~Sliding(n)' PROVE Recent(n)'
    <3>1. CASE n # s
      BY <1>1, <2>4, <2>5, <2>6, <3>1 DEF UseInv, Recent
    <3>2. CASE n = s
      <4>1. x.pc # "slide"
        BY <1>1, <1>3, <2>2, <2>6, <3>2 DEF Sliding
      <4> QED BY <1>1, <2>2, <2>4, <2>6, <3>2, <4>1 DEF Recent
    <3> QED BY <3>1, <3>2
  <2>7. ASSUME NEW n \in Sessions, sessions'[n] # None PROVE RowTimed(sessions[n])'
    BY <1>1, <2>7 DEF UseInv, RowTimed
  <2>8. \A n \in Sessions : lastUse'[n] \in Nat /\ lastUse'[n] <= clock
    BY <1>1, <2>4 DEF UseInv
  <2> QED BY <1>1, <2>3, <2>4, <2>6, <2>7, <2>8 DEF UseInv
<1> QED BY <1>2, <1>3 DEF LookupUser, Step

\* A touch is as recent as any use.
LEMMA SlideSessionUse ==
  ASSUME Known, UseInv, NEW c \in Callers, SlideSession(c)
  PROVE  UseInv'
<1> DEFINE s == call[c].session
           x == call[c].next
<1>1. /\ call[c].pc = "slide" /\ UNCHANGED <<clock, lastUse>> /\ DOMAIN call = Callers
      /\ s \in Sessions /\ clock \in Nat /\ SlideAfter \in Nat \ {0} /\ SessionTTL \in Nat
      /\ call' = [call EXCEPT ![c] = x] /\ x.pc \notin {"user", "slide", "touch"}
      /\ sessions' = TouchSession(sessions, s, clock, clock + SessionTTL)
      /\ DOMAIN sessions = Sessions
  BY AccountsAssumption
     DEF SlideSession, Step, histVars, Known, CallsKnown, CallKnown, SessionsKnown, UseInv, LookupTimed
<1> HIDE DEF x, s
<1>2. \A n \in Sessions : n # s => sessions'[n] = sessions[n]
  BY <1>1 DEF TouchSession
<1>3. ASSUME sessions'[s] # None
      PROVE  /\ DOMAIN sessions'[s] = {"user", "lastUsed", "expires"}
             /\ sessions'[s].lastUsed = clock /\ sessions'[s].expires = clock + SessionTTL
  <2>1. sessions[s] # None
    BY <1>1, <1>3 DEF TouchSession
  <2>2. DOMAIN sessions[s] = {"user", "lastUsed", "expires"}
    BY <1>1, <2>1 DEF UseInv, RowTimed
  <2> QED BY <1>1, <2>1, <2>2 DEF TouchSession
<1>4. ASSUME NEW n \in Sessions, sessions'[n] # None PROVE RowTimed(sessions[n])'
  <2>1. CASE n = s
    BY <1>1, <1>3, <1>4, <2>1 DEF RowTimed
  <2>2. CASE n # s
    BY <1>1, <1>2, <1>4, <2>2 DEF UseInv, RowTimed
  <2> QED BY <2>1, <2>2
<1>5. ASSUME NEW d \in Callers PROVE LookupTimed(call[d])'
  <2>1. call'[d] = x \/ call'[d] = call[d]
    BY <1>1
  <2>2. CASE call'[d] = x
    BY <1>1, <2>2 DEF LookupTimed
  <2>3. CASE call'[d] = call[d]
    <3>1. LookupTimed(call[d])
      BY DEF UseInv
    <3>2. CASE call[d].session = s
      BY <1>1, <1>3, <2>3, <3>1, <3>2 DEF LookupTimed
    <3>3. CASE call[d].session # s
      BY <1>1, <1>2, <2>3, <3>1, <3>3 DEF LookupTimed
    <3> QED BY <3>2, <3>3
  <2> QED BY <2>1, <2>2, <2>3
<1>6. ASSUME NEW n \in Sessions, sessions'[n] # None, ~Sliding(n)' PROVE Recent(n)'
  <2>1. CASE n = s
    <3>1. lastUse'[s] \in Nat /\ lastUse'[s] <= clock /\ sessions'[s].lastUsed = clock
      BY <1>1, <1>3, <1>6, <2>1 DEF UseInv
    <3> QED BY <1>1, <2>1, <3>1 DEF Recent
  <2>2. CASE n # s
    <3>1. ~Sliding(n)
      <4>1. \A d \in Callers : call[d].pc = "slide" /\ call[d].session = n => call'[d] = call[d]
        BY <1>1, <2>2 DEF s
      <4> QED BY <1>6, <4>1 DEF Sliding
    <3> QED BY <1>1, <1>2, <1>6, <2>2, <3>1 DEF UseInv, Recent
  <2> QED BY <2>1, <2>2
<1> QED BY <1>1, <1>4, <1>5, <1>6 DEF UseInv

LEMMA CreateSessionUse ==
  ASSUME Known, UseInv, NEW c \in Callers, CreateSession(c)
  PROVE  UseInv'
<1>1. PICK s \in Sessions :
        /\ sessions' = InsertSession(sessions, s, [user |-> call[c].user, lastUsed |-> clock,
                                                   expires |-> clock + SessionTTL])
        /\ lastUse' = [lastUse EXCEPT ![s] = clock]
  BY DEF CreateSession
<1>2. /\ call[c].pc = "login" /\ UNCHANGED clock /\ call' = [call EXCEPT ![c] = Idle]
      /\ DOMAIN call = Callers /\ DOMAIN sessions = Sessions
      /\ clock \in Nat /\ SlideAfter \in Nat \ {0} /\ SessionTTL \in Nat
  BY AccountsAssumption
     DEF CreateSession, Done, Step, Known, CallsKnown, SessionsKnown, UseInv
<1>3. HandlersStay
  BY <1>2, CalmDone DEF Done, CreateSession
<1>4. \A n \in Sessions : n # s => sessions'[n] = sessions[n] /\ lastUse'[n] = lastUse[n]
  BY <1>1, <1>2 DEF InsertSession, UseInv
<1>5. /\ DOMAIN sessions'[s] = {"user", "lastUsed", "expires"}
      /\ sessions'[s].lastUsed = clock /\ sessions'[s].expires = clock + SessionTTL
      /\ lastUse'[s] = clock /\ DOMAIN lastUse' = Sessions \cup Tokens
  BY <1>1, <1>2 DEF InsertSession, UseInv
<1>6. ASSUME NEW n \in Sessions, sessions'[n] # None PROVE RowTimed(sessions[n])'
  <2>1. CASE n = s
    BY <1>2, <1>5, <2>1 DEF RowTimed
  <2>2. CASE n # s
    BY <1>2, <1>4, <1>6, <2>2 DEF UseInv, RowTimed
  <2> QED BY <2>1, <2>2
<1>7. ASSUME NEW d \in Callers PROVE LookupTimed(call[d])'
  <2>1. CASE call'[d] = call[d]
    <3>1. LookupTimed(call[d])
      BY DEF UseInv
    <3>2. CASE call[d].session = s
      BY <1>2, <1>5, <2>1, <3>1, <3>2 DEF LookupTimed
    <3>3. CASE call[d].session # s
      BY <1>2, <1>4, <2>1, <3>1, <3>3 DEF LookupTimed
    <3> QED BY <3>2, <3>3
  <2>2. CASE call'[d] = Idle
    BY <2>2 DEF LookupTimed, Idle
  <2> QED BY <1>2, <2>1, <2>2
<1>8. ASSUME NEW n \in Sessions, sessions'[n] # None, ~Sliding(n)' PROVE Recent(n)'
  <2>1. CASE n = s
    BY <1>2, <1>5, <2>1 DEF Recent
  <2>2. CASE n # s
    <3>1. ~Sliding(n)
      BY <1>3, <1>8 DEF HandlersStay, Sliding
    <3> QED BY <1>4, <1>8, <2>2, <3>1 DEF UseInv, Recent
  <2> QED BY <2>1, <2>2
<1>9. \A n \in Sessions : lastUse'[n] \in Nat /\ lastUse'[n] <= clock
  BY <1>2, <1>4, <1>5 DEF UseInv
<1> QED BY <1>2, <1>5, <1>6, <1>7, <1>8, <1>9 DEF UseInv

\* Nobody looks a session up, or is about to slide it, when the clock moves.
LEMMA TickUse ==
  ASSUME Known, UseInv, Tick
  PROVE  UseInv'
<1>1. /\ clock' = clock + 1 /\ clock \in Nat /\ UNCHANGED <<sessions, call, lastUse>>
      /\ \A c \in Callers : call[c].pc \notin {"user", "slide", "touch"}
  BY DEF Tick, storeVars, histVars, UseInv
<1>2. \A c \in Callers : LookupTimed(call[c])'
  BY <1>1 DEF LookupTimed
<1>3. ASSUME NEW s \in Sessions, sessions'[s] # None PROVE RowTimed(sessions[s])'
  BY <1>1, <1>3 DEF UseInv, RowTimed
<1>4. ASSUME NEW s \in Sessions, sessions'[s] # None PROVE Recent(s)'
  BY <1>1, <1>4 DEF UseInv, Recent, Sliding
<1>5. \A s \in Sessions : lastUse'[s] \in Nat /\ lastUse'[s] <= clock'
  BY <1>1 DEF UseInv
<1> QED BY <1>1, <1>2, <1>3, <1>4, <1>5 DEF UseInv

\* A use whose slide is lost does not count.
LEMMA RestartUse ==
  ASSUME Known, UseInv, ServerRestart
  PROVE  UseInv'
<1>1. /\ UNCHANGED <<sessions, clock>> /\ call' = [c \in Callers |-> Idle]
      /\ DOMAIN lastUse' = Sessions \cup Tokens
  BY DEF ServerRestart, Restart, storeVars
<1>2. ASSUME NEW s \in Sessions
      PROVE  lastUse'[s] = IF Sliding(s) THEN IF sessions[s] = None THEN 0 ELSE sessions[s].lastUsed
                           ELSE lastUse[s]
  <2>1. \A c \in Callers : ~(call[c].pc = "touch" /\ call[c].token = s)
    BY AccountsAssumption DEF UseInv, LookupTimed
  <2> QED BY <2>1 DEF ServerRestart, Restart, Sliding
<1>3. \A c \in Callers : LookupTimed(call[c])'
  BY <1>1 DEF LookupTimed, Idle
<1>4. ASSUME NEW s \in Sessions PROVE lastUse'[s] \in Nat /\ lastUse'[s] <= clock
  BY <1>2 DEF UseInv, RowTimed
<1>5. ASSUME NEW s \in Sessions, sessions'[s] # None PROVE RowTimed(sessions[s])' /\ Recent(s)'
  <2>1. sessions'[s] = sessions[s] /\ sessions[s].lastUsed \in Nat /\ SlideAfter \in Nat \ {0}
    BY <1>1, <1>5, AccountsAssumption DEF UseInv, RowTimed
  <2>2. RowTimed(sessions[s])'
    BY <1>1, <1>5 DEF UseInv, RowTimed
  <2>3. lastUse'[s] = sessions[s].lastUsed \/ (lastUse'[s] = lastUse[s] /\ Recent(s))
    <3>1. sessions[s] # None
      BY <1>5, <2>1
    <3>2. CASE Sliding(s)
      BY <1>2, <3>1, <3>2
    <3>3. CASE ~Sliding(s)
      BY <1>2, <3>1, <3>3 DEF UseInv
    <3> QED BY <3>2, <3>3
  <2>4. Recent(s)'
    BY <2>1, <2>3 DEF Recent
  <2> QED BY <2>2, <2>4
<1> QED BY <1>1, <1>3, <1>4, <1>5 DEF UseInv

-----------------------------------------------------------------------------
LEMMA ServeUse ==
  ASSUME Known, UseInv, Serve
  PROVE  UseInv'
<1>1. ASSUME NEW c \in Callers, Answer(c) PROVE Calm
  <2>1. Done(c) /\ call[c].pc = "authorised" /\ UNCHANGED <<sessions, clock, lastUse>>
    BY <1>1 DEF Answer, storeVars, histVars
  <2> QED BY <2>1, CalmDone, CalmSessions, CalmUses DEF Calm
<1>2. CASE SweepSessions \/ SweepTokens
  <2>1. SessionsEnd
    BY <1>2, CalmSessions DEF SweepSessions, SweepTokens
  <2> QED BY <1>2, <2>1, CalmCalls, CalmUses, CalmInv DEF SweepSessions, SweepTokens, histVars, Calm
<1>3. ASSUME NEW c \in Callers,
             \/ SessionAction(c) \/ BearerAction(c) \/ UserAction(c) \/ TokenAction(c)
             \/ SubAction(c) \/ Answer(c)
      PROVE  UseInv'
  <2>1. CASE SessionAction(c)
    BY <2>1, SessionActionCalm, CalmInv, LookupUse, LookupUserUse, SlideSessionUse, CreateSessionUse
  <2>2. CASE BearerAction(c) \/ UserAction(c) \/ TokenAction(c) \/ SubAction(c) \/ Answer(c)
    BY <1>1, <2>2, BearerActionCalm, UserActionCalm, TokenActionCalm, SubActionCalm, CalmInv
  <2> QED BY <1>3, <2>1, <2>2
<1> QED BY <1>2, <1>3, TickUse DEF Serve

LEMMA InvitesNextCalm ==
  ASSUME Known, InvitesNext
  PROVE  Calm
<1>1. UNCHANGED <<sessions, clock, lastUse>>
  BY DEF InvitesNext, Create, UsersInvite, Delete, Signup, RunInvite, InitStep, Provision, vars,
     storeVars, histVars
<1>2. ASSUME NEW c \in Callers, Create(c) \/ UsersInvite(c) PROVE HandlersStay
  <2>1. Done(c) /\ call[c].pc = "authorised"
    BY <1>2 DEF Create, UsersInvite, May
  <2> QED BY <2>1, CalmDone
<1>3. ASSUME NEW c \in Callers, Delete(c) PROVE HandlersStay
  <2>1. call' = call \/ (Done(c) /\ call[c].pc = "authorised")
    BY <1>3 DEF Delete, vars, May
  <2> QED BY <2>1, CalmDone, CalmCalls
<1>4. ASSUME \/ RunInvite \/ InitStep
             \/ \E c \in Callers : Signup(c) \/ \E i \in Codes : \E u \in Users : Provision(c, i, u)
      PROVE  HandlersStay
  BY <1>4, CalmCalls DEF RunInvite, InitStep, Signup, Provision
<1>5. HandlersStay
  BY <1>2, <1>3, <1>4 DEF InvitesNext
<1> QED BY <1>1, <1>5, CalmSessions, CalmUses DEF Calm

LEMMA PairingNextCalm ==
  ASSUME Known, PairingNext
  PROVE  Calm
<1>1. UNCHANGED <<sessions, clock, lastUse>>
  BY DEF PairingNext, Start, Poll, WriteToken, WriteFails, Receive, GiveUp, RevokeBearer,
     DeleteProfile, MintEphemeralListener, RevokeEphemeralListener, ApproveCore, Deny, Approve,
     MarkFetched, SweepPairings, accountVars, vars, storeVars, histVars
<1>2. ASSUME NEW c \in Callers, ApproveCore(c) \/ Deny(c) PROVE HandlersStay
  <2>1. Done(c) /\ call[c].pc = "authorised"
    BY <1>2 DEF ApproveCore, Deny, May
  <2> QED BY <2>1, CalmDone
<1>3. ASSUME ~\E c \in Callers : ApproveCore(c) \/ Deny(c) PROVE call' = call
  BY <1>3 DEF PairingNext, Start, Poll, WriteToken, WriteFails, Receive, GiveUp, RevokeBearer,
     DeleteProfile, MintEphemeralListener, RevokeEphemeralListener, Approve,
     MarkFetched, SweepPairings, accountVars, vars
<1>4. HandlersStay
  BY <1>2, <1>3, CalmCalls
<1> QED BY <1>1, <1>4, CalmSessions, CalmUses DEF Calm

LEMMA UseStep ==
  ASSUME Known, UseInv, [EnrolmentNext]_enrolmentVars
  PROVE  UseInv'
<1>1. CASE Serve
  BY <1>1, ServeUse
<1>2. CASE InvitesNext \/ PairingNext
  BY <1>2, InvitesNextCalm, PairingNextCalm, CalmInv
<1>3. CASE HooksctlNext \/ UNCHANGED vars
  <2>1. UNCHANGED <<sessions, call, clock, lastUse>>
    BY <1>3, HooksctlQuiet DEF vars, storeVars, histVars
  <2> QED BY <2>1, CalmCalls, CalmSessions, CalmUses, CalmInv DEF Calm
<1>4. CASE ServerRestart
  BY <1>4, RestartUse
<1> QED BY <1>1, <1>2, <1>3, <1>4 DEF EnrolmentNext, enrolmentVars

\* A session that is used does not expire within its TTL, less the interval within which
\* the expiry is not moved again, whatever look-ups and slides of it are under way at once.
THEOREM UseProlongs == EnrolmentSpec => []SessionOutlivesUse
<1>1. EnrolmentInit => UseInv
  BY UseInitInv
<1>2. Known /\ UseInv /\ [EnrolmentNext]_enrolmentVars => UseInv'
  BY UseStep
<1>3. Known /\ UseInv => SessionOutlivesUse
  <2> SUFFICES ASSUME Known, UseInv, NEW s \in Keys(sessions),
                      \A c \in Callers : call[c].pc = "slide" => call[c].session # s
               PROVE  sessions[s].expires > lastUse[s] + SessionTTL - SlideAfter
    BY DEF SessionOutlivesUse
  <2>1. s \in Sessions /\ sessions[s] # None
    BY DEF Keys, Known, SessionsKnown
  <2>2. /\ sessions[s].lastUsed \in Nat /\ lastUse[s] \in Nat
        /\ sessions[s].expires = sessions[s].lastUsed + SessionTTL
        /\ lastUse[s] - sessions[s].lastUsed < SlideAfter
    BY <2>1 DEF UseInv, RowTimed, Recent, Sliding
  <2> QED BY <2>2, AccountsAssumption
<1> QED BY <1>1, <1>2, <1>3, EnrolmentInvariance, PTL DEF EnrolmentSpec
-----------------------------------------------------------------------------
(* The sweep of idle tokens.                                               *)

\* Since when the sweep takes a token to be idle.
UsedAt(k) == IF tokens[k].lastUsed = None THEN tokens[k].created ELSE tokens[k].lastUsed

Touching(k) == \E c \in Callers : call[c].pc = "touch" /\ call[c].token = k

\* The row is behind the uses by less than the interval: the time in memory, which
\* decides whether a use is recorded, is not ahead of the row.
Caught(k) ==
  /\ lastUse[k] - UsedAt(k) < TouchAfter
  /\ touched[k] # None => touched[k] <= UsedAt(k)

TouchInv ==
  /\ \A k \in Tokens : touched[k] # None => touched[k] <= clock
  /\ \A k \in Tokens : tokens[k] = None => touched[k] = None /\ lastUse[k] = 0
  /\ \A k \in Tokens : Touching(k) => lastUse[k] <= clock
  /\ \A k \in Tokens : tokens[k] # None /\ ~Touching(k) => Caught(k)

LEMMA TimesTyped ==
  ASSUME AccountsTyped
  PROVE  /\ clock \in Nat /\ TouchAfter \in Nat \ {0}
         /\ \A k \in Tokens : /\ touched[k] # None => touched[k] \in Nat
                              /\ lastUse[k] \in Nat
                              /\ tokens[k] # None => UsedAt(k) \in Nat
<1>1. clock \in Nat /\ TouchAfter \in Nat \ {0}
  BY AccountsAssumption DEF AccountsTyped, CountsTyped
<1>2. ASSUME NEW k \in Tokens, tokens[k] # None PROVE UsedAt(k) \in Nat
  <2>1. tokens[k] \in TokenRow
    BY <1>2 DEF AccountsTyped, TokensTyped
  <2> QED BY <2>1 DEF TokenRow, UsedAt
<1> QED BY <1>1, <1>2 DEF AccountsTyped, UsesTyped

LEMMA TouchInitInv ==
  ASSUME EnrolmentInit
  PROVE  TouchInv
<1>1. /\ call = [c \in Callers |-> Idle] /\ touched = [k \in Tokens |-> None]
      /\ lastUse = [x \in Sessions \cup Tokens |-> 0]
  BY DEF EnrolmentInit, Init
<1>2. AccountsTyped
  BY InitTypes DEF Types
<1>3. ASSUME NEW k \in Tokens, tokens[k] # None PROVE Caught(k)
  <2>1. UsedAt(k) \in Nat /\ TouchAfter \in Nat \ {0} /\ lastUse[k] = 0 /\ touched[k] = None
    BY <1>1, <1>2, <1>3, TimesTyped
  <2> QED BY <2>1 DEF Caught
<1> QED BY <1>1, <1>3 DEF TouchInv, Touching, Idle

-----------------------------------------------------------------------------
(* Steps that use no token.                                                *)

TouchesStay ==
  \A c \in Callers : call[c].pc = "touch" \/ call'[c].pc = "touch" => call'[c] = call[c]

TokensUnused == TokensGrow(tokens') /\ TokensAge(tokens')

Steady ==
  /\ TouchesStay /\ TokensUnused
  /\ \A k \in Tokens : lastUse'[k] = lastUse[k]
  /\ UNCHANGED <<touched, clock>>

LEMMA SteadyInv ==
  ASSUME AccountsTyped, TouchInv, Steady
  PROVE  TouchInv'
<1>1. \A k \in Tokens : Touching(k)' = Touching(k)
  BY DEF Steady, TouchesStay, Touching
<1>2. /\ \A k \in Tokens : touched'[k] # None => touched'[k] <= clock'
      /\ \A k \in Tokens : tokens'[k] = None => touched'[k] = None /\ lastUse'[k] = 0
      /\ \A k \in Tokens : Touching(k)' => lastUse'[k] <= clock'
  BY <1>1 DEF Steady, TouchInv, TokensUnused, TokensGrow
<1>3. ASSUME NEW k \in Tokens, tokens'[k] # None, ~Touching(k)' PROVE Caught(k)'
  <2>1. CASE tokens[k] # None
    <3>1. UsedAt(k)' = UsedAt(k)
      BY <1>3, <2>1 DEF Steady, TokensUnused, TokensAge, UsedAt
    <3>2. Caught(k)
      BY <1>1, <1>3, <2>1 DEF TouchInv
    <3> QED BY <3>1, <3>2 DEF Steady, Caught
  <2>2. CASE tokens[k] = None
    <3>1. tokens'[k] \in TokenRow /\ tokens'[k].lastUsed = None
      BY <1>3, <2>2 DEF Steady, TokensUnused, TokensAge, TokensGrow
    <3>2. UsedAt(k)' \in Nat
      BY <3>1 DEF UsedAt, TokenRow
    <3>3. lastUse'[k] = 0 /\ touched'[k] = None /\ TouchAfter \in Nat \ {0}
      BY <2>2, TimesTyped DEF Steady, TouchInv
    <3> QED BY <3>2, <3>3 DEF Caught
  <2> QED BY <2>1, <2>2
<1> QED BY <1>2, <1>3 DEF TouchInv

LEMMA SteadyCalls ==
  ASSUME call' = call
  PROVE  TouchesStay
BY DEF TouchesStay

LEMMA SteadyNext ==
  ASSUME Known, NEW c \in Callers, NEW x, x.pc # "touch", call[c].pc # "touch",
         call' = [call EXCEPT ![c] = x]
  PROVE  TouchesStay
BY DEF TouchesStay, Known, CallsKnown

LEMMA SteadyDone ==
  ASSUME Known, NEW c \in Callers, call[c].pc # "touch", Done(c)
  PROVE  TouchesStay
BY SteadyNext DEF Done, Step, Idle

\* What is written of a row, other than by a touch.
LEMMA SteadyTokens ==
  ASSUME Known, AccountsTyped,
         \/ tokens' = tokens
         \/ \E k : tokens' = RevokeToken(tokens, k)
         \/ \E k : \E u \in Users \cup {None} : tokens' = UpdateTokenOwner(tokens, k, u)
         \/ \E k \in Tokens : \E row \in TokenRow :
              tokens[k] = None /\ row.lastUsed = None /\ tokens' = InsertToken(tokens, k, row)
         \/ \E u : tokens' = RevokeTokensByOwner(tokens, u)
         \/ \E cutoff : tokens' = ExpireEphemeralTokensIdle(tokens, cutoff)
  PROVE  TokensUnused
<1> USE DEF TokensUnused
<1>1. CASE tokens' = tokens
  BY <1>1, RowsKept
<1>2. ASSUME NEW k, tokens' = RevokeToken(tokens, k) PROVE TokensUnused
  BY <1>2, TokenColumn, AgeColumn DEF RevokeToken
<1>3. ASSUME NEW k, NEW u \in Users \cup {None}, tokens' = UpdateTokenOwner(tokens, k, u)
      PROVE  TokensUnused
  BY <1>3, TokenColumn, AgeColumn DEF UpdateTokenOwner
<1>4. ASSUME NEW k \in Tokens, NEW row \in TokenRow, tokens[k] = None, row.lastUsed = None,
             tokens' = InsertToken(tokens, k, row)
      PROVE  TokensUnused
  BY <1>4, TokenInsertion, AgeInsertion
<1>5. ASSUME NEW u, tokens' = RevokeTokensByOwner(tokens, u) PROVE TokensUnused
  BY <1>5, TokensRevoked, AgeEnded
<1>6. ASSUME NEW cutoff, tokens' = ExpireEphemeralTokensIdle(tokens, cutoff) PROVE TokensUnused
  BY <1>6, TokensExpired, AgeEnded
<1> QED BY <1>1, <1>2, <1>3, <1>4, <1>5, <1>6

\* A new row.
LEMMA SteadyIssue ==
  ASSUME Known, AccountsTyped, NEW u \in Users \cup {None}, NEW kind \in {"pat", "listener"},
         NEW ephemeral \in BOOLEAN, NEW scopes \in SUBSET Scopes, NEW k \in Tokens, tokens[k] = None,
         tokens' = InsertToken(tokens, k, Issued(u, kind, ephemeral, scopes))
  PROVE  TokensUnused
<1> DEFINE row == Issued(u, kind, ephemeral, scopes)
<1>1. row \in TokenRow
  BY IssuedRow
<1>2. row.lastUsed = None
  BY DEF Issued
<1> HIDE DEF row
<1>3. tokens' = InsertToken(tokens, k, row)
  BY DEF row
<1> QED BY <1>1, <1>2, <1>3, SteadyTokens

LEMMA SessionActionSteady ==
  ASSUME Known, AccountsTyped, NEW c \in Callers, SessionAction(c)
  PROVE  Steady
<1>0. TokensUnused /\ UNCHANGED <<touched, clock>>
  <2>1. UNCHANGED <<tokens, touched, clock>>
    BY DEF SessionAction, Login, Authenticate, CreateSession, Lookup, Logout, LookupUser,
           SlideSession, DropSession, storeVars
  <2> QED BY <2>1, SteadyTokens
<1>1. ASSUME NEW u \in Users, Authenticate(c, u) PROVE Steady
  <2>1. PICK x : x.pc = "login" /\ call' = [call EXCEPT ![c] = x]
    BY <1>1 DEF Authenticate, Begin
  <2>2. call[c].pc # "touch" /\ UNCHANGED lastUse
    BY <1>1 DEF Authenticate, Begin, Idle, histVars
  <2> QED BY <1>0, <2>1, <2>2, SteadyNext DEF Steady
<1>2. CASE CreateSession(c)
  <2>1. Done(c) /\ call[c].pc # "touch" /\ \E s \in Sessions : lastUse' = [lastUse EXCEPT ![s] = clock]
    BY <1>2 DEF CreateSession
  <2>2. \A k \in Tokens : lastUse'[k] = lastUse[k]
    BY <2>1, AccountsAssumption DEF AccountsTyped, UsesTyped
  <2> QED BY <1>0, <2>1, <2>2, SteadyDone DEF Steady
<1>3. ASSUME NEW s \in Sessions, Lookup(c, s) PROVE Steady
  <2> DEFINE x == IF clock > sessions[s].expires THEN [pc |-> "drop", session |-> s]
                  ELSE [pc |-> "user", session |-> s, user |-> sessions[s].user,
                        slide |-> clock - sessions[s].lastUsed >= SlideAfter]
  <2>1. x.pc # "touch" /\ call' = [call EXCEPT ![c] = x]
    BY <1>3 DEF Lookup, Begin
  <2> HIDE DEF x
  <2>2. call[c].pc # "touch" /\ UNCHANGED lastUse
    BY <1>3 DEF Lookup, Begin, Idle, histVars
  <2> QED BY <1>0, <2>1, <2>2, SteadyNext DEF Steady
<1>4. ASSUME NEW s \in Sessions, Logout(c, s) PROVE Steady
  <2>1. call' = [call EXCEPT ![c] = Idle] /\ call[c].pc # "touch" /\ Idle.pc = "idle" /\ UNCHANGED lastUse
    BY <1>4 DEF Logout, Begin, Idle, histVars
  <2> QED BY <1>0, <2>1, SteadyNext DEF Steady
<1>5. CASE LookupUser(c)
  <2>1. PICK x : x.pc # "touch" /\ call' = [call EXCEPT ![c] = x]
    <3>1. \A may : Authorised(may, call[c].user, None).pc = "authorised"
      BY DEF Authorised
    <3> QED BY <1>5, <3>1 DEF LookupUser, Step
  <2>2. call[c].pc = "user" /\ (lastUse' = lastUse \/ lastUse' = [lastUse EXCEPT ![call[c].session] = clock])
    BY <1>5 DEF LookupUser
  <2>3. call[c].session \in Sessions
    BY <2>2, CallForms DEF AccountsTyped, CallsTyped
  <2>4. \A k \in Tokens : lastUse'[k] = lastUse[k]
    BY <2>2, <2>3, AccountsAssumption DEF AccountsTyped, UsesTyped
  <2> QED BY <1>0, <2>1, <2>2, <2>4, SteadyNext DEF Steady
<1>6. CASE SlideSession(c)
  <2>1. call' = [call EXCEPT ![c] = call[c].next] /\ call[c].next.pc # "touch" /\ call[c].pc = "slide"
    BY <1>6 DEF SlideSession, Step, Known, CallsKnown, CallKnown
  <2> QED BY <1>0, <1>6, <2>1, SteadyNext DEF SlideSession, histVars, Steady
<1>7. CASE DropSession(c)
  <2>1. Done(c) /\ call[c].pc # "touch" /\ UNCHANGED lastUse
    BY <1>7 DEF DropSession, histVars
  <2> QED BY <1>0, <2>1, SteadyDone DEF Steady
<1> QED BY <1>1, <1>2, <1>3, <1>4, <1>5, <1>6, <1>7 DEF SessionAction, Login

LEMMA TokenActionSteady ==
  ASSUME Known, AccountsTyped, NEW c \in Callers, TokenAction(c)
  PROVE  Steady
<1>1. UNCHANGED <<touched, clock, lastUse>>
  BY DEF TokenAction, Issue, TokensCreate, CreateToken, MeCreateToken, RevokeChecked, Revoke,
     TokensRevoke, RevokeOwn, MeRevokeToken, TransferToken, Give, TokenStep
<1>2. ASSUME NEW k \in Tokens, RevokeOwn(c, k) \/ MeRevokeToken(c, k) PROVE TouchesStay
  <2>1. PICK x : x.pc = "revoke" /\ call' = [call EXCEPT ![c] = x]
    BY <1>2 DEF RevokeOwn, MeRevokeToken, Step
  <2>2. call[c].pc = "authorised"
    BY <1>2 DEF RevokeOwn, MeRevokeToken, May
  <2> QED BY <2>1, <2>2, SteadyNext
<1>3. TouchesStay
  BY <1>2, SteadyDone DEF TokenAction, Issue, TokensCreate, CreateToken, MeCreateToken, RevokeChecked,
     Revoke, TokensRevoke, TransferToken, Give, May
<1>4. ASSUME NEW u \in Users \cup {None}, NEW kind \in {"pat", "listener"}, NEW ephemeral \in BOOLEAN,
             NEW scopes \in SUBSET Scopes, Give(c, Issued(u, kind, ephemeral, scopes))
      PROVE  TokensUnused
  BY <1>4, SteadyIssue DEF Give
<1>5. ASSUME Issue(c) \/ TokensCreate(c) \/ CreateToken(c) \/ MeCreateToken(c) PROVE TokensUnused
  <2>1. Keys(users) \subseteq Users
    BY DEF Known, Keys
  <2>2. May(c, "me") => call[c].as.user \in Users /\ HeldScopes(c) \subseteq Scopes
    BY HeldTyped
  <2>3. CASE Issue(c)
    BY <1>4, <2>3 DEF Issue
  <2>4. CASE TokensCreate(c)
    BY <1>4, <2>1, <2>4 DEF TokensCreate
  <2>5. CASE CreateToken(c)
    BY <1>4, <2>2, <2>5 DEF CreateToken
  <2>6. CASE MeCreateToken(c)
    BY <1>4, <2>2, <2>6 DEF MeCreateToken
  <2> QED BY <1>5, <2>3, <2>4, <2>5, <2>6
<1>6. ASSUME NEW k \in Tokens, TransferToken(c, k) PROVE TokensUnused
  <2>1. \E u \in Users \cup {None} : tokens' = UpdateTokenOwner(tokens, k, u)
    BY <1>6 DEF TransferToken, Keys, Known
  <2> QED BY <2>1, SteadyTokens
<1>7. ASSUME \/ RevokeChecked(c)
             \/ \E k \in Tokens : \/ Revoke(c, k) \/ TokensRevoke(c, k) \/ RevokeOwn(c, k)
                                  \/ MeRevokeToken(c, k)
      PROVE  TokensUnused
  <2>1. tokens' = tokens \/ \E k : tokens' = RevokeToken(tokens, k)
    BY <1>7 DEF RevokeChecked, Revoke, TokensRevoke, RevokeOwn, MeRevokeToken
  <2> QED BY <2>1, SteadyTokens
<1>8. TokensUnused
  BY <1>5, <1>6, <1>7 DEF TokenAction
<1> QED BY <1>1, <1>3, <1>8 DEF Steady

LEMMA SubActionSteady ==
  ASSUME Known, AccountsTyped, NEW c \in Callers, SubAction(c)
  PROVE  Steady
<1>1. UNCHANGED <<tokens, touched, clock, lastUse>>
  BY DEF SubAction, CreateSub, PushCreate, Register, RequireOwnedSub, PauseSub, ResumeSub,
     DeleteSub, MeRequireOwnedSub, PushFormPause, PushFormResume, PushFormDelete, TransferSub, SubStep
<1>2. ASSUME NEW s \in Subs, RequireOwnedSub(c, s) \/ MeRequireOwnedSub(c, s) PROVE TouchesStay
  <2>1. PICK act \in {"pause", "resume", "delete"} : call' = [call EXCEPT ![c] = [pc |-> act, sub |-> s]]
    BY <1>2 DEF RequireOwnedSub, MeRequireOwnedSub, Step
  <2>2. call[c].pc = "authorised"
    BY <1>2 DEF RequireOwnedSub, MeRequireOwnedSub, May
  <2> QED BY <2>1, <2>2, SteadyNext
<1>3. ASSUME NEW s \in Subs,
             \/ PauseSub(c, s) \/ ResumeSub(c, s) \/ DeleteSub(c, s) \/ TransferSub(c, s)
             \/ PushFormPause(c, s) \/ PushFormResume(c, s) \/ PushFormDelete(c, s)
      PROVE  TouchesStay
  <2>1. Done(c) /\ call[c].pc \in {"authorised", "pause", "resume", "delete"}
    BY <1>3 DEF PauseSub, ResumeSub, DeleteSub, PushFormPause, PushFormResume, PushFormDelete,
       TransferSub, Proceeds, May
  <2> QED BY <2>1, SteadyDone
<1>4. ASSUME CreateSub(c) \/ PushCreate(c) PROVE TouchesStay
  <2>1. Done(c) /\ call[c].pc = "authorised"
    BY <1>4 DEF CreateSub, PushCreate, Register, May
  <2> QED BY <2>1, SteadyDone
<1>5. TouchesStay
  BY <1>2, <1>3, <1>4 DEF SubAction
<1>6. TokensUnused
  BY <1>1, SteadyTokens
<1> QED BY <1>1, <1>5, <1>6 DEF Steady

LEMMA UserActionSteady ==
  ASSUME Known, AccountsTyped, NEW c \in Callers, UserAction(c)
  PROVE  Steady
<1>0. ASSUME UNCHANGED <<tokens, touched, clock, lastUse>>, TouchesStay PROVE Steady
  BY <1>0, SteadyTokens DEF Steady
<1>1. ASSUME NEW u \in Users, Deactivate(c, u) PROVE Steady
  <2>1. Done(c) /\ call[c].pc = "authorised" /\ UNCHANGED <<touched, clock, lastUse>>
    BY <1>1 DEF Deactivate, May, histVars
  <2>2. tokens' = RevokeTokensByOwner(tokens, u)
    BY <1>1 DEF Deactivate, DeactivateUserCascade
  <2> QED BY <2>1, <2>2, SteadyDone, SteadyTokens DEF Steady
<1>2. ASSUME NEW u \in Users, Reactivate(c, u) PROVE Steady
  <2>1. Done(c) /\ call[c].pc = "authorised" /\ UNCHANGED <<tokens, touched, clock, lastUse>>
    BY <1>2 DEF Reactivate, May
  <2> QED BY <1>0, <2>1, SteadyDone
<1>3. ASSUME NEW u \in Users, ResetPassword(c, u) PROVE Steady
  <2>1. PICK x : x.pc = "evict" /\ call' = [call EXCEPT ![c] = x]
    BY <1>3 DEF ResetPassword, Step
  <2>2. call[c].pc = "authorised" /\ UNCHANGED <<tokens, touched, clock, lastUse>>
    BY <1>3 DEF ResetPassword, May, histVars
  <2> QED BY <1>0, <2>1, <2>2, SteadyNext
<1>5. ASSUME NEW u \in Users, PatchUser(c, u) PROVE Steady
  <2>1. PICK x : x.pc = "patch" /\ call' = [call EXCEPT ![c] = x]
    BY <1>5 DEF PatchUser, Step
  <2>2. call[c].pc = "authorised" /\ UNCHANGED <<tokens, touched, clock, lastUse>>
    BY <1>5 DEF PatchUser, May, storeVars, histVars
  <2> QED BY <1>0, <2>1, <2>2, SteadyNext
<1>4. CASE WriteProfile(c) \/ PatchMe(c) \/ EvictSessions(c)
  <2>1. /\ Done(c) /\ call[c].pc \in {"authorised", "patch", "evict"}
        /\ UNCHANGED <<tokens, touched, clock, lastUse>>
    BY <1>4 DEF WriteProfile, PatchMe, EvictSessions, May, histVars
  <2> QED BY <1>0, <2>1, SteadyDone
<1> QED BY <1>1, <1>2, <1>3, <1>4, <1>5
        DEF UserAction, UsersDeactivate, UsersReactivate, UsersResetPassword, UsersUpdate

LEMMA InvitesNextSteady ==
  ASSUME Known, AccountsTyped, InvitesNext
  PROVE  Steady
<1>1. UNCHANGED <<touched, clock, lastUse>>
  BY DEF InvitesNext, Create, UsersInvite, Delete, Signup, RunInvite, InitStep, Provision, vars,
     storeVars, histVars
<1>2. ASSUME NEW c \in Callers, Create(c) \/ UsersInvite(c) PROVE TouchesStay
  <2>1. Done(c) /\ call[c].pc = "authorised"
    BY <1>2 DEF Create, UsersInvite, May
  <2> QED BY <2>1, SteadyDone
<1>3. ASSUME NEW c \in Callers, Delete(c) PROVE TouchesStay
  <2>1. call' = call \/ (Done(c) /\ call[c].pc = "authorised")
    BY <1>3 DEF Delete, vars, May
  <2> QED BY <2>1, SteadyDone, SteadyCalls
<1>4. ASSUME \/ RunInvite \/ InitStep
             \/ \E c \in Callers : Signup(c) \/ \E i \in Codes : \E u \in Users : Provision(c, i, u)
      PROVE  TouchesStay
  BY <1>4, SteadyCalls DEF RunInvite, InitStep, Signup, Provision
<1>5. TouchesStay
  BY <1>2, <1>3, <1>4 DEF InvitesNext
<1>6. CASE InitStep
  <2>1. \/ tokens' = tokens
        \/ \E k \in Tokens : /\ tokens[k] = None
                             /\ tokens' = InsertToken(tokens, k, Issued(None, "listener", FALSE, {"admin"}))
    BY <1>6 DEF InitStep, RunInit
  <2>2. TokensUnused
    BY <2>1, SteadyTokens, SteadyIssue, AccountsAssumption
  <2> QED BY <1>1, <1>5, <2>2 DEF Steady
<1>7. CASE ~InitStep
  <2>1. tokens' = tokens
    BY <1>7 DEF InvitesNext, Create, UsersInvite, Delete, Signup, RunInvite, Provision, vars, storeVars
  <2> QED BY <1>1, <1>5, <2>1, SteadyTokens DEF Steady
<1> QED BY <1>6, <1>7

LEMMA PairingNextSteady ==
  ASSUME Known, AccountsTyped, PairingTypeOK, PairingNext
  PROVE  Steady
<1>1. UNCHANGED <<touched, clock, lastUse>>
  BY DEF PairingNext, Start, Poll, WriteToken, WriteFails, Receive, GiveUp, RevokeBearer,
     DeleteProfile, MintEphemeralListener, RevokeEphemeralListener, ApproveCore, Deny, Approve,
     MarkFetched, SweepPairings, accountVars, vars, storeVars, histVars
<1>2. ASSUME NEW c \in Callers, ApproveCore(c) \/ Deny(c) PROVE TouchesStay
  <2>1. Done(c) /\ call[c].pc = "authorised"
    BY <1>2 DEF ApproveCore, Deny, May
  <2> QED BY <2>1, SteadyDone
<1>3. ASSUME ~\E c \in Callers : ApproveCore(c) \/ Deny(c) PROVE call' = call
  BY <1>3 DEF PairingNext, Start, Poll, WriteToken, WriteFails, Receive, GiveUp, RevokeBearer,
     DeleteProfile, MintEphemeralListener, RevokeEphemeralListener, Approve,
     MarkFetched, SweepPairings, accountVars, vars
<1>4. TouchesStay
  BY <1>2, <1>3, SteadyCalls
<1>5. ASSUME NEW l \in Terminals, RevokeBearer(l) \/ RevokeEphemeralListener(l) PROVE TokensUnused
  <2>1. tokens' = tokens \/ \E k : tokens' = RevokeToken(tokens, k)
    BY <1>5 DEF RevokeBearer, RevokeEphemeralListener
  <2> QED BY <2>1, SteadyTokens
<1>6. ASSUME NEW l \in Terminals, MintEphemeralListener(l) PROVE TokensUnused
  <2> DEFINE owner == tokens[profile[l]].owner
  <2>1. owner \in Users \cup {None}
    BY <1>6 DEF MintEphemeralListener, Accepted, ListActiveTokens, Known, TokensKnown, Keys
  <2> HIDE DEF owner
  <2>2. \E k \in Tokens : /\ tokens[k] = None
                          /\ tokens' = InsertToken(tokens, k, Issued(owner, "listener", TRUE, Scopes \ {"admin"}))
    BY <1>6 DEF MintEphemeralListener, owner
  <2> QED BY <2>1, <2>2, SteadyIssue
<1>7. ASSUME NEW c \in Callers, Approve(c) PROVE TokensUnused
  <2> DEFINE u == approval[c].user
             scopes == approval[c].scopes
  <2>1. u \in Users /\ scopes \in SUBSET Scopes
    BY <1>7 DEF Approve, PairingTypeOK, Idle
  <2>2. \/ tokens' = tokens
        \/ \E k \in Tokens : tokens[k] = None /\ tokens' = InsertToken(tokens, k, Issued(u, "pat", FALSE, scopes))
    BY <1>7 DEF Approve, ApproveDevicePairing
  <2> HIDE DEF u, scopes
  <2> QED BY <2>1, <2>2, SteadyTokens, SteadyIssue
<1>8. ASSUME ~(\E c \in Callers : Approve(c)),
             ~(\E l \in Terminals : \/ RevokeBearer(l) \/ RevokeEphemeralListener(l)
                                    \/ MintEphemeralListener(l))
      PROVE  TokensUnused
  <2>1. tokens' = tokens
    BY <1>8 DEF PairingNext, Start, Poll, WriteToken, WriteFails, Receive, GiveUp, DeleteProfile,
       ApproveCore, Deny, MarkFetched, SweepPairings, accountVars, vars, storeVars
  <2> QED BY <2>1, SteadyTokens
<1>9. TokensUnused
  BY <1>5, <1>6, <1>7, <1>8
<1> QED BY <1>1, <1>4, <1>9 DEF Steady

-----------------------------------------------------------------------------
(* Steps that use a token, record its use, or lose it.                     *)

\* A use that is not recorded follows a recorded one within the interval.
LEMMA ResolveTouch ==
  ASSUME Known, AccountsTyped, TouchInv, NEW c \in Callers, NEW k \in Tokens, Resolve(c, k)
  PROVE  TouchInv'
<1> DEFINE due == touched[k] = None \/ clock - touched[k] >= TouchAfter
<1>1. /\ call[c] = Idle /\ tokens[k] # None /\ UNCHANGED <<tokens, clock>>
      /\ touched' = IF due THEN [touched EXCEPT ![k] = clock] ELSE touched
      /\ lastUse' = [lastUse EXCEPT ![k] = clock]
  BY DEF Resolve, Begin, ListActiveTokens, Keys, storeVars
<1>2. PICK x : /\ call' = [call EXCEPT ![c] = x]
               /\ due => x.pc = "touch" /\ x.token = k
               /\ ~due => x.pc # "touch"
  <2>1. PICK next \in AuthorizeAdmin(k) \cup AuthorizeSource(k) \cup ResolveCaller(k) \cup {Idle} :
          call' = [call EXCEPT ![c] = IF due THEN [pc |-> "touch", token |-> k, next |-> next] ELSE next]
    BY DEF Resolve, Begin
  <2>2. next.pc # "touch"
    BY <2>1 DEF AuthorizeAdmin, AuthorizeSource, ResolveCaller, Authorised, Idle
  <2> HIDE DEF due
  <2>3. CASE due
    <3> DEFINE y == [pc |-> "touch", token |-> k, next |-> next]
    <3>1. y.pc = "touch" /\ y.token = k /\ call' = [call EXCEPT ![c] = y]
      BY <2>1, <2>3
    <3> HIDE DEF y
    <3> QED BY <2>3, <3>1
  <2>4. CASE ~due
    BY <2>1, <2>2, <2>4
  <2> QED BY <2>3, <2>4
<1>3. /\ DOMAIN touched = Tokens
      /\ \A n \in Tokens : lastUse'[n] = IF n = k THEN clock ELSE lastUse[n]
      /\ \A n \in Tokens : touched'[n] = IF n = k /\ due THEN clock ELSE touched[n]
  <2>1. DOMAIN touched = Tokens /\ DOMAIN lastUse = Sessions \cup Tokens
    BY DEF AccountsTyped, UsesTyped
  <2> QED BY <1>1, <2>1
<1>4. \A n \in Tokens : Touching(n)' <=> Touching(n) \/ (n = k /\ due)
  <2>1. DOMAIN call = Callers /\ call[c].pc # "touch"
    BY <1>1 DEF Known, CallsKnown, Idle
  <2> HIDE DEF due
  <2>2. \A d \in Callers : d # c => call'[d] = call[d]
    BY <1>2, <2>1
  <2>3. call'[c] = x
    BY <1>2, <2>1
  <2>4. ASSUME NEW n \in Tokens PROVE Touching(n)' <=> Touching(n) \/ (n = k /\ due)
    BY <1>2, <2>1, <2>2, <2>3 DEF Touching
  <2> QED BY <2>4, Zenon
<1>5. clock \in Nat /\ clock <= clock
  BY TimesTyped
<1>6. \A n \in Tokens : touched'[n] # None => touched'[n] <= clock'
  BY <1>1, <1>3, <1>5 DEF TouchInv
<1>7. \A n \in Tokens : tokens'[n] = None => touched'[n] = None /\ lastUse'[n] = 0
  BY <1>1, <1>3 DEF TouchInv
<1>8. ASSUME NEW n \in Tokens, Touching(n)' PROVE lastUse'[n] <= clock'
  <2> HIDE DEF due
  <2>1. n # k => Touching(n)
    BY <1>4, <1>8, Zenon
  <2> QED BY <1>1, <1>3, <1>5, <2>1 DEF TouchInv
<1>9. ASSUME NEW n \in Tokens, tokens'[n] # None, ~Touching(n)' PROVE Caught(n)'
  <2>1. Caught(n) /\ tokens[n] # None /\ UsedAt(n)' = UsedAt(n) /\ (n = k => ~due)
    BY <1>1, <1>4, <1>9 DEF TouchInv, UsedAt
  <2>2. CASE n = k
    <3>1. touched'[n] = touched[n] /\ touched[n] # None /\ clock - touched[n] < TouchAfter /\ touched[n] \in Nat
      BY <1>3, <1>5, <2>1, <2>2, TimesTyped
    <3>2. UsedAt(n) \in Nat /\ touched[n] <= UsedAt(n) /\ lastUse'[n] = clock /\ TouchAfter \in Nat
      BY <1>3, <2>1, <2>2, <3>1, TimesTyped DEF Caught
    <3> HIDE DEF due
    <3>3. clock - UsedAt(n) < TouchAfter
      BY <1>5, <3>1, <3>2
    <3> QED BY <2>1, <3>1, <3>2, <3>3 DEF Caught
  <2>3. CASE n # k
    BY <1>3, <2>1, <2>3 DEF Caught
  <2> QED BY <2>2, <2>3
<1> QED BY <1>6, <1>7, <1>8, <1>9 DEF TouchInv

LEMMA TouchLastUsedTouch ==
  ASSUME Known, AccountsTyped, TouchInv, NEW c \in Callers, TouchLastUsed(c)
  PROVE  TouchInv'
<1> DEFINE x == call[c].next
<1>0. PICK k : k = call[c].token
  OBVIOUS
<1>1. /\ call[c].pc = "touch" /\ UNCHANGED <<touched, clock, lastUse>>
      /\ tokens' = Update(tokens, k, "lastUsed", clock)
      /\ call' = [call EXCEPT ![c] = x] /\ x.pc # "touch"
  BY <1>0 DEF TouchLastUsed, TouchTokenLastUsed, Step, histVars, Known, CallsKnown, CallKnown
<1>2. k \in Tokens /\ tokens[k] # None /\ Touching(k)
  BY <1>0, <1>1, CallForms DEF AccountsTyped, CallsTyped, Touching
<1>3. DOMAIN call = Callers /\ DOMAIN tokens = Tokens
  BY DEF Known, CallsKnown, TokensKnown
<1>4. ASSUME NEW n \in Tokens, n # k PROVE Touching(n)' = Touching(n) /\ tokens'[n] = tokens[n]
  <2>1. tokens'[n] = tokens[n]
    BY <1>1, <1>3, <1>4 DEF Update
  <2>2. \A d \in Callers : (call'[d].pc = "touch" /\ call'[d].token = n)
                             = (call[d].pc = "touch" /\ call[d].token = n)
    BY <1>0, <1>1, <1>3, <1>4
  <2> QED BY <2>1, <2>2 DEF Touching
<1> HIDE DEF x
<1>6. /\ tokens'[k] # None /\ UsedAt(k)' = clock
  <2>1. tokens[k] \in TokenRow /\ clock \in Nat /\ clock # None
    BY <1>2, TimesTyped, LimitsAssumption DEF AccountsTyped, TokensTyped
  <2>2. [tokens[k] EXCEPT !["lastUsed"] = clock] \in TokenRow /\ [tokens[k] EXCEPT !["lastUsed"] = clock].lastUsed = clock
    BY <2>1 DEF TokenRow
  <2>3. tokens'[k] = [tokens[k] EXCEPT !["lastUsed"] = clock]
    BY <1>1, <1>2, <1>3 DEF Update
  <2> QED BY <2>1, <2>2, <2>3, AccountsAssumption DEF UsedAt
<1>7. Caught(k)'
  <2>1. lastUse[k] \in Nat /\ lastUse[k] <= clock /\ clock \in Nat /\ TouchAfter \in Nat \ {0}
    BY <1>2, TimesTyped DEF TouchInv
  <2>2. touched[k] # None => touched[k] <= clock
    BY <1>2 DEF TouchInv
  <2> QED BY <1>1, <1>6, <2>1, <2>2 DEF Caught
<1>8. \A n \in Tokens : tokens'[n] = None => touched'[n] = None /\ lastUse'[n] = 0
  BY <1>1, <1>4, <1>6 DEF TouchInv
<1>9. ASSUME NEW n \in Tokens, tokens'[n] # None, ~Touching(n)' PROVE Caught(n)'
  <2>1. CASE n = k
    BY <1>7, <2>1
  <2>2. CASE n # k
    <3>1. Caught(n) /\ UsedAt(n)' = UsedAt(n)
      BY <1>4, <1>9, <2>2 DEF TouchInv, UsedAt
    <3> QED BY <1>1, <3>1 DEF Caught
  <2> QED BY <2>1, <2>2
<1>10. \A n \in Tokens : Touching(n)' => lastUse'[n] <= clock'
  BY <1>1, <1>2, <1>4 DEF TouchInv
<1> QED BY <1>1, <1>8, <1>9, <1>10 DEF TouchInv

\* No use waits to be recorded when the clock moves.
LEMMA TickTouch ==
  ASSUME AccountsTyped, TouchInv, Tick
  PROVE  TouchInv'
<1>1. /\ clock' = clock + 1 /\ UNCHANGED <<tokens, touched, call, lastUse>>
      /\ \A k \in Tokens : ~Touching(k)
  BY DEF Tick, storeVars, histVars, Touching
<1>2. \A k \in Tokens : ~Touching(k)'
  BY <1>1 DEF Touching
<1>3. ASSUME NEW k \in Tokens, touched'[k] # None PROVE touched'[k] <= clock'
  BY <1>1, <1>3, TimesTyped DEF TouchInv
<1>4. ASSUME NEW k \in Tokens, tokens'[k] # None PROVE Caught(k)'
  <2>1. Caught(k)
    BY <1>1, <1>4 DEF TouchInv
  <2> QED BY <1>1, <2>1 DEF Caught, UsedAt
<1> QED BY <1>1, <1>2, <1>3, <1>4 DEF TouchInv

\* What was in memory is lost, and a use whose touch is lost does not count.
LEMMA RestartTouch ==
  ASSUME Known, AccountsTyped, TouchInv, ServerRestart
  PROVE  TouchInv'
<1>1. /\ UNCHANGED <<tokens, clock>> /\ call' = [c \in Callers |-> Idle]
      /\ touched' = [k \in Tokens |-> None]
  BY DEF ServerRestart, Restart, storeVars
<1>2. ASSUME NEW k \in Tokens PROVE lastUse'[k] = IF Touching(k) THEN UsedAt(k) ELSE lastUse[k]
  <2>1. \A c \in Callers : ~(call[c].pc = "slide" /\ call[c].session = k)
    BY CallForms, AccountsAssumption DEF AccountsTyped, CallsTyped
  <2> QED BY <2>1 DEF ServerRestart, Restart, Touching, UsedAt
<1>3. \A k \in Tokens : Touching(k) => tokens[k] # None
  BY DEF AccountsTyped, CallsTyped, Touching
<1>4. ASSUME NEW k \in Tokens, tokens[k] # None PROVE Caught(k)'
  <2>1. UsedAt(k) \in Nat /\ TouchAfter \in Nat \ {0} /\ UsedAt(k)' = UsedAt(k) /\ touched'[k] = None
    BY <1>1, <1>4, TimesTyped DEF UsedAt
  <2>2. CASE Touching(k)
    <3>1. lastUse'[k] = UsedAt(k)
      BY <1>2, <2>2
    <3> QED BY <2>1, <3>1 DEF Caught
  <2>3. CASE ~Touching(k)
    <3>1. lastUse'[k] = lastUse[k] /\ Caught(k)
      BY <1>2, <1>4, <2>3 DEF TouchInv
    <3> QED BY <2>1, <3>1 DEF Caught
  <2> QED BY <2>2, <2>3
<1>5. \A k \in Tokens : ~Touching(k)'
  BY <1>1 DEF Touching, Idle
<1>6. \A k \in Tokens : tokens'[k] = None => touched'[k] = None /\ lastUse'[k] = 0
  BY <1>1, <1>2, <1>3 DEF TouchInv
<1> QED BY <1>1, <1>4, <1>5, <1>6 DEF TouchInv

LEMMA ServeTouch ==
  ASSUME Known, AccountsTyped, TouchInv, Serve
  PROVE  TouchInv'
<1>1. ASSUME NEW c \in Callers, Answer(c) \/ ReadOwner(c) \/ Disconnect(c) PROVE Steady
  <2>1. UNCHANGED <<tokens, touched, clock, lastUse>> /\ call[c].pc # "touch"
    BY <1>1 DEF Answer, ReadOwner, Disconnect, storeVars, histVars
  <2>2. PICK x : x.pc # "touch" /\ call' = [call EXCEPT ![c] = x]
    BY <1>1 DEF Answer, ReadOwner, Disconnect, Done, Step, Authorised, Idle
  <2>3. TouchesStay
    BY <2>1, <2>2, SteadyNext
  <2> QED BY <2>1, <2>3, SteadyTokens DEF Steady
<1>2. CASE SweepSessions \/ SweepTokens
  <2>1. tokens' = tokens \/ tokens' = ExpireEphemeralTokensIdle(tokens, clock - IdleLimit)
    BY <1>2 DEF SweepSessions, SweepTokens
  <2>2. TokensUnused
    BY <2>1, SteadyTokens
  <2>3. UNCHANGED <<touched, call, clock, lastUse>>
    BY <1>2 DEF SweepSessions, SweepTokens, histVars
  <2> QED BY <2>2, <2>3, SteadyCalls, SteadyInv DEF Steady
<1>3. ASSUME NEW c \in Callers,
             \/ SessionAction(c) \/ UserAction(c) \/ TokenAction(c) \/ SubAction(c) \/ Answer(c)
      PROVE  TouchInv'
  BY <1>1, <1>3, SessionActionSteady, UserActionSteady, TokenActionSteady, SubActionSteady, SteadyInv
<1>4. ASSUME NEW c \in Callers, BearerAction(c) PROVE TouchInv'
  BY <1>1, <1>4, SteadyInv, ResolveTouch, TouchLastUsedTouch DEF BearerAction
<1> QED BY <1>2, <1>3, <1>4, TickTouch DEF Serve

LEMMA TouchStep ==
  ASSUME Known, Types, TouchInv, [EnrolmentNext]_enrolmentVars
  PROVE  TouchInv'
<1>0. AccountsTyped /\ PairingTypeOK
  BY DEF Types
<1>1. CASE Serve
  BY <1>0, <1>1, ServeTouch
<1>2. CASE InvitesNext \/ PairingNext
  BY <1>0, <1>2, InvitesNextSteady, PairingNextSteady, SteadyInv
<1>3. CASE HooksctlNext /\ UNCHANGED <<inviteVars, limitVars>>
  <2>1. TokensUnused
    BY <1>0, <1>3, HooksctlNextStep DEF inviteVars, TokensUnused
  <2>2. UNCHANGED <<touched, call, clock, lastUse>>
    BY <1>3, HooksctlQuiet
  <2> QED BY <1>0, <2>1, <2>2, SteadyCalls, SteadyInv DEF Steady
<1>4. CASE UNCHANGED vars
  <2>1. UNCHANGED <<tokens, touched, call, clock, lastUse>>
    BY <1>4 DEF vars, storeVars, histVars
  <2> QED BY <1>0, <2>1, SteadyTokens, SteadyCalls, SteadyInv DEF Steady
<1>5. CASE ServerRestart
  BY <1>0, <1>5, RestartTouch
<1> QED BY <1>1, <1>2, <1>3, <1>4, <1>5 DEF EnrolmentNext, enrolmentVars

\* The sweep revokes no token that was used within the limit, less the interval within
\* which a use is not recorded again, whatever uses and restarts there were.
THEOREM SweepIsLate == EnrolmentSpec => SweepSparesUsed
<1>1. EnrolmentInit => TouchInv
  BY TouchInitInv
<1>2. Known /\ Types /\ TouchInv /\ [EnrolmentNext]_enrolmentVars => TouchInv'
  BY TouchStep
<1> DEFINE Spared ==
      SweepTokens => \A k \in Keys(tokens) :
        /\ ~tokens[k].revoked /\ tokens'[k].revoked
        /\ \A c \in Callers : call[c].pc = "touch" => call[c].token # k
        => lastUse[k] - TouchAfter + 1 < clock - IdleLimit
<1>3. Known /\ Types /\ TouchInv => Spared
  <2> SUFFICES ASSUME Known, Types, TouchInv, SweepTokens, NEW k \in Keys(tokens),
                      ~tokens[k].revoked, tokens'[k].revoked,
                      \A c \in Callers : call[c].pc = "touch" => call[c].token # k
               PROVE  lastUse[k] - TouchAfter + 1 < clock - IdleLimit
    OBVIOUS
  <2>1. k \in Tokens /\ tokens[k] # None /\ AccountsTyped
    BY DEF Keys, Known, TokensKnown, Types
  <2>2. UsedAt(k) < clock - IdleLimit
    BY <2>1 DEF SweepTokens, ExpireEphemeralTokensIdle, UsedAt, Known, TokensKnown
  <2>3. lastUse[k] - UsedAt(k) < TouchAfter
    BY <2>1 DEF TouchInv, Touching, Caught
  <2>4. /\ clock \in Nat /\ TouchAfter \in Nat /\ lastUse[k] \in Nat /\ UsedAt(k) \in Nat
        /\ IdleLimit \in Nat
    BY <2>1, TimesTyped, AccountsAssumption
  <2> QED BY <2>2, <2>3, <2>4
<1>4. Known /\ Types /\ TouchInv /\ [EnrolmentNext]_enrolmentVars => [Spared]_vars
  BY <1>3
<1> QED BY <1>1, <1>2, <1>4, EnrolmentInvariance, EnrolmentTypes, PTL DEF EnrolmentSpec, SweepSparesUsed
=============================================================================
