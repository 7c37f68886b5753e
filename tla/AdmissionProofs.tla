---------------------------- MODULE AdmissionProofs ----------------------------
(***************************************************************************)
(* Who is let in.  An invite makes one user at most, and a pairing is      *)
(* decided once and its token erased only after it was sent, for any       *)
(* number of terminals, callers, codes and administrators at once.  The    *)
(* limiter before them admits no more than its limits say, and admits a    *)
(* client that waits as it was told, for any limits, bursts and times.     *)
(***************************************************************************)
EXTENDS EnrolmentProofs, WellFoundedInduction

-----------------------------------------------------------------------------
(* Invites and sign-up.                                                    *)


\* A sign-up under way with a row goes on with the role it read there; codes are
\* not issued again, so the row is the one that was read or gone.
SignupSound(x) ==
  x.pc = "signup" =>
    x.code \in issued /\ (invites[x.code] # None => invites[x.code].role = x.role)

InvitesSound ==
  /\ clock \in Nat
  /\ invites \in [Codes -> InviteRow \cup {None}]
  /\ DOMAIN via = Users /\ DOMAIN signup = Callers
  /\ issued \subseteq Codes
  /\ \A i \in Codes : invites[i] # None =>
       /\ i \in issued
       /\ invites[i].bootstrap => invites[i].role = "admin"
  /\ \A u \in Users : via[u] # None => users[u] # None /\ via[u] \in issued
  /\ \A c \in Callers : SignupSound(signup[c])

InvitesInv == InvitesSound /\ SingleUse

LEMMA InvitesInitInv ==
  ASSUME EnrolmentInit
  PROVE  InvitesInv
<1>1. /\ invites = [i \in Codes |-> None] /\ signup = [c \in Callers |-> Idle]
      /\ issued = {} /\ via = [u \in Users |-> None]
  BY DEF EnrolmentInit, InvitesInit
<1>2. InvitesSound
  <2>1. clock \in Nat
    BY DEF EnrolmentInit, Init
  <2> QED BY <1>1, <2>1 DEF InvitesSound, SignupSound, Idle
<1>3. \A u \in Keys(users) : u \in Users
  BY InitKnown DEF Known, Keys
<1>4. SingleUse
  BY <1>1, <1>3 DEF SingleUse
<1> QED BY <1>2, <1>4 DEF InvitesInv

\* Users that exist keep their roles.
LEMMA RolesStay ==
  ASSUME Known, UsersStep, NEW u \in Users, users[u] # None
  PROVE  users'[u] # None /\ users'[u].role = users[u].role
<1>1. CASE users' = users
  BY <1>1
<1>2. ASSUME NEW v \in Users, DeactivateUserCascade(v)
      PROVE  users'[u].role = users[u].role
  BY <1>2 DEF DeactivateUserCascade, DeactivateUser, Update, Known, UserRow
<1>3. ASSUME NEW v \in Users, NEW row \in UserRow, Amend(v, row)
      PROVE  users'[u].role = users[u].role
  BY <1>3 DEF Amend, Known
<1> QED BY <1>1, <1>2, <1>3, UsersGrow DEF UsersStep, Keys, Known

\* What every step but a sign-up does to invites: open and bootstrap rows may go, rows
\* that stay keep role and user, new ones have codes of their own.
LEMMA InvitesKept ==
  ASSUME Known, InvitesInv, UsersStep, via' = via, clock' \in Nat,
         issued \subseteq issued', issued' \subseteq Codes,
         invites' \in [Codes -> InviteRow \cup {None}],
         \A i \in Codes : invites'[i] # None =>
           \/ /\ i \notin issued /\ i \in issued'
              /\ invites'[i].bootstrap => invites'[i].role = "admin"
           \/ invites'[i] = invites[i],
         \A i \in Codes : invites[i] # None /\ invites'[i] = None =>
           invites[i].user = None \/ invites[i].bootstrap,
         DOMAIN signup' = Callers,
         \A c \in Callers : signup'[c].pc = "signup" => SignupSound(signup'[c])
  PROVE  InvitesInv'
<1>1. \A u \in Users : via[u] # None => users'[u] # None /\ users'[u].role = users[u].role
  BY RolesStay DEF InvitesInv, InvitesSound
<1>2. ASSUME NEW c \in Callers PROVE SignupSound(signup[c])'
  BY DEF SignupSound, InvitesInv, InvitesSound
<1>3. InvitesSound'
  BY <1>1, <1>2 DEF InvitesInv, InvitesSound
<1>4. ASSUME NEW u \in Users, via[u] # None
      PROVE  /\ via[u] \in issued /\ via[u] \in Codes /\ u \in Keys(users)
             /\ \A v \in Users \ {u} : via[v] # via[u]
             /\ users'[u].role = "user" => invites'[via[u]] # None
             /\ invites'[via[u]] # None =>
                  invites'[via[u]].user = u /\ users'[u].role = invites'[via[u]].role
  <2>1. via[u] \in issued /\ via[u] \in Codes /\ u \in Keys(users)
    BY <1>4 DEF InvitesInv, InvitesSound, Keys, Known
  <2>2. \A v \in Users \ {u} : via[v] # via[u]
    BY <2>1, <1>4 DEF InvitesInv, InvitesSound, SingleUse, Keys, Known
  <2>3. /\ users[u].role = "user" => invites[via[u]] # None
        /\ invites[via[u]] # None => invites[via[u]].user = u /\ users[u].role = invites[via[u]].role
    BY <2>1, <1>4 DEF InvitesInv, SingleUse
  <2>4. invites[via[u]] # None /\ invites'[via[u]] = None => users[u].role = "admin"
    BY <2>1, <2>3, AccountsAssumption DEF InvitesInv, InvitesSound
  <2>5. invites'[via[u]] # None => invites'[via[u]] = invites[via[u]]
    BY <2>1
  <2> QED BY <1>1, <1>4, <2>1, <2>2, <2>3, <2>4, <2>5
<1>5. SingleUse'
  <2>1. Keys(users') \subseteq Users
    BY UsersGrow DEF Keys
  <2> QED BY <1>4, <2>1 DEF SingleUse
<1> QED BY <1>3, <1>5 DEF InvitesInv

\* Steps that leave invites and sign-ups alone.
LEMMA InvitesIdle ==
  ASSUME Known, InvitesInv, UsersStep, UNCHANGED <<invites, issued, via>>, clock' \in Nat,
         DOMAIN signup' = Callers,
         \A c \in Callers : signup'[c].pc = "signup" => SignupSound(signup'[c])
  PROVE  InvitesInv'
BY InvitesKept DEF InvitesInv, InvitesSound

LEMMA SignupsStay ==
  ASSUME InvitesInv, signup' = signup
  PROVE  /\ DOMAIN signup' = Callers
         /\ \A c \in Callers : signup'[c].pc = "signup" => SignupSound(signup'[c])
BY DEF InvitesInv, InvitesSound

LEMMA SignupsEnd ==
  ASSUME InvitesInv, NEW c \in Callers, NEW x, x.pc # "signup", signup' = [signup EXCEPT ![c] = x]
  PROVE  /\ DOMAIN signup' = Callers
         /\ \A d \in Callers : signup'[d].pc = "signup" => SignupSound(signup'[d])
BY DEF InvitesInv, InvitesSound

LEMMA AddInviteInv ==
  ASSUME Known, InvitesInv, NEW row, AddInvite(row), users' = users, via' = via, signup' = signup,
         clock' = clock, row \in InviteRow, row.bootstrap => row.role = "admin"
  PROVE  InvitesInv'
<1>1. PICK i \in Codes \ issued : /\ invites' = InsertInvite(invites, i, row)
                                  /\ issued' = issued \cup {i}
  BY DEF AddInvite
<1>2. invites' = [invites EXCEPT ![i] = row] /\ DOMAIN invites = Codes /\ issued \subseteq Codes
  BY <1>1 DEF InsertInvite, InvitesInv, InvitesSound
<1>3. invites[i] = None
  BY DEF InvitesInv, InvitesSound
<1>4. clock' \in Nat
  BY DEF InvitesInv, InvitesSound
<1>6. invites' \in [Codes -> InviteRow \cup {None}]
  BY <1>2 DEF InvitesInv, InvitesSound
<1>5. \A j \in Codes : IF j = i THEN invites'[j] = row ELSE invites'[j] = invites[j]
  BY <1>1, <1>2
<1> QED BY <1>1, <1>2, <1>3, <1>4, <1>5, <1>6, UsersSame, SignupsStay, InvitesKept

LEMMA SignupInv ==
  ASSUME Known, InvitesInv, NEW c \in Callers, Signup(c)
  PROVE  InvitesInv'
<1> DEFINE u == signup[c].user
           i == signup[c].code
           row == [role |-> signup[c].role, active |-> TRUE, pw |-> 1, scopes |-> signup[c].scopes]
<1>1. /\ signup[c].pc = "signup" /\ u \in Users /\ u # None
      /\ i \in Codes /\ i \in issued /\ (invites[i] # None => invites[i].role = signup[c].role)
      /\ issued' = issued /\ signup' = [signup EXCEPT ![c] = Idle] /\ clock' = clock
      /\ signup[c].role \in {"admin", "user"} /\ signup[c].scopes \subseteq Scopes
  BY AccountsAssumption DEF Signup, Known, SignupsKnown, RowKnown, InvitesInv, InvitesSound, SignupSound
<1>2. CASE users[u] = None /\ invites[i] # None /\ invites[i].user = None
  <2>1. /\ users' = [users EXCEPT ![u] = row]
        /\ invites' = MarkBootstrapInvitesConsumed(MarkInviteConsumed(invites, i, u), u)
        /\ via' = [via EXCEPT ![u] = i]
    BY <1>2 DEF Signup, SignupTx, Created, InsertUser
  <2>2. row.role = invites[i].role /\ row \in UserRow /\ row # None
    <3>1. row \in UserRow
      BY <1>1 DEF UserRow
    <3> QED BY <1>1, <1>2, <3>1, AccountsAssumption
  <2> HIDE DEF row
  <2>3. /\ DOMAIN invites' = Codes
        /\ invites'[i] = [invites[i] EXCEPT !.user = u]
        /\ \A j \in Codes \ {i} : invites'[j] = IF invites[j] # None /\ invites[j].bootstrap
                                                   /\ invites[j].user = None
                                                THEN [invites[j] EXCEPT !.user = u] ELSE invites[j]
    BY <1>1, <1>2, <2>1
       DEF MarkBootstrapInvitesConsumed, MarkInviteConsumed, InvitesInv, InvitesSound
  <2>4. ASSUME NEW j \in Codes
        PROVE  /\ invites'[j] = None <=> invites[j] = None
               /\ invites'[j] # None =>
                    /\ invites'[j] \in InviteRow
                    /\ invites'[j].role = invites[j].role
                    /\ invites'[j].bootstrap = invites[j].bootstrap
                    /\ invites'[j].user = IF j = i THEN u
                                          ELSE IF invites[j].bootstrap /\ invites[j].user = None THEN u
                                          ELSE invites[j].user
    <3>1. CASE invites'[j] = invites[j] /\ ~(j = i) /\ ~(invites[j] # None /\ invites[j].bootstrap
                                                       /\ invites[j].user = None)
      BY <3>1 DEF InvitesInv, InvitesSound
    <3>2. CASE invites[j] # None /\ invites'[j] = [invites[j] EXCEPT !.user = u]
               /\ (j = i \/ (invites[j].bootstrap /\ invites[j].user = None))
      <4>1. invites[j] \in InviteRow
        BY <3>2 DEF InvitesInv, InvitesSound
      <4>2. invites'[j] \in InviteRow
        BY <1>1, <3>2, <4>1 DEF InviteRow
      <4> QED BY <3>2, <4>1, <4>2, InvitesAssumption DEF InviteRow
    <3> QED BY <1>2, <2>3, <3>1, <3>2
  <2>5. \A v \in Users : v # u =>
          users'[v] = users[v] /\ via'[v] = via[v]
    BY <2>1 DEF Known, InvitesInv, InvitesSound
  <2>6. users'[u] = row /\ via'[u] = i /\ DOMAIN via' = Users /\ DOMAIN users' = Users
    BY <1>1, <2>1 DEF Known, InvitesInv, InvitesSound
  <2>7. ASSUME NEW v \in Users, v # u, via[v] # None
        PROVE  /\ via[v] # i /\ via[v] \in issued /\ via[v] \in Codes
               /\ users[v].role = "user" => invites'[via[v]] # None
               /\ invites'[via[v]] # None =>
                    invites'[via[v]].user = v /\ users[v].role = invites'[via[v]].role
    <3>1. v \in Keys(users) /\ via[v] \in issued /\ via[v] \in Codes
      BY <2>7 DEF InvitesInv, InvitesSound, Keys, Known
    <3>2. /\ users[v].role = "user" => invites[via[v]] # None
          /\ invites[via[v]] # None => invites[via[v]].user = v /\ users[v].role = invites[via[v]].role
      BY <2>7, <3>1 DEF InvitesInv, SingleUse
    <3>3. v # None
      BY AccountsAssumption
    <3> QED BY <1>2, <2>4, <3>1, <3>2, <3>3
  <2>8. SingleUse'
    <3>1. ASSUME NEW v \in Users, v # u, via'[v] # None
          PROVE  /\ \A w \in Users \ {v} : via'[w] # None => via'[w] # via'[v]
                 /\ users'[v].role = "user" => invites'[via'[v]] # None
                 /\ invites'[via'[v]] # None =>
                      invites'[via'[v]].user = v /\ users'[v].role = invites'[via'[v]].role
      <4>1. \A w \in Users \ {v} : w # u /\ via[w] # None => via[w] # via[v]
        BY <3>1, <2>5 DEF InvitesInv, InvitesSound, SingleUse, Keys, Known
      <4> QED BY <3>1, <2>5, <2>6, <2>7, <4>1
    <3>2. /\ \A w \in Users \ {u} : via'[w] # None => via'[w] # via'[u]
          /\ users'[u].role = "user" => invites'[via'[u]] # None
          /\ invites'[via'[u]] # None =>
               invites'[via'[u]].user = u /\ users'[u].role = invites'[via'[u]].role
      <4>1. row.role = "user" => invites'[i] # None
        BY <1>1, <1>2, <2>2, <2>3, <2>4
      <4> QED BY <1>1, <1>2, <2>2, <2>4, <2>5, <2>6, <2>7, <4>1
    <3>3. Keys(users') \subseteq Users
      BY <2>6 DEF Keys
    <3> QED BY <3>1, <3>2, <3>3 DEF SingleUse
  <2>9. InvitesSound'
    <3>1. \A v \in Users : via'[v] # None => users'[v] # None /\ via'[v] \in issued
      BY <1>1, <2>2, <2>5, <2>6 DEF InvitesInv, InvitesSound
    <3>2. \A d \in Callers : SignupSound(signup[d])'
      BY <1>1, <2>4 DEF SignupSound, InvitesInv, InvitesSound, Idle
    <3>3. invites' \in [Codes -> InviteRow \cup {None}]
      <4>1. invites' = [j \in Codes |-> invites'[j]]
        BY <2>1 DEF MarkBootstrapInvitesConsumed, MarkInviteConsumed, InvitesInv, InvitesSound
      <4>2. \A j \in Codes : invites'[j] \in InviteRow \cup {None}
        BY <2>4
      <4> QED BY <4>1, <4>2
    <3> QED BY <1>1, <2>4, <2>6, <3>1, <3>2, <3>3 DEF InvitesInv, InvitesSound
  <2> QED BY <2>8, <2>9 DEF InvitesInv
<1>3. CASE ~(users[u] = None /\ invites[i] # None /\ invites[i].user = None)
  <2>1. UNCHANGED <<users, invites, via>>
    BY <1>3 DEF Signup, SignupTx
  <2>2. Idle.pc # "signup"
    BY DEF Idle
  <2>3. clock' \in Nat
    BY <1>1 DEF InvitesInv, InvitesSound
  <2> QED BY <1>1, <2>1, <2>2, <2>3, UsersSame, InvitesIdle, SignupsEnd
<1> QED BY <1>2, <1>3

LEMMA InitStepInv ==
  ASSUME Known, InvitesInv, InitStep
  PROVE  InvitesInv'
<1>1. UNCHANGED <<users, via, signup, clock>> /\ clock' \in Nat
  BY DEF InitStep, InvitesInv, InvitesSound
<1>2. CASE UNCHANGED <<invites, issued>>
  BY <1>1, <1>2, UsersSame, SignupsStay, InvitesIdle
<1>3. CASE EnsureBootstrapInvite /\ ~UNCHANGED <<invites, issued>>
  <2> DEFINE row == Invite("admin", {}, TRUE)
  <2>1. PICK i \in Codes \ issued :
          /\ invites' = InsertInvite(DeleteBootstrapInvite(invites), i, row)
          /\ issued' = issued \cup {i}
    BY <1>3 DEF EnsureBootstrapInvite
  <2>2. row \in InviteRow /\ row.role = "admin"
    BY InvitesAssumption DEF Invite, InviteRow, InvitesInv, InvitesSound
  <2> HIDE DEF row
  <2>3. /\ invites'[i] = row
        /\ \A j \in Codes \ {i} : invites'[j] = IF invites[j] # None /\ invites[j].bootstrap THEN None
                                                ELSE invites[j]
    BY <2>1 DEF InsertInvite, DeleteBootstrapInvite, InvitesInv, InvitesSound
  <2>4. invites' \in [Codes -> InviteRow \cup {None}]
    <3>1. invites' = [j \in Codes |-> invites'[j]]
      BY <2>1 DEF InsertInvite, DeleteBootstrapInvite, InvitesInv, InvitesSound
    <3>2. \A j \in Codes : invites'[j] \in InviteRow \cup {None}
      BY <2>2, <2>3 DEF InvitesInv, InvitesSound
    <3> QED BY <3>1, <3>2
  <2>5. invites[i] = None /\ issued \subseteq Codes
    BY <2>1 DEF InvitesInv, InvitesSound
  <2> QED BY <1>1, <2>1, <2>2, <2>3, <2>4, <2>5, UsersSame, SignupsStay, InvitesKept
<1> QED BY <1>2, <1>3 DEF InitStep, RunInit

LEMMA InvitesNextInv ==
  ASSUME Known, InvitesInv, InvitesNext
  PROVE  InvitesInv'
<1>1. ASSUME NewInvite, UNCHANGED <<users, via, signup, clock>> PROVE InvitesInv'
  <2>1. PICK role \in {"admin", "user"}, scopes \in {{}, Scopes \ {"admin"}} :
          AddInvite(Invite(role, scopes, FALSE))
    BY <1>1 DEF NewInvite
  <2>2. Invite(role, scopes, FALSE) \in InviteRow /\ ~Invite(role, scopes, FALSE).bootstrap
    BY InvitesAssumption DEF Invite, InviteRow, InvitesInv, InvitesSound
  <2> QED BY <1>1, <2>1, <2>2, AddInviteInv
<1>2. ASSUME NEW c \in Callers, Create(c) \/ UsersInvite(c) PROVE InvitesInv'
  BY <1>1, <1>2 DEF UsersInvite, Create, storeVars
<1>3. CASE RunInvite
  BY <1>1, <1>3 DEF RunInvite, storeVars
<1>4. ASSUME NEW c \in Callers, Delete(c) PROVE InvitesInv'
  <2>0. UNCHANGED <<users, via, issued, clock>> /\ clock' \in Nat
    BY <1>4 DEF Delete, vars, storeVars, InvitesInv, InvitesSound
  <2>1. CASE invites' = invites
    <3>1. PICK x : x.pc # "signup" /\ signup' = [signup EXCEPT ![c] = x]
      BY <1>4 DEF Delete, Idle
    <3> QED BY <2>0, <2>1, <3>1, UsersSame, SignupsEnd, InvitesIdle
  <2>2. CASE invites' # invites
    <3>1. /\ invites' = DeleteInvite(invites, signup[c].code)
          /\ signup' = [signup EXCEPT ![c] = Idle]
      BY <1>4, <2>2 DEF Delete
    <3>2. /\ invites' \in [Codes -> InviteRow \cup {None}]
          /\ \A j \in Codes :
               invites'[j] = invites[j] \/ (invites'[j] = None /\ invites[j].user = None)
      <4>1. invites' = [invites EXCEPT ![signup[c].code] =
                          IF @ # None /\ @.user = None THEN None ELSE @]
        BY <3>1 DEF DeleteInvite
      <4>2. invites \in [Codes -> InviteRow \cup {None}]
        BY DEF InvitesInv, InvitesSound
      <4>3. \A j \in Codes :
              invites'[j] = invites[j] \/ (invites'[j] = None /\ invites[j].user = None)
        BY <4>1, <4>2
      <4>4. invites' = [j \in Codes |-> invites'[j]]
        BY <4>1, <4>2
      <4>5. \A j \in Codes : invites'[j] \in InviteRow \cup {None}
        BY <4>2, <4>3
      <4>6. invites' \in [Codes -> InviteRow \cup {None}]
        BY <4>4, <4>5
      <4> QED BY <4>3, <4>6
    <3>3. Idle.pc # "signup" /\ issued \subseteq Codes
      BY DEF Idle, InvitesInv, InvitesSound
    <3> QED BY <2>0, <3>1, <3>2, <3>3, UsersSame, SignupsEnd, InvitesKept
  <2> QED BY <2>1, <2>2
<1>5. ASSUME NEW c \in Callers, NEW i \in Codes, NEW u \in Users, Provision(c, i, u)
      PROVE  InvitesInv'
  <2> DEFINE x == [pc |-> "signup", code |-> i, user |-> u, role |-> invites[i].role,
                   scopes |-> invites[i].scopes]
  <2>1. UNCHANGED <<users, via, issued, invites, clock>> /\ clock' \in Nat
    BY <1>5 DEF Provision, storeVars, InvitesInv, InvitesSound
  <2>2. signup' = [signup EXCEPT ![c] = x] /\ invites[i] # None
    BY <1>5 DEF Provision
  <2>3. SignupSound(x)
    BY <2>2 DEF SignupSound, InvitesInv, InvitesSound
  <2> HIDE DEF x
  <2>4. /\ DOMAIN signup' = Callers
        /\ \A d \in Callers : signup'[d].pc = "signup" => SignupSound(signup'[d])
    BY <2>2, <2>3 DEF InvitesInv, InvitesSound
  <2> QED BY <2>1, <2>4, UsersSame, InvitesIdle
<1> QED BY <1>2, <1>3, <1>4, <1>5, SignupInv, InitStepInv DEF InvitesNext

-----------------------------------------------------------------------------
\* The clock is not turned back.
LEMMA ServeClock ==
  ASSUME clock \in Nat, Serve
  PROVE  clock' \in Nat
<1>1. ASSUME NEW c \in Callers, SessionAction(c) PROVE clock' = clock
  BY <1>1 DEF SessionAction, Login, Authenticate, CreateSession, Lookup, Logout, LookupUser, SlideSession,
     DropSession
<1>2. ASSUME NEW c \in Callers, BearerAction(c) PROVE clock' = clock
  BY <1>2 DEF BearerAction, Resolve, TouchLastUsed, ReadOwner, Disconnect
<1>3. ASSUME NEW c \in Callers, UserAction(c) PROVE clock' = clock
  BY <1>3
  DEF UserAction, Deactivate, UsersDeactivate, Reactivate, UsersReactivate, ResetPassword,
     UsersResetPassword, PatchUser, UsersUpdate, EvictSessions, WriteProfile, PatchMe
<1>4. ASSUME NEW c \in Callers, TokenAction(c) PROVE clock' = clock
  BY <1>4 DEF TokenAction, Issue, TokensCreate, CreateToken, MeCreateToken, RevokeChecked, Revoke,
     TokensRevoke, RevokeOwn, MeRevokeToken, TransferToken, Give, TokenStep
<1>5. ASSUME NEW c \in Callers, SubAction(c) PROVE clock' = clock
  BY <1>5 DEF SubAction, CreateSub, PushCreate, Register, RequireOwnedSub, PauseSub, ResumeSub,
     DeleteSub, MeRequireOwnedSub, PushFormPause, PushFormResume, PushFormDelete, TransferSub, SubStep
<1>6. ASSUME NEW c \in Callers, Answer(c) PROVE clock' = clock
  BY <1>6 DEF Answer
<1> QED BY <1>1, <1>2, <1>3, <1>4, <1>5, <1>6 DEF Serve, SweepSessions, SweepTokens, Tick

LEMMA PairingClock ==
  ASSUME PairingNext
  PROVE  clock' = clock
<1>1. ASSUME NEW l \in Terminals,
             \/ Start(l) \/ Poll(l) \/ WriteToken(l) \/ WriteFails(l) \/ Receive(l) \/ GiveUp(l)
             \/ RevokeBearer(l) \/ DeleteProfile(l)
             \/ MintEphemeralListener(l) \/ RevokeEphemeralListener(l)
      PROVE  clock' = clock
  BY <1>1 DEF Start, Poll, WriteToken, WriteFails, Receive, GiveUp, RevokeBearer, DeleteProfile,
     MintEphemeralListener, RevokeEphemeralListener, accountVars, vars
<1>2. ASSUME NEW c \in Callers, ApproveCore(c) \/ Approve(c) \/ Deny(c) PROVE clock' = clock
  BY <1>2 DEF ApproveCore, Approve, Deny
<1>3. ASSUME NEW p \in Pairings, MarkFetched(p) PROVE clock' = clock
  BY <1>3 DEF MarkFetched, accountVars, vars
<1>4. CASE SweepPairings
  BY <1>4 DEF SweepPairings, accountVars, vars
<1> QED BY <1>1, <1>2, <1>3, <1>4 DEF PairingNext

LEMMA InvitesStep ==
  ASSUME Known, InvitesInv, [EnrolmentNext]_enrolmentVars
  PROVE  InvitesInv'
<1>1. UsersStep /\ clock \in Nat
  BY EnrolmentNextStep DEF EnrolmentStep, AccountsStep, InvitesInv, InvitesSound
<1>2. ASSUME UNCHANGED inviteVars, clock' \in Nat PROVE InvitesInv'
  BY <1>1, <1>2, InvitesIdle, SignupsStay DEF inviteVars
<1>3. CASE InvitesNext
  BY <1>3, InvitesNextInv
<1>4. CASE Serve /\ UNCHANGED inviteVars
  BY <1>1, <1>2, <1>4, ServeClock
<1>5. CASE PairingNext /\ UNCHANGED inviteVars
  BY <1>1, <1>2, <1>5, PairingClock
<1>6. CASE HooksctlNext /\ UNCHANGED inviteVars
  BY <1>1, <1>2, <1>6, HooksctlQuiet
<1>7. CASE UNCHANGED <<vars, inviteVars>>
  BY <1>1, <1>2, <1>7 DEF vars
<1>8. CASE ServerRestart
  <2>1. UNCHANGED <<invites, issued, via, clock>> /\ signup' = [c \in Callers |-> Idle]
    BY <1>8 DEF ServerRestart, Restart, InvitesRestart
  <2>2. /\ DOMAIN signup' = Callers
        /\ \A c \in Callers : signup'[c].pc # "signup"
    BY <2>1 DEF Idle
  <2> QED BY <1>1, <2>1, <2>2, InvitesIdle
<1> QED BY <1>3, <1>4, <1>5, <1>6, <1>7, <1>8 DEF EnrolmentNext, enrolmentVars

\* One user per invite and none of a revoked one, with the role of the invite: the
\* row that a sign-up consumes is the one it read, whatever sign-ups, revocations
\* and `hooks init` do in between.
THEOREM InviteMakesOneUser == EnrolmentSpec => []SingleUse
<1>1. EnrolmentInit => InvitesInv
  BY InvitesInitInv
<1>2. Known /\ InvitesInv /\ [EnrolmentNext]_enrolmentVars => InvitesInv'
  BY InvitesStep
<1>3. InvitesInv => SingleUse
  BY DEF InvitesInv
<1> QED BY <1>1, <1>2, <1>3, EnrolmentInvariance, PTL DEF EnrolmentSpec

-----------------------------------------------------------------------------
(* Device pairing.                                                         *)


\* Device codes are used once, rows have their columns, and a goroutine that is to
\* erase a plaintext was started behind an answer.
PairingsKnown ==
  /\ DOMAIN pairings = Pairings /\ DOMAIN mintedFor = Tokens /\ DOMAIN approval = Callers
  /\ opened \subseteq Pairings
  /\ \A p \in Pairings : pairings[p] # None =>
       p \in opened /\ {"status", "token", "plaintext"} \subseteq DOMAIN pairings[p]
  /\ \A k \in Tokens : mintedFor[k] # None => mintedFor[k] \in opened
  /\ \A c \in Callers : approval[c].pc = "approve" => approval[c].pairing \in opened
  /\ marking \subseteq sent

PairingInv == PairingsKnown /\ OneTokenPerPairing /\ PurgedWasSent

LEMMA PairingInitInv ==
  ASSUME EnrolmentInit
  PROVE  PairingInv
BY DEF EnrolmentInit, PairingInit, PairingInv, PairingsKnown, OneTokenPerPairing, PurgedWasSent,
       Keys, Idle

\* A row that no token was minted for is written, and the token columns stay; the
\* rest of the table stays or shrinks.
LEMMA RowDecided ==
  ASSUME PairingInv, DOMAIN pairings' = Pairings,
         \A p \in Pairings : pairings'[p] # None =>
           \/ pairings'[p] = pairings[p]
           \/ /\ pairings[p] # None
              /\ DOMAIN pairings'[p] = DOMAIN pairings[p]
              /\ pairings'[p].token = pairings[p].token
              /\ pairings'[p].plaintext = pairings[p].plaintext \/ p \in marking
              /\ pairings[p].status = "pending" \/ pairings'[p].status = "done",
         UNCHANGED <<mintedFor, opened, sent>>, marking' \subseteq marking,
         DOMAIN approval' = Callers,
         \A c \in Callers : approval'[c].pc = "approve" => approval'[c].pairing \in opened
  PROVE  PairingInv'
<1>1. PairingsKnown'
  BY DEF PairingInv, PairingsKnown
<1>2. OneTokenPerPairing'
  BY DEF PairingInv, PairingsKnown, OneTokenPerPairing
<1>3. PurgedWasSent'
  BY DEF PairingInv, PairingsKnown, PurgedWasSent, Keys
<1> QED BY <1>1, <1>2, <1>3 DEF PairingInv

LEMMA RowsSame ==
  ASSUME PairingInv, UNCHANGED <<pairings, mintedFor, opened, approval>>, sent \subseteq sent',
         marking' \subseteq marking \cup sent'
  PROVE  PairingInv'
BY DEF PairingInv, PairingsKnown, OneTokenPerPairing, PurgedWasSent, Keys

LEMMA StartInv ==
  ASSUME PairingInv, NEW l \in Terminals, Start(l)
  PROVE  PairingInv'
<1>1. PICK p \in Pairings \ opened : \E scopes \in {{}, {"admin"}} :
        /\ pairings' = InsertDevicePairing(pairings, p,
             [status |-> "pending", scopes |-> scopes, created |-> clock,
              expires |-> clock + PairingTTL, user |-> None, token |-> None, plaintext |-> FALSE])
        /\ opened' = opened \cup {p}
  BY DEF Start
<1> PICK scopes \in {{}, {"admin"}} :
        pairings' = InsertDevicePairing(pairings, p,
             [status |-> "pending", scopes |-> scopes, created |-> clock,
              expires |-> clock + PairingTTL, user |-> None, token |-> None, plaintext |-> FALSE])
  BY <1>1
<1> DEFINE row == [status |-> "pending", scopes |-> scopes, created |-> clock,
                   expires |-> clock + PairingTTL, user |-> None, token |-> None, plaintext |-> FALSE]
<1>2. /\ pairings' = [pairings EXCEPT ![p] = row]
      /\ {"status", "token", "plaintext"} \subseteq DOMAIN row
      /\ row.token = None
  BY <1>1 DEF InsertDevicePairing
<1> HIDE DEF row
<1>3. UNCHANGED <<approval, marking, mintedFor, sent>>
  BY DEF Start
<1>4. \A k \in Tokens : mintedFor[k] # None => mintedFor[k] # p
  BY DEF PairingInv, PairingsKnown
<1>5. PairingsKnown'
  <2>1. DOMAIN pairings' = Pairings /\ \A q \in Pairings : q # p => pairings'[q] = pairings[q]
    BY <1>2 DEF PairingInv, PairingsKnown
  <2>2. pairings'[p] = row /\ p \in opened' /\ opened \subseteq opened' /\ opened' \subseteq Pairings
    BY <1>1, <1>2 DEF PairingInv, PairingsKnown
  <2>3. \A q \in Pairings : pairings'[q] # None =>
          q \in opened' /\ {"status", "token", "plaintext"} \subseteq DOMAIN pairings'[q]
    <3>1. ASSUME NEW q \in Pairings, q # p, pairings'[q] # None
          PROVE  q \in opened' /\ {"status", "token", "plaintext"} \subseteq DOMAIN pairings'[q]
      BY <3>1, <2>1, <2>2 DEF PairingInv, PairingsKnown
    <3> QED BY <3>1, <2>2, <1>2
  <2> QED BY <1>3, <2>1, <2>2, <2>3 DEF PairingInv, PairingsKnown
<1>6. OneTokenPerPairing'
  BY <1>2, <1>3, <1>4 DEF PairingInv, PairingsKnown, OneTokenPerPairing
<1>7. PurgedWasSent'
  BY <1>2, <1>3 DEF PairingInv, PairingsKnown, PurgedWasSent, Keys
<1> QED BY <1>5, <1>6, <1>7 DEF PairingInv

\* No token was minted for a pairing that is pending.
LEMMA ApproveInv ==
  ASSUME PairingInv, NEW c \in Callers, Approve(c)
  PROVE  PairingInv'
<1> DEFINE p == approval[c].pairing
           u == approval[c].user
<1>1. /\ approval[c].pc = "approve" /\ p \in opened /\ p \in Pairings
      /\ UNCHANGED <<opened, marking, sent>>
      /\ DOMAIN approval' = Callers
      /\ \A d \in Callers : approval'[d].pc = "approve" => approval'[d].pairing \in opened
  BY DEF Approve, PairingInv, PairingsKnown, Idle
<1>2. CASE pairings[p] # None /\ pairings[p].status = "pending"
  <2>1. PICK k \in Tokens :
          /\ pairings' = UpdateDevicePairingApproved(pairings, p, u, k)
          /\ mintedFor' = [mintedFor EXCEPT ![k] = p]
    BY <1>2 DEF Approve, ApproveDevicePairing
  <2>2. \A n \in Tokens : mintedFor[n] # None => mintedFor[n] # p
    BY <1>1, <1>2 DEF PairingInv, OneTokenPerPairing
  <2>3. /\ \A q \in Pairings \ {p} : pairings'[q] = pairings[q]
        /\ DOMAIN pairings' = Pairings
        /\ DOMAIN pairings'[p] = DOMAIN pairings[p]
        /\ pairings'[p].status = "approved_unfetched" /\ pairings'[p].token = k
        /\ pairings'[p].plaintext
    BY <1>1, <1>2, <2>1 DEF UpdateDevicePairingApproved, PairingInv, PairingsKnown
  <2>4. PairingsKnown'
    BY <1>1, <1>2, <2>1, <2>3 DEF PairingInv, PairingsKnown
  <2>5. OneTokenPerPairing'
    BY <1>1, <2>1, <2>2, <2>3 DEF PairingInv, PairingsKnown, OneTokenPerPairing
  <2>6. PurgedWasSent'
    BY <1>1, <2>3 DEF PairingInv, PairingsKnown, PurgedWasSent, Keys
  <2> QED BY <2>4, <2>5, <2>6 DEF PairingInv
<1>3. CASE ~(pairings[p] # None /\ pairings[p].status = "pending")
  <2>1. UNCHANGED <<pairings, mintedFor>>
    BY <1>3 DEF Approve, ApproveDevicePairing
  <2> QED BY <1>1, <2>1 DEF PairingInv, PairingsKnown, OneTokenPerPairing, PurgedWasSent, Keys
<1> QED BY <1>2, <1>3

LEMMA PairingNextInv ==
  ASSUME PairingInv, PairingNext
  PROVE  PairingInv'
<1>1. ASSUME NEW l \in Terminals, WriteToken(l) PROVE PairingInv'
  BY <1>1, RowsSame DEF WriteToken, PairingInv, PairingsKnown
<1>2. ASSUME NEW l \in Terminals,
             \/ Poll(l) \/ WriteFails(l) \/ Receive(l) \/ GiveUp(l) \/ RevokeBearer(l)
             \/ DeleteProfile(l) \/ MintEphemeralListener(l) \/ RevokeEphemeralListener(l)
      PROVE  PairingInv'
  <2>1. UNCHANGED <<pairings, mintedFor, opened, approval, sent, marking>>
    BY <1>2 DEF Poll, WriteFails, Receive, GiveUp, RevokeBearer, DeleteProfile,
                MintEphemeralListener, RevokeEphemeralListener
  <2> QED BY <2>1, RowsSame
<1>3. ASSUME NEW c \in Callers, ApproveCore(c) PROVE PairingInv'
  <2>1. /\ UNCHANGED <<pairings, mintedFor, opened, sent, marking>>
        /\ \E p \in Keys(pairings) : \E scopes : \E user :
             approval' = [approval EXCEPT ![c] =
               [pc |-> "approve", pairing |-> p, user |-> user, scopes |-> scopes]]
    BY <1>3 DEF ApproveCore
  <2>2. PICK p \in Keys(pairings) : \E scopes : \E user :
          approval' = [approval EXCEPT ![c] =
            [pc |-> "approve", pairing |-> p, user |-> user, scopes |-> scopes]]
    BY <2>1
  <2>3. p \in opened
    BY DEF PairingInv, PairingsKnown, Keys
  <2>4. /\ DOMAIN approval' = Callers
        /\ \A d \in Callers : approval'[d].pc = "approve" => approval'[d].pairing \in opened
    BY <2>2, <2>3 DEF PairingInv, PairingsKnown
  <2> QED BY <2>1, <2>4, RowDecided DEF PairingInv, PairingsKnown
<1>4. ASSUME NEW c \in Callers, Deny(c) PROVE PairingInv'
  <2>1. PICK q \in Keys(pairings) :
          pairings' = UpdateDevicePairingDenied(pairings, q, call[c].as.user)
    BY <1>4 DEF Deny
  <2>2. UNCHANGED <<mintedFor, opened, sent, marking, approval>>
    BY <1>4 DEF Deny
  <2> QED BY <2>1, <2>2, RowDecided DEF PairingInv, PairingsKnown, UpdateDevicePairingDenied
<1>5. ASSUME NEW q \in Pairings, MarkFetched(q) PROVE PairingInv'
  BY <1>5, RowDecided DEF MarkFetched, MarkDevicePairingFetched, PairingInv, PairingsKnown
<1>6. CASE SweepPairings
  <2> DEFINE E == ExpirePendingDevicePairings(pairings, clock)
  <2>1. /\ pairings' = DeleteOldDevicePairings(E, clock - PairingKeep)
        /\ UNCHANGED <<mintedFor, opened, sent, marking, approval>>
    BY <1>6 DEF SweepPairings
  <2>2. /\ DOMAIN E = Pairings
        /\ \A p \in Pairings : E[p] # None =>
             \/ E[p] = pairings[p]
             \/ /\ pairings[p] # None /\ pairings[p].status = "pending"
                /\ DOMAIN E[p] = DOMAIN pairings[p]
                /\ E[p].token = pairings[p].token /\ E[p].plaintext = pairings[p].plaintext
    BY DEF ExpirePendingDevicePairings, PairingInv, PairingsKnown
  <2> HIDE DEF E
  <2>3. /\ DOMAIN pairings' = Pairings
        /\ \A p \in Pairings : pairings'[p] # None => pairings'[p] = E[p]
    BY <2>1, <2>2 DEF DeleteOldDevicePairings
  <2> QED BY <2>1, <2>2, <2>3, RowDecided DEF PairingInv, PairingsKnown
<1> QED BY <1>1, <1>2, <1>3, <1>4, <1>5, <1>6, StartInv, ApproveInv DEF PairingNext

LEMMA PairingStep ==
  ASSUME PairingInv, [EnrolmentNext]_enrolmentVars
  PROVE  PairingInv'
<1>1. CASE PairingNext
  BY <1>1, PairingNextInv
<1>2. CASE UNCHANGED pairingVars
  BY <1>2, RowsSame DEF pairingVars
<1>3. CASE ServerRestart
  <2>1. /\ UNCHANGED <<pairings, mintedFor, opened, sent>> /\ marking' = {}
        /\ approval' = [c \in Callers |-> Idle]
    BY <1>3 DEF ServerRestart, PairingRestart
  <2>2. DOMAIN approval' = Callers /\ \A c \in Callers : approval'[c].pc # "approve"
    BY <2>1 DEF Idle
  <2> QED BY <2>1, <2>2 DEF PairingInv, PairingsKnown, OneTokenPerPairing, PurgedWasSent, Keys
<1>4. CASE HooksctlNext
  BY <1>4, <1>2, HooksctlQuiet
<1> QED BY <1>1, <1>2, <1>3, <1>4 DEF EnrolmentNext, enrolmentVars

LEMMA PairingInvariance == EnrolmentSpec => []PairingInv
<1>1. EnrolmentInit => PairingInv
  BY PairingInitInv
<1>2. PairingInv /\ [EnrolmentNext]_enrolmentVars => PairingInv'
  BY PairingStep
<1> QED BY <1>1, <1>2, PTL DEF EnrolmentSpec

\* A pairing is decided once: approvals, refusals, the sweep and restarts in any
\* order leave at most one token for it, and the row names it.
THEOREM PairingDecidedOnce == EnrolmentSpec => []OneTokenPerPairing
BY PairingInvariance, PTL DEF PairingInv

\* The plaintext is in the row until an answer with the token was written, however
\* many polls fail and whenever the process stops.
THEOREM PlaintextKeptUntilSent == EnrolmentSpec => []PurgedWasSent
BY PairingInvariance, PTL DEF PairingInv

-----------------------------------------------------------------------------
(* The limiter.                                                            *)

NatLess == {ss \in Nat \X Nat : ss[1] < ss[2]}

LEMMA LeastNatural ==
  ASSUME NEW S \in SUBSET Nat, S # {}
  PROVE  \E m \in S : \A y \in S : m <= y
<1>1. IsWellFoundedOn(NatLess, Nat)
  BY NatLessThanWellFounded, Zenon DEF OpToRel, NatLess
<1>2. PICK m \in S : \A y \in S : ~(<<y, m>> \in NatLess)
  BY <1>1, WFMin, Zenon
<1>3. ASSUME NEW y \in S, y < m PROVE FALSE
  <2>1. <<y, m>> \in NatLess
    BY <1>3 DEF NatLess
  <2> QED BY <1>2, <2>1
<1> QED BY <1>2, <1>3

LEMMA MinPair ==
  ASSUME NEW x \in Int, NEW y \in Int
  PROVE  Min({x, y}) = IF x <= y THEN x ELSE y
<1>1. Min({x, y}) \in {x, y} /\ \A z \in {x, y} : Min({x, y}) <= z
  BY DEF Min
<1> QED BY <1>1

\* A limit's numbers.
LEMMA LimitNumbers ==
  ASSUME NEW i \in Kinds
  PROVE  /\ Limits[i].per \in Nat \ {0} /\ Limits[i].burst \in Nat \ {0}
         /\ Full[i] \in Nat /\ Full[i] >= Limits[i].per
         /\ Full[i] = Limits[i].burst * Limits[i].per
<1>1. Limits[i] \in [per : Nat \ {0}, burst : Nat \ {0}]
  <2>1. \A S : Limits \in Seq(S) => \A j \in DOMAIN Limits : Limits[j] \in S
    OBVIOUS
  <2> QED BY <2>1, LimitsAssumption, Zenon DEF Kinds
<1>2. \A p, b \in Nat \ {0} : b * p \in Nat /\ b * p >= p
  OBVIOUS
<1>3. Full[i] = Limits[i].burst * Limits[i].per
  BY DEF Full
<1> QED BY <1>1, <1>2, <1>3

\* A refill rounded up to whole seconds is enough.
LEMMA RoundedUp ==
  ASSUME NEW n \in Nat, NEW b \in Nat \ {0}
  PROVE  (n + b - 1) \div b \in Nat /\ b * ((n + b - 1) \div b) >= n
OBVIOUS

\* The greatest of several naturals.
LEMMA GreatestOf ==
  ASSUME NEW n \in Nat \ {0}, NEW f \in [1..n -> Nat]
  PROVE  \E i \in 1..n : \A j \in 1..n : f[i] >= f[j]
<1>1. \A m \in 1..n : \E i \in 1..m : \A j \in 1..m : f[i] >= f[j]
  <2> DEFINE Bad == {m \in 1..n : \A i \in 1..m : \E j \in 1..m : f[i] < f[j]}
  <2>1. SUFFICES ASSUME Bad # {} PROVE FALSE
    <3>1. ASSUME NEW m \in 1..n PROVE \E i \in 1..m : \A j \in 1..m : f[i] >= f[j]
      <4>1. m \notin Bad
        BY <2>1, <3>1
      <4>2. PICK i \in 1..m : \A j \in 1..m : ~(f[i] < f[j])
        BY <4>1
      <4>3. \A j \in 1..m : f[j] \in Nat
        OBVIOUS
      <4> QED BY <4>2, <4>3
    <3> QED BY <3>1
  <2>2. PICK m \in Bad : \A y \in Bad : m <= y
    <3>1. Bad \in SUBSET Nat
      OBVIOUS
    <3> HIDE DEF Bad
    <3> QED BY <2>1, <3>1, LeastNatural
  <2>3. m # 1
    BY <2>2
  <2>4. m - 1 \in 1..n /\ m - 1 \notin Bad
    <3>1. m \in 1..n
      BY <2>2
    <3>2. ~(m <= m - 1)
      BY <3>1
    <3>3. m - 1 \notin Bad
      BY <2>2, <3>2
    <3> QED BY <2>3, <3>1, <3>3
  <2>5. PICK i \in 1..(m - 1) : \A j \in 1..(m - 1) : f[i] >= f[j]
    <3>1. PICK i \in 1..(m - 1) : \A j \in 1..(m - 1) : ~(f[i] < f[j])
      BY <2>4
    <3>2. \A j \in 1..(m - 1) : j \in 1..n /\ f[j] \in Nat
      BY <2>2
    <3> QED BY <3>1, <3>2
  <2>6. CASE f[m] >= f[i]
    <3>1. m \in 1..m /\ \A j \in 1..m : ~(f[m] < f[j])
      BY <2>2, <2>5, <2>6
    <3> QED BY <2>2, <3>1
  <2>7. CASE f[m] < f[i]
    <3>1. i \in 1..m /\ \A j \in 1..m : ~(f[i] < f[j])
      BY <2>2, <2>5, <2>7
    <3> QED BY <2>2, <3>1
  <2> QED BY <2>2, <2>5, <2>6, <2>7
<1>2. n \in 1..n
  OBVIOUS
<1> QED BY <1>1, <1>2

\* What the buckets of a key hold, with what it was admitted since any second, is
\* within the burst and what was refilled since.
Budget(a) ==
  \A i \in Kinds : \A from \in 0..instant :
    Limits[i].per * Within(admitted[a], from, instant) + Refilled(a)[i]
      <= Limits[i].burst * (Limits[i].per + instant - from)

Bounded(a) ==
  \A i \in Kinds : \A from, to \in 0..instant : from <= to =>
    Limits[i].per * Within(admitted[a], from, to) <= Limits[i].burst * (Limits[i].per + to - from)

\* Nothing has been admitted in seconds to come.
NoneYet(a) == \A t \in instant..MaxInstant : admitted[a][t] = admitted[a][instant]

\* A key that was told to come back has a token in each bucket by then.
Promise(a) ==
  told[a] # None /\ limiter[a] # None =>
    /\ limiter[a].seen <= told[a]
    /\ \A i \in Kinds :
         limiter[a].tokens[i] + (told[a] - limiter[a].seen) * Limits[i].burst >= Limits[i].per

LimitInv ==
  /\ LimitTypeOK
  /\ \A a \in Addresses : Budget(a) /\ Bounded(a) /\ NoneYet(a) /\ Promise(a)

\* What is in bucket i of a row by then.
Level(i, row, now) ==
  LET x == row.tokens[i] + (now - row.seen) * Limits[i].burst IN IF Full[i] <= x THEN Full[i] ELSE x

\* The buckets' contents now.
RefilledKnown(a) ==
  /\ Refilled(a) \in [Kinds -> Nat]
  /\ \A i \in Kinds :
       /\ Refilled(a)[i] <= Full[i]
       /\ Refilled(a)[i] = IF limiter[a] = None THEN Full[i] ELSE Level(i, limiter[a], instant)

LEMMA RefilledNumbers ==
  ASSUME LimitTypeOK, NEW a \in Addresses
  PROVE  RefilledKnown(a)
<1> DEFINE x(i) == Entry(a).tokens[i] + (instant - Entry(a).seen) * Limits[i].burst
<1>1. ASSUME NEW i \in Kinds
      PROVE  /\ Full[i] \in Nat /\ Limits[i].burst \in Nat
             /\ Entry(a).tokens[i] \in 0..Full[i] /\ Entry(a).seen \in 0..instant
             /\ instant \in Nat
  <2>1. Full[i] \in Nat /\ Limits[i].burst \in Nat
    BY LimitNumbers
  <2>2. instant \in Nat
    BY LimitsAssumption DEF LimitTypeOK
  <2>3. CASE limiter[a] = None
    BY <2>1, <2>2, <2>3 DEF Entry
  <2>4. CASE limiter[a] # None
    BY <2>1, <2>2, <2>4 DEF Entry, LimitTypeOK
  <2> QED BY <2>1, <2>2, <2>3, <2>4
<1>2. ASSUME NEW i \in Kinds
      PROVE  x(i) \in Nat /\ Refilled(a)[i] = IF Full[i] <= x(i) THEN Full[i] ELSE x(i)
  <2>1. x(i) \in Nat
    <3>1. \A y, z \in Nat : y * z \in Nat
      OBVIOUS
    <3>2. instant - Entry(a).seen \in Nat
      BY <1>1
    <3>3. (instant - Entry(a).seen) * Limits[i].burst \in Nat
      BY <1>1, <3>1, <3>2
    <3> QED BY <1>1, <3>3
  <2>2. Refilled(a)[i] = Min({Full[i], x(i)})
    BY DEF Refilled
  <2> HIDE DEF x
  <2> QED BY <1>1, <2>1, <2>2, MinPair
<1>3. Refilled(a) \in [Kinds -> Nat]
  <2>1. DOMAIN Refilled(a) = Kinds /\ Refilled(a) = [i \in Kinds |-> Refilled(a)[i]]
    BY DEF Refilled
  <2> HIDE DEF x
  <2> QED BY <1>1, <1>2, <2>1
<1>4. ASSUME NEW i \in Kinds, limiter[a] = None PROVE Refilled(a)[i] = Full[i]
  <2>1. x(i) = Full[i]
    BY <1>1, <1>4 DEF Entry
  <2> HIDE DEF x
  <2> QED BY <1>1, <1>2, <2>1
<1>5. ASSUME NEW i \in Kinds, limiter[a] # None
      PROVE  x(i) = limiter[a].tokens[i] + (instant - limiter[a].seen) * Limits[i].burst
  BY <1>5 DEF Entry
<1>6. ASSUME NEW i \in Kinds PROVE Refilled(a)[i] <= Full[i]
  <2> HIDE DEF x
  <2> QED BY <1>1, <1>2
<1> HIDE DEF x
<1> QED BY <1>2, <1>3, <1>4, <1>5, <1>6 DEF RefilledKnown, Level

\* A refusal says when each bucket will have a token.
LEMMA RetryAfterNumbers ==
  ASSUME NEW held \in [Kinds -> Nat], Short(held) # {}
  PROVE  /\ RetryAfter(held) \in Nat
         /\ \A i \in Kinds : held[i] + RetryAfter(held) * Limits[i].burst >= Limits[i].per
<1> DEFINE wait(i) == (Limits[i].per - held[i] + Limits[i].burst - 1) \div Limits[i].burst
           N == Len(Limits)
           f == [i \in 1..N |-> IF i \in Short(held) THEN wait(i) ELSE 0]
           W == {wait(i) : i \in Short(held)}
<1>1. N \in Nat \ {0} /\ Kinds = 1..N
  BY LimitsAssumption DEF Kinds
<1>2. ASSUME NEW i \in Short(held)
      PROVE  /\ i \in Kinds /\ wait(i) \in Nat
             /\ held[i] + wait(i) * Limits[i].burst >= Limits[i].per
  <2>1. i \in Kinds /\ held[i] \in Nat /\ held[i] < Limits[i].per
    BY DEF Short
  <2>2. Limits[i].per \in Nat \ {0} /\ Limits[i].burst \in Nat \ {0}
    BY <2>1, LimitNumbers
  <2>3. Limits[i].per - held[i] \in Nat
    BY <2>1, <2>2
  <2>4. wait(i) \in Nat /\ Limits[i].burst * wait(i) >= Limits[i].per - held[i]
    BY <2>2, <2>3, RoundedUp
  <2> HIDE DEF wait
  <2> QED BY <2>1, <2>2, <2>4
<1> HIDE DEF wait
<1>3. f \in [1..N -> Nat]
  BY <1>2
<1>4. PICK m \in 1..N : \A j \in 1..N : f[m] >= f[j]
  <2> HIDE DEF f, N
  <2> QED BY <1>1, <1>3, GreatestOf
<1>5. \E x \in W : \A y \in W : x >= y
  <2>1. CASE m \in Short(held)
    BY <1>2, <1>1, <1>4, <2>1
  <2>2. CASE m \notin Short(held)
    <3>1. PICK j \in Short(held) : TRUE
      OBVIOUS
    <3>2. \A k \in Short(held) : wait(k) = 0
      BY <1>2, <1>1, <1>4, <2>2
    <3> QED BY <3>1, <3>2
  <2> QED BY <2>1, <2>2
<1>6. RetryAfter(held) \in W /\ \A y \in W : RetryAfter(held) >= y
  <2>1. RetryAfter(held) = Max(W)
    BY DEF RetryAfter, wait
  <2> HIDE DEF W
  <2> QED BY <1>5, <2>1 DEF Max
<1>7. RetryAfter(held) \in Nat
  BY <1>2, <1>6
<1>8. ASSUME NEW i \in Kinds
      PROVE  held[i] + RetryAfter(held) * Limits[i].burst >= Limits[i].per
  <2> DEFINE R == RetryAfter(held)
  <2>1. held[i] \in Nat /\ Limits[i].per \in Nat \ {0} /\ Limits[i].burst \in Nat \ {0} /\ R \in Nat
    BY <1>7, LimitNumbers
  <2>2. CASE i \in Short(held)
    <3>1. R >= wait(i) /\ wait(i) \in Nat /\ held[i] + wait(i) * Limits[i].burst >= Limits[i].per
      BY <1>2, <1>6, <2>2
    <3>2. \A r, w, b \in Nat : r >= w => r * b >= w * b
      OBVIOUS
    <3>3. R * Limits[i].burst >= wait(i) * Limits[i].burst
      BY <2>1, <3>1, <3>2
    <3>4. R * Limits[i].burst \in Int /\ wait(i) * Limits[i].burst \in Int
      BY <2>1, <3>1
    <3>5. \A t, p, q, w \in Int : t + q >= p /\ w >= q => t + w >= p
      OBVIOUS
    <3>6. held[i] \in Int /\ Limits[i].per \in Int
      BY <2>1
    <3> QED BY <3>1, <3>3, <3>4, <3>5, <3>6, Zenon
  <2>3. CASE i \notin Short(held)
    <3>1. held[i] >= Limits[i].per
      BY <2>1, <2>3 DEF Short
    <3>2. R * Limits[i].burst \in Nat
      BY <2>1
    <3> QED BY <2>1, <3>1, <3>2
  <2> QED BY <2>2, <2>3
<1> QED BY <1>7, <1>8

LEMMA LimitInitInv ==
  ASSUME LimitInit
  PROVE  LimitInv
<1>1. LimitTypeOK
  BY LimitsAssumption DEF LimitInit, LimitTypeOK, NoneAdmitted
<1>2. ASSUME NEW a \in Addresses PROVE Budget(a) /\ Bounded(a) /\ NoneYet(a) /\ Promise(a)
  <2>1. instant = 0 /\ admitted[a] = [i \in 0..MaxInstant |-> 0] /\ told[a] = None /\ MaxInstant \in Nat
    BY <1>2, LimitsAssumption DEF LimitInit, NoneAdmitted
  <2>2. Within(admitted[a], 0, 0) = 0
    BY <2>1 DEF Within
  <2>3. ASSUME NEW i \in Kinds
        PROVE  /\ Limits[i].per * 0 + Refilled(a)[i] <= Limits[i].burst * (Limits[i].per + 0 - 0)
               /\ Limits[i].per * 0 <= Limits[i].burst * (Limits[i].per + 0 - 0)
    <3>1. Refilled(a)[i] \in Nat /\ Refilled(a)[i] <= Full[i]
      BY <1>1, RefilledNumbers DEF RefilledKnown, Level
    <3> QED BY <3>1, LimitNumbers
  <2>4. 0..instant = {0}
    BY <2>1
  <2>5. Budget(a)
    BY <2>1, <2>2, <2>3, <2>4 DEF Budget
  <2>6. Bounded(a)
    BY <2>1, <2>2, <2>3, <2>4 DEF Bounded
  <2>7. NoneYet(a) /\ Promise(a)
    BY <2>1 DEF NoneYet, Promise
  <2> QED BY <2>5, <2>6, <2>7
<1> QED BY <1>1, <1>2 DEF LimitInv

\* The limiter's invariant says what its two properties say.
LEMMA RetryAdmitted ==
  ASSUME LimitTypeOK, NEW a \in Addresses, Promise(a), told[a] # None, instant >= told[a]
  PROVE  Short(Refilled(a)) = {}
<1>1. /\ Refilled(a) \in [Kinds -> Nat] /\ instant \in Nat /\ told[a] \in Nat
      /\ \A i \in Kinds : limiter[a] = None => Refilled(a)[i] = Full[i]
  BY RefilledNumbers, LimitsAssumption DEF LimitTypeOK, RefilledKnown, Level
<1>2. ASSUME NEW i \in Kinds PROVE Refilled(a)[i] >= Limits[i].per
  <2>1. /\ Limits[i].per \in Nat /\ Limits[i].burst \in Nat /\ Full[i] \in Nat /\ Full[i] >= Limits[i].per
    BY LimitNumbers
  <2>2. CASE limiter[a] = None
    BY <1>1, <2>1, <2>2
  <2>3. CASE limiter[a] # None
    <3> DEFINE seen == limiter[a].seen
               toks == limiter[a].tokens[i]
               b == Limits[i].burst
    <3>1. /\ seen \in Nat /\ seen <= instant /\ toks \in Nat /\ seen <= told[a]
          /\ toks + (told[a] - seen) * b >= Limits[i].per
          /\ Refilled(a)[i] = IF Full[i] <= toks + (instant - seen) * b
                              THEN Full[i] ELSE toks + (instant - seen) * b
      BY <1>1, <2>1, <2>3, RefilledNumbers DEF LimitTypeOK, Promise, RefilledKnown, Level
    <3>2. \A x, y, z \in Nat : y >= x => y * z >= x * z /\ y * z \in Nat /\ x * z \in Nat
      OBVIOUS
    <3>3. /\ (instant - seen) * b >= (told[a] - seen) * b
          /\ (instant - seen) * b \in Nat /\ (told[a] - seen) * b \in Nat
      <4>1. instant - seen \in Nat /\ told[a] - seen \in Nat /\ instant - seen >= told[a] - seen
        BY <1>1, <3>1
      <4> HIDE DEF seen, b
      <4> QED BY <2>1, <3>2, <4>1 DEF b
    <3> HIDE DEF seen, toks, b
    <3>4. \A t, p, q, w \in Int : t + q >= p /\ w >= q => t + w >= p
      OBVIOUS
    <3>5. toks + (instant - seen) * b >= Limits[i].per
      BY <2>1, <3>1, <3>3, <3>4
    <3> QED BY <2>1, <3>1, <3>5, Zenon
  <2> QED BY <2>2, <2>3
<1> QED BY <1>1, <1>2, LimitNumbers DEF Short

LEMMA RefilledAlways == LimitTypeOK => \A a \in Addresses : RefilledKnown(a)
BY RefilledNumbers

LEMMA RefilledNext == (LimitTypeOK => \A a \in Addresses : RefilledKnown(a))'
BY RefilledAlways, PTL

\* A key whose buckets stay, in the same second.
LEMMA KeyStays ==
  ASSUME NEW a \in Addresses, instant' = instant, limiter'[a] = limiter[a],
         admitted'[a] = admitted[a], told'[a] = told[a],
         Budget(a), Bounded(a), NoneYet(a), Promise(a)
  PROVE  Budget(a)' /\ Bounded(a)' /\ NoneYet(a)' /\ Promise(a)'
<1>1. Refilled(a)' = Refilled(a)
  BY DEF Refilled, Entry
<1>3. Budget(a)'
  BY <1>1 DEF Budget
<1>4. Bounded(a)'
  BY DEF Bounded
<1> QED BY <1>3, <1>4 DEF NoneYet, Promise

\* What is within the budget now is bounded up to now.
LEMMA BoundedNow ==
  ASSUME LimitTypeOK', NEW a \in Addresses, Budget(a)',
         \A i \in Kinds : \A from, to \in 0..instant' : from <= to /\ to # instant' =>
           Limits[i].per * Within(admitted'[a], from, to) <= Limits[i].burst * (Limits[i].per + to - from)
  PROVE  Bounded(a)'
<1> SUFFICES ASSUME NEW i \in Kinds, NEW from \in 0..instant'
             PROVE  Limits[i].per * Within(admitted'[a], from, instant')
                      <= Limits[i].burst * (Limits[i].per + instant' - from)
  BY Zenon DEF Bounded
<1>1. Limits[i].per * Within(admitted'[a], from, instant') + Refilled(a)'[i]
        <= Limits[i].burst * (Limits[i].per + instant' - from)
  BY DEF Budget
<1>2. Refilled(a)'[i] \in Nat
  BY RefilledNext DEF RefilledKnown, Level
<1>3. instant' \in 0..MaxInstant /\ admitted'[a] \in [0..MaxInstant -> Nat] /\ MaxInstant \in Nat
  BY LimitsAssumption DEF LimitTypeOK
<1>4. Within(admitted'[a], from, instant') \in Int
  <2>1. from \in Int /\ from >= 0 /\ from <= instant' /\ instant' \in Int /\ instant' <= MaxInstant
    BY <1>3
  <2>2. admitted'[a][instant'] \in Nat
    BY <1>3
  <2>3. from # 0 => admitted'[a][from - 1] \in Nat
    BY <1>3, <2>1
  <2> QED BY <2>2, <2>3 DEF Within
<1>5. /\ Limits[i].per * Within(admitted'[a], from, instant') \in Int
      /\ Limits[i].burst * (Limits[i].per + instant' - from) \in Int
  BY <1>3, <1>4, LimitNumbers
<1>6. \A x, y \in Int, r \in Nat : x + r <= y => x <= y
  OBVIOUS
<1> QED BY <1>1, <1>2, <1>5, <1>6, Zenon

\* The counts of a key, and what they add up to.
LEMMA CountNumbers ==
  ASSUME LimitTypeOK, NEW a \in Addresses
  PROVE  /\ instant \in Nat /\ MaxInstant \in Nat /\ instant <= MaxInstant
         /\ admitted[a] \in [0..MaxInstant -> Nat]
         /\ Count(a) \in [0..MaxInstant -> Nat]
         /\ \A from, to \in 0..instant : Within(admitted[a], from, to) \in Int
         /\ \A from, to \in 0..instant : from <= to /\ to # instant =>
              Within(Count(a), from, to) = Within(admitted[a], from, to)
         /\ \A from \in 0..instant :
              Within(Count(a), from, instant) = Within(admitted[a], from, instant) + 1
<1>1. instant \in Nat /\ MaxInstant \in Nat /\ instant <= MaxInstant
  BY LimitsAssumption DEF LimitTypeOK
<1>2. admitted[a] \in [0..MaxInstant -> Nat]
  BY DEF LimitTypeOK
<1>3. Count(a) \in [0..MaxInstant -> Nat]
  <2>1. \A t \in 0..MaxInstant : admitted[a][t] \in Nat
    BY <1>2
  <2> QED BY <2>1 DEF Count
<1>4. ASSUME NEW t \in 0..instant
      PROVE  Count(a)[t] = IF t = instant THEN admitted[a][t] + 1 ELSE admitted[a][t]
  BY <1>1, <1>2 DEF Count
<1>5. ASSUME NEW from \in 0..instant, NEW to \in 0..instant
      PROVE  /\ to \in 0..MaxInstant /\ (from # 0 => from - 1 \in 0..MaxInstant /\ from - 1 \in 0..instant)
             /\ from - 1 # instant
  BY <1>1
<1>6. ASSUME NEW from \in 0..instant, NEW to \in 0..instant
      PROVE  Within(admitted[a], from, to) \in Int
  <2>1. admitted[a][to] \in Nat /\ (from # 0 => admitted[a][from - 1] \in Nat)
    BY <1>2, <1>5
  <2> QED BY <2>1 DEF Within
<1>7. ASSUME NEW from \in 0..instant, NEW to \in 0..instant, from <= to, to # instant
      PROVE  Within(Count(a), from, to) = Within(admitted[a], from, to)
  BY <1>4, <1>5, <1>7 DEF Within
<1>8. ASSUME NEW from \in 0..instant
      PROVE  Within(Count(a), from, instant) = Within(admitted[a], from, instant) + 1
  <2>1. Count(a)[instant] = admitted[a][instant] + 1 /\ admitted[a][instant] \in Nat
    BY <1>1, <1>2, <1>4
  <2>2. from # 0 => Count(a)[from - 1] = admitted[a][from - 1] /\ admitted[a][from - 1] \in Nat
    BY <1>2, <1>4, <1>5
  <2> QED BY <2>1, <2>2 DEF Within
<1> QED BY <1>1, <1>2, <1>3, <1>6, <1>7, <1>8

\* The row of a key after its request.
LEMMA AllowRow ==
  ASSUME LimitTypeOK, NEW a \in Addresses, Middleware(a)
  PROVE  /\ instant' = instant /\ limiter' \in [Addresses -> BucketsRow \cup {None}]
         /\ \A b \in Addresses : b # a => /\ limiter'[b] = limiter[b]
                                          /\ admitted'[b] = admitted[b] /\ told'[b] = told[b]
         /\ limiter'[a] # None /\ limiter'[a].seen = instant
         /\ \A i \in Kinds :
              /\ limiter'[a].tokens[i] =
                   IF Short(Refilled(a)) = {} THEN Refilled(a)[i] - Limits[i].per ELSE Refilled(a)[i]
              /\ limiter'[a].tokens[i] \in 0..Full[i]
         /\ admitted'[a] = IF Short(Refilled(a)) = {} THEN Count(a) ELSE admitted[a]
         /\ told'[a] = IF Short(Refilled(a)) = {} THEN None
                       ELSE IF told[a] = None THEN instant + RetryAfter(Refilled(a)) ELSE told[a]
         /\ admitted' \in [Addresses -> [0..MaxInstant -> Nat]]
         /\ told' \in [Addresses -> Nat \cup {None}]
<1> DEFINE ok == Short(Refilled(a)) = {}
           kept == IF ok THEN Spent(Refilled(a), Kinds) ELSE Refilled(a)
           row == [tokens |-> kept, seen |-> instant]
<1>1. /\ Refilled(a) \in [Kinds -> Nat]
      /\ \A i \in Kinds : Refilled(a)[i] <= Full[i] /\ (ok => Refilled(a)[i] >= Limits[i].per)
  <2>1. Refilled(a) \in [Kinds -> Nat] /\ \A i \in Kinds : Refilled(a)[i] <= Full[i]
    BY RefilledNumbers DEF RefilledKnown, Level
  <2>2. ASSUME NEW i \in Kinds, ok PROVE Refilled(a)[i] >= Limits[i].per
    <3>1. ~(Refilled(a)[i] < Limits[i].per)
      BY <2>2 DEF Short
    <3> QED BY <2>1, <3>1, LimitNumbers
  <2> QED BY <2>1, <2>2
<1>2. ASSUME NEW i \in Kinds
      PROVE  /\ kept[i] = IF ok THEN Refilled(a)[i] - Limits[i].per ELSE Refilled(a)[i]
             /\ kept[i] \in 0..Full[i]
  <2>1. kept[i] = IF ok THEN Refilled(a)[i] - Limits[i].per ELSE Refilled(a)[i]
    BY DEF Spent
  <2>2. Refilled(a)[i] \in Nat /\ Limits[i].per \in Nat /\ Full[i] \in Nat
    BY <1>1, LimitNumbers
  <2> HIDE DEF kept
  <2> QED BY <1>1, <2>1, <2>2
<1>3. kept \in [Kinds -> Nat]
  <2>1. DOMAIN kept = Kinds /\ kept = [i \in Kinds |-> kept[i]]
    BY <1>1 DEF Spent
  <2> HIDE DEF kept
  <2> QED BY <1>2, <2>1, LimitNumbers
<1>4. row \in BucketsRow /\ row # None /\ instant \in Nat
  BY <1>3, CountNumbers, LimitsAssumption DEF BucketsRow
<1>5. row.seen = instant /\ row.tokens = kept
  OBVIOUS
<1> HIDE DEF kept
<1>6. limiter' = [limiter EXCEPT ![a] = row] /\ instant' = instant
  BY DEF Middleware, Allow, kept
<1>7. limiter \in [Addresses -> BucketsRow \cup {None}] /\ admitted \in [Addresses -> [0..MaxInstant -> Nat]]
      /\ told \in [Addresses -> Nat \cup {None}]
  BY DEF LimitTypeOK
<1>8. admitted' = IF ok THEN [admitted EXCEPT ![a] = Count(a)] ELSE admitted
  BY DEF Middleware, Allow
<1>9. told' = [told EXCEPT ![a] = IF ok THEN None
                                  ELSE IF told[a] = None THEN instant + RetryAfter(Refilled(a)) ELSE told[a]]
  BY <1>7 DEF Middleware, Allow
<1>10. Count(a) \in [0..MaxInstant -> Nat]
  BY CountNumbers
<1>11. ~ok => instant + RetryAfter(Refilled(a)) \in Nat
  BY <1>1, <1>4, RetryAfterNumbers
<1> HIDE DEF ok, row
<1>12. /\ limiter' \in [Addresses -> BucketsRow \cup {None}]
       /\ \A b \in Addresses : b # a => limiter'[b] = limiter[b]
       /\ limiter'[a] = row
  BY <1>4, <1>6, <1>7
<1>13. /\ admitted' \in [Addresses -> [0..MaxInstant -> Nat]]
       /\ \A b \in Addresses : b # a => admitted'[b] = admitted[b]
       /\ admitted'[a] = IF ok THEN Count(a) ELSE admitted[a]
  BY <1>7, <1>8, <1>10
<1>14. /\ told' \in [Addresses -> Nat \cup {None}]
       /\ \A b \in Addresses : b # a => told'[b] = told[b]
       /\ told'[a] = IF ok THEN None
                     ELSE IF told[a] = None THEN instant + RetryAfter(Refilled(a)) ELSE told[a]
  BY <1>7, <1>9, <1>11
<1> QED BY <1>2, <1>4, <1>5, <1>6, <1>12, <1>13, <1>14 DEF ok

LEMMA AllowTyped ==
  ASSUME LimitTypeOK, NEW a \in Addresses, Middleware(a)
  PROVE  LimitTypeOK'
<1>1. ASSUME NEW b \in Addresses, limiter'[b] # None
      PROVE  /\ limiter'[b].seen \in 0..instant'
             /\ \A i \in Kinds : limiter'[b].tokens[i] \in 0..Full[i]
  <2>1. CASE b = a
    BY <2>1, AllowRow, CountNumbers
  <2>2. CASE b # a
    <3>1. limiter'[b] = limiter[b] /\ instant' = instant
      BY <2>2, AllowRow
    <3> QED BY <1>1, <3>1 DEF LimitTypeOK
  <2> QED BY <2>1, <2>2
<1>2. instant' \in 0..MaxInstant
  BY AllowRow DEF LimitTypeOK
<1> QED BY <1>1, <1>2, AllowRow DEF LimitTypeOK

\* A request keeps its key within its budget and the promise made to it.
LEMMA AllowKey ==
  ASSUME LimitTypeOK, NEW a \in Addresses, Middleware(a),
         Budget(a), Bounded(a), NoneYet(a), Promise(a)
  PROVE  Budget(a)' /\ Bounded(a)' /\ NoneYet(a)' /\ Promise(a)'
<1> DEFINE ok == Short(Refilled(a)) = {}
<1>1. LimitTypeOK' /\ instant' = instant /\ instant \in Nat /\ limiter'[a] # None /\ limiter'[a].seen = instant
  BY AllowTyped, AllowRow, CountNumbers
<1>2. ASSUME NEW i \in Kinds
      PROVE  /\ Refilled(a)[i] \in Nat /\ Refilled(a)[i] <= Full[i] /\ Full[i] \in Nat
             /\ Limits[i].per \in Nat \ {0} /\ Limits[i].burst \in Nat \ {0}
             /\ limiter'[a].tokens[i] = IF ok THEN Refilled(a)[i] - Limits[i].per ELSE Refilled(a)[i]
             /\ Refilled(a)'[i] = limiter'[a].tokens[i]
  <2>1. Refilled(a)[i] \in Nat /\ Refilled(a)[i] <= Full[i] /\ Full[i] \in Nat
        /\ Limits[i].per \in Nat \ {0} /\ Limits[i].burst \in Nat \ {0}
    BY RefilledNumbers, LimitNumbers DEF RefilledKnown, Level
  <2>2. /\ limiter'[a].tokens[i] = IF ok THEN Refilled(a)[i] - Limits[i].per ELSE Refilled(a)[i]
        /\ limiter'[a].tokens[i] \in 0..Full[i]
    BY AllowRow
  <2>3. Refilled(a)'[i] = IF Full[i] <= limiter'[a].tokens[i] + (instant - instant) * Limits[i].burst
                          THEN Full[i] ELSE limiter'[a].tokens[i] + (instant - instant) * Limits[i].burst
    BY <1>1, RefilledNext DEF RefilledKnown, Level
  <2>4. (instant - instant) * Limits[i].burst = 0
    BY <1>1, <2>1
  <2> QED BY <2>1, <2>2, <2>3, <2>4
<1>3. admitted'[a] = IF ok THEN Count(a) ELSE admitted[a]
  BY AllowRow
<1>4. Budget(a)'
  <2> SUFFICES ASSUME NEW i \in Kinds, NEW from \in 0..instant
               PROVE  Limits[i].per * Within(admitted'[a], from, instant) + Refilled(a)'[i]
                        <= Limits[i].burst * (Limits[i].per + instant - from)
    BY <1>1 DEF Budget
  <2>1. Limits[i].per * Within(admitted[a], from, instant) + Refilled(a)[i]
          <= Limits[i].burst * (Limits[i].per + instant - from)
    BY DEF Budget
  <2>2. CASE ok
    <3>1. Within(admitted'[a], from, instant) = Within(admitted[a], from, instant) + 1
          /\ Within(admitted[a], from, instant) \in Int
      BY <1>3, <2>2, CountNumbers, <1>1
    <3>2. Refilled(a)'[i] = Refilled(a)[i] - Limits[i].per /\ Refilled(a)[i] \in Nat
      BY <1>2, <2>2
    <3>3. \A p \in Nat, w \in Int, r \in Nat : p * (w + 1) + (r - p) = p * w + r
      OBVIOUS
    <3> HIDE DEF ok
    <3>4. Limits[i].per * (Within(admitted[a], from, instant) + 1) + (Refilled(a)[i] - Limits[i].per)
            = Limits[i].per * Within(admitted[a], from, instant) + Refilled(a)[i]
      BY <1>2, <3>1, <3>3
    <3> QED BY <2>1, <3>1, <3>2, <3>4, Zenon
  <2>3. CASE ~ok
    BY <1>2, <1>3, <2>1, <2>3
  <2> QED BY <2>2, <2>3
<1>5. ASSUME NEW i \in Kinds, NEW from \in 0..instant', NEW to \in 0..instant', from <= to, to # instant'
      PROVE  Limits[i].per * Within(admitted'[a], from, to) <= Limits[i].burst * (Limits[i].per + to - from)
  <2>1. Within(admitted'[a], from, to) = Within(admitted[a], from, to)
    BY <1>1, <1>3, <1>5, CountNumbers
  <2> QED BY <1>1, <1>5, <2>1 DEF Bounded
<1>6. Bounded(a)'
  BY <1>1, <1>4, <1>5, BoundedNow
<1>7. NoneYet(a)'
  <2>1. ASSUME NEW t \in instant..MaxInstant PROVE admitted'[a][t] = admitted'[a][instant]
    <3>1. t \in 0..MaxInstant /\ instant \in 0..MaxInstant /\ ~(t < instant) /\ ~(instant < instant)
      BY CountNumbers
    <3>2. admitted[a][t] = admitted[a][instant]
      BY <2>1 DEF NoneYet
    <3>3. Count(a)[t] = admitted[a][t] + 1 /\ Count(a)[instant] = admitted[a][instant] + 1
      BY <3>1 DEF Count
    <3> QED BY <1>3, <3>2, <3>3
  <2> QED BY <1>1, <2>1 DEF NoneYet
<1>8. Promise(a)'
  <2> SUFFICES ASSUME told'[a] # None
               PROVE  /\ instant <= told'[a]
                      /\ \A i \in Kinds :
                           limiter'[a].tokens[i] + (told'[a] - instant) * Limits[i].burst >= Limits[i].per
    BY <1>1 DEF Promise
  <2>1. ~ok /\ told'[a] = IF told[a] = None THEN instant + RetryAfter(Refilled(a)) ELSE told[a]
    BY AllowRow
  <2>2. CASE told[a] = None
    <3>1. /\ RetryAfter(Refilled(a)) \in Nat
          /\ \A i \in Kinds : Refilled(a)[i] + RetryAfter(Refilled(a)) * Limits[i].burst >= Limits[i].per
      BY <2>1, RefilledNumbers, RetryAfterNumbers DEF RefilledKnown, Level
    <3>2. instant <= told'[a] /\ told'[a] - instant = RetryAfter(Refilled(a))
      BY <1>1, <2>1, <2>2, <3>1
    <3> QED BY <1>2, <2>1, <3>1, <3>2, Zenon
  <2>3. CASE told[a] # None
    <3>1. instant < told[a] /\ told[a] \in Nat /\ told'[a] = told[a]
      BY <1>1, <2>1, <2>3, RetryAdmitted DEF LimitTypeOK
    <3>2. ASSUME NEW i \in Kinds
          PROVE  Refilled(a)[i] + (told[a] - instant) * Limits[i].burst >= Limits[i].per
      <4>1. told[a] - instant \in Nat /\ (told[a] - instant) * Limits[i].burst \in Nat
        BY <1>1, <1>2, <3>1
      <4>2. CASE Refilled(a)[i] = Full[i]
        BY <4>1, <4>2, <1>2, LimitNumbers
      <4>3. CASE Refilled(a)[i] # Full[i]
        <5> DEFINE seen == limiter[a].seen
                   toks == limiter[a].tokens[i]
                   b == Limits[i].burst
        <5>1. /\ limiter[a] # None /\ Refilled(a)[i] = toks + (instant - seen) * b
              /\ toks + (told[a] - seen) * b >= Limits[i].per
              /\ seen \in Nat /\ toks \in Nat /\ b \in Nat
          BY <4>3, <2>3, RefilledNumbers, LimitNumbers DEF Promise, LimitTypeOK, BucketsRow, RefilledKnown, Level
        <5>2. \A t, x, y, z, e \in Int : x + y = z => (t + x * e) + y * e = t + z * e
          OBVIOUS
        <5>3. (toks + (instant - seen) * b) + (told[a] - instant) * b = toks + (told[a] - seen) * b
          <6>1. /\ instant - seen \in Int /\ told[a] - instant \in Int /\ told[a] - seen \in Int
                /\ toks \in Int /\ b \in Int
                /\ (instant - seen) + (told[a] - instant) = told[a] - seen
            BY <1>1, <3>1, <5>1
          <6> DEFINE x == instant - seen
                     y == told[a] - instant
                     z == told[a] - seen
          <6>2. x \in Int /\ y \in Int /\ z \in Int /\ x + y = z /\ toks \in Int /\ b \in Int
            BY <6>1
          <6> HIDE DEF seen, toks, b, x, y, z
          <6>3. (toks + x * b) + y * b = toks + z * b
            BY <5>2, <6>2
          <6> QED BY <6>3 DEF x, y, z
        <5> HIDE DEF seen, toks
        <5> QED BY <5>1, <5>3, Zenon
      <4> QED BY <4>2, <4>3
    <3> QED BY <1>1, <1>2, <2>1, <3>1, <3>2
  <2> QED BY <2>2, <2>3
<1> QED BY <1>4, <1>6, <1>7, <1>8

\* Time passes: what is refilled is what the budget grows by.
LEMMA AdvanceKey ==
  ASSUME LimitTypeOK, LimitTypeOK', NEW a \in Addresses, Advance,
         Budget(a), Bounded(a), NoneYet(a), Promise(a)
  PROVE  Budget(a)' /\ Bounded(a)' /\ NoneYet(a)' /\ Promise(a)'
<1>1. /\ instant \in Nat /\ MaxInstant \in Nat /\ instant < MaxInstant /\ instant' = instant + 1
      /\ limiter' = limiter /\ admitted' = admitted /\ told' = told
      /\ admitted[a] \in [0..MaxInstant -> Nat]
  BY CountNumbers DEF Advance
<1>2. admitted[a][instant + 1] = admitted[a][instant] /\ admitted[a][instant] \in Nat
  BY <1>1 DEF NoneYet
<1>3. ASSUME NEW i \in Kinds
      PROVE  /\ Refilled(a)[i] \in Nat /\ Refilled(a)'[i] \in Nat
             /\ Limits[i].per \in Nat \ {0} /\ Limits[i].burst \in Nat \ {0}
             /\ Refilled(a)'[i] <= Refilled(a)[i] + Limits[i].burst
             /\ Refilled(a)'[i] <= Full[i] /\ Full[i] = Limits[i].burst * Limits[i].per
  <2>1. /\ Refilled(a)[i] \in Nat /\ Refilled(a)'[i] \in Nat /\ Full[i] \in Nat
        /\ Limits[i].per \in Nat \ {0} /\ Limits[i].burst \in Nat \ {0}
        /\ Refilled(a)'[i] <= Full[i] /\ Full[i] = Limits[i].burst * Limits[i].per
    BY LimitNumbers, RefilledNext, RefilledAlways DEF RefilledKnown, Level
  <2>2. CASE limiter[a] = None
    BY <2>1, <2>2, RefilledNumbers DEF RefilledKnown, Level
  <2>3. CASE limiter[a] # None
    <3> DEFINE seen == limiter[a].seen
               toks == limiter[a].tokens[i]
               b == Limits[i].burst
    <3>1. /\ Refilled(a)[i] = IF Full[i] <= toks + (instant - seen) * b
                              THEN Full[i] ELSE toks + (instant - seen) * b
          /\ Refilled(a)'[i] = IF Full[i] <= toks + ((instant + 1) - seen) * b
                               THEN Full[i] ELSE toks + ((instant + 1) - seen) * b
          /\ seen \in Nat /\ toks \in Nat
      <4>1. limiter[a] \in BucketsRow
        BY <2>3 DEF LimitTypeOK
      <4>2. seen \in Nat /\ toks \in Nat
        BY <4>1 DEF BucketsRow
      <4>3. Refilled(a)[i] = Level(i, limiter[a], instant)
        BY <2>3, RefilledAlways DEF RefilledKnown
      <4>4. Refilled(a)'[i] = Level(i, limiter[a], instant + 1)
        <5>1. limiter' = limiter /\ instant' = instant + 1
          BY <1>1
        <5> QED BY <2>3, <5>1, RefilledNext DEF RefilledKnown
      <4> QED BY <4>2, <4>3, <4>4 DEF Level
    <3>2. \A n, e \in Int : (n + 1) * e = n * e + e /\ n * e \in Int
      OBVIOUS
    <3>3. ((instant + 1) - seen) * b = (instant - seen) * b + b /\ (instant - seen) * b \in Int
      <4>1. seen \in Int /\ instant \in Int /\ b \in Int
        BY <1>1, <2>1, <3>1
      <4> HIDE DEF seen, b
      <4> DEFINE n == instant - seen
      <4>2. n \in Int /\ (instant + 1) - seen = n + 1
        BY <4>1
      <4> HIDE DEF n
      <4>3. (n + 1) * b = n * b + b /\ n * b \in Int
        BY <3>2, <4>1, <4>2
      <4> QED BY <4>2, <4>3 DEF n
    <3> DEFINE x == (instant - seen) * b
    <3>4. b \in Nat /\ x \in Int
      BY <2>1, <3>3
    <3> HIDE DEF seen, toks, x, b
    <3>5. Refilled(a)'[i] <= Refilled(a)[i] + b
      BY <2>1, <3>1, <3>3, <3>4 DEF x
    <3> QED BY <2>1, <3>5 DEF b
  <2> QED BY <2>1, <2>2, <2>3
<1>4. Budget(a)'
  <2> SUFFICES ASSUME NEW i \in Kinds, NEW from \in 0..(instant + 1)
               PROVE  Limits[i].per * Within(admitted[a], from, instant + 1) + Refilled(a)'[i]
                        <= Limits[i].burst * (Limits[i].per + (instant + 1) - from)
    BY <1>1 DEF Budget
  <2>1. CASE from = instant + 1
    <3>1. Within(admitted[a], from, instant + 1) = 0
      BY <1>1, <1>2, <2>1 DEF Within
    <3>2. Limits[i].per + (instant + 1) - from = Limits[i].per /\ Limits[i].per * 0 = 0
      BY <1>1, <1>3, <2>1
    <3> QED BY <1>3, <3>1, <3>2
  <2>2. CASE from # instant + 1
    <3>1. from \in 0..instant /\ from <= instant
      BY <1>1, <2>2
    <3>2. Within(admitted[a], from, instant + 1) = Within(admitted[a], from, instant)
          /\ Within(admitted[a], from, instant) \in Int
      <4>1. Within(admitted[a], from, instant + 1) = Within(admitted[a], from, instant)
        BY <1>2 DEF Within
      <4>2. instant \in 0..instant
        BY <1>1
      <4> QED BY <3>1, <4>1, <4>2, CountNumbers
    <3>3. Limits[i].per * Within(admitted[a], from, instant) + Refilled(a)[i]
            <= Limits[i].burst * (Limits[i].per + instant - from)
      BY <3>1 DEF Budget
    <3>4. \A b, n \in Int : b * (n + 1) = b * n + b
      OBVIOUS
    <3>5. Limits[i].per + (instant + 1) - from = (Limits[i].per + instant - from) + 1
          /\ Limits[i].per + instant - from \in Int
      <4>1. Limits[i].per \in Int /\ from \in Int /\ instant \in Int
        BY <1>1, <1>3, <3>1
      <4> QED BY <4>1
    <3>6. Limits[i].burst * (Limits[i].per + (instant + 1) - from)
            = Limits[i].burst * (Limits[i].per + instant - from) + Limits[i].burst
      <4> DEFINE n == Limits[i].per + instant - from
                 b == Limits[i].burst
      <4>1. b \in Int /\ n \in Int /\ Limits[i].per + (instant + 1) - from = n + 1
        BY <1>3, <3>5
      <4> HIDE DEF n, b
      <4>2. b * (n + 1) = b * n + b
        BY <3>4, <4>1
      <4> QED BY <4>1, <4>2 DEF n, b
    <3>7. /\ Limits[i].per * Within(admitted[a], from, instant) \in Int
          /\ Limits[i].burst * (Limits[i].per + instant - from) \in Int
      BY <1>3, <3>2, <3>5
    <3>8. \A x, y, r, q, b \in Int : x + r <= y /\ q <= r + b => x + q <= y + b
      OBVIOUS
    <3>9. Refilled(a)[i] \in Int /\ Refilled(a)'[i] \in Int /\ Limits[i].burst \in Int
          /\ Refilled(a)'[i] <= Refilled(a)[i] + Limits[i].burst
      BY <1>3
    <3> QED BY <3>2, <3>3, <3>6, <3>7, <3>8, <3>9, Zenon
  <2> QED BY <2>1, <2>2
<1>5. ASSUME NEW i \in Kinds, NEW from \in 0..instant', NEW to \in 0..instant', from <= to, to # instant'
      PROVE  Limits[i].per * Within(admitted'[a], from, to) <= Limits[i].burst * (Limits[i].per + to - from)
  <2>1. from \in 0..instant /\ to \in 0..instant
    BY <1>1, <1>5
  <2> QED BY <1>1, <1>5, <2>1 DEF Bounded
<1>6. Bounded(a)'
  BY <1>4, <1>5, BoundedNow
<1>7. NoneYet(a)'
  BY <1>1, <1>2 DEF NoneYet
<1>8. Promise(a)'
  BY <1>1 DEF Promise
<1> QED BY <1>4, <1>6, <1>7, <1>8

\* A key that is forgotten had full buckets: it gains nothing by it.
LEMMA SweepKey ==
  ASSUME LimitTypeOK, LimitTypeOK', NEW a \in Addresses, SweepIdle,
         Budget(a), Bounded(a), NoneYet(a), Promise(a)
  PROVE  Budget(a)' /\ Bounded(a)' /\ NoneYet(a)' /\ Promise(a)'
<1> DEFINE idle == 2 * Max({Limits[i].per : i \in Kinds})
<1>1. /\ instant' = instant /\ admitted' = admitted /\ told' = told
      /\ limiter'[a] = IF limiter[a] # None /\ instant - limiter[a].seen > idle THEN None ELSE limiter[a]
  BY DEF SweepIdle
<1>2. ASSUME limiter[a] # None, instant - limiter[a].seen > idle, NEW i \in Kinds
      PROVE  Refilled(a)[i] = Full[i]
  <2> DEFINE P == {Limits[j].per : j \in Kinds}
             N == Len(Limits)
             f == [j \in 1..N |-> Limits[j].per]
  <2>1. N \in Nat \ {0} /\ Kinds = 1..N
    BY LimitsAssumption DEF Kinds
  <2>2. f \in [1..N -> Nat]
    BY <2>1, LimitNumbers
  <2>3. PICK m \in 1..N : \A j \in 1..N : f[m] >= f[j]
    <3> HIDE DEF f, N
    <3> QED BY <2>1, <2>2, GreatestOf
  <2>4. \E x \in P : \A y \in P : x >= y
    BY <2>1, <2>3
  <2>5. Max(P) \in P /\ \A y \in P : Max(P) >= y
    <3> HIDE DEF P
    <3> QED BY <2>4 DEF Max
  <2>6. Max(P) \in Nat /\ Max(P) >= Limits[i].per
    BY <2>5, LimitNumbers
  <2> DEFINE seen == limiter[a].seen
             toks == limiter[a].tokens[i]
             b == Limits[i].burst
             p == Limits[i].per
  <2>7. /\ b \in Nat \ {0} /\ p \in Nat /\ Full[i] = b * p /\ Full[i] \in Nat
        /\ seen \in Nat /\ toks \in Nat /\ instant \in Nat /\ seen <= instant
        /\ Refilled(a)[i] = IF Full[i] <= toks + (instant - seen) * b
                            THEN Full[i] ELSE toks + (instant - seen) * b
    <3>1. limiter[a] \in BucketsRow /\ limiter[a].seen \in 0..instant
      BY <1>2 DEF LimitTypeOK
    <3> QED BY <1>2, <3>1, LimitNumbers, RefilledNumbers, CountNumbers DEF BucketsRow, RefilledKnown, Level
  <2>8. instant - seen >= p /\ instant - seen \in Nat
    <3>1. instant - seen > 2 * Max(P)
      BY <1>2
    <3> HIDE DEF P, seen, p
    <3>2. Max(P) \in Nat /\ Max(P) >= p /\ p \in Nat /\ seen \in Nat /\ instant \in Nat /\ seen <= instant
      BY <2>6, <2>7 DEF p
    <3> QED BY <3>1, <3>2
  <2>9. \A n, e, q \in Nat : n >= q => n * e >= e * q /\ n * e \in Nat
    OBVIOUS
  <2> HIDE DEF seen, toks, b, p
  <2>10. (instant - seen) * b >= b * p /\ (instant - seen) * b \in Nat
    BY <2>7, <2>8, <2>9
  <2>11. Full[i] <= toks + (instant - seen) * b
    BY <2>7, <2>10
  <2> QED BY <2>7, <2>11
<1>3. ASSUME NEW i \in Kinds PROVE Refilled(a)'[i] = Refilled(a)[i]
  <2>1. CASE limiter[a] # None /\ instant - limiter[a].seen > idle
    <3>1. Refilled(a)[i] = Full[i]
      BY <1>2, <2>1
    <3>2. Refilled(a)'[i] = Full[i]
      BY <1>1, <2>1, RefilledNext DEF RefilledKnown, Level
    <3> QED BY <3>1, <3>2
  <2>2. CASE ~(limiter[a] # None /\ instant - limiter[a].seen > idle)
    <3>1. limiter'[a] = limiter[a]
      BY <1>1, <2>2
    <3> QED BY <1>1, <3>1 DEF Refilled, Entry
  <2> QED BY <2>1, <2>2
<1> HIDE DEF idle
<1>4. Budget(a)'
  BY <1>1, <1>3 DEF Budget
<1>5. Bounded(a)' /\ NoneYet(a)'
  BY <1>1 DEF Bounded, NoneYet
<1>6. Promise(a)'
  BY <1>1 DEF Promise
<1> QED BY <1>4, <1>5, <1>6

\* A new process has full buckets and has admitted nothing.
LEMMA RestartKey ==
  ASSUME LimitTypeOK, LimitTypeOK', NEW a \in Addresses, LimitRestart
  PROVE  Budget(a)' /\ Bounded(a)' /\ NoneYet(a)' /\ Promise(a)'
<1>1. /\ instant' = instant /\ instant \in Nat /\ MaxInstant \in Nat /\ instant <= MaxInstant
      /\ limiter'[a] = None /\ told'[a] = None /\ admitted'[a] = [t \in 0..MaxInstant |-> 0]
  BY CountNumbers DEF LimitRestart, NoneAdmitted
<1>2. ASSUME NEW from \in 0..instant, NEW to \in 0..instant
      PROVE  Within(admitted'[a], from, to) = 0
  <2>1. to \in 0..MaxInstant /\ (from # 0 => from - 1 \in 0..MaxInstant)
    BY <1>1
  <2> QED BY <1>1, <2>1 DEF Within
<1>3. ASSUME NEW i \in Kinds, NEW n \in Nat
      PROVE  Limits[i].burst * (Limits[i].per + n) \in Nat /\ Limits[i].burst * (Limits[i].per + n) >= Full[i]
  <2>1. \A b, p, k \in Nat : b * (p + k) = b * p + b * k /\ b * k \in Nat /\ b * p \in Nat
    OBVIOUS
  <2>2. Limits[i].per \in Nat /\ Limits[i].burst \in Nat /\ Full[i] = Limits[i].burst * Limits[i].per
    BY LimitNumbers
  <2>3. /\ Limits[i].burst * (Limits[i].per + n) = Full[i] + Limits[i].burst * n
        /\ Limits[i].burst * n \in Nat /\ Full[i] \in Nat
    BY <2>1, <2>2
  <2> QED BY <2>3
<1>4. ASSUME NEW i \in Kinds, NEW from \in 0..instant
      PROVE  Limits[i].per * Within(admitted'[a], from, instant) + Refilled(a)'[i]
               <= Limits[i].burst * (Limits[i].per + instant - from)
  <2>1. Refilled(a)'[i] = Full[i] /\ Full[i] \in Nat
    BY <1>1, RefilledNext, LimitNumbers DEF RefilledKnown, Level
  <2>2. Limits[i].per * Within(admitted'[a], from, instant) = 0
    <3>1. instant \in 0..instant
      BY <1>1
    <3> QED BY <1>2, <3>1, LimitNumbers
  <2>3. instant - from \in Nat /\ Limits[i].per + instant - from = Limits[i].per + (instant - from)
    BY <1>1, LimitNumbers
  <2>4. Limits[i].burst * (Limits[i].per + (instant - from)) \in Nat
        /\ Limits[i].burst * (Limits[i].per + (instant - from)) >= Full[i]
    BY <1>3, <2>3
  <2> QED BY <2>1, <2>2, <2>3, <2>4
<1>5. Budget(a)'
  BY <1>1, <1>4 DEF Budget
<1>6. ASSUME NEW i \in Kinds, NEW from \in 0..instant', NEW to \in 0..instant', from <= to, to # instant'
      PROVE  Limits[i].per * Within(admitted'[a], from, to) <= Limits[i].burst * (Limits[i].per + to - from)
  <2>1. Limits[i].per * Within(admitted'[a], from, to) = 0
    BY <1>1, <1>2, LimitNumbers
  <2>2. to - from \in Nat /\ Limits[i].per + to - from = Limits[i].per + (to - from)
    BY <1>1, <1>6, LimitNumbers
  <2>3. Limits[i].burst * (Limits[i].per + (to - from)) \in Nat
    BY <1>3, <2>2
  <2> QED BY <2>1, <2>2, <2>3
<1>7. Bounded(a)'
  BY <1>5, <1>6, BoundedNow
<1>8. NoneYet(a)' /\ Promise(a)'
  BY <1>1 DEF NoneYet, Promise
<1> QED BY <1>5, <1>7, <1>8

LEMMA LimitStepInv ==
  ASSUME LimitInv, LimitNext \/ LimitRestart \/ UNCHANGED limitVars
  PROVE  LimitInv'
<1>1. LimitTypeOK
  BY DEF LimitInv
<1>2. ASSUME NEW a \in Addresses, Middleware(a) PROVE LimitInv'
  <2>1. LimitTypeOK'
    BY <1>1, <1>2, AllowTyped
  <2>2. ASSUME NEW b \in Addresses PROVE Budget(b)' /\ Bounded(b)' /\ NoneYet(b)' /\ Promise(b)'
    <3>1. CASE b = a
      BY <1>1, <1>2, <3>1, AllowKey DEF LimitInv
    <3>2. CASE b # a
      <4>1. instant' = instant /\ limiter'[b] = limiter[b] /\ admitted'[b] = admitted[b] /\ told'[b] = told[b]
        BY <1>1, <1>2, <3>2, AllowRow
      <4> QED BY <4>1, KeyStays DEF LimitInv
    <3> QED BY <3>1, <3>2
  <2> QED BY <2>1, <2>2 DEF LimitInv
<1>3. CASE SweepIdle
  <2>1. LimitTypeOK'
    BY <1>1, <1>3 DEF LimitTypeOK, SweepIdle
  <2> QED BY <1>1, <1>3, <2>1, SweepKey DEF LimitInv
<1>4. CASE Advance
  <2>1. LimitTypeOK'
    <3>1. instant' = instant + 1 /\ instant' \in 0..MaxInstant /\ UNCHANGED <<limiter, admitted, told>>
      BY <1>1, <1>4, LimitsAssumption DEF LimitTypeOK, Advance
    <3>2. \A n \in 0..instant : n \in 0..instant'
      BY <1>1, <3>1 DEF LimitTypeOK
    <3> QED BY <1>1, <3>1, <3>2 DEF LimitTypeOK
  <2> QED BY <1>1, <1>4, <2>1, AdvanceKey DEF LimitInv
<1>5. CASE LimitRestart
  <2>1. LimitTypeOK'
    <3>1. [t \in 0..MaxInstant |-> 0] \in [0..MaxInstant -> Nat]
      OBVIOUS
    <3> QED BY <1>1, <1>5, <3>1 DEF LimitTypeOK, LimitRestart, NoneAdmitted
  <2> QED BY <1>1, <1>5, <2>1, RestartKey DEF LimitInv
<1>6. CASE UNCHANGED limitVars
  <2>1. LimitTypeOK'
    BY <1>1, <1>6 DEF LimitTypeOK, limitVars
  <2> QED BY <1>6, <2>1, KeyStays DEF LimitInv, limitVars
<1> QED BY <1>2, <1>3, <1>4, <1>5, <1>6 DEF LimitNext

\* Every step of the system is one of the limiter, or none of its business.
LEMMA LimiterSteps ==
  ASSUME [EnrolmentNext]_enrolmentVars
  PROVE  LimitNext \/ LimitRestart \/ UNCHANGED limitVars
BY DEF EnrolmentNext, enrolmentVars, ServerRestart

\* The limiter's invariant holds in every state.
THEOREM LimiterInvariance == EnrolmentSpec => []LimitInv
<1>1. EnrolmentInit => LimitInv
  BY LimitInitInv DEF EnrolmentInit
<1>2. LimitInv /\ [EnrolmentNext]_enrolmentVars => LimitInv'
  BY LimiterSteps, LimitStepInv
<1> QED BY <1>1, <1>2, PTL DEF EnrolmentSpec

\* Whatever the interval, a key is admitted no more often in it than each limit's
\* burst and refill allow, sweeps and restarts included.
THEOREM RatesBounded == EnrolmentSpec => []RateBounded
<1>1. LimitInv => RateBounded
  BY DEF LimitInv, RateBounded, Bounded
<1> QED BY <1>1, LimiterInvariance, PTL

\* A client that comes back when a refusal told it to is admitted.
THEOREM RetriesAdmitted == EnrolmentSpec => []RetryAfterSuffices
<1>1. LimitInv => RetryAfterSuffices
  BY RetryAdmitted DEF LimitInv, RetryAfterSuffices
<1> QED BY <1>1, LimiterInvariance, PTL

\* Every table, handler, command and bucket has its type: what the run checks of the
\* whole, for any number of users, requests and credentials.
THEOREM EnrolmentTypeCorrect == EnrolmentSpec => []EnrolmentTypeOK
<1>1. Known /\ Types /\ LimitInv => EnrolmentTypeOK
  BY DEF Known, Types, AccountsTyped, SessionsTyped, TokensTyped, SubsTyped, CallsTyped, CountsTyped,
         HistoryTyped, UsesTyped, LateTyped, AccountsTypeOK, EnrolmentTypeOK, LimitInv
<1> QED BY <1>1, EnrolmentInvariance, EnrolmentTypes, LimiterInvariance, PTL
=============================================================================
