-------------------------------- MODULE Invites --------------------------------
(***************************************************************************)
(* How users come to exist (internal/invites, store/invites_store.go and   *)
(* `hooks init`): administrators create invites, a sign-up consumes one    *)
(* and inserts a user in one transaction, and `hooks init` makes a         *)
(* bootstrap invite while there are no users.                              *)
(*                                                                         *)
(* `hooks init` is a process of its own on the same database, so its four  *)
(* store calls interleave with the server's.  A user's id stands for the   *)
(* email too, which is unique.                                             *)
(***************************************************************************)
EXTENDS Accounts

CONSTANTS Codes,     \* codes that NewCode may return; it does not repeat itself
          InviteTTL

VARIABLES
  invites,       \* the table
  signup,        \* request -> where the handler of a sign-up or revocation is
  init,          \* where `hooks init` is
  issued,        \* history: codes that have been issued
  via            \* history: user -> code of the sign-up that created the row

inviteVars == <<invites, signup, init, issued, via>>

InviteRow == [role : {"admin", "user"}, scopes : SUBSET Scopes, bootstrap : BOOLEAN,
              expires : Nat, user : Users \cup {None}]

ASSUME InvitesAssumption == InviteTTL \in Nat /\ None \notin InviteRow

Invite(role, scopes, bootstrap) ==
  [role |-> role, scopes |-> scopes, bootstrap |-> bootstrap, expires |-> clock + InviteTTL,
   user |-> None]

AddInvite(row) ==
  \E i \in Codes \ issued :
    /\ invites' = InsertInvite(invites, i, row)
    /\ issued' = issued \cup {i}

NewInvite ==
  \E role \in {"admin", "user"} : \E scopes \in {{}, Scopes \ {"admin"}} :
    AddInvite(Invite(role, scopes, FALSE))

-----------------------------------------------------------------------------
(* Administrators (invites.API, with a session) and the operator.          *)

Create(c) ==
  /\ Can("invite") /\ May(c, "admin") /\ FromSession(c)
  /\ NewInvite
  /\ Done(c)
  /\ UNCHANGED <<storeVars, touched, clock, enabled, histVars, signup, init, via>>

UsersInvite(c) == May(c, "admin") /\ FromSession(c) /\ Create(c)

\* `hooks invite` writes to the database from the operator's shell.
RunInvite ==
  /\ Can("invite")
  /\ opsLeft > 0
  /\ opsLeft' = opsLeft - 1
  /\ NewInvite
  /\ UNCHANGED <<storeVars, touched, call, clock, enabled, histVars, signup, init, via>>

\* Delete: the row is read and found open, then deleted if it still is.
Delete(c) ==
  \/ /\ Can("invite") /\ May(c, "admin") /\ FromSession(c)
     /\ signup[c] = Idle
     /\ \E i \in Keys(invites) :
          invites[i].user = None /\ signup' = [signup EXCEPT ![c] = [pc |-> "delete", code |-> i]]
     /\ Done(c)
     /\ UNCHANGED <<storeVars, touched, clock, enabled, histVars, invites, init, issued, via>>
  \/ /\ signup[c].pc = "delete"
     /\ invites' = DeleteInvite(invites, signup[c].code)
     /\ signup' = [signup EXCEPT ![c] = Idle]
     /\ UNCHANGED <<vars, init, issued, via>>

-----------------------------------------------------------------------------
(* Signing up.                                                             *)

\* Provision: the invite is read, found open and not expired; the new row takes
\* its role and scopes.
Provision(c, i, u) ==
  /\ Can("signup")
  /\ signup[c] = Idle
  /\ opsLeft > 0
  /\ opsLeft' = opsLeft - 1
  /\ invites[i] # None /\ invites[i].user = None /\ invites[i].expires >= clock
  /\ signup' = [signup EXCEPT ![c] = [pc |-> "signup", code |-> i, user |-> u,
                                      role |-> invites[i].role, scopes |-> invites[i].scopes]]
  /\ UNCHANGED <<storeVars, touched, call, clock, enabled, histVars, invites, init, issued, via>>

Created(c) == InsertUser(users, signup[c].user,
                [role |-> signup[c].role, active |-> TRUE, pw |-> 1, scopes |-> signup[c].scopes])

\* Mutant of SignupTx: does not look at how many rows were consumed.
SignupTxUnchecked(c) ==
  LET u == signup[c].user i == signup[c].code IN
  IF users[u] = None
  THEN /\ users' = Created(c)
       /\ invites' = MarkBootstrapInvitesConsumed(MarkInviteConsumed(invites, i, u), u)
       /\ via' = [via EXCEPT ![u] = i]
  ELSE UNCHANGED <<users, invites, via>>

\* One transaction: the email must be free and the invite still open, or nothing
\* is done.  The bootstrap invites are consumed too.
SignupTx(c) ==
  LET u == signup[c].user i == signup[c].code IN
  IF users[u] = None /\ invites[i] # None /\ invites[i].user = None
  THEN /\ users' = Created(c)
       /\ invites' = MarkBootstrapInvitesConsumed(MarkInviteConsumed(invites, i, u), u)
       /\ via' = [via EXCEPT ![u] = i]
  ELSE UNCHANGED <<users, invites, via>>

Signup(c) ==
  /\ signup[c].pc = "signup"
  /\ SignupTx(c)
  /\ signup' = [signup EXCEPT ![c] = Idle]
  /\ UNCHANGED <<sessions, tokens, subs, touched, call, clock, enabled, opsLeft, histVars, init, issued>>

-----------------------------------------------------------------------------
(* `hooks init`.                                                           *)

\* One transaction: an open, unexpired bootstrap invite is kept, any other is
\* replaced.
EnsureBootstrapInvite ==
  IF \E i \in GetBootstrapInvite(invites) : invites[i].user = None /\ invites[i].expires > clock
  THEN UNCHANGED <<invites, issued>>
  ELSE \E i \in Codes \ issued :
         /\ invites' = InsertInvite(DeleteBootstrapInvite(invites), i, Invite("admin", {}, TRUE))
         /\ issued' = issued \cup {i}

\* The operator's token, then the counts, then the invite.
RunInit ==
  \/ /\ Can("init") /\ init = "off"
     /\ opsLeft > 0
     /\ opsLeft' = opsLeft - 1
     /\ \E k \in Tokens :
          tokens[k] = None /\ tokens' = InsertToken(tokens, k, Issued(None, "listener", FALSE, {"admin"}))
     /\ init' = "admins"
     /\ UNCHANGED <<invites, issued>>
  \/ /\ init = "admins"
     /\ init' = IF ActiveAdmins(users) = {} THEN "users" ELSE "off"
     /\ UNCHANGED <<tokens, opsLeft, invites, issued>>
  \/ /\ init = "users"
     /\ init' = IF Keys(users) = {} THEN "ensure" ELSE "off"
     /\ UNCHANGED <<tokens, opsLeft, invites, issued>>
  \/ /\ init = "ensure"
     /\ EnsureBootstrapInvite
     /\ init' = "off"
     /\ UNCHANGED <<tokens, opsLeft>>

InitStep ==
  /\ RunInit
  /\ UNCHANGED <<users, sessions, subs, touched, call, clock, enabled, histVars, signup, via>>

-----------------------------------------------------------------------------
InvitesInit ==
  /\ invites = [i \in Codes |-> None]
  /\ signup = [c \in Callers |-> Idle]
  /\ init = "off"
  /\ issued = {}
  /\ via = [u \in Users |-> None]

InvitesNext ==
  \/ \E c \in Callers :
       \/ Create(c) \/ UsersInvite(c) \/ Delete(c) \/ Signup(c)
       \/ \E i \in Codes : \E u \in Users : Provision(c, i, u)
  \/ RunInvite \/ InitStep

InvitesRestart == signup' = [c \in Callers |-> Idle] /\ UNCHANGED <<invites, init, issued, via>>

-----------------------------------------------------------------------------
(* Properties.                                                             *)

InvitesTypeOK ==
  /\ invites \in [Codes -> InviteRow \cup {None}]
  /\ signup \in [Callers ->
       {Idle} \cup [pc : {"delete"}, code : Codes]
       \cup [pc : {"signup"}, code : Codes, user : Users, role : {"admin", "user"},
             scopes : SUBSET Scopes]]
  /\ init \in {"off", "admins", "users", "ensure"}
  /\ issued \subseteq Codes
  /\ via \in [Users -> Codes \cup {None}]

\* An invite makes at most one user, and none if it is revoked, however sign-ups,
\* revocations and `hooks init` interleave: the row stays, names the one user that
\* came of it and has that user's role (a bootstrap row may be replaced later).
SingleUse ==
  \A u \in Keys(users) : via[u] # None =>
    /\ \A v \in Keys(users) \ {u} : via[v] # via[u]
    /\ users[u].role = "user" => invites[via[u]] # None
    /\ invites[via[u]] # None =>
         invites[via[u]].user = u /\ users[u].role = invites[via[u]].role
=============================================================================
