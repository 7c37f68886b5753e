-------------------------------- MODULE Tables --------------------------------
(***************************************************************************)
(* The SQL statements of internal/store over the tables users,             *)
(* user_sessions, listener_tokens, push_subscriptions, invites and         *)
(* device_pairings, one operator per statement.  A table is a function     *)
(* from keys to rows, None where there is no row; a statement that writes  *)
(* returns the new table, and an UPDATE that matches no row returns the    *)
(* table it was given.  A row has the columns the modules that use the     *)
(* table tell apart: a nullable timestamp that is only compared with NULL  *)
(* is a Boolean.                                                           *)
(***************************************************************************)
EXTENDS Integers

CONSTANT None   \* NULL: an absent row, a column without value

Keys(T) == {k \in DOMAIN T : T[k] # None}

\* UPDATE of one column WHERE id = k.
Update(T, k, column, value) ==
  [T EXCEPT ![k] = IF @ = None THEN None ELSE [@ EXCEPT ![column] = value]]

-----------------------------------------------------------------------------
(* users *)

InsertUser(T, u, row) == [T EXCEPT ![u] = row]

UpdateUserProfile(T, u, scopes) == Update(T, u, "scopes", scopes)

DeactivateUser(T, u) == Update(T, u, "active", FALSE)

ReactivateUser(T, u) == Update(T, u, "active", TRUE)

SetUserPasswordHash(T, u, pw) == Update(T, u, "pw", pw)

\* COUNT(*) is compared with zero only.
ActiveAdmins(T) == {u \in Keys(T) : T[u].role = "admin" /\ T[u].active}

ActiveAdminsExcluding(T, u) == ActiveAdmins(T) \ {u}

-----------------------------------------------------------------------------
(* user_sessions *)

InsertSession(T, s, row) == [T EXCEPT ![s] = row]

TouchSession(T, s, lastUsed, expires) ==
  [T EXCEPT ![s] = IF @ = None THEN None
                   ELSE [@ EXCEPT !.lastUsed = lastUsed, !.expires = expires]]

DeleteSession(T, s) == [T EXCEPT ![s] = None]

DeleteSessionsByUser(T, u) ==
  [s \in DOMAIN T |-> IF T[s] # None /\ T[s].user = u THEN None ELSE T[s]]

DeleteExpiredSessions(T, before) ==
  [s \in DOMAIN T |-> IF T[s] # None /\ T[s].expires < before THEN None ELSE T[s]]

-----------------------------------------------------------------------------
(* listener_tokens *)

InsertToken(T, k, row) == [T EXCEPT ![k] = row]

ListActiveTokens(T) == {k \in Keys(T) : ~T[k].revoked}

TouchTokenLastUsed(T, k, at) == Update(T, k, "lastUsed", at)

RevokeToken(T, k) == Update(T, k, "revoked", TRUE)

RevokeTokensByOwner(T, u) ==
  [k \in DOMAIN T |-> IF T[k] # None /\ T[k].owner = u THEN [T[k] EXCEPT !.revoked = TRUE] ELSE T[k]]

ExpireEphemeralTokensIdle(T, cutoff) ==
  LET idleSince(k) == IF T[k].lastUsed = None THEN T[k].created ELSE T[k].lastUsed IN
  [k \in DOMAIN T |-> IF T[k] # None /\ T[k].ephemeral /\ idleSince(k) < cutoff
                      THEN [T[k] EXCEPT !.revoked = TRUE] ELSE T[k]]

UpdateTokenOwner(T, k, u) == Update(T, k, "owner", u)

-----------------------------------------------------------------------------
(* push_subscriptions *)

InsertPush(T, s, row) == [T EXCEPT ![s] = row]

PausePush(T, s) == Update(T, s, "paused", TRUE)

ResumePush(T, s) == Update(T, s, "paused", FALSE)

UpdatePushOwner(T, s, u) == Update(T, s, "owner", u)

DeletePush(T, s) == [T EXCEPT ![s] = None]

PausePushByOwner(T, u) ==
  [s \in DOMAIN T |-> IF T[s] # None /\ T[s].owner = u THEN [T[s] EXCEPT !.paused = TRUE] ELSE T[s]]

-----------------------------------------------------------------------------
(* invites: user is consumed_by_user_id, None while the invite is open. *)

InsertInvite(T, i, row) == [T EXCEPT ![i] = row]

\* The statement deletes open invites only.
DeleteInvite(T, i) == [T EXCEPT ![i] = IF @ # None /\ @.user = None THEN None ELSE @]

MarkInviteConsumed(T, i, u) ==
  [T EXCEPT ![i] = IF @ # None /\ @.user = None THEN [@ EXCEPT !.user = u] ELSE @]

MarkBootstrapInvitesConsumed(T, u) ==
  [i \in DOMAIN T |-> IF T[i] # None /\ T[i].bootstrap /\ T[i].user = None
                      THEN [T[i] EXCEPT !.user = u] ELSE T[i]]

GetBootstrapInvite(T) == {i \in Keys(T) : T[i].bootstrap}

DeleteBootstrapInvite(T) == [i \in DOMAIN T |-> IF T[i] # None /\ T[i].bootstrap THEN None ELSE T[i]]

-----------------------------------------------------------------------------
(* device_pairings: token is the row's token_id, plaintext whether the     *)
(* plaintext of that token is still in the row.                            *)

InsertDevicePairing(T, p, row) == [T EXCEPT ![p] = row]

UpdateDevicePairingApproved(T, p, u, k) ==
  [T EXCEPT ![p] = IF @ # None /\ @.status = "pending"
                   THEN [@ EXCEPT !.status = "approved_unfetched", !.user = u, !.token = k,
                                  !.plaintext = TRUE]
                   ELSE @]

UpdateDevicePairingDenied(T, p, u) ==
  [T EXCEPT ![p] = IF @ # None /\ @.status = "pending"
                   THEN [@ EXCEPT !.status = "denied", !.user = u] ELSE @]

MarkDevicePairingFetched(T, p) ==
  [T EXCEPT ![p] = IF @ # None /\ @.status = "approved_unfetched"
                   THEN [@ EXCEPT !.status = "done", !.plaintext = FALSE] ELSE @]

ExpirePendingDevicePairings(T, before) ==
  [p \in DOMAIN T |-> IF T[p] # None /\ T[p].status = "pending" /\ T[p].expires < before
                      THEN [T[p] EXCEPT !.status = "expired"] ELSE T[p]]

DeleteOldDevicePairings(T, before) ==
  [p \in DOMAIN T |->
     IF T[p] # None /\ T[p].status \in {"done", "denied", "expired"} /\ T[p].created < before
     THEN None ELSE T[p]]
=============================================================================
