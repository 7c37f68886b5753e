----------------------------- MODULE DevicePairing -----------------------------
(***************************************************************************)
(* Logging a terminal in (internal/devicepair and hooksctl's login, logout *)
(* and profile): the terminal starts a pairing and polls, a user approves  *)
(* it in the browser, the next poll carries a token and a goroutine then   *)
(* erases the plaintext.  The terminal keeps the token in a file.          *)
(*                                                                         *)
(* An answer may be lost on its way; the server learns of it only when its *)
(* own write fails.  The terminal's other requests (to revoke a token, or  *)
(* to mint one for a forward) reach the handlers of Accounts or do not, and *)
(* are one step.                                                           *)
(***************************************************************************)
EXTENDS Accounts

CONSTANTS Pairings,    \* device codes; NewDeviceCode does not repeat itself
          Terminals,   \* hooksctl processes
          PairingTTL, PairingKeep, \* how long a pairing is good, and kept
          InitialProfile           \* credentials files at the start

VARIABLES
  pairings,      \* the table
  approval,      \* request -> where ApproveCore is
  login,         \* terminal -> where its command is
  profile,       \* terminal -> token in its credentials file
  marking,       \* pairings whose MarkFetched goroutine is still to run
  opened,        \* history: device codes in use so far
  mintedFor,     \* history: token -> pairing it was minted for
  sent           \* history: pairings whose answer with the token was written

pairingVars == <<pairings, approval, login, profile, marking, opened, mintedFor, sent>>
accountVars == vars

Statuses == {"pending", "approved_unfetched", "done", "denied", "expired"}
PairingRow == [status : Statuses, scopes : SUBSET Scopes, created : Nat, expires : Nat,
               user : Users \cup {None}, token : Tokens \cup {None}, plaintext : BOOLEAN]

ASSUME PairingAssumption ==
  /\ PairingTTL \in Nat /\ PairingKeep \in Nat
  /\ InitialProfile \in [Terminals -> Tokens \cup {None}]
  /\ None \notin PairingRow

Off == [pc |-> "off"]

\* A command begins.
Run(l) == login[l] = Off /\ opsLeft > 0 /\ opsLeft' = opsLeft - 1

-----------------------------------------------------------------------------
(* The terminal logs in.                                                   *)

\* Start inserts a pending row; its answer may be lost, and the command ends.
Start(l) ==
  /\ Can("pairing")
  /\ Run(l)
  /\ \E p \in Pairings \ opened : \E scopes \in {{}, {"admin"}} :
       /\ pairings' = InsertDevicePairing(pairings, p,
            [status |-> "pending", scopes |-> scopes, created |-> clock,
             expires |-> clock + PairingTTL, user |-> None, token |-> None, plaintext |-> FALSE])
       /\ opened' = opened \cup {p}
       /\ \E next \in {Off, [pc |-> "poll", pairing |-> p, deadline |-> clock + PairingTTL, token |-> None]} :
            login' = [login EXCEPT ![l] = next]
  /\ UNCHANGED <<storeVars, touched, call, clock, enabled, histVars, approval, profile, marking,
                 mintedFor, sent>>

PollAnswer(p) ==
  LET row == pairings[p] IN
  IF row = None THEN "not found"
  ELSE IF row.status = "pending" THEN IF clock > row.expires THEN "gone" ELSE "pending"
  ELSE IF row.status = "approved_unfetched" THEN "token"
  ELSE IF row.status = "denied" THEN "denied" ELSE "gone"

\* The answer carries the token.
Answered(l, p) ==
  [login[l] EXCEPT !.pc = PollAnswer(p), !.token = IF PollAnswer(p) = "token" THEN pairings[p].token ELSE None]

\* Mutant of Poll: the row is marked whether or not the answer is written.
PollMarksFirst(l) ==
  LET p == login[l].pairing IN
  /\ login[l].pc = "poll"
  /\ clock <= login[l].deadline
  /\ login' = [login EXCEPT ![l] = Answered(l, p)]
  /\ marking' = IF PollAnswer(p) = "token" THEN marking \cup {p} ELSE marking
  /\ UNCHANGED <<accountVars, pairings, approval, profile, opened, mintedFor, sent>>

\* Poll looks at the status, whatever the age of an approved row.
Poll(l) ==
  LET p == login[l].pairing IN
  /\ login[l].pc = "poll"
  /\ clock <= login[l].deadline
  /\ login' = [login EXCEPT ![l] = Answered(l, p)]
  /\ UNCHANGED <<accountVars, pairings, approval, profile, marking, opened, mintedFor, sent>>

Outcomes == {"pending", "token", "denied", "gone", "not found"}

\* The answer is written, and then the goroutine started ...
WriteToken(l) ==
  LET p == login[l].pairing IN
  /\ login[l].pc = "token"
  /\ marking' = marking \cup {p}
  /\ sent' = sent \cup {p}
  /\ login' = [login EXCEPT ![l] = [@ EXCEPT !.pc = "written"]]
  /\ UNCHANGED <<accountVars, pairings, approval, profile, opened, mintedFor>>

\* ... which purges the plaintext.
MarkFetched(p) ==
  /\ p \in marking
  /\ marking' = marking \ {p}
  /\ pairings' = MarkDevicePairingFetched(pairings, p)
  /\ UNCHANGED <<accountVars, approval, login, profile, opened, mintedFor, sent>>

\* cmdLogin's loop: an answer that does not arrive is polled for again, "not
\* yet" too, the token is saved (or cannot be), anything else ends the command.
Receive(l) ==
  LET again == [login[l] EXCEPT !.pc = "poll", !.token = None] IN
  /\ login[l].pc \in (Outcomes \ {"token"}) \cup {"written"}
  /\ \/ /\ login' = [login EXCEPT ![l] = again]
        /\ UNCHANGED profile
     \/ /\ login[l].pc = "written"
        /\ login' = [login EXCEPT ![l] = Off]
        /\ \E saved \in BOOLEAN :
             profile' = IF saved THEN [profile EXCEPT ![l] = login[l].token]
                        ELSE profile
     \/ /\ login[l].pc \notin {"pending", "written"}
        /\ login' = [login EXCEPT ![l] = Off]
        /\ UNCHANGED profile
  /\ UNCHANGED <<accountVars, pairings, approval, marking, opened, mintedFor, sent>>

\* The write fails, and nothing else happens on the server.
WriteFails(l) ==
  /\ login[l].pc = "token"
  /\ login' = [login EXCEPT ![l] = [@ EXCEPT !.pc = "poll", !.token = None]]
  /\ UNCHANGED <<accountVars, pairings, approval, profile, marking, opened, mintedFor, sent>>

\* The deadline has passed, or the user presses Ctrl-C.
GiveUp(l) ==
  /\ login[l].pc = "poll"
  /\ login' = [login EXCEPT ![l] = Off]
  /\ UNCHANGED <<accountVars, pairings, approval, profile, marking, opened, mintedFor, sent>>

-----------------------------------------------------------------------------
(* The user decides in the browser.                                        *)

\* ApproveCore with the right password: the pairing is read and found pending,
\* and the scopes compared with the snapshot of the caller ...
ApproveCore(c) ==
  /\ Can("pairing") /\ May(c, "me") /\ FromSession(c)
  /\ approval[c] = Idle
  /\ \E p \in Keys(pairings) :
       /\ pairings[p].status = "pending" /\ clock <= pairings[p].expires
       /\ \E scopes \in SUBSET (pairings[p].scopes \cap HeldScopes(c)) :
            /\ scopes = {} => pairings[p].scopes \subseteq HeldScopes(c)
            /\ approval' = [approval EXCEPT ![c] =
                 [pc |-> "approve", pairing |-> p, user |-> call[c].as.user,
                  scopes |-> IF scopes = {} THEN pairings[p].scopes ELSE scopes]]
  /\ Done(c)
  /\ UNCHANGED <<storeVars, touched, clock, enabled, histVars, pairings, login, profile, marking,
                 opened, mintedFor, sent>>

\* Mutant of ApproveDevicePairing: commits without looking at the row count.
ApproveDevicePairingUnchecked(c) ==
  LET p == approval[c].pairing u == approval[c].user IN
  \E k \in Tokens :
    /\ tokens[k] = None
    /\ tokens' = InsertToken(tokens, k, Issued(u, "pat", FALSE, approval[c].scopes))
    /\ pairings' = UpdateDevicePairingApproved(pairings, p, u, k)
    /\ mintedFor' = [mintedFor EXCEPT ![k] = p]
    /\ Handed(k, u)

\* ... then in one transaction the token is inserted and the row updated, if it
\* is still pending.
ApproveDevicePairing(c) ==
  LET p == approval[c].pairing u == approval[c].user IN
  IF pairings[p] # None /\ pairings[p].status = "pending"
  THEN \E k \in Tokens :
         /\ tokens[k] = None
         /\ tokens' = InsertToken(tokens, k, Issued(u, "pat", FALSE, approval[c].scopes))
         /\ pairings' = UpdateDevicePairingApproved(pairings, p, u, k)
         /\ mintedFor' = [mintedFor EXCEPT ![k] = p]
         /\ Handed(k, u)
  ELSE UNCHANGED <<tokens, pairings, mintedFor, late>>

Approve(c) ==
  /\ approval[c].pc = "approve"
  /\ ApproveDevicePairing(c)
  /\ approval' = [approval EXCEPT ![c] = Idle]
  /\ UNCHANGED <<users, sessions, subs, touched, call, clock, enabled, opsLeft, evicted, verified,
                 overtaken, lastUse, login, profile, marking, opened, sent>>

\* DenyCore.
Deny(c) ==
  /\ Can("pairing") /\ May(c, "me") /\ FromSession(c)
  /\ \E p \in Keys(pairings) : pairings' = UpdateDevicePairingDenied(pairings, p, call[c].as.user)
  /\ Done(c)
  /\ UNCHANGED <<storeVars, touched, clock, enabled, histVars, approval, login, profile, marking,
                 opened, mintedFor, sent>>

\* Both steps of the sweeper.
SweepPairings ==
  /\ pairings' = DeleteOldDevicePairings(ExpirePendingDevicePairings(pairings, clock),
                                         clock - PairingKeep)
  /\ UNCHANGED <<accountVars, approval, login, profile, marking, opened, mintedFor, sent>>

-----------------------------------------------------------------------------
(* What the terminal does with its token.                                  *)

\* A request with the token reaches its handler: the token is good, and its
\* owner active.
Accepted(k) ==
  k \in ListActiveTokens(tokens) /\ tokens[k].owner # None /\ IsActive(tokens[k].owner)

\* revokeBearer: the token is revoked, or the request does not get through.
RevokeBearer(l) ==
  /\ Can("logout")
  /\ profile[l] # None
  /\ Run(l)
  /\ tokens' \in {tokens, IF Accepted(profile[l]) THEN RevokeToken(tokens, profile[l]) ELSE tokens}
  /\ login' = [login EXCEPT ![l] = [pc |-> "logout"]]
  /\ UNCHANGED <<users, sessions, subs, touched, call, clock, enabled, histVars, pairings, approval,
                 profile, marking, opened, mintedFor, sent>>

\* deleteProfile follows either way.
DeleteProfile(l) ==
  /\ login[l].pc = "logout"
  /\ profile' = [profile EXCEPT ![l] = None]
  /\ login' = [login EXCEPT ![l] = Off]
  /\ UNCHANGED <<accountVars, pairings, approval, marking, opened, mintedFor, sent>>

\* mintEphemeralListener: the forward runs with a listener of its own, or, when
\* the answer is lost, ends without knowing it.
MintEphemeralListener(l) ==
  /\ Can("forward")
  /\ profile[l] # None /\ Accepted(profile[l])
  /\ Run(l)
  /\ \E k \in Tokens :
       /\ tokens[k] = None
       /\ tokens' = InsertToken(tokens, k,
                      Issued(tokens[profile[l]].owner, "listener", TRUE, Scopes \ {"admin"}))
       /\ Handed(k, tokens[profile[l]].owner)
       /\ \E next \in {Off, [pc |-> "forward", token |-> k]} : login' = [login EXCEPT ![l] = next]
  /\ UNCHANGED <<users, sessions, subs, touched, call, clock, enabled, evicted, verified, overtaken,
                 lastUse, pairings, approval, profile, marking, opened, mintedFor, sent>>

\* revokeEphemeralListener when the forward ends, if the request gets through.
RevokeEphemeralListener(l) ==
  /\ login[l].pc = "forward"
  /\ tokens' \in {tokens, IF profile[l] # None /\ Accepted(profile[l])
                          THEN RevokeToken(tokens, login[l].token) ELSE tokens}
  /\ login' = [login EXCEPT ![l] = Off]
  /\ UNCHANGED <<users, sessions, subs, touched, call, clock, enabled, opsLeft, histVars, pairings,
                 approval, profile, marking, opened, mintedFor, sent>>

-----------------------------------------------------------------------------
PairingInit ==
  /\ pairings = [p \in Pairings |-> None]
  /\ approval = [c \in Callers |-> Idle]
  /\ login = [l \in Terminals |-> Off]
  /\ profile = [l \in Terminals |-> IF Can("init") THEN None ELSE InitialProfile[l]]
  /\ marking = {} /\ opened = {} /\ sent = {}
  /\ mintedFor = [k \in Tokens |-> None]

PairingNext ==
  \/ \E l \in Terminals :
       \/ Start(l) \/ Poll(l) \/ WriteToken(l) \/ WriteFails(l) \/ Receive(l) \/ GiveUp(l)
       \/ RevokeBearer(l) \/ DeleteProfile(l)
       \/ MintEphemeralListener(l) \/ RevokeEphemeralListener(l)
  \/ \E c \in Callers : ApproveCore(c) \/ Approve(c) \/ Deny(c)
  \/ \E p \in Pairings : MarkFetched(p)
  \/ SweepPairings

\* The server stops: terminals see their request fail, and the goroutines that
\* were to purge a plaintext are lost.
PairingRestart ==
  /\ approval' = [c \in Callers |-> Idle]
  /\ login' = [l \in Terminals |-> IF login[l].pc \in Outcomes \cup {"written"}
                                   THEN [login[l] EXCEPT !.pc = "poll", !.token = None]
                                   ELSE login[l]]
  /\ marking' = {}
  /\ UNCHANGED <<pairings, profile, opened, mintedFor, sent>>

-----------------------------------------------------------------------------
(* Properties.                                                             *)

PairingTypeOK ==
  /\ pairings \in [Pairings -> PairingRow \cup {None}]
  /\ approval \in [Callers -> {Idle} \cup [pc : {"approve"}, pairing : Pairings, user : Users,
                                           scopes : SUBSET Scopes]]
  /\ login \in [Terminals ->
       {Off, [pc |-> "logout"]} \cup [pc : {"forward"}, token : Tokens]
       \cup [pc : Outcomes \cup {"poll", "written"}, pairing : Pairings, deadline : Nat,
             token : Tokens \cup {None}]]
  /\ profile \in [Terminals -> Tokens \cup {None}]
  /\ marking \subseteq Pairings /\ opened \subseteq Pairings /\ sent \subseteq Pairings
  /\ mintedFor \in [Tokens -> Pairings \cup {None}]

\* A pairing is decided once: a token exists for it only if the row says so, so
\* that an approval never overtakes a refusal, the sweep or another approval.
OneTokenPerPairing ==
  \A k \in Tokens : mintedFor[k] # None /\ pairings[mintedFor[k]] # None =>
    /\ pairings[mintedFor[k]].token = k
    /\ pairings[mintedFor[k]].status \in {"approved_unfetched", "done"}

\* "If the response write fails, the row SHALL remain approved_unfetched so a CLI
\* retry succeeds": the plaintext is purged only after an answer was written.
PurgedWasSent ==
  \A p \in Keys(pairings) :
    pairings[p].token # None /\ ~pairings[p].plaintext => p \in sent
=============================================================================
