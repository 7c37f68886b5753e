------------------------------- MODULE Enrolment -------------------------------
(***************************************************************************)
(* Accounts with everything that brings users and credentials into being:  *)
(* invites and sign-up, `hooks init`, the pairing of terminals, hooksctl's  *)
(* commands and the limiter before them, on one database and one clock.    *)
(*                                                                         *)
(* The limiter delays requests and changes none, so what the handlers do   *)
(* is checked for every sequence of requests, admitted by it or not.       *)
(***************************************************************************)
EXTENDS Invites, Hooksctl, RateLimit

enrolmentVars == <<vars, inviteVars, pairingVars, finished, limitVars>>

EnrolmentInit ==
  Init /\ InvitesInit /\ PairingInit /\ HooksctlInit /\ LimitInit

\* The process of the server stops and starts; `hooks init` and the terminals are
\* other processes.
ServerRestart ==
  /\ Restart
  /\ InvitesRestart
  /\ PairingRestart
  /\ LimitRestart
  /\ UNCHANGED finished

EnrolmentNext ==
  \/ Serve /\ UNCHANGED <<inviteVars, pairingVars, finished, limitVars>>
  \/ InvitesNext /\ UNCHANGED <<pairingVars, finished, limitVars>>
  \/ PairingNext /\ UNCHANGED <<inviteVars, finished, limitVars>>
  \/ HooksctlNext /\ UNCHANGED <<inviteVars, limitVars>>
  \/ Can("limit") /\ LimitNext /\ UNCHANGED <<vars, inviteVars, pairingVars, finished>>
  \/ ServerRestart

EnrolmentSpec == EnrolmentInit /\ [][EnrolmentNext]_enrolmentVars

-----------------------------------------------------------------------------
EnrolmentTypeOK ==
  AccountsTypeOK /\ InvitesTypeOK /\ PairingTypeOK /\ LimitTypeOK
=============================================================================
