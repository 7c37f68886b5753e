------------------------------- MODULE Forward --------------------------------
(***************************************************************************)
(* `hooksctl forward` (cmd/hooksctl/forward.go) at the client's end of a   *)
(* stream: it resumes from the cursor in its file, POSTs each event to the *)
(* local target until the target answers 2xx, saves the cursor and reads   *)
(* on.  The module closes the system: provider, server, network, client    *)
(* process, cursor file and target.                                        *)
(*                                                                         *)
(* The default mode is modelled: with --exit-on-error a failed attempt     *)
(* ends the process, which StopForward covers.                             *)
(***************************************************************************)
EXTENDS Stream

CONSTANTS
  SourceOf,    \* client -> the source it forwards
  Oversized    \* delivery ids of events whose `data:` line exceeds 1 MiB

ASSUME ForwardAssumption ==
  /\ SourceOf \in [Clients -> Sources]
  /\ Oversized \subseteq DeliveryIds

VARIABLES
  fwd,         \* client -> its process
  file,        \* client -> the cursor file, 0 when missing or empty
  handled      \* history: client -> events its target has answered with 2xx

forwardVars == <<fwd, file, handled>>
vars == <<ingestVars, streamVars, forwardVars>>

ForwardStates == {"down", "connect", "reconnect", "stream", "post", "answered", "writing"}
Down == [pc |-> "down", cursor |-> 0, conn |-> None, event |-> None]
Process == [pc : ForwardStates \ {"down"}, cursor : Nat, conn : Channels \cup {None},
            event : Event \cup {None}]

-----------------------------------------------------------------------------
(* The process.                                                            *)

\* cmdForward: loadCursor, then the reconnect loop.
StartForward(k) ==
  /\ fwd[k] = Down
  /\ fwd' = [fwd EXCEPT ![k] = [Down EXCEPT !.pc = "connect", !.cursor = file[k]]]
  /\ UNCHANGED <<ingestVars, streamVars, file, handled>>

\* GET /subscribe/<source>?since=<cursor>.
Connect(k) ==
  /\ fwd[k].pc = "connect"
  /\ \E c \in Channels :
       /\ Accept(c, k, SourceOf[k], fwd[k].cursor)
       /\ fwd' = [fwd EXCEPT ![k].pc = "stream", ![k].conn = c]
  /\ UNCHANGED <<file, handled>>

\* Refused, not answered, or answered with something else than 200.
ConnectFails(k) ==
  /\ fwd[k].pc = "connect"
  /\ fwd' = [fwd EXCEPT ![k].pc = "reconnect"]
  /\ UNCHANGED <<ingestVars, streamVars, file, handled>>

\* The random delay of backoff().
Reconnect(k) ==
  /\ fwd[k].pc = "reconnect"
  /\ fwd' = [fwd EXCEPT ![k].pc = "connect"]
  /\ UNCHANGED <<ingestVars, streamVars, file, handled>>

\* The scanner has a whole message: handle it.
ReadMessage(k) ==
  LET c == fwd[k].conn IN
  /\ fwd[k].pc = "stream"
  /\ wire[c] # <<>>
  /\ Head(wire[c]).deliveryId \notin Oversized
  /\ wire' = [wire EXCEPT ![c] = Tail(@)]
  /\ fwd' = [fwd EXCEPT ![k].pc = "post", ![k].event = Head(wire[c])]
  /\ UNCHANGED <<ingestVars, conn, faultsLeft, skipped, file, handled>>

\* Mutant of StreamFails: a connection that is cut is never found out.
StreamFailsOnLine(k) ==
  LET c == fwd[k].conn IN
  /\ fwd[k].pc = "stream"
  /\ wire[c] # <<>>
  /\ Head(wire[c]).deliveryId \in Oversized
  /\ Hangup(c)
  /\ fwd' = [fwd EXCEPT ![k].pc = "reconnect", ![k].conn = None]
  /\ UNCHANGED <<ingestVars, faultsLeft, skipped, file, handled>>

\* bufio.ErrTooLong on a line that the 1 MiB buffer cannot hold, or a read
\* error on a connection that is cut: streamFromCursorWith returns an error.
StreamFails(k) ==
  LET c == fwd[k].conn IN
  /\ fwd[k].pc = "stream"
  /\ \/ wire[c] # <<>> /\ Head(wire[c]).deliveryId \in Oversized
     \/ ~conn[c].up
  /\ Hangup(c)
  /\ fwd' = [fwd EXCEPT ![k].pc = "reconnect", ![k].conn = None]
  /\ UNCHANGED <<ingestVars, faultsLeft, skipped, file, handled>>

\* End of the response: scanner.Err() is nil, and the command returns 0.
EndOfStream(k) ==
  LET c == fwd[k].conn IN
  /\ fwd[k].pc = "stream"
  /\ wire[c] = <<>>
  /\ conn[c].pc = "done"
  /\ conn[c].up
  /\ Hangup(c)
  /\ fwd' = [fwd EXCEPT ![k] = Down]
  /\ UNCHANGED <<ingestVars, faultsLeft, skipped, file, handled>>

\* forwardOne: the target processes the POST and answers 2xx.  Attempts that
\* fail before that leave everything as it is and are repeated.
TargetAccepts(k) ==
  /\ fwd[k].pc = "post"
  /\ handled' = [handled EXCEPT ![k] = @ \cup {fwd[k].event}]
  /\ fwd' = [fwd EXCEPT ![k].pc = "answered"]
  /\ UNCHANGED <<ingestVars, streamVars, file>>

\* The answer is lost or late: the event is posted again.
AnswerLost(k) ==
  /\ fwd[k].pc = "answered"
  /\ fwd' = [fwd EXCEPT ![k].pc = "post"]
  /\ UNCHANGED <<ingestVars, streamVars, file, handled>>

\* Mutant of SaveCursor: the cursor moves although the answer was not 2xx.
SaveUnanswered(k) ==
  /\ fwd[k].pc \in {"post", "answered"}
  /\ fwd' = [fwd EXCEPT ![k].pc = "writing", ![k].cursor = fwd[k].event.sequence]
  /\ file' = [file EXCEPT ![k] = 0]
  /\ UNCHANGED <<ingestVars, streamVars, handled>>

\* *cursor = seq; os.WriteFile truncates the file ...
SaveCursor(k) ==
  /\ fwd[k].pc = "answered"
  /\ fwd' = [fwd EXCEPT ![k].pc = "writing", ![k].cursor = fwd[k].event.sequence]
  /\ file' = [file EXCEPT ![k] = 0]
  /\ UNCHANGED <<ingestVars, streamVars, handled>>

\* ... and writes it, or fails, which is only logged.
FinishSave(k) ==
  /\ fwd[k].pc = "writing"
  /\ file' \in {file, [file EXCEPT ![k] = fwd[k].cursor]}
  /\ fwd' = [fwd EXCEPT ![k].pc = "stream", ![k].event = None]
  /\ UNCHANGED <<ingestVars, streamVars, handled>>

\* Interrupted, killed, or stopped by --exit-on-error, at any point.
StopForward(k) ==
  /\ fwd[k] # Down
  /\ faultsLeft > 0
  /\ faultsLeft' = faultsLeft - 1
  /\ fwd' = [fwd EXCEPT ![k] = Down]
  /\ IF fwd[k].conn = None THEN UNCHANGED <<conn, wire>> ELSE Hangup(fwd[k].conn)
  /\ UNCHANGED <<ingestVars, skipped, file, handled>>

ForwardStep(k) ==
  \/ Connect(k) \/ ConnectFails(k) \/ Reconnect(k) \/ ReadMessage(k) \/ StreamFails(k)
  \/ EndOfStream(k) \/ SaveCursor(k) \/ AnswerLost(k) \/ FinishSave(k)

-----------------------------------------------------------------------------
ForwardInit ==
  /\ IngestInit
  /\ StreamInit
  /\ fwd = [k \in Clients |-> Down]
  /\ file = [k \in Clients |-> 0]
  /\ handled = [k \in Clients |-> {}]

ForwardNext ==
  \/ IngestNext /\ UNCHANGED <<streamVars, forwardVars>>
  \/ \E c \in Channels :
       (HandlerStep(c) \/ NoticeGone(c) \/ ReadFails(c) \/ Sever(c)) /\ UNCHANGED forwardVars
  \/ RestartServer /\ UNCHANGED forwardVars
  \/ \E k \in Clients :
       StartForward(k) \/ ForwardStep(k) \/ TargetAccepts(k) \/ StopForward(k)

ForwardSpec == ForwardInit /\ [][ForwardNext]_vars

\* Goroutines and the process run, and the select does not prefer the timer to
\* a context that is done.  A server tried again and again some day accepts the
\* connection, the target some day answers and the answer some day arrives.
\* Nothing is assumed of providers, operators and faults, but that faults are
\* finitely many.
ForwardFairness ==
  /\ \A c \in Channels : /\ WF_vars(HandlerStep(c) /\ UNCHANGED forwardVars)
                         /\ WF_vars(NoticeGone(c) /\ UNCHANGED forwardVars)
  /\ \A k \in Clients : /\ WF_vars(ForwardStep(k))
                        /\ SF_vars(Connect(k))
                        /\ SF_vars(TargetAccepts(k))
                        /\ SF_vars(SaveCursor(k))

FairForwardSpec == ForwardSpec /\ ForwardFairness

-----------------------------------------------------------------------------
(* Properties.                                                             *)

ForwardTypeOK ==
  /\ IngestTypeOK
  /\ StreamTypeOK
  /\ fwd \in [Clients -> Process \cup {Down}]
  /\ file \in [Clients -> Nat]
  /\ handled \in [Clients -> SUBSET Event]

Settled(k, e) == e \in handled[k] \/ e \in skipped[k]

\* End to end, at least once: a stored event that the cursor file has passed
\* was processed by the target, or left out of a backlog as stale, whatever was
\* cut, crashed or restarted in between (forward.go:403-404, handler.go:247).
FileCoversHandled ==
  \A k \in Clients : ~newestPruned[SourceOf[k]] =>
    \A e \in Rows(SourceOf[k]) : e.sequence <= file[k] => Settled(k, e)

\* The target processes no event for the first time while an earlier stored
\* one is open: "both clients see the same sequence numbers in the same
\* ascending order", across reconnects and restarts of either side.
ForwardedInOrder ==
  [][\A k \in Clients : \A e \in handled'[k] \ handled[k] :
       ~newestPruned[e.source] =>
         \A f \in Rows(e.source) : f.sequence < e.sequence => Settled(k, f)]_vars

\* Every forwarder is a consumer of the abstract feed, from the first event and
\* with the cursor in its file ...
FeedOf == INSTANCE Feed WITH
  Consumers <- Clients,
  log <- [k \in Clients |-> {e.sequence : e \in Rows(SourceOf[k])}],
  handled <- [k \in Clients |-> {e.sequence : e \in handled[k]}],
  skipped <- [k \in Clients |-> {e.sequence : e \in skipped[k]}],
  cursor <- file,
  start <- [k \in Clients |-> 0],
  reused <- [k \in Clients |-> newestPruned[SourceOf[k]]]

\* ... and is fed as Feed says, through cut connections, crashes and restarts.
ForwardImplementsFeed == FeedOf!FeedSpec

\* A handler that waits has written everything, unless the signal is there or
\* the goroutine that sends it is still to run: subscribing before the backlog
\* is read leaves no gap (handler.go:151-153).
SelectMissesNothing ==
  \A c \in Channels :
    LET s == conn[c].source IN
    (/\ conn[c].pc = "select"
     /\ ~signal[c]
     /\ \A r \in Requests : req[r].pc = "publishing" => req[r].source # s)
    => NewerThan(s, conn[c].cursor) = {}

\* "Disconnected client frees resources": a connection that is gone does not
\* stay registered.
GoneIsReleased ==
  \A c \in Channels : ~conn[c].up ~> \A s \in Sources : c \in registered[s] => conn[c].up

\* A forwarder that keeps running forwards everything that is stored, except
\* what a backlog drain left out: whatever was cut before, and although
\* signals are dropped.
ForwardCatchesUp ==
  \A k \in Clients :
    <>[](fwd[k] # Down) => <>[](\A e \in Rows(SourceOf[k]) : Settled(k, e))
=============================================================================
