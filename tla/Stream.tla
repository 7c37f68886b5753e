-------------------------------- MODULE Stream --------------------------------
(***************************************************************************)
(* GET /subscribe/<source> (internal/subscribe): one handler goroutine per *)
(* connection, which registers with the notifier, drains the backlog, and  *)
(* then drains again at every signal and every keepalive.  The module has  *)
(* the handler and the connection; Forward has the program at the other    *)
(* end.                                                                    *)
(*                                                                         *)
(* A connection is identified with its notifier channel.  It has two ends: *)
(* the handler's, and the client's, which holds it until it closes it.  In *)
(* between is the wire, what is written and not read yet.  A connection    *)
(* that is not `up` carries nothing any more, which its ends find out      *)
(* later.                                                                  *)
(***************************************************************************)
EXTENDS Ingest

CONSTANTS
  Clients,     \* programs that subscribe
  BatchLimit,  \* Handler.BatchLimit
  MaxFaults,   \* bound on lost connections, failed reads and crashes
  None         \* no client, no source, no connection, no event

ASSUME StreamAssumption ==
  BatchLimit \in Nat \ {0} /\ MaxFaults \in Nat /\ None \notin Channels

VARIABLES
  conn,        \* channel -> its connection, with the handler's local state
  wire,        \* channel -> events on their way to the client
  faultsLeft,  \* remaining budget of faults
  skipped      \* history: client -> events a backlog drain did not write

streamVars == <<conn, wire, faultsLeft, skipped>>

\* accepted .. select is the handler; done has only the client's end left.
HandlerStates == {"accepted", "start", "read", "emit", "select"}

Closed == [pc |-> "free", client |-> None, source |-> None, held |-> FALSE, up |-> FALSE,
           cursor |-> 0, cutoff |-> 0, batch |-> {}]

Connection == [pc : HandlerStates \cup {"done"}, client : Clients, source : Sources,
               held : BOOLEAN, up : BOOLEAN, cursor : Nat, cutoff : Nat,
               batch : SUBSET Event]

-----------------------------------------------------------------------------
(* The handler.                                                            *)

\* Mutant of Accept: takes `since` for the first event to send.
AcceptInclusive(c, client, s, since) ==
  /\ conn[c] = Closed
  /\ conn' = [conn EXCEPT ![c] = [Closed EXCEPT !.pc = "accepted", !.client = client,
                                   !.source = s, !.held = TRUE, !.up = TRUE,
                                   !.cursor = since + 1]]
  /\ UNCHANGED <<ingestVars, wire, faultsLeft, skipped>>

\* ServeHTTP up to the 200: the cursor is parsed before anything is registered.
Accept(c, client, s, since) ==
  /\ conn[c] = Closed
  /\ conn' = [conn EXCEPT ![c] = [Closed EXCEPT !.pc = "accepted", !.client = client,
                                   !.source = s, !.held = TRUE, !.up = TRUE,
                                   !.cursor = since]]
  /\ UNCHANGED <<ingestVars, wire, faultsLeft, skipped>>

\* stream: "Subscribe to live signals BEFORE replaying".
Register(c) ==
  /\ conn[c].pc = "accepted"
  /\ Subscribe(conn[c].source, c)
  /\ conn' = [conn EXCEPT ![c].pc = "start"]
  /\ UNCHANGED <<storeVars, now, req, wire, faultsLeft, skipped>>

\* initialDrain reads the clock once.
StartBackfill(c) ==
  /\ conn[c].pc = "start"
  /\ conn' = [conn EXCEPT ![c].pc = "read", ![c].cutoff = now - Skew]
  /\ UNCHANGED <<ingestVars, wire, faultsLeft, skipped>>

\* Mutant of ReturnFrom: without the deferred Unsubscribe.
ReturnRegistered(c) ==
  /\ conn' = [conn EXCEPT ![c] =
                IF conn[c].held
                THEN [Closed EXCEPT !.pc = "done", !.client = conn[c].client,
                        !.source = conn[c].source, !.held = TRUE, !.up = conn[c].up]
                ELSE Closed]
  /\ UNCHANGED notifierVars

\* The handler returns: the deferred Unsubscribe, and the end of the response.
ReturnFrom(c) ==
  /\ conn' = [conn EXCEPT ![c] =
                IF conn[c].held
                THEN [Closed EXCEPT !.pc = "done", !.client = conn[c].client,
                        !.source = conn[c].source, !.held = TRUE, !.up = conn[c].up]
                ELSE Closed]
  /\ Unsubscribe(conn[c].source, c)

\* readBatchAndEmit: one ReadSince.  A drain ends at the first empty batch.
ReadRows(c) ==
  LET rows == ReadSince(conn[c].source, conn[c].cursor, BatchLimit) IN
  /\ conn[c].pc = "read"
  /\ conn' = IF rows = {}
             THEN [conn EXCEPT ![c].pc = "select", ![c].cutoff = 0]
             ELSE [conn EXCEPT ![c].pc = "emit", ![c].batch = rows]
  /\ UNCHANGED <<ingestVars, wire, faultsLeft, skipped>>

\* A failed read ends the stream like any other return.
ReadFails(c) ==
  /\ conn[c].pc = "read"
  /\ faultsLeft > 0
  /\ faultsLeft' = faultsLeft - 1
  /\ ReturnFrom(c)
  /\ UNCHANGED <<storeVars, now, req, wire, skipped>>

\* The filter of initialDrain; live drains have no cutoff.
Stale(c, e) == e.providerTimestamp > 0 /\ e.providerTimestamp < conn[c].cutoff

\* The cursor advances over every event of the batch, written or not.
Advance(c, e) ==
  [conn EXCEPT ![c].cursor = e.sequence,
               ![c].batch = @ \ {e},
               ![c].pc = IF conn[c].batch = {e} THEN "read" ELSE "emit"]

SkipStale(c) ==
  LET e == Oldest(conn[c].batch) IN
  /\ conn[c].pc = "emit"
  /\ Stale(c, e)
  /\ conn' = Advance(c, e)
  /\ skipped' = [skipped EXCEPT ![conn[c].client] = @ \cup {e}]
  /\ UNCHANGED <<ingestVars, wire, faultsLeft>>

\* Bytes written to a connection that is gone are lost without an error, until
\* the handler is told.
WriteEvent(c) ==
  LET e == Oldest(conn[c].batch) IN
  /\ conn[c].pc = "emit"
  /\ ~Stale(c, e)
  /\ conn' = Advance(c, e)
  /\ wire' = IF conn[c].up THEN [wire EXCEPT ![c] = Append(@, e)] ELSE wire
  /\ UNCHANGED <<ingestVars, faultsLeft, skipped>>

\* The context is done or a write fails.
NoticeGone(c) ==
  /\ conn[c].pc \in {"read", "emit", "select"}
  /\ ~conn[c].up
  /\ ReturnFrom(c)
  /\ UNCHANGED <<storeVars, now, req, wire, faultsLeft, skipped>>

\* The select: a signal, or the keepalive's "belt-and-suspenders".
WakeHandler(c) ==
  /\ conn[c].pc = "select"
  /\ TakeSignal(c) \/ UNCHANGED notifierVars
  /\ conn' = [conn EXCEPT ![c].pc = "read"]
  /\ UNCHANGED <<storeVars, now, req, wire, faultsLeft, skipped>>

HandlerStep(c) ==
  \/ Register(c) \/ StartBackfill(c) \/ ReadRows(c) \/ SkipStale(c) \/ WriteEvent(c)
  \/ WakeHandler(c)

-----------------------------------------------------------------------------
(* The connection.                                                         *)

\* The client closes its end, and what it has not read is lost.
Hangup(c) ==
  /\ conn' = [conn EXCEPT ![c] = IF @.pc = "done" THEN Closed
                                 ELSE [@ EXCEPT !.held = FALSE, !.up = FALSE]]
  /\ wire' = [wire EXCEPT ![c] = <<>>]

\* The network loses the connection.
Sever(c) ==
  /\ conn[c].up
  /\ faultsLeft > 0
  /\ faultsLeft' = faultsLeft - 1
  /\ conn' = [conn EXCEPT ![c].up = FALSE]
  /\ UNCHANGED <<ingestVars, wire, skipped>>

\* The server dies and starts again: every connection is cut.
RestartServer ==
  /\ faultsLeft > 0
  /\ faultsLeft' = faultsLeft - 1
  /\ Restart
  /\ conn' = [c \in Channels |->
                IF conn[c].held
                THEN [Closed EXCEPT !.pc = "done", !.client = conn[c].client,
                        !.source = conn[c].source, !.held = TRUE]
                ELSE Closed]
  /\ UNCHANGED <<wire, skipped>>

StreamInit ==
  /\ conn = [c \in Channels |-> Closed]
  /\ wire = [c \in Channels |-> <<>>]
  /\ faultsLeft = MaxFaults
  /\ skipped = [k \in Clients |-> {}]

StreamTypeOK ==
  /\ conn \in [Channels -> Connection \cup {Closed}]
  /\ wire \in [Channels -> Seq(Event)]
  /\ faultsLeft \in 0..MaxFaults
  /\ skipped \in [Clients -> SUBSET Event]
=============================================================================
