----------------------------- MODULE ForwardProofs -----------------------------
(***************************************************************************)
(* A forwarder and the handler that feeds it (internal/subscribe,          *)
(* cmd/hooksctl/forward.go).  What is not settled at the client is on its  *)
(* way: in the POST, on the wire or in the handler's batch, in this order. *)
(* The invariant follows an event through the three, and says of every     *)
(* cursor what it has settled or has on its way.                           *)
(***************************************************************************)
EXTENDS Forward, IngestProofs

Attached == {"stream", "post", "answered", "writing"}

\* Types, with what the program counters say of the fields.
TypeInv ==
  /\ IInv
  /\ ForwardTypeOK
  /\ \A c \in Channels : conn[c].pc = "emit" => conn[c].batch # {}
  /\ \A k \in Clients : fwd[k].conn # None <=> fwd[k].pc \in Attached
  /\ \A k \in Clients : fwd[k].pc \in {"post", "answered", "writing"} => fwd[k].event \in Event

\* Each end of a connection knows the other.  What is cut carries nothing more.
Linked(c) ==
  /\ conn[c].held => fwd[conn[c].client].conn = c
  /\ conn[c].up => conn[c].held
  /\ conn[c].pc = "done" => conn[c].held
  /\ ~conn[c].held => wire[c] = <<>>
  /\ conn[c] # Closed => conn[c].source = SourceOf[conn[c].client]

Holds(k) == fwd[k].conn # None => conn[fwd[k].conn].held /\ conn[fwd[k].conn].client = k

LinkInv == (\A c \in Channels : Linked(c)) /\ (\A k \in Clients : Holds(k))

Elements(q) == {q[i] : i \in DOMAIN q}

Ascending(q) == \A i, j \in DOMAIN q : i < j => q[i].sequence < q[j].sequence

Posting(k) == IF fwd[k].pc \in {"post", "answered"} THEN {fwd[k].event} ELSE {}
Wired(k) == IF fwd[k].conn = None THEN {} ELSE Elements(wire[fwd[k].conn])
InFlight(k) == Posting(k) \cup Wired(k)
Done(k) == handled[k] \cup skipped[k]
Sent(k) == Done(k) \cup InFlight(k)

\* The queue between handler and target is in order ...
InOrder(k) ==
  /\ fwd[k].conn # None => Ascending(wire[fwd[k].conn])
  /\ \A e \in Posting(k), f \in Wired(k) : e.sequence < f.sequence
  /\ \A e \in InFlight(k) : e.source = SourceOf[k]
  /\ fwd[k].pc = "answered" => fwd[k].event \in handled[k]

\* ... and the handler reads above it.
Feeds(c) == conn[c].up /\ conn[c].pc \in HandlerStates

Ahead(c) ==
  /\ \A e \in conn[c].batch : e.source = conn[c].source /\ conn[c].cursor < e.sequence
  /\ Numbered(conn[c].batch)
  /\ Feeds(c) => \A e \in InFlight(conn[c].client) : e.sequence <= conn[c].cursor

QueueInv == (\A k \in Clients : InOrder(k)) /\ (\A c \in Channels : Ahead(c))

\* Cursors pass what is settled; the handler's passes what is on its way, too.
Passed(k, n) ==
  ~newestPruned[SourceOf[k]] => Position(Rows(SourceOf[k]), Done(k), 0, n)

Written(k, n) ==
  ~newestPruned[SourceOf[k]] => Position(Rows(SourceOf[k]), Sent(k), 0, n)

\* e is next, but for what is on its way and what is in the batch.
Queued(k, batch, e) ==
  ~newestPruned[SourceOf[k]] => Upcoming(Rows(SourceOf[k]), Sent(k) \cup batch, 0, e)

Covered(k) ==
  /\ Passed(k, file[k]) /\ Passed(k, fwd[k].cursor)
  /\ \A e \in InFlight(k) : Queued(k, {}, e)

Fed(c) ==
  Feeds(c) =>
    /\ Written(conn[c].client, conn[c].cursor)
    /\ \A e \in conn[c].batch : Queued(conn[c].client, conn[c].batch, e)

CoverInv == (\A k \in Clients : Covered(k)) /\ (\A c \in Channels : Fed(c))

-----------------------------------------------------------------------------
(* Sequences of events, as sets.                                           *)

LEMMA ElementsAppend ==
  ASSUME NEW q \in Seq(Event), NEW e \in Event, Ascending(q),
         \A f \in Elements(q) : f.sequence < e.sequence
  PROVE  /\ Append(q, e) \in Seq(Event)
         /\ Elements(Append(q, e)) = Elements(q) \cup {e}
         /\ Ascending(Append(q, e))
<1>1. /\ Len(q) \in Nat /\ DOMAIN q = 1..Len(q) /\ Append(q, e) \in Seq(Event)
      /\ Len(Append(q, e)) = Len(q) + 1 /\ DOMAIN Append(q, e) = 1..(Len(q) + 1)
      /\ \A i \in 1..Len(q) : Append(q, e)[i] = q[i]
      /\ Append(q, e)[Len(q) + 1] = e
  OBVIOUS
<1>2. Elements(Append(q, e)) = Elements(q) \cup {e}
  BY <1>1 DEF Elements
<1>3. Ascending(Append(q, e))
  BY <1>1 DEF Ascending, Elements
<1> QED BY <1>1, <1>2, <1>3

LEMMA ElementsTail ==
  ASSUME NEW q \in Seq(Event), q # <<>>, Ascending(q)
  PROVE  /\ Head(q) \in Event /\ Tail(q) \in Seq(Event)
         /\ Elements(q) = {Head(q)} \cup Elements(Tail(q))
         /\ Ascending(Tail(q))
         /\ \A f \in Elements(Tail(q)) : Head(q).sequence < f.sequence
<1>1. /\ Len(q) \in Nat \ {0} /\ DOMAIN q = 1..Len(q) /\ Tail(q) \in Seq(Event)
      /\ Len(Tail(q)) = Len(q) - 1 /\ DOMAIN Tail(q) = 1..(Len(q) - 1)
      /\ \A i \in 1..(Len(q) - 1) : Tail(q)[i] = q[i + 1]
      /\ Head(q) = q[1] /\ q[1] \in Event
  OBVIOUS
<1>2. Elements(q) = {Head(q)} \cup Elements(Tail(q))
  <2>1. ASSUME NEW i \in DOMAIN q PROVE q[i] \in {Head(q)} \cup Elements(Tail(q))
    <3>1. CASE i = 1
      BY <1>1, <3>1
    <3>2. CASE i # 1
      <4>1. i - 1 \in DOMAIN Tail(q) /\ Tail(q)[i - 1] = q[i]
        BY <1>1, <2>1, <3>2
      <4> QED BY <4>1 DEF Elements
    <3> QED BY <3>1, <3>2
  <2>2. ASSUME NEW i \in DOMAIN Tail(q) PROVE Tail(q)[i] \in Elements(q)
    <3>1. i + 1 \in DOMAIN q /\ Tail(q)[i] = q[i + 1]
      BY <1>1, <2>2
    <3> QED BY <3>1 DEF Elements
  <2>3. Head(q) \in Elements(q)
    BY <1>1 DEF Elements
  <2> QED BY <2>1, <2>2, <2>3 DEF Elements
<1>3. Ascending(Tail(q)) /\ \A f \in Elements(Tail(q)) : Head(q).sequence < f.sequence
  BY <1>1 DEF Ascending, Elements
<1> QED BY <1>1, <1>2, <1>3

LEMMA ElementsEmpty == Elements(<<>>) = {} /\ Ascending(<<>>) /\ <<>> \in Seq(Event)
BY DEF Elements, Ascending

-----------------------------------------------------------------------------
(* Typing.                                                                 *)

\* A step of the store and the notifier alone keeps what is proved of Ingest.
LEMMA IngestTyped ==
  ASSUME IInv, \/ IngestNext \/ Restart
               \/ UNCHANGED storeVars /\ UNCHANGED <<now, req>> /\ NotifierTypeOK'
  PROVE  IInv'
<1>1. CASE IngestNext \/ Restart
  BY <1>1, NextKeepsIInv DEF Next
<1>2. CASE UNCHANGED storeVars /\ UNCHANGED <<now, req>> /\ NotifierTypeOK'
  <2>1. /\ now' \in Nat /\ now' > Skew /\ LogInv' /\ UniqueWithinWindow' /\ KeptForRetention'
    BY <1>2, QuietKeepsLog
  <2>2. IngestTypeOK'
    BY <1>2 DEF IInv, IngestTypeOK, StoreTypeOK, storeVars
  <2> QED BY <2>1, <2>2 DEF IInv
<1> QED BY <1>1, <1>2

HandlerMoves(c) == HandlerStep(c) \/ NoticeGone(c) \/ ReadFails(c) \/ Sever(c)

\* What the handler at c does to the connections: it stays, or has returned.
Stays(x, y) ==
  /\ y \in Connection /\ y.client = x.client /\ y.source = x.source /\ y.held = x.held
  /\ y.up => x.up
  /\ y.pc = "done" => x.pc = "done" \/ x.held

LEMMA BatchRead ==
  ASSUME IInv, NEW s \in Sources, NEW n \in Nat, NEW e \in ReadSince(s, n, BatchLimit)
  PROVE  e \in Rows(s) /\ e \in Event /\ e.source = s /\ n < e.sequence
BY DEF IInv, IngestTypeOK, StoreTypeOK, ReadSince, NewerThan, Rows, Event

LEMMA OldestInBatch ==
  ASSUME TypeInv, NEW c \in Channels, conn[c].pc = "emit"
  PROVE  /\ conn[c] \in Connection
         /\ Oldest(conn[c].batch) \in conn[c].batch
         /\ Oldest(conn[c].batch) \in Event
         /\ Oldest(conn[c].batch).sequence \in Nat
         /\ \A e \in conn[c].batch : Oldest(conn[c].batch).sequence <= e.sequence
<1>1. conn[c] \in Connection /\ conn[c].batch # {} /\ conn[c].batch \subseteq Event
  BY DEF TypeInv, ForwardTypeOK, StreamTypeOK, Closed, Connection
<1>2. PICK batch : batch = conn[c].batch
  OBVIOUS
<1>3. batch # {} /\ \A e \in batch : e \in Event /\ e.sequence \in Nat
  BY <1>1, <1>2 DEF Event
<1> QED BY <1>1, <1>2, <1>3, OldestOfBatch

LEMMA ReturnBecomes ==
  ASSUME TypeInv, NEW c \in Channels, conn[c] # Closed, ReturnFrom(c)
  PROVE  /\ conn' = [conn EXCEPT ![c] = conn'[c]]
         /\ NotifierTypeOK'
         /\ \/ /\ Stays(conn[c], conn'[c]) /\ conn'[c].pc = "done" /\ conn'[c].batch = {}
            \/ conn'[c] = Closed /\ ~conn[c].held
<1>1. conn \in [Channels -> Connection \cup {Closed}] /\ conn[c] \in Connection
  BY DEF TypeInv, ForwardTypeOK, StreamTypeOK
<1>2. NotifierTypeOK'
  BY <1>1 DEF ReturnFrom, Unsubscribe, TypeInv, IInv, IngestTypeOK, NotifierTypeOK, Connection
<1>3. CASE conn[c].held
  <2> DEFINE x == [Closed EXCEPT !.pc = "done", !.client = conn[c].client,
                     !.source = conn[c].source, !.held = TRUE, !.up = conn[c].up]
  <2>1. /\ x.pc = "done" /\ x.client = conn[c].client /\ x.source = conn[c].source
        /\ x.held = TRUE /\ x.up = conn[c].up /\ x.batch = {}
    BY DEF Closed
  <2>2. x \in Connection
    BY <1>1 DEF Closed, Connection
  <2>3. Stays(conn[c], x) /\ x.pc = "done" /\ x.batch = {}
    BY <1>3, <2>1, <2>2 DEF Stays
  <2> HIDE DEF x
  <2>4. conn' = [conn EXCEPT ![c] = x]
    BY <1>3 DEF ReturnFrom, x
  <2> QED BY <1>1, <1>2, <2>3, <2>4
<1>4. CASE ~conn[c].held
  BY <1>1, <1>2, <1>4 DEF ReturnFrom
<1> QED BY <1>3, <1>4

\* The three ways in which a handler goes on.
Carries(x, y) == Stays(x, y) /\ y.up = x.up /\ x.pc \in HandlerStates /\ y.pc \in HandlerStates

Waits(c) ==
  /\ Stays(conn[c], conn'[c]) /\ UNCHANGED <<wire, skipped>>
  /\ conn'[c].cursor = conn[c].cursor /\ conn'[c].batch = conn[c].batch
  /\ conn'[c].pc = "done" <=> conn[c].pc = "done"
  /\ conn'[c].pc = "emit" => conn[c].pc = "emit"

Reads(c) ==
  /\ Carries(conn[c], conn'[c]) /\ UNCHANGED <<wire, skipped>>
  /\ conn'[c].cursor = conn[c].cursor /\ conn'[c].batch # {}
  /\ conn'[c].batch = ReadSince(conn[c].source, conn[c].cursor, BatchLimit)

Emits(c) ==
  LET e == Oldest(conn[c].batch) IN
  /\ Carries(conn[c], conn'[c]) /\ conn[c].pc = "emit"
  /\ conn'[c].cursor = e.sequence /\ conn'[c].batch = conn[c].batch \ {e}
  /\ conn'[c].pc = "emit" => conn'[c].batch # {}
  /\ \/ skipped' = [skipped EXCEPT ![conn[c].client] = @ \cup {e}] /\ wire' = wire
     \/ /\ skipped' = skipped
        /\ wire' = IF conn[c].up THEN [wire EXCEPT ![c] = Append(@, e)] ELSE wire

Returns(c) ==
  /\ UNCHANGED <<wire, skipped>>
  /\ \/ /\ Stays(conn[c], conn'[c]) /\ conn'[c].pc = "done" /\ conn'[c].batch = {}
     \/ conn'[c] = Closed /\ ~conn[c].held

LEMMA EmitBecomes ==
  ASSUME TypeInv, NEW c \in Channels, SkipStale(c) \/ WriteEvent(c)
  PROVE  conn' = [conn EXCEPT ![c] = conn'[c]] /\ Emits(c)
<1>1. /\ conn \in [Channels -> Connection \cup {Closed}] /\ conn[c] \in Connection
      /\ conn[c].pc = "emit"
  BY OldestInBatch DEF TypeInv, ForwardTypeOK, StreamTypeOK, SkipStale, WriteEvent
<1> DEFINE e == Oldest(conn[c].batch)
           x == [conn[c] EXCEPT !.cursor = e.sequence, !.batch = @ \ {e},
                                !.pc = IF conn[c].batch = {e} THEN "read" ELSE "emit"]
<1>2. /\ e \in conn[c].batch /\ e.sequence \in Nat
  BY <1>1, OldestInBatch
<1> HIDE DEF e
<1>3. /\ x \in Connection /\ x.client = conn[c].client /\ x.source = conn[c].source
      /\ x.held = conn[c].held /\ x.up = conn[c].up /\ x.cursor = e.sequence
      /\ x.batch = conn[c].batch \ {e} /\ x.pc = IF conn[c].batch = {e} THEN "read" ELSE "emit"
  BY <1>1, <1>2 DEF Connection, HandlerStates
<1>4. conn' = [conn EXCEPT ![c] = x]
  BY <1>1 DEF SkipStale, WriteEvent, Advance, e
<1> HIDE DEF x
<1>5. conn'[c] = x
  BY <1>1, <1>4
<1>6. Carries(conn[c], conn'[c])
  BY <1>1, <1>3, <1>5 DEF Carries, Stays, HandlerStates
<1>7. conn'[c].pc = "emit" => conn'[c].batch # {}
  BY <1>2, <1>3, <1>5
<1>8. \/ skipped' = [skipped EXCEPT ![conn[c].client] = @ \cup {e}] /\ wire' = wire
      \/ /\ skipped' = skipped
         /\ wire' = IF conn[c].up THEN [wire EXCEPT ![c] = Append(@, e)] ELSE wire
  BY DEF SkipStale, WriteEvent, e
<1> QED BY <1>1, <1>3, <1>4, <1>5, <1>6, <1>7, <1>8 DEF Emits, e

LEMMA ReadBecomes ==
  ASSUME TypeInv, NEW c \in Channels, ReadRows(c)
  PROVE  /\ conn' = [conn EXCEPT ![c] = conn'[c]]
         /\ (Waits(c) /\ conn'[c].pc # "emit") \/ Reads(c)
<1>1. /\ conn \in [Channels -> Connection \cup {Closed}] /\ conn[c] \in Connection
      /\ conn[c].pc = "read" /\ UNCHANGED <<wire, skipped>>
  BY DEF TypeInv, ForwardTypeOK, StreamTypeOK, ReadRows, Closed
<1> DEFINE rows == ReadSince(conn[c].source, conn[c].cursor, BatchLimit)
<1>2. rows \subseteq Event
  BY <1>1, BatchRead DEF TypeInv, Connection
<1>3. /\ rows = {} => conn' = [conn EXCEPT ![c].pc = "select", ![c].cutoff = 0]
      /\ rows # {} => conn' = [conn EXCEPT ![c].pc = "emit", ![c].batch = rows]
  BY DEF ReadRows
<1> HIDE DEF rows
<1>4. CASE rows = {}
  <2> DEFINE x == [conn[c] EXCEPT !.pc = "select", !.cutoff = 0]
  <2>1. /\ x \in Connection /\ x.pc = "select" /\ x.cursor = conn[c].cursor
        /\ x.batch = conn[c].batch /\ x.up = conn[c].up /\ x.client = conn[c].client
        /\ x.source = conn[c].source /\ x.held = conn[c].held
    BY <1>1 DEF Connection, HandlerStates
  <2>2. conn' = [conn EXCEPT ![c] = x]
    BY <1>1, <1>3, <1>4
  <2> HIDE DEF x
  <2>3. Waits(c) /\ conn'[c].pc # "emit"
    BY <1>1, <2>1, <2>2 DEF Stays, Waits
  <2> QED BY <1>1, <2>2, <2>3
<1>5. CASE rows # {}
  <2>1. conn'[c] = [conn[c] EXCEPT !.pc = "emit", !.batch = rows]
    BY <1>1, <1>3, <1>5
  <2>2. Carries(conn[c], conn'[c]) /\ conn'[c].cursor = conn[c].cursor /\ conn'[c].batch = rows
    BY <1>1, <1>2, <2>1 DEF Connection, HandlerStates, Stays, Carries
  <2> QED BY <1>1, <1>3, <1>5, <2>1, <2>2 DEF Reads, rows
<1> QED BY <1>4, <1>5

LEMMA HandlerBecomes ==
  ASSUME TypeInv, NEW c \in Channels, HandlerMoves(c)
  PROVE  /\ conn[c] \in Connection /\ conn' = [conn EXCEPT ![c] = conn'[c]]
         /\ Waits(c) \/ Reads(c) \/ Emits(c) \/ Returns(c)
<1>1. /\ conn \in [Channels -> Connection \cup {Closed}] /\ conn[c] \in Connection
  BY DEF TypeInv, ForwardTypeOK, StreamTypeOK, HandlerMoves, HandlerStep, NoticeGone, ReadFails, Sever,
         Register, StartBackfill, ReadRows, SkipStale, WriteEvent, WakeHandler, Closed
<1>2. CASE Register(c) \/ StartBackfill(c) \/ WakeHandler(c) \/ Sever(c)
  <2>1. now - Skew \in Nat
    BY IngestAssumption DEF TypeInv, IInv, IngestTypeOK
  <2>2. /\ conn' = [conn EXCEPT ![c] = conn'[c]]
        /\ \/ conn[c].pc = "accepted" /\ conn'[c] = [conn[c] EXCEPT !.pc = "start"]
           \/ conn[c].pc = "start" /\ conn'[c] = [conn[c] EXCEPT !.pc = "read", !.cutoff = now - Skew]
           \/ conn[c].pc = "select" /\ conn'[c] = [conn[c] EXCEPT !.pc = "read"]
           \/ conn'[c] = [conn[c] EXCEPT !.up = FALSE]
        /\ UNCHANGED <<wire, skipped>>
    BY <1>1, <1>2 DEF Register, StartBackfill, WakeHandler, Sever
  <2>3. Waits(c)
    BY <1>1, <2>1, <2>2 DEF Connection, HandlerStates, Stays, Waits
  <2> QED BY <1>1, <2>2, <2>3
<1>3. CASE NoticeGone(c) \/ ReadFails(c)
  <2>1. conn[c] # Closed /\ ReturnFrom(c) /\ UNCHANGED <<wire, skipped>>
    BY <1>3 DEF NoticeGone, ReadFails, Closed
  <2> QED BY <1>1, <2>1, ReturnBecomes DEF Returns
<1> QED BY <1>1, <1>2, <1>3, EmitBecomes, ReadBecomes DEF HandlerMoves, HandlerStep

LEMMA HandlerFrame ==
  ASSUME TypeInv, NEW c \in Channels, HandlerMoves(c)
  PROVE  /\ UNCHANGED <<storeVars, now, req>> /\ NotifierTypeOK'
         /\ faultsLeft' \in 0..MaxFaults
<1>1. /\ conn[c] \in Connection /\ NotifierTypeOK /\ faultsLeft \in 0..MaxFaults
      /\ conn[c] # Closed
  BY HandlerBecomes
  DEF TypeInv, ForwardTypeOK, StreamTypeOK, IInv, IngestTypeOK, Connection, Closed, HandlerStates
<1>2. UNCHANGED <<storeVars, now, req>>
  BY DEF HandlerMoves, HandlerStep, NoticeGone, ReadFails, Sever, Register, StartBackfill, ReadRows,
         SkipStale, WriteEvent, WakeHandler, ingestVars, storeVars
<1>3. faultsLeft' \in 0..MaxFaults
  BY <1>1, StreamAssumption
  DEF HandlerMoves, HandlerStep, NoticeGone, ReadFails, Sever, Register, StartBackfill, ReadRows,
      SkipStale, WriteEvent, WakeHandler
<1>4. NotifierTypeOK'
  <2>1. CASE Register(c)
    BY <1>1, <2>1 DEF Register, Subscribe, NotifierTypeOK, Connection
  <2>2. CASE NoticeGone(c) \/ ReadFails(c)
    BY <1>1, <2>2, ReturnBecomes DEF NoticeGone, ReadFails
  <2>3. CASE WakeHandler(c)
    BY <1>1, <2>3 DEF WakeHandler, TakeSignal, NotifierTypeOK, notifierVars
  <2>4. CASE StartBackfill(c) \/ ReadRows(c) \/ SkipStale(c) \/ WriteEvent(c) \/ Sever(c)
    BY <1>1, <2>4 DEF StartBackfill, ReadRows, SkipStale, WriteEvent, Sever, ingestVars, NotifierTypeOK
  <2> QED BY <2>1, <2>2, <2>3, <2>4 DEF HandlerMoves, HandlerStep
<1> QED BY <1>2, <1>3, <1>4

LEMMA HandlerTyped ==
  ASSUME TypeInv, NEW c \in Channels, HandlerMoves(c), UNCHANGED forwardVars
  PROVE  TypeInv'
<1>1. /\ conn \in [Channels -> Connection \cup {Closed}] /\ conn[c] \in Connection
      /\ wire \in [Channels -> Seq(Event)] /\ skipped \in [Clients -> SUBSET Event]
      /\ conn' = [conn EXCEPT ![c] = conn'[c]]
      /\ Waits(c) \/ Reads(c) \/ Emits(c) \/ Returns(c)
  BY HandlerBecomes DEF TypeInv, ForwardTypeOK, StreamTypeOK
<1>2. IInv' /\ faultsLeft' \in 0..MaxFaults
  BY HandlerFrame, IngestTyped DEF TypeInv
<1>3. conn'[c] \in Connection \cup {Closed} /\ (conn'[c].pc = "emit" => conn'[c].batch # {})
  <2>1. CASE Waits(c)
    BY <2>1 DEF Waits, Stays, TypeInv
  <2>2. CASE Reads(c) \/ Emits(c)
    BY <2>2 DEF Reads, Emits, Carries, Stays
  <2>3. CASE Returns(c)
    BY <2>3 DEF Returns, Stays, Closed
  <2> QED BY <1>1, <2>1, <2>2, <2>3
<1>4. wire' \in [Channels -> Seq(Event)] /\ skipped' \in [Clients -> SUBSET Event]
  <2>1. CASE Emits(c)
    <3>1. Oldest(conn[c].batch) \in Event /\ conn[c].client \in Clients
      BY <1>1, <2>1, OldestInBatch DEF Emits, Connection
    <3>2. Append(wire[c], Oldest(conn[c].batch)) \in Seq(Event)
      BY <1>1, <3>1
    <3>3. PICK e \in Event : e = Oldest(conn[c].batch)
      BY <3>1
    <3>4. CASE skipped' = [skipped EXCEPT ![conn[c].client] = @ \cup {e}] /\ wire' = wire
      BY <1>1, <3>1, <3>4
    <3>5. CASE skipped' = skipped /\ wire' \in {wire, [wire EXCEPT ![c] = Append(@, e)]}
      BY <1>1, <3>2, <3>3, <3>5
    <3> QED BY <2>1, <3>3, <3>4, <3>5 DEF Emits
  <2>2. CASE ~Emits(c)
    BY <1>1, <2>2 DEF Waits, Reads, Returns
  <2> QED BY <2>1, <2>2
<1>5. ForwardTypeOK'
  BY <1>1, <1>2, <1>3, <1>4 DEF TypeInv, ForwardTypeOK, StreamTypeOK, forwardVars, IInv
<1> QED BY <1>1, <1>2, <1>3, <1>5 DEF TypeInv, forwardVars

LEMMA RestartTyped ==
  ASSUME TypeInv, RestartServer, UNCHANGED forwardVars
  PROVE  TypeInv'
<1>1. /\ conn \in [Channels -> Connection \cup {Closed}] /\ faultsLeft' \in 0..MaxFaults
      /\ UNCHANGED <<wire, skipped>>
  <2>1. /\ faultsLeft \in 0..MaxFaults /\ faultsLeft > 0 /\ faultsLeft' = faultsLeft - 1
        /\ UNCHANGED <<wire, skipped>>
    BY DEF TypeInv, ForwardTypeOK, StreamTypeOK, RestartServer
  <2> QED BY <2>1, StreamAssumption DEF TypeInv, ForwardTypeOK, StreamTypeOK
<1>2. IInv'
  BY IngestTyped DEF TypeInv, RestartServer
<1>3. ASSUME NEW c \in Channels
      PROVE  conn'[c] \in Connection \cup {Closed} /\ conn'[c].pc # "emit"
  <2>1. CASE conn[c].held
    <3> DEFINE x == [Closed EXCEPT !.pc = "done", !.client = conn[c].client,
                       !.source = conn[c].source, !.held = TRUE]
    <3>1. conn[c] \in Connection
      BY <1>1, <2>1 DEF Closed
    <3>2. x \in Connection /\ x.pc = "done"
      BY <3>1 DEF Closed, Connection
    <3> HIDE DEF x
    <3>3. conn'[c] = x
      BY <2>1 DEF RestartServer, x
    <3> QED BY <3>2, <3>3
  <2>2. CASE ~conn[c].held
    BY <2>2 DEF RestartServer, Closed
  <2> QED BY <2>1, <2>2
<1>4. conn' \in [Channels -> Connection \cup {Closed}]
  <2>1. DOMAIN conn' = Channels /\ conn' = [c \in Channels |-> conn'[c]]
    BY DEF RestartServer
  <2> QED BY <1>3, <2>1
<1>5. ForwardTypeOK'
  BY <1>1, <1>2, <1>4 DEF TypeInv, ForwardTypeOK, StreamTypeOK, forwardVars, IInv
<1> QED BY <1>2, <1>3, <1>5 DEF TypeInv, forwardVars

\* The client's end of a connection.
Hangs(c) ==
  /\ conn' = [conn EXCEPT ![c] = conn'[c]] /\ wire' = [wire EXCEPT ![c] = <<>>]
  /\ \/ conn[c].pc = "done" /\ conn'[c] = Closed
     \/ /\ conn[c].pc # "done" /\ conn'[c] \in Connection
        /\ conn'[c].pc = conn[c].pc /\ ~conn'[c].held /\ ~conn'[c].up
        /\ conn'[c].client = conn[c].client /\ conn'[c].source = conn[c].source
        /\ conn'[c].cursor = conn[c].cursor /\ conn'[c].batch = conn[c].batch

LEMMA HangupBecomes ==
  ASSUME TypeInv, NEW c \in Channels, conn[c].held, Hangup(c)
  PROVE  conn[c] \in Connection /\ Hangs(c)
<1>1. conn \in [Channels -> Connection \cup {Closed}] /\ conn[c] \in Connection
  BY DEF TypeInv, ForwardTypeOK, StreamTypeOK, Closed
<1>2. wire' = [wire EXCEPT ![c] = <<>>]
  BY DEF Hangup
<1>3. CASE conn[c].pc = "done"
  <2>1. conn' = [conn EXCEPT ![c] = Closed]
    BY <1>3 DEF Hangup
  <2> QED BY <1>1, <1>2, <1>3, <2>1 DEF Hangs
<1>4. CASE conn[c].pc # "done"
  <2> DEFINE x == [conn[c] EXCEPT !.held = FALSE, !.up = FALSE]
  <2>1. /\ x \in Connection /\ x.pc = conn[c].pc /\ ~x.held /\ ~x.up /\ x.client = conn[c].client
        /\ x.source = conn[c].source /\ x.cursor = conn[c].cursor /\ x.batch = conn[c].batch
    BY <1>1 DEF Connection
  <2>2. conn' = [conn EXCEPT ![c] = x]
    BY <1>4 DEF Hangup
  <2> HIDE DEF x
  <2> QED BY <1>1, <1>2, <1>4, <2>1, <2>2 DEF Hangs
<1> QED BY <1>3, <1>4

\* What the process of k does: it stays without a connection, opens one, drops
\* the one it has, or goes on with it.
Alone(k) ==
  /\ fwd[k].conn = None /\ fwd'[k].conn = None
  /\ fwd'[k].cursor \in {0, fwd[k].cursor, file[k]}
  /\ UNCHANGED <<conn, wire, file, handled>>

Opens(k) ==
  \E c \in Channels :
    /\ fwd[k].conn = None /\ fwd'[k].conn = c /\ fwd'[k].pc = "stream"
    /\ fwd'[k].cursor = fwd[k].cursor
    /\ conn[c] = Closed /\ conn' = [conn EXCEPT ![c] = conn'[c]]
    /\ conn'[c] \in Connection /\ conn'[c].pc = "accepted" /\ conn'[c].held /\ conn'[c].up
    /\ conn'[c].client = k /\ conn'[c].source = SourceOf[k]
    /\ conn'[c].cursor = fwd[k].cursor /\ conn'[c].batch = {}
    /\ UNCHANGED <<wire, file, handled>>

Drops(k) ==
  /\ fwd[k].conn \in Channels /\ conn[fwd[k].conn].held /\ Hangs(fwd[k].conn)
  /\ fwd'[k].conn = None /\ fwd'[k].cursor \in {0, fwd[k].cursor}
  /\ UNCHANGED <<file, handled>>

GoesOn(k) ==
  /\ fwd[k].conn \in Channels /\ fwd'[k].conn = fwd[k].conn /\ conn' = conn
  /\ ReadMessage(k) \/ TargetAccepts(k) \/ AnswerLost(k) \/ SaveCursor(k) \/ FinishSave(k)

ProcessMoves(k) == StartForward(k) \/ ForwardStep(k) \/ TargetAccepts(k) \/ StopForward(k)

\* The process between two steps.
Runs(p) ==
  /\ p \in Process \cup {Down}
  /\ p.conn # None <=> p.pc \in Attached
  /\ p.pc \in {"post", "answered", "writing"} => p.event \in Event

LEMMA AloneBecomes ==
  ASSUME TypeInv, NEW k \in Clients,
         \/ StartForward(k) \/ ConnectFails(k) \/ Reconnect(k)
         \/ StopForward(k) /\ fwd[k].conn = None
  PROVE  fwd' = [fwd EXCEPT ![k] = fwd'[k]] /\ Runs(fwd'[k]) /\ Alone(k)
<1>1. /\ fwd \in [Clients -> Process \cup {Down}] /\ file[k] \in Nat
      /\ fwd[k].conn # None <=> fwd[k].pc \in Attached
  BY DEF TypeInv, ForwardTypeOK
<1>2. CASE StopForward(k) /\ fwd[k].conn = None
  <2>1. fwd' = [fwd EXCEPT ![k] = Down] /\ UNCHANGED <<conn, wire, file, handled>>
    BY <1>2 DEF StopForward
  <2> QED BY <1>1, <1>2, <2>1 DEF Alone, Runs, Down, Attached
<1>3. CASE StartForward(k)
  <2> DEFINE p == [Down EXCEPT !.pc = "connect", !.cursor = file[k]]
  <2>1. p \in Process /\ p.pc = "connect" /\ p.cursor = file[k] /\ p.conn = None
    BY <1>1 DEF Down, Process, ForwardStates
  <2> HIDE DEF p
  <2>2. fwd' = [fwd EXCEPT ![k] = p] /\ UNCHANGED <<conn, wire, file, handled>>
    BY <1>3 DEF StartForward, streamVars, p
  <2>3. fwd[k].conn = None
    BY <1>3 DEF StartForward, Down
  <2> QED BY <1>1, <2>1, <2>2, <2>3 DEF Alone, Runs, Attached
<1>4. CASE ConnectFails(k) \/ Reconnect(k)
  <2>1. fwd[k] \in Process /\ fwd[k].conn = None
    BY <1>1, <1>4 DEF ConnectFails, Reconnect, Down, Attached
  <2>2. /\ \E pc \in {"connect", "reconnect"} : fwd' = [fwd EXCEPT ![k].pc = pc]
        /\ UNCHANGED <<conn, wire, file, handled>>
    BY <1>4 DEF ConnectFails, Reconnect, streamVars
  <2> QED BY <1>1, <2>1, <2>2 DEF Process, ForwardStates, Alone, Runs, Attached
<1> QED BY <1>2, <1>3, <1>4

LEMMA OpensBecomes ==
  ASSUME TypeInv, NEW k \in Clients, Connect(k)
  PROVE  fwd' = [fwd EXCEPT ![k] = fwd'[k]] /\ Runs(fwd'[k]) /\ Opens(k)
<1>0. /\ fwd \in [Clients -> Process \cup {Down}] /\ conn \in [Channels -> Connection \cup {Closed}]
      /\ fwd[k].conn # None <=> fwd[k].pc \in Attached
  BY DEF TypeInv, ForwardTypeOK, StreamTypeOK
<1>1. fwd[k] \in Process /\ fwd[k].conn = None /\ UNCHANGED <<wire, file, handled>>
  <2>1. fwd[k].pc = "connect" /\ UNCHANGED <<wire, file, handled>>
    BY DEF Connect, Accept
  <2> QED BY <1>0, <2>1 DEF Down, Attached
<1>2. PICK c \in Channels : /\ Accept(c, k, SourceOf[k], fwd[k].cursor)
                            /\ fwd' = [fwd EXCEPT ![k].pc = "stream", ![k].conn = c]
  BY DEF Connect
<1> DEFINE x == [Closed EXCEPT !.pc = "accepted", !.client = k, !.source = SourceOf[k],
                               !.held = TRUE, !.up = TRUE, !.cursor = fwd[k].cursor]
           p == [fwd[k] EXCEPT !.pc = "stream", !.conn = c]
<1>3. /\ x \in Connection /\ x.pc = "accepted" /\ x.held /\ x.up /\ x.client = k
      /\ x.source = SourceOf[k] /\ x.cursor = fwd[k].cursor /\ x.batch = {}
  BY <1>1, ForwardAssumption DEF Closed, Connection, HandlerStates, Process
<1>4. p \in Process /\ p.pc = "stream" /\ p.conn = c /\ p.cursor = fwd[k].cursor
  BY <1>1 DEF Process, ForwardStates
<1>5. conn[c] = Closed /\ conn' = [conn EXCEPT ![c] = x] /\ fwd' = [fwd EXCEPT ![k] = p]
  BY <1>0, <1>1, <1>2 DEF Accept
<1> HIDE DEF x, p
<1>6. Runs(fwd'[k]) /\ fwd' = [fwd EXCEPT ![k] = fwd'[k]]
  BY <1>0, <1>1, <1>4, <1>5, StreamAssumption DEF Runs, Attached
<1>7. Opens(k)
  BY <1>0, <1>1, <1>3, <1>4, <1>5 DEF Opens
<1> QED BY <1>6, <1>7

LEMMA DropsBecomes ==
  ASSUME TypeInv, LinkInv, NEW k \in Clients,
         \/ StreamFails(k) \/ EndOfStream(k)
         \/ StopForward(k) /\ fwd[k].conn # None
  PROVE  fwd' = [fwd EXCEPT ![k] = fwd'[k]] /\ Runs(fwd'[k]) /\ Drops(k)
<1>1. /\ fwd \in [Clients -> Process \cup {Down}] /\ fwd[k] \in Process /\ fwd[k].conn \in Channels
      /\ fwd[k].conn # None
  BY DEF TypeInv, ForwardTypeOK, StreamFails, EndOfStream, StopForward, Attached, Process, Down
<1>2. conn[fwd[k].conn].held /\ Hangup(fwd[k].conn) /\ UNCHANGED <<file, handled>>
  BY <1>1 DEF LinkInv, Linked, Holds, StreamFails, EndOfStream, StopForward
<1>3. Hangs(fwd[k].conn)
  BY <1>1, <1>2, HangupBecomes
<1>4. /\ fwd' = [fwd EXCEPT ![k] = fwd'[k]] /\ Runs(fwd'[k])
      /\ fwd'[k].conn = None /\ fwd'[k].cursor \in {0, fwd[k].cursor}
  <2>1. CASE fwd' = [fwd EXCEPT ![k] = Down]
    BY <1>1, <2>1 DEF Runs, Down, Attached
  <2>2. CASE fwd' = [fwd EXCEPT ![k].pc = "reconnect", ![k].conn = None]
    BY <1>1, <2>2 DEF Runs, Process, ForwardStates, Attached
  <2> QED BY <2>1, <2>2 DEF StreamFails, EndOfStream, StopForward
<1> QED BY <1>1, <1>2, <1>3, <1>4 DEF Drops

LEMMA GoesOnBecomes ==
  ASSUME TypeInv, NEW k \in Clients,
         ReadMessage(k) \/ TargetAccepts(k) \/ AnswerLost(k) \/ SaveCursor(k) \/ FinishSave(k)
  PROVE  /\ fwd' = [fwd EXCEPT ![k] = fwd'[k]] /\ Runs(fwd'[k]) /\ GoesOn(k)
         /\ wire' \in [Channels -> Seq(Event)] /\ file' \in [Clients -> Nat]
         /\ handled' \in [Clients -> SUBSET Event]
<1>1. /\ fwd \in [Clients -> Process \cup {Down}] /\ wire \in [Channels -> Seq(Event)]
      /\ file \in [Clients -> Nat] /\ handled \in [Clients -> SUBSET Event]
      /\ fwd[k].conn # None <=> fwd[k].pc \in Attached
      /\ fwd[k].pc \in {"post", "answered", "writing"} => fwd[k].event \in Event
  BY DEF TypeInv, ForwardTypeOK, StreamTypeOK
<1>2. /\ fwd[k].pc \in Attached /\ conn' = conn
  BY DEF ReadMessage, TargetAccepts, AnswerLost, SaveCursor, FinishSave, Attached, streamVars
<1>3. fwd[k] \in Process /\ fwd[k].conn \in Channels /\ fwd[k].conn # None
  BY <1>1, <1>2 DEF Process, Down, Attached
<1>4. CASE ReadMessage(k)
  <2> DEFINE q == wire[fwd[k].conn]
             p == [fwd[k] EXCEPT !.pc = "post", !.event = Head(q)]
  <2>1. q \in Seq(Event) /\ q # <<>>
    BY <1>1, <1>3, <1>4 DEF ReadMessage
  <2>2. Head(q) \in Event /\ Tail(q) \in Seq(Event)
    BY <2>1
  <2>3. p \in Process /\ p.pc = "post" /\ p.event \in Event /\ p.conn = fwd[k].conn
    BY <1>3, <2>2 DEF Process, ForwardStates
  <2>4. /\ fwd' = [fwd EXCEPT ![k] = p] /\ wire' = [wire EXCEPT ![fwd[k].conn] = Tail(q)]
        /\ UNCHANGED <<file, handled>>
    BY <1>1, <1>4 DEF ReadMessage
  <2> HIDE DEF p, q
  <2> QED BY <1>1, <1>2, <1>3, <1>4, <2>2, <2>3, <2>4 DEF Runs, GoesOn, Attached
<1>5. CASE TargetAccepts(k) \/ AnswerLost(k)
  <2>1. /\ \E pc \in {"post", "answered"} : fwd' = [fwd EXCEPT ![k].pc = pc]
        /\ fwd[k].event \in Event
        /\ handled' = [handled EXCEPT ![k] = @ \cup {fwd[k].event}] \/ handled' = handled
        /\ UNCHANGED <<wire, file>>
    BY <1>1, <1>5 DEF TargetAccepts, AnswerLost, streamVars
  <2>2. /\ fwd' = [fwd EXCEPT ![k] = fwd'[k]] /\ Runs(fwd'[k]) /\ fwd'[k].conn = fwd[k].conn
    <3>1. PICK pc \in {"post", "answered"} : fwd' = [fwd EXCEPT ![k].pc = pc]
      BY <2>1
    <3>2. /\ [fwd[k] EXCEPT !.pc = pc] \in Process
          /\ [fwd[k] EXCEPT !.pc = pc].pc = pc /\ [fwd[k] EXCEPT !.pc = pc].conn = fwd[k].conn
          /\ [fwd[k] EXCEPT !.pc = pc].event = fwd[k].event
      BY <1>3 DEF Process, ForwardStates
    <3>3. fwd' = [fwd EXCEPT ![k] = fwd'[k]] /\ fwd'[k] = [fwd[k] EXCEPT !.pc = pc]
      BY <1>1, <3>1
    <3> QED BY <1>3, <2>1, <3>2, <3>3 DEF Runs, Attached
  <2>3. handled' \in [Clients -> SUBSET Event]
    BY <1>1, <2>1
  <2> QED BY <1>1, <1>2, <1>3, <1>5, <2>1, <2>2, <2>3 DEF GoesOn
<1>6. CASE SaveCursor(k)
  <2>1. /\ fwd' = [fwd EXCEPT ![k].pc = "writing", ![k].cursor = fwd[k].event.sequence]
        /\ fwd[k].event \in Event /\ fwd[k].event.sequence \in Nat
        /\ file' = [file EXCEPT ![k] = 0] /\ UNCHANGED <<wire, handled>>
    BY <1>1, <1>6 DEF SaveCursor, streamVars, Event
  <2>2. /\ fwd' = [fwd EXCEPT ![k] = fwd'[k]] /\ Runs(fwd'[k]) /\ fwd'[k].conn = fwd[k].conn
    BY <1>1, <1>3, <2>1 DEF Runs, Process, ForwardStates, Attached
  <2> QED BY <1>1, <1>2, <1>3, <1>6, <2>1, <2>2 DEF GoesOn
<1>7. CASE FinishSave(k)
  <2>1. /\ fwd' = [fwd EXCEPT ![k].pc = "stream", ![k].event = None]
        /\ file' \in {file, [file EXCEPT ![k] = fwd[k].cursor]} /\ UNCHANGED <<wire, handled>>
    BY <1>7 DEF FinishSave, streamVars
  <2>2. /\ fwd' = [fwd EXCEPT ![k] = fwd'[k]] /\ Runs(fwd'[k]) /\ fwd'[k].conn = fwd[k].conn
    BY <1>1, <1>3, <2>1 DEF Runs, Process, ForwardStates, Attached
  <2>3. fwd[k].cursor \in Nat
    BY <1>3 DEF Process
  <2>4. file' \in [Clients -> Nat]
    BY <1>1, <2>1, <2>3
  <2> QED BY <1>1, <1>2, <1>3, <1>7, <2>1, <2>2, <2>4 DEF GoesOn
<1> QED BY <1>4, <1>5, <1>6, <1>7

LEMMA ProcessBecomes ==
  ASSUME TypeInv, LinkInv, NEW k \in Clients, ProcessMoves(k)
  PROVE  /\ fwd' = [fwd EXCEPT ![k] = fwd'[k]] /\ Runs(fwd'[k])
         /\ Alone(k) \/ Opens(k) \/ Drops(k) \/ GoesOn(k)
         /\ UNCHANGED ingestVars /\ skipped' = skipped /\ faultsLeft' \in 0..MaxFaults
<1>1. UNCHANGED ingestVars /\ skipped' = skipped
  BY DEF ProcessMoves, StartForward, ForwardStep, TargetAccepts, StopForward, Connect, Accept,
         ConnectFails, Reconnect, ReadMessage, StreamFails, EndOfStream, SaveCursor, AnswerLost,
         FinishSave, streamVars
<1>2. faultsLeft' \in 0..MaxFaults
  <2>1. faultsLeft \in 0..MaxFaults
    BY DEF TypeInv, ForwardTypeOK, StreamTypeOK
  <2>2. faultsLeft' = faultsLeft \/ (faultsLeft > 0 /\ faultsLeft' = faultsLeft - 1)
    BY DEF ProcessMoves, StartForward, ForwardStep, TargetAccepts, StopForward, Connect, Accept,
           ConnectFails, Reconnect, ReadMessage, StreamFails, EndOfStream, SaveCursor, AnswerLost,
           FinishSave, streamVars
  <2> QED BY <2>1, <2>2, StreamAssumption
<1>3. CASE StartForward(k) \/ ConnectFails(k) \/ Reconnect(k) \/ (StopForward(k) /\ fwd[k].conn = None)
  BY <1>1, <1>2, <1>3, AloneBecomes
<1>4. CASE Connect(k)
  BY <1>1, <1>2, <1>4, OpensBecomes
<1>5. CASE StreamFails(k) \/ EndOfStream(k) \/ (StopForward(k) /\ fwd[k].conn # None)
  BY <1>1, <1>2, <1>5, DropsBecomes
<1>6. CASE ReadMessage(k) \/ TargetAccepts(k) \/ AnswerLost(k) \/ SaveCursor(k) \/ FinishSave(k)
  BY <1>1, <1>2, <1>6, GoesOnBecomes
<1> QED BY <1>3, <1>4, <1>5, <1>6 DEF ProcessMoves, ForwardStep

\* What a step of the process leaves in the variables of the connection.
LEMMA ProcessTypes ==
  ASSUME TypeInv, LinkInv, NEW k \in Clients, ProcessMoves(k)
  PROVE  /\ conn' \in [Channels -> Connection \cup {Closed}] /\ wire' \in [Channels -> Seq(Event)]
         /\ file' \in [Clients -> Nat] /\ handled' \in [Clients -> SUBSET Event]
         /\ \A c \in Channels : conn'[c].pc = "emit" => conn'[c].batch # {}
<1>1. /\ conn \in [Channels -> Connection \cup {Closed}] /\ wire \in [Channels -> Seq(Event)]
      /\ file \in [Clients -> Nat] /\ handled \in [Clients -> SUBSET Event]
      /\ \A c \in Channels : conn[c].pc = "emit" => conn[c].batch # {}
  BY DEF TypeInv, ForwardTypeOK, StreamTypeOK
<1>2. CASE Alone(k)
  BY <1>1, <1>2 DEF Alone
<1>3. CASE Opens(k)
  <2>1. PICK c \in Channels : /\ conn' = [conn EXCEPT ![c] = conn'[c]] /\ conn'[c] \in Connection
                              /\ conn'[c].pc = "accepted" /\ UNCHANGED <<wire, file, handled>>
    BY <1>3 DEF Opens
  <2> QED BY <1>1, <2>1
<1>4. CASE Drops(k)
  <2>1. fwd[k].conn \in Channels /\ Hangs(fwd[k].conn) /\ UNCHANGED <<file, handled>>
    BY <1>4 DEF Drops
  <2>2. PICK c \in Channels : c = fwd[k].conn
    BY <2>1
  <2>3. wire' = [wire EXCEPT ![c] = <<>>] /\ conn' = [conn EXCEPT ![c] = conn'[c]]
    BY <2>1, <2>2 DEF Hangs
  <2>4. conn'[c] \in Connection \cup {Closed} /\ (conn'[c].pc = "emit" => conn'[c].batch # {})
    BY <1>1, <2>1, <2>2 DEF Hangs, Closed
  <2> QED BY <1>1, <2>1, <2>3, <2>4, ElementsEmpty
<1>5. CASE GoesOn(k)
  BY <1>1, <1>5, GoesOnBecomes DEF GoesOn
<1> QED BY <1>2, <1>3, <1>4, <1>5, ProcessBecomes

LEMMA ProcessTyped ==
  ASSUME TypeInv, LinkInv, NEW k \in Clients, ProcessMoves(k)
  PROVE  TypeInv'
<1>1. /\ fwd' = [fwd EXCEPT ![k] = fwd'[k]] /\ Runs(fwd'[k])
      /\ UNCHANGED ingestVars /\ skipped' = skipped /\ faultsLeft' \in 0..MaxFaults
  BY ProcessBecomes
<1>2. IInv'
  <2>1. NotifierTypeOK
    BY DEF TypeInv, IInv, IngestTypeOK
  <2>2. UNCHANGED storeVars /\ UNCHANGED <<now, req>> /\ UNCHANGED notifierVars
    BY <1>1 DEF ingestVars, storeVars, notifierVars
  <2>3. NotifierTypeOK'
    BY <2>1, <2>2 DEF NotifierTypeOK, notifierVars
  <2> QED BY <2>2, <2>3, IngestTyped DEF TypeInv
<1>3. /\ fwd \in [Clients -> Process \cup {Down}] /\ skipped \in [Clients -> SUBSET Event]
      /\ \A l \in Clients : Runs(fwd[l])
  BY DEF TypeInv, ForwardTypeOK, StreamTypeOK, Runs
<1>4. fwd' \in [Clients -> Process \cup {Down}] /\ \A l \in Clients : Runs(fwd'[l])
  BY <1>1, <1>3 DEF Runs
<1>5. ForwardTypeOK'
  BY <1>1, <1>2, <1>3, <1>4, ProcessTypes DEF ForwardTypeOK, StreamTypeOK, IInv
<1> QED BY <1>2, <1>4, <1>5, ProcessTypes DEF TypeInv, Runs

LEMMA IngestForwardTyped ==
  ASSUME TypeInv, IngestNext \/ UNCHANGED ingestVars, UNCHANGED <<streamVars, forwardVars>>
  PROVE  TypeInv'
<1>1. CASE IngestNext
  <2>1. IInv'
    BY <1>1, IngestTyped DEF TypeInv
  <2> QED BY <2>1 DEF TypeInv, IInv, ForwardTypeOK, StreamTypeOK, streamVars, forwardVars
<1>2. CASE UNCHANGED ingestVars
  <2>1. NotifierTypeOK
    BY DEF TypeInv, IInv, IngestTypeOK
  <2>2. UNCHANGED storeVars /\ UNCHANGED <<now, req>> /\ NotifierTypeOK'
    BY <1>2, <2>1 DEF ingestVars, storeVars, NotifierTypeOK
  <2>3. IInv'
    BY <2>2, IngestTyped DEF TypeInv
  <2> QED BY <2>3 DEF TypeInv, IInv, ForwardTypeOK, StreamTypeOK, streamVars, forwardVars
<1> QED BY <1>1, <1>2

LEMMA InitTyped == ForwardInit => TypeInv /\ LinkInv
<1> SUFFICES ASSUME ForwardInit PROVE TypeInv /\ LinkInv
  OBVIOUS
<1>1. /\ IInv /\ IngestTypeOK
  BY InitIInv DEF ForwardInit, IInv
<1>2. /\ conn = [c \in Channels |-> Closed] /\ wire = [c \in Channels |-> <<>>]
      /\ faultsLeft = MaxFaults /\ skipped = [k \in Clients |-> {}]
      /\ fwd = [k \in Clients |-> Down] /\ file = [k \in Clients |-> 0]
      /\ handled = [k \in Clients |-> {}]
  BY DEF ForwardInit, StreamInit
<1>3. ForwardTypeOK
  BY <1>1, <1>2, StreamAssumption, ElementsEmpty DEF ForwardTypeOK, StreamTypeOK
<1>4. \A c \in Channels : conn[c] = Closed /\ wire[c] = <<>>
  BY <1>2
<1>5. \A k \in Clients : fwd[k] = Down
  BY <1>2
<1>6. ~Closed.held /\ ~Closed.up /\ Closed.pc = "free"
  BY DEF Closed
<1>7. Down.conn = None /\ Down.pc = "down"
  BY DEF Down
<1>8. TypeInv
  BY <1>1, <1>3, <1>4, <1>5, <1>6, <1>7 DEF TypeInv, Attached
<1> QED BY <1>4, <1>5, <1>6, <1>7, <1>8 DEF LinkInv, Linked, Holds

-----------------------------------------------------------------------------
(* The two ends of a connection.                                           *)

LEMMA ClosedFields ==
  /\ Closed.pc = "free" /\ ~Closed.held /\ ~Closed.up /\ Closed.cursor = 0 /\ Closed.batch = {}
  /\ Closed \notin Connection
BY DEF Closed, Connection, HandlerStates

\* What a step writes to the wire of a connection.
LEMMA HandlerWire ==
  ASSUME TypeInv, NEW c \in Channels, HandlerMoves(c)
  PROVE  \A d \in Channels : wire'[d] = wire[d] \/ (d = c /\ conn[c].up)
<1>1. wire \in [Channels -> Seq(Event)]
  BY DEF TypeInv, ForwardTypeOK, StreamTypeOK
<1>2. CASE Emits(c)
  BY <1>1, <1>2 DEF Emits
<1>3. CASE Waits(c) \/ Reads(c) \/ Returns(c)
  BY <1>3 DEF Waits, Reads, Returns
<1> QED BY <1>2, <1>3, HandlerBecomes


\* A connection that a step leaves alone at both ends.
LEMMA LinkedKept ==
  ASSUME NEW d \in Channels, Linked(d), conn'[d] = conn[d], wire'[d] = wire[d],
         conn[d].held => fwd'[conn[d].client].conn = fwd[conn[d].client].conn
  PROVE  Linked(d)'
BY DEF Linked

LEMMA HandlerLinks ==
  ASSUME TypeInv, LinkInv, NEW c \in Channels, HandlerMoves(c), UNCHANGED forwardVars
  PROVE  LinkInv'
<1>1. /\ conn \in [Channels -> Connection \cup {Closed}] /\ conn[c] \in Connection
      /\ conn' = [conn EXCEPT ![c] = conn'[c]] /\ fwd' = fwd
      /\ Stays(conn[c], conn'[c]) \/ (conn'[c] = Closed /\ ~conn[c].held)
      /\ \A l \in Clients : fwd[l].conn # None => fwd[l].conn \in Channels
  <2>1. \A l \in Clients : fwd[l].conn # None => fwd[l].conn \in Channels
    BY DEF TypeInv, ForwardTypeOK, Process, Down
  <2> QED BY <2>1, HandlerBecomes
      DEF TypeInv, ForwardTypeOK, StreamTypeOK, Waits, Reads, Emits, Returns, Carries, forwardVars
<1>2. \A d \in Channels \ {c} : conn'[d] = conn[d]
  BY <1>1
<1>3. \A d \in Channels : wire'[d] = wire[d] \/ (d = c /\ conn[c].up)
  BY HandlerWire
<1>4. Linked(c) /\ conn[c] # Closed
  BY <1>1, ClosedFields DEF LinkInv
<1>5. Linked(c)'
  <2>1. CASE Stays(conn[c], conn'[c])
    <3>1. /\ conn'[c].client = conn[c].client /\ conn'[c].source = conn[c].source
          /\ conn'[c].held = conn[c].held /\ (conn'[c].up => conn[c].up)
          /\ conn'[c].pc = "done" => conn[c].pc = "done" \/ conn[c].held
      BY <2>1 DEF Stays
    <3> QED BY <1>1, <1>3, <1>4, <3>1 DEF Linked
  <2>2. CASE conn'[c] = Closed /\ ~conn[c].held
    BY <1>1, <1>3, <1>4, <2>2, ClosedFields DEF Linked
  <2> QED BY <1>1, <2>1, <2>2
<1>6. ASSUME NEW d \in Channels \ {c} PROVE Linked(d)'
  BY <1>1, <1>2, <1>3, <1>6, LinkedKept DEF LinkInv
<1>7. ASSUME NEW l \in Clients PROVE Holds(l)'
  <2>1. Holds(l) /\ (fwd[l].conn # None => fwd[l].conn \in Channels)
    BY <1>1 DEF LinkInv
  <2>2. conn[c].held => conn'[c].held /\ conn'[c].client = conn[c].client
    BY <1>1 DEF Stays
  <2> QED BY <1>1, <1>2, <2>1, <2>2 DEF Holds
<1> QED BY <1>5, <1>6, <1>7 DEF LinkInv

LEMMA RestartLinks ==
  ASSUME TypeInv, LinkInv, RestartServer, UNCHANGED forwardVars
  PROVE  LinkInv'
<1>1. fwd' = fwd /\ wire' = wire
  BY DEF RestartServer, forwardVars
<1>2. ASSUME NEW c \in Channels
      PROVE  /\ conn'[c].held = conn[c].held /\ ~conn'[c].up /\ (conn'[c].pc = "done" => conn[c].held)
             /\ conn[c].held => conn'[c].client = conn[c].client /\ conn'[c].source = conn[c].source
             /\ ~conn[c].held => conn'[c] = Closed
  <2>1. conn[c] \in Connection \cup {Closed}
    BY DEF TypeInv, ForwardTypeOK, StreamTypeOK
  <2>2. CASE conn[c].held
    <3> DEFINE x == [Closed EXCEPT !.pc = "done", !.client = conn[c].client,
                       !.source = conn[c].source, !.held = TRUE]
    <3>1. conn[c] \in Connection /\ conn[c].held = TRUE
      BY <2>1, <2>2, ClosedFields DEF Connection
    <3>2. x.held = TRUE /\ ~x.up /\ x.client = conn[c].client /\ x.source = conn[c].source
      BY DEF Closed
    <3> HIDE DEF x
    <3>3. conn'[c] = x
      BY <2>2 DEF RestartServer, x
    <3> QED BY <2>2, <3>1, <3>2, <3>3
  <2>3. CASE ~conn[c].held
    <3>1. conn'[c] = Closed
      BY <2>3 DEF RestartServer
    <3>2. conn[c].held = FALSE /\ Closed.held = FALSE
      BY <2>1, <2>3 DEF Connection, Closed
    <3> QED BY <2>3, <3>1, <3>2, ClosedFields
  <2> QED BY <2>2, <2>3
<1>3. \A l \in Clients : fwd[l].conn # None => fwd[l].conn \in Channels
  BY DEF TypeInv, ForwardTypeOK, Process, Down
<1>4. ASSUME NEW c \in Channels PROVE Linked(c)'
  <2>1. Linked(c) /\ (conn[c].held => conn[c] # Closed)
    BY ClosedFields DEF LinkInv
  <2> QED BY <1>1, <1>2, <2>1, ClosedFields DEF Linked
<1>5. ASSUME NEW l \in Clients PROVE Holds(l)'
  BY <1>1, <1>2, <1>3 DEF LinkInv, Holds
<1> QED BY <1>4, <1>5 DEF LinkInv

LEMMA ProcessLinks ==
  ASSUME TypeInv, LinkInv, NEW k \in Clients, ProcessMoves(k)
  PROVE  LinkInv'
<1>1. /\ fwd' = [fwd EXCEPT ![k] = fwd'[k]] /\ fwd \in [Clients -> Process \cup {Down}]
      /\ conn \in [Channels -> Connection \cup {Closed}] /\ wire \in [Channels -> Seq(Event)]
  BY ProcessBecomes DEF TypeInv, ForwardTypeOK, StreamTypeOK
<1>2. \A l \in Clients : fwd[l].conn # None => fwd[l].conn \in Channels
  BY DEF TypeInv, ForwardTypeOK, Process, Down
<1>3. \A l \in Clients \ {k} : fwd'[l] = fwd[l]
  BY <1>1
<1>4. \A c \in Channels : Linked(c) /\ (conn[c].held => conn[c].client \in Clients)
  BY <1>1, ClosedFields DEF Connection, LinkInv
<1>5. \A l \in Clients : Holds(l)
  BY DEF LinkInv
<1>6. CASE Alone(k)
  <2>1. fwd[k].conn = None /\ fwd'[k].conn = None /\ conn' = conn /\ wire' = wire
    BY <1>6 DEF Alone
  <2>2. ASSUME NEW d \in Channels PROVE Linked(d)'
    <3>1. conn[d].held => fwd'[conn[d].client].conn = fwd[conn[d].client].conn
      BY <1>3, <1>4, <2>1
    <3> QED BY <1>4, <2>1, <3>1, LinkedKept
  <2>3. ASSUME NEW l \in Clients PROVE Holds(l)'
    BY <1>3, <1>5, <2>1 DEF Holds
  <2> QED BY <2>2, <2>3 DEF LinkInv
<1>7. CASE Opens(k)
  <2>1. PICK c \in Channels :
          /\ fwd[k].conn = None /\ fwd'[k].conn = c
          /\ conn[c] = Closed /\ conn' = [conn EXCEPT ![c] = conn'[c]]
          /\ conn'[c] \in Connection /\ conn'[c].pc = "accepted" /\ conn'[c].held
          /\ conn'[c].client = k /\ conn'[c].source = SourceOf[k] /\ wire' = wire
    BY <1>7 DEF Opens
  <2>2. \A d \in Channels \ {c} : conn'[d] = conn[d]
    BY <1>1, <2>1
  <2>3. Linked(c)'
    BY <1>4, <2>1 DEF Linked
  <2>4. ASSUME NEW d \in Channels \ {c} PROVE Linked(d)'
    <3>1. conn[d].held => conn[d].client # k
      BY <1>4, <2>1, StreamAssumption DEF Linked
    <3> QED BY <1>3, <1>4, <2>1, <2>2, <2>4, <3>1, LinkedKept
  <2>5. ASSUME NEW l \in Clients PROVE Holds(l)'
    <3>1. CASE l = k
      BY <2>1, <3>1 DEF Holds
    <3>2. CASE l # k
      <4>1. fwd'[l] = fwd[l] /\ Holds(l) /\ (fwd[l].conn # None => fwd[l].conn # c)
        BY <1>3, <1>5, <2>1, <3>2, ClosedFields DEF Holds
      <4> QED BY <1>2, <2>2, <4>1 DEF Holds
    <3> QED BY <3>1, <3>2
  <2> QED BY <2>3, <2>4, <2>5 DEF LinkInv
<1>8. CASE Drops(k)
  <2>1. PICK c \in Channels : /\ c = fwd[k].conn /\ fwd'[k].conn = None
                              /\ conn[c].held /\ Hangs(c)
    BY <1>8 DEF Drops
  <2>2. \A d \in Channels \ {c} : conn'[d] = conn[d] /\ wire'[d] = wire[d]
    BY <1>1, <2>1 DEF Hangs
  <2>3. wire'[c] = <<>> /\ ~conn'[c].held /\ ~conn'[c].up /\ conn'[c].pc # "done"
    BY <1>1, <2>1, ClosedFields DEF Hangs
  <2>4. conn'[c] # Closed => conn'[c].source = SourceOf[conn'[c].client]
    BY <1>4, <2>1, ClosedFields DEF Hangs, Linked
  <2>5. conn[c].client = k /\ \A d \in Channels : conn[d].held /\ conn[d].client = k => d = c
    BY <1>4, <1>5, <2>1, StreamAssumption DEF Linked, Holds
  <2>6. Linked(c)'
    BY <2>3, <2>4 DEF Linked
  <2>7. ASSUME NEW d \in Channels \ {c} PROVE Linked(d)'
    BY <1>3, <1>4, <2>2, <2>5, <2>7, LinkedKept
  <2>8. ASSUME NEW l \in Clients PROVE Holds(l)'
    <3>1. CASE l = k
      BY <2>1, <3>1 DEF Holds
    <3>2. CASE l # k
      <4>1. fwd'[l] = fwd[l] /\ Holds(l) /\ (fwd[l].conn # None => fwd[l].conn # c)
        BY <1>3, <1>5, <2>5, <3>2 DEF Holds
      <4> QED BY <1>2, <2>2, <4>1 DEF Holds
    <3> QED BY <3>1, <3>2
  <2> QED BY <2>6, <2>7, <2>8 DEF LinkInv
<1>9. CASE GoesOn(k)
  <2>1. PICK c \in Channels : c = fwd[k].conn /\ fwd'[k].conn = c /\ conn' = conn
    BY <1>9 DEF GoesOn
  <2>2. \A d \in Channels \ {c} : wire'[d] = wire[d]
    BY <1>1, <1>9, <2>1 DEF GoesOn, ReadMessage, TargetAccepts, AnswerLost, SaveCursor, FinishSave, streamVars
  <2>3. conn[c].held
    BY <1>5, <2>1, StreamAssumption DEF Holds
  <2>4. \A l \in Clients : fwd'[l].conn = fwd[l].conn
    BY <1>3, <2>1
  <2>5. ASSUME NEW d \in Channels PROVE Linked(d)'
    BY <1>4, <2>1, <2>2, <2>3, <2>4 DEF Linked
  <2>6. ASSUME NEW l \in Clients PROVE Holds(l)'
    BY <1>5, <2>1, <2>4 DEF Holds
  <2> QED BY <2>5, <2>6 DEF LinkInv
<1> QED BY <1>6, <1>7, <1>8, <1>9, ProcessBecomes

-----------------------------------------------------------------------------
(* What is on its way.                                                     *)

\* A step that touches neither the process of l nor its wire.
LEMMA FlightKept ==
  ASSUME TypeInv, NEW l \in Clients, fwd'[l] = fwd[l],
         fwd[l].conn # None => wire'[fwd[l].conn] = wire[fwd[l].conn]
  PROVE  /\ Posting(l)' = Posting(l) /\ Wired(l)' = Wired(l) /\ InFlight(l)' = InFlight(l)
         /\ InOrder(l) /\ handled[l] \subseteq handled'[l] => InOrder(l)'
<1>1. Posting(l)' = Posting(l)
  BY DEF Posting
<1>2. CASE fwd[l].conn = None
  <2>1. Wired(l)' = Wired(l)
    BY <1>2 DEF Wired
  <2> QED BY <1>1, <1>2, <2>1 DEF InFlight, InOrder
<1>3. CASE fwd[l].conn # None
  <2>1. wire'[fwd'[l].conn] = wire[fwd[l].conn]
    BY <1>3
  <2>2. Wired(l)' = Wired(l)
    BY <1>3, <2>1 DEF Wired, Elements
  <2>3. Ascending(wire[fwd[l].conn]) => Ascending(wire'[fwd'[l].conn])
    BY <2>1
  <2> QED BY <1>1, <1>3, <2>2, <2>3 DEF InFlight, InOrder
<1> QED BY <1>2, <1>3

\* The handler at c adds to nobody's queue but its client's.
LEMMA HandlerFlow ==
  ASSUME TypeInv, LinkInv, NEW c \in Channels, HandlerMoves(c), UNCHANGED forwardVars,
         NEW l \in Clients
  PROVE  \/ /\ InFlight(l)' = InFlight(l) /\ (InOrder(l) => InOrder(l)')
         \/ /\ Emits(c) /\ conn[c].up /\ conn[c].client = l /\ fwd[l].conn = c
            /\ skipped' = skipped
            /\ wire'[c] = Append(wire[c], Oldest(conn[c].batch))
<1>1. fwd' = fwd /\ handled' = handled /\ wire \in [Channels -> Seq(Event)]
  BY DEF forwardVars, TypeInv, ForwardTypeOK, StreamTypeOK
<1>2. fwd[l].conn # None => fwd[l].conn \in Channels
  BY DEF TypeInv, ForwardTypeOK, Process, Down
<1>3. \A d \in Channels : wire'[d] = wire[d] \/ (d = c /\ conn[c].up)
  BY HandlerWire
<1>4. CASE fwd[l].conn # None => wire'[fwd[l].conn] = wire[fwd[l].conn]
  BY <1>1, <1>4, FlightKept
<1>5. CASE fwd[l].conn # None /\ wire'[fwd[l].conn] # wire[fwd[l].conn]
  <2>1. fwd[l].conn = c /\ conn[c].up /\ conn[c].client = l /\ wire'[c] # wire[c]
    BY <1>2, <1>3, <1>5 DEF LinkInv, Holds
  <2>2. Emits(c)
    BY <2>1, HandlerBecomes DEF Waits, Reads, Returns
  <2>3. wire' = [wire EXCEPT ![c] = Append(@, Oldest(conn[c].batch))] /\ skipped' = skipped
    BY <2>1, <2>2 DEF Emits
  <2> QED BY <1>1, <2>1, <2>2, <2>3
<1> QED BY <1>4, <1>5

\* What it adds comes last.
LEMMA EmitFlow ==
  ASSUME TypeInv, LinkInv, QueueInv, NEW c \in Channels, NEW l \in Clients, fwd' = fwd,
         conn[c].pc = "emit", conn[c].up, conn[c].client = l, fwd[l].conn = c, handled' = handled,
         wire'[c] = Append(wire[c], Oldest(conn[c].batch))
  PROVE  /\ InFlight(l)' = InFlight(l) \cup {Oldest(conn[c].batch)}
         /\ InOrder(l)'
         /\ conn[c].cursor < Oldest(conn[c].batch).sequence
<1>1. PICK e \in Event : e = Oldest(conn[c].batch) /\ e \in conn[c].batch
  BY OldestInBatch
<1>2. PICK q \in Seq(Event) : q = wire[c]
  BY DEF TypeInv, ForwardTypeOK, StreamTypeOK
<1>3. c # None
  BY StreamAssumption
<1>4. /\ Ahead(c) /\ Linked(c) /\ InOrder(l) /\ Feeds(c) /\ conn[c].source = SourceOf[l]
      /\ conn[c].cursor \in Nat
  <2>1. conn[c] \in Connection
    BY OldestInBatch
  <2>2. Ahead(c) /\ Linked(c) /\ InOrder(l)
    BY DEF QueueInv, LinkInv
  <2>3. conn[c] # Closed
    BY <2>1, ClosedFields
  <2> QED BY <2>1, <2>2, <2>3 DEF Linked, Feeds, HandlerStates, Connection
<1>5. e.source = SourceOf[l] /\ conn[c].cursor < e.sequence
  BY <1>1, <1>4 DEF Ahead
<1>6. \A f \in InFlight(l) : f \in Event /\ f.sequence < e.sequence
  <2>1. \A f \in InFlight(l) : f.sequence <= conn[c].cursor
    BY <1>4 DEF Ahead
  <2>2. \A f \in InFlight(l) : f \in Event
    <3>1. \A f \in Posting(l) : f \in Event
      BY DEF Posting, TypeInv
    <3>2. \A f \in Elements(q) : f \in Event
      BY DEF Elements
    <3> QED BY <1>2, <1>3, <3>1, <3>2 DEF InFlight, Wired
  <2> QED BY <1>4, <1>5, <2>1, <2>2 DEF Event
<1>7. /\ Wired(l) = Elements(q) /\ Ascending(q) /\ Posting(l)' = Posting(l)
      /\ Wired(l)' = Elements(Append(q, e)) /\ (Ascending(Append(q, e)) => Ascending(wire'[fwd'[l].conn]))
  BY <1>1, <1>2, <1>3, <1>4 DEF Wired, InOrder, Posting
<1>8. /\ Elements(Append(q, e)) = Elements(q) \cup {e} /\ Ascending(Append(q, e))
  BY <1>6, <1>7, ElementsAppend DEF InFlight
<1>9. InFlight(l)' = InFlight(l) \cup {e}
  BY <1>7, <1>8 DEF InFlight
<1>10. \A f \in Posting(l)', g \in Wired(l)' : f.sequence < g.sequence
  BY <1>4, <1>6, <1>7, <1>8 DEF InOrder, InFlight
<1>11. InOrder(l)'
  BY <1>4, <1>5, <1>7, <1>8, <1>9, <1>10 DEF InOrder
<1> QED BY <1>1, <1>5, <1>9, <1>11

LEMMA HandlerQueues ==
  ASSUME TypeInv, LinkInv, QueueInv, NEW c \in Channels, HandlerMoves(c), UNCHANGED forwardVars
  PROVE  QueueInv'
<1>1. /\ conn \in [Channels -> Connection \cup {Closed}] /\ conn[c] \in Connection
      /\ conn' = [conn EXCEPT ![c] = conn'[c]] /\ fwd' = fwd /\ handled' = handled
      /\ Waits(c) \/ Reads(c) \/ Emits(c) \/ Returns(c)
  BY HandlerBecomes DEF TypeInv, ForwardTypeOK, StreamTypeOK, forwardVars
<1>2. \A d \in Channels : Ahead(d)
  BY DEF QueueInv
<1>3. PICK k \in Clients : k = conn[c].client
  BY <1>1 DEF Connection
<1>4. conn[c].client \in Clients /\ conn[c].source \in Sources /\ conn[c].cursor \in Nat
  BY <1>1 DEF Connection
<1>5. ASSUME NEW l \in Clients PROVE InOrder(l)'
  BY <1>1, HandlerFlow, EmitFlow DEF QueueInv, Emits
<1>6. ASSUME NEW d \in Channels \ {c} PROVE Ahead(d)'
  <2>1. conn'[d] = conn[d]
    BY <1>1
  <2>2. CASE Feeds(d)
    <3>1. PICK l \in Clients : l = conn[d].client /\ fwd[l].conn = d
      BY <1>1, <2>2, ClosedFields DEF Feeds, LinkInv, Linked, Connection
    <3>2. InFlight(l)' = InFlight(l)
      BY <3>1, HandlerFlow
    <3> QED BY <1>2, <2>1, <3>1, <3>2 DEF Ahead, Feeds
  <2>3. CASE ~Feeds(d)
    BY <1>2, <2>1, <2>3 DEF Ahead, Feeds
  <2> QED BY <2>2, <2>3
<1>7. Ahead(c)'
  <2>1. CASE Waits(c)
    <3>1. wire' = wire
      BY <2>1 DEF Waits
    <3>2. InFlight(k)' = InFlight(k)
      BY <1>1, <1>3, <3>1, FlightKept
    <3>3. /\ conn'[c].client = conn[c].client /\ conn'[c].source = conn[c].source
          /\ conn'[c].cursor = conn[c].cursor /\ conn'[c].batch = conn[c].batch
      BY <2>1 DEF Waits, Stays
    <3>4. Feeds(c)' => Feeds(c)
      BY <1>1, <2>1 DEF Waits, Stays, Feeds, Connection, HandlerStates
    <3> QED BY <1>2, <1>3, <3>2, <3>3, <3>4 DEF Ahead
  <2>2. CASE Reads(c)
    <3>1. /\ conn'[c].client = conn[c].client /\ conn'[c].source = conn[c].source
          /\ conn'[c].cursor = conn[c].cursor /\ (Feeds(c)' => Feeds(c)) /\ wire' = wire
          /\ conn'[c].batch = ReadSince(conn[c].source, conn[c].cursor, BatchLimit)
      BY <2>2 DEF Reads, Carries, Stays, Feeds
    <3>2. InFlight(k)' = InFlight(k)
      BY <1>1, <1>3, <3>1, FlightKept
    <3>3. Numbered(Rows(conn[c].source))
      BY <1>4, RowsNumbered DEF TypeInv, IInv
    <3>4. /\ \A e \in conn'[c].batch : e.source = conn[c].source /\ conn[c].cursor < e.sequence
          /\ conn'[c].batch \subseteq Rows(conn[c].source)
      BY <1>4, <3>1, BatchRead DEF TypeInv
    <3>5. Numbered(conn'[c].batch)
      BY <3>3, <3>4 DEF Numbered
    <3> QED BY <1>2, <1>3, <3>1, <3>2, <3>4, <3>5 DEF Ahead
  <2>3. CASE Emits(c)
    <3> DEFINE e == Oldest(conn[c].batch)
    <3>1. /\ conn'[c].client = conn[c].client /\ conn'[c].source = conn[c].source
          /\ conn'[c].cursor = e.sequence /\ (Feeds(c)' => Feeds(c))
          /\ conn'[c].batch = conn[c].batch \ {e} /\ conn[c].pc = "emit"
      BY <2>3 DEF Emits, Carries, Stays, Feeds
    <3>2. /\ e \in conn[c].batch /\ e.sequence \in Nat
          /\ \A f \in conn[c].batch : e.sequence <= f.sequence
      BY <3>1, OldestInBatch
    <3>3. InFlight(k)' \subseteq InFlight(k) \cup {e}
      BY <1>1, <1>3, <3>1, HandlerFlow, EmitFlow
    <3> HIDE DEF e
    <3>4. \A f \in conn'[c].batch : f.source = conn[c].source /\ e.sequence < f.sequence
      BY <1>2, <3>1, <3>2 DEF Ahead, Numbered
    <3>5. conn[c].cursor < e.sequence
      BY <1>2, <3>2 DEF Ahead
    <3>6. Numbered(conn'[c].batch)
      BY <1>2, <3>1 DEF Ahead, Numbered
    <3>7. ASSUME Feeds(c) PROVE \A f \in InFlight(k)' : f.sequence <= e.sequence
      <4>1. \A f \in InFlight(k) : f.sequence <= conn[c].cursor
        BY <1>2, <1>3, <3>7 DEF Ahead
      <4>2. \A f \in InFlight(k) : f.sequence \in Nat
        <5>1. \A f \in Posting(k) : f \in Event
          BY <1>3 DEF Posting, TypeInv
        <5>2. fwd[k].conn = c /\ c # None
          BY <1>3, <3>7, StreamAssumption DEF Feeds, LinkInv, Linked
        <5>3. wire[c] \in Seq(Event)
          BY DEF TypeInv, ForwardTypeOK, StreamTypeOK
        <5>4. \A f \in Wired(k) : f \in Event
          BY <5>2, <5>3 DEF Wired, Elements
        <5> QED BY <5>1, <5>4 DEF InFlight, Event
      <4> QED BY <1>4, <3>2, <3>3, <3>5, <4>1, <4>2
    <3> QED BY <1>3, <3>1, <3>4, <3>6, <3>7 DEF Ahead
  <2>4. CASE Returns(c)
    BY <2>4, ClosedFields DEF Returns, Ahead, Feeds, HandlerStates, Numbered
  <2> QED BY <1>1, <2>1, <2>2, <2>3, <2>4
<1> QED BY <1>5, <1>6, <1>7 DEF QueueInv

LEMMA RestartQueues ==
  ASSUME TypeInv, LinkInv, QueueInv, RestartServer, UNCHANGED forwardVars
  PROVE  QueueInv'
<1>1. fwd' = fwd /\ wire' = wire /\ handled' = handled
  BY DEF RestartServer, forwardVars
<1>2. ASSUME NEW l \in Clients PROVE InOrder(l)'
  BY <1>1, FlightKept DEF QueueInv
<1>3. ASSUME NEW c \in Channels PROVE conn'[c].batch = {} /\ ~conn'[c].up
  <2>1. CASE conn[c].held
    <3> DEFINE x == [Closed EXCEPT !.pc = "done", !.client = conn[c].client,
                       !.source = conn[c].source, !.held = TRUE]
    <3>1. x.batch = {} /\ ~x.up
      BY DEF Closed
    <3> HIDE DEF x
    <3>2. conn'[c] = x
      BY <2>1 DEF RestartServer, x
    <3> QED BY <3>1, <3>2
  <2>2. CASE ~conn[c].held
    BY <2>2, ClosedFields DEF RestartServer
  <2> QED BY <2>1, <2>2
<1>4. ASSUME NEW c \in Channels PROVE Ahead(c)'
  BY <1>3 DEF Ahead, Feeds, Numbered
<1> QED BY <1>2, <1>4 DEF QueueInv

\* A process takes from its queue from the front.  Without a connection it has
\* none, and a new connection's is empty.
LEMMA ReadFlow ==
  ASSUME TypeInv, NEW k \in Clients, ReadMessage(k), InOrder(k)
  PROVE  InFlight(k)' = InFlight(k) /\ InOrder(k)'
<1>1. /\ fwd[k].pc = "stream" /\ fwd[k].conn \in Channels /\ fwd[k].conn # None
  BY DEF ReadMessage, TypeInv, Attached, ForwardTypeOK, Process, Down
<1>2. PICK c \in Channels : c = fwd[k].conn
  BY <1>1
<1>3. PICK q \in Seq(Event) : q = wire[c]
  BY DEF TypeInv, ForwardTypeOK, StreamTypeOK
<1>4. /\ wire' = [wire EXCEPT ![c] = Tail(q)] /\ q # <<>>
      /\ fwd' = [fwd EXCEPT ![k].pc = "post", ![k].event = Head(q)] /\ handled' = handled
  BY <1>2, <1>3 DEF ReadMessage
<1>5. wire \in [Channels -> Seq(Event)] /\ fwd[k] \in Process /\ fwd \in [Clients -> Process \cup {Down}]
  BY <1>1 DEF TypeInv, ForwardTypeOK, StreamTypeOK, Down
<1>6. fwd'[k].pc = "post" /\ fwd'[k].event = Head(q) /\ fwd'[k].conn = c /\ wire'[c] = Tail(q)
  BY <1>2, <1>4, <1>5 DEF Process
<1>7. /\ Posting(k) = {} /\ Wired(k) = Elements(q) /\ Ascending(q)
  BY <1>1, <1>2, <1>3 DEF Posting, Wired, InOrder
<1>8. /\ Posting(k)' = {Head(q)} /\ Wired(k)' = Elements(Tail(q))
      /\ Ascending(Tail(q)) => Ascending(wire'[fwd'[k].conn])
  BY <1>1, <1>2, <1>6 DEF Posting, Wired
<1>9. /\ Elements(q) = {Head(q)} \cup Elements(Tail(q)) /\ Ascending(Tail(q))
      /\ \A f \in Elements(Tail(q)) : Head(q).sequence < f.sequence
  BY <1>4, <1>7, ElementsTail
<1>10. InFlight(k)' = InFlight(k)
  BY <1>7, <1>8, <1>9 DEF InFlight
<1>11. InOrder(k)'
  <2>1. \A e \in Posting(k)', f \in Wired(k)' : e.sequence < f.sequence
    BY <1>8, <1>9
  <2>2. \A e \in InFlight(k)' : e.source = SourceOf[k]
    BY <1>10 DEF InOrder
  <2> QED BY <1>6, <1>8, <1>9, <2>1, <2>2 DEF InOrder
<1> QED BY <1>10, <1>11

LEMMA PostFlow ==
  ASSUME TypeInv, NEW k \in Clients, InOrder(k),
         TargetAccepts(k) \/ AnswerLost(k) \/ SaveCursor(k) \/ FinishSave(k)
  PROVE  /\ InFlight(k)' \subseteq InFlight(k) /\ InOrder(k)'
         /\ Sent(k)' = Sent(k) /\ handled[k] \subseteq handled'[k] /\ skipped' = skipped
<1>1. /\ fwd \in [Clients -> Process \cup {Down}] /\ fwd[k] \in Process
      /\ handled \in [Clients -> SUBSET Event]
      /\ wire' = wire /\ skipped' = skipped
  BY DEF TypeInv, ForwardTypeOK, TargetAccepts, AnswerLost, SaveCursor, FinishSave, Down, streamVars
<1>2. CASE TargetAccepts(k) \/ AnswerLost(k)
  <2>1. /\ fwd[k].pc \in {"post", "answered"} /\ fwd'[k].pc \in {"post", "answered"}
        /\ fwd'[k].event = fwd[k].event /\ fwd'[k].conn = fwd[k].conn
    BY <1>1, <1>2 DEF TargetAccepts, AnswerLost, Process
  <2>2. /\ handled'[k] \in {handled[k], handled[k] \cup {fwd[k].event}}
        /\ fwd'[k].pc = "answered" => fwd[k].event \in handled'[k]
    BY <1>1, <1>2, <2>1 DEF TargetAccepts, AnswerLost, Process
  <2>3. Posting(k)' = Posting(k) /\ Posting(k) = {fwd[k].event}
    BY <2>1 DEF Posting
  <2>4. /\ Wired(k)' = Wired(k)
        /\ fwd'[k].conn # None /\ Ascending(wire[fwd[k].conn]) => Ascending(wire'[fwd'[k].conn])
    BY <1>1, <2>1 DEF Wired
  <2>5. InFlight(k)' = InFlight(k)
    BY <2>3, <2>4 DEF InFlight
  <2>6. InOrder(k)'
    BY <2>1, <2>2, <2>3, <2>4, <2>5 DEF InOrder
  <2>7. Sent(k)' = Sent(k)
    BY <1>1, <2>2, <2>3, <2>5 DEF Sent, Done, InFlight
  <2> QED BY <1>1, <2>2, <2>5, <2>6, <2>7
<1>3. CASE SaveCursor(k) \/ FinishSave(k)
  <2>1. /\ fwd'[k].pc \in {"stream", "writing"} /\ fwd'[k].conn = fwd[k].conn
        /\ handled' = handled
    BY <1>1, <1>3 DEF SaveCursor, FinishSave, Process
  <2>2. Posting(k)' = {}
    BY <2>1 DEF Posting
  <2>3. /\ Wired(k)' = Wired(k)
        /\ fwd'[k].conn # None /\ Ascending(wire[fwd[k].conn]) => Ascending(wire'[fwd'[k].conn])
    BY <1>1, <2>1 DEF Wired
  <2>4. Posting(k) \subseteq handled[k]
    BY <1>3 DEF SaveCursor, FinishSave, InOrder, Posting
  <2>5. InOrder(k)'
    BY <2>1, <2>2, <2>3 DEF InOrder, InFlight
  <2>6. InFlight(k)' \subseteq InFlight(k) /\ Sent(k)' = Sent(k)
    BY <1>1, <2>1, <2>2, <2>3, <2>4 DEF InFlight, Sent, Done
  <2> QED BY <1>1, <2>1, <2>5, <2>6
<1> QED BY <1>2, <1>3

LEMMA ProcessFlow ==
  ASSUME TypeInv, LinkInv, NEW k \in Clients, ProcessMoves(k), InOrder(k)
  PROVE  InFlight(k)' \subseteq InFlight(k) /\ InOrder(k)'
<1>1. Runs(fwd'[k]) /\ (Alone(k) \/ Opens(k) \/ Drops(k) \/ GoesOn(k))
  BY ProcessBecomes
<1>2. CASE fwd'[k].conn = None
  <2>1. Posting(k)' = {} /\ Wired(k)' = {} /\ fwd'[k].pc # "answered"
    BY <1>1, <1>2 DEF Runs, Attached, Posting, Wired
  <2> QED BY <1>2, <2>1 DEF InOrder, InFlight
<1>3. CASE Opens(k)
  <2>1. PICK c \in Channels : fwd'[k].conn = c /\ fwd'[k].pc = "stream" /\ conn[c] = Closed /\ wire' = wire
    BY <1>3 DEF Opens
  <2>2. wire'[c] = <<>>
    BY <2>1, ClosedFields DEF LinkInv, Linked
  <2>3. Posting(k)' = {} /\ Wired(k)' = {} /\ Ascending(wire'[fwd'[k].conn])
    BY <2>1, <2>2, ElementsEmpty DEF Posting, Wired
  <2> QED BY <2>1, <2>3 DEF InOrder, InFlight
<1>4. CASE GoesOn(k)
  BY <1>4, ReadFlow, PostFlow DEF GoesOn
<1> QED BY <1>1, <1>2, <1>3, <1>4 DEF Alone, Drops

LEMMA ProcessOthers ==
  ASSUME TypeInv, LinkInv, NEW k \in Clients, ProcessMoves(k), NEW l \in Clients \ {k}
  PROVE  InFlight(l)' = InFlight(l) /\ (InOrder(l) => InOrder(l)')
<1>1. /\ fwd' = [fwd EXCEPT ![k] = fwd'[k]] /\ fwd \in [Clients -> Process \cup {Down}]
      /\ wire \in [Channels -> Seq(Event)] /\ handled \in [Clients -> SUBSET Event]
      /\ Alone(k) \/ Opens(k) \/ Drops(k) \/ GoesOn(k)
  BY ProcessBecomes DEF TypeInv, ForwardTypeOK, StreamTypeOK
<1>2. fwd'[l] = fwd[l]
  BY <1>1
<1>3. handled'[l] = handled[l]
  BY <1>1 DEF Alone, Opens, Drops, GoesOn, ReadMessage, TargetAccepts, AnswerLost, SaveCursor, FinishSave
<1>4. ASSUME fwd[l].conn # None PROVE wire'[fwd[l].conn] = wire[fwd[l].conn]
  <2>1. PICK c \in Channels : c = fwd[l].conn /\ conn[c].client = l
    BY <1>4 DEF LinkInv, Holds, TypeInv, ForwardTypeOK, Process, Down
  <2>2. fwd[k].conn # None => fwd[k].conn # c
    BY <2>1 DEF LinkInv, Holds
  <2>3. \A d \in Channels : d # fwd[k].conn => wire'[d] = wire[d]
    BY <1>1 DEF Alone, Opens, Drops, Hangs, GoesOn, ReadMessage, TargetAccepts, AnswerLost,
                SaveCursor, FinishSave, streamVars
  <2> QED BY <2>1, <2>2, <2>3, StreamAssumption
<1> QED BY <1>2, <1>3, <1>4, FlightKept

LEMMA ProcessQueues ==
  ASSUME TypeInv, LinkInv, QueueInv, NEW k \in Clients, ProcessMoves(k)
  PROVE  QueueInv'
<1>1. /\ fwd' = [fwd EXCEPT ![k] = fwd'[k]] /\ fwd \in [Clients -> Process \cup {Down}]
      /\ conn \in [Channels -> Connection \cup {Closed}]
      /\ wire \in [Channels -> Seq(Event)] /\ handled \in [Clients -> SUBSET Event]
      /\ Alone(k) \/ Opens(k) \/ Drops(k) \/ GoesOn(k)
  BY ProcessBecomes DEF TypeInv, ForwardTypeOK, StreamTypeOK
<1>2. InFlight(k)' \subseteq InFlight(k) /\ InOrder(k)'
  BY ProcessFlow DEF QueueInv
<1>3. ASSUME NEW l \in Clients \ {k} PROVE InFlight(l)' = InFlight(l) /\ InOrder(l)'
  BY ProcessOthers DEF QueueInv
<1>4. ASSUME NEW c \in Channels PROVE Ahead(c)'
  <2>1. Ahead(c)
    BY DEF QueueInv
  <2>2. CASE /\ conn'[c].client = conn[c].client /\ conn'[c].source = conn[c].source
             /\ conn'[c].cursor = conn[c].cursor /\ conn'[c].batch = conn[c].batch
             /\ Feeds(c)' => Feeds(c) /\ conn[c].client \in Clients
    <3>1. CASE Feeds(c)'
      <4>1. PICK l \in Clients : l = conn[c].client
        BY <2>2, <3>1
      <4>2. InFlight(l)' \subseteq InFlight(l)
        BY <1>2, <1>3
      <4> QED BY <2>1, <2>2, <3>1, <4>1, <4>2 DEF Ahead
    <3>2. CASE ~Feeds(c)'
      BY <2>1, <2>2, <3>2 DEF Ahead
    <3> QED BY <3>1, <3>2
  <2>3. CASE conn'[c] = conn[c]
    BY <1>1, <2>2, <2>3, ClosedFields DEF Feeds, Connection
  <2>4. CASE Opens(k) /\ conn'[c] # conn[c]
    <3>1. conn'[c].batch = {} /\ conn'[c].client = k /\ fwd'[k].pc = "stream" /\ fwd'[k].conn = c
          /\ conn[c] = Closed /\ wire' = wire
      BY <1>1, <2>4 DEF Opens
    <3>2. wire'[c] = <<>>
      BY <3>1, ClosedFields DEF LinkInv, Linked
    <3>3. InFlight(k)' = {}
      BY <3>1, <3>2, ElementsEmpty DEF InFlight, Posting, Wired
    <3> QED BY <3>1, <3>3 DEF Ahead, Numbered
  <2>5. CASE Drops(k) /\ conn'[c] # conn[c]
    <3>1. Hangs(c)
      BY <1>1, <2>5 DEF Drops, Hangs
    <3>2. CASE conn'[c] = Closed
      BY <3>2, ClosedFields DEF Ahead, Feeds, Numbered
    <3>3. CASE conn'[c] # Closed
      BY <2>2, <3>1, <3>3 DEF Hangs, Feeds
    <3> QED BY <3>2, <3>3
  <2> QED BY <1>1, <2>3, <2>4, <2>5 DEF Alone, GoesOn
<1> QED BY <1>2, <1>3, <1>4 DEF QueueInv

-----------------------------------------------------------------------------
(* What the cursors have passed.                                           *)

\* The log is left alone or changes as Ingest says.
Onward == TypeInv /\ TypeInv' /\ (IngestNext \/ UNCHANGED storeVars)

LEMMA LogOnward ==
  ASSUME Onward, NEW src \in Sources, ~newestPruned'[src]
  PROVE  /\ ~newestPruned[src]
         /\ Numbered(Rows(src)) /\ Numbered(Rows(src)')
         /\ Grown(Rows(src), Rows(src)') \/ Shrunk(Rows(src), Rows(src)')
<1>1. CASE IngestNext
  BY <1>1, LogKept DEF Onward, TypeInv
<1>2. CASE UNCHANGED storeVars
  <2>1. Rows(src)' = Rows(src) /\ newestPruned' = newestPruned
    BY <1>2 DEF storeVars, Rows
  <2>2. Numbered(Rows(src))
    BY RowsNumbered DEF Onward, TypeInv, IInv
  <2> QED BY <2>1, <2>2 DEF Grown
<1> QED BY <1>1, <1>2 DEF Onward

LEMMA PassedKept ==
  ASSUME Onward, NEW k \in Clients, Done(k) \subseteq Done(k)', NEW n \in Nat, Passed(k, n)
  PROVE  Passed(k, n)'
<1> SUFFICES ASSUME ~newestPruned'[SourceOf[k]]
             PROVE  Position(Rows(SourceOf[k])', Done(k)', 0, n)
  BY DEF Passed
<1>1. SourceOf[k] \in Sources
  BY ForwardAssumption
<1>2. Position(Rows(SourceOf[k]), Done(k), 0, n)
  BY <1>1, LogOnward DEF Passed
<1> QED BY <1>1, <1>2, LogOnward, PositionKept

LEMMA WrittenKept ==
  ASSUME Onward, NEW k \in Clients, Sent(k) \subseteq Sent(k)', NEW n \in Nat, Written(k, n)
  PROVE  Written(k, n)'
<1> SUFFICES ASSUME ~newestPruned'[SourceOf[k]]
             PROVE  Position(Rows(SourceOf[k])', Sent(k)', 0, n)
  BY DEF Written
<1>1. SourceOf[k] \in Sources
  BY ForwardAssumption
<1>2. Position(Rows(SourceOf[k]), Sent(k), 0, n)
  BY <1>1, LogOnward DEF Written
<1> QED BY <1>1, <1>2, LogOnward, PositionKept

LEMMA QueuedKept ==
  ASSUME Onward, NEW k \in Clients, NEW b, NEW d, Sent(k) \cup b \subseteq Sent(k)' \cup d,
         NEW e \in Event, Queued(k, b, e)
  PROVE  Queued(k, d, e)'
<1> SUFFICES ASSUME ~newestPruned'[SourceOf[k]]
             PROVE  Upcoming(Rows(SourceOf[k])', Sent(k)' \cup d, 0, e)
  BY DEF Queued
<1>1. SourceOf[k] \in Sources /\ e.sequence \in Nat
  BY ForwardAssumption DEF Event
<1>2. Upcoming(Rows(SourceOf[k]), Sent(k) \cup b, 0, e)
  BY <1>1, LogOnward DEF Queued
<1> QED BY <1>1, <1>2, LogOnward, UpcomingKept

LEMMA FlightTyped ==
  ASSUME TypeInv, NEW k \in Clients
  PROVE  InFlight(k) \subseteq Event /\ file[k] \in Nat /\ fwd[k].cursor \in Nat
<1>1. \A f \in Posting(k) : f \in Event
  BY DEF Posting, TypeInv
<1>2. \A f \in Wired(k) : f \in Event
  <2>1. CASE fwd[k].conn = None
    BY <2>1 DEF Wired
  <2>2. CASE fwd[k].conn # None
    <3>1. fwd[k].conn \in Channels
      BY <2>2 DEF TypeInv, ForwardTypeOK, Process, Down
    <3>2. wire[fwd[k].conn] \in Seq(Event)
      BY <3>1 DEF TypeInv, ForwardTypeOK, StreamTypeOK
    <3> QED BY <2>2, <3>2 DEF Wired, Elements
  <2> QED BY <2>1, <2>2
<1>3. file[k] \in Nat /\ fwd[k].cursor \in Nat
  BY DEF TypeInv, ForwardTypeOK, Process, Down
<1> QED BY <1>1, <1>2, <1>3 DEF InFlight

\* A client for which the step changes nothing of this.
LEMMA CoveredKept ==
  ASSUME Onward, NEW k \in Clients, Done(k) \subseteq Done(k)', Sent(k) \subseteq Sent(k)',
         InFlight(k)' \subseteq InFlight(k), file'[k] = file[k], fwd'[k].cursor = fwd[k].cursor,
         Covered(k)
  PROVE  Covered(k)'
<1>1. InFlight(k) \subseteq Event /\ file[k] \in Nat /\ fwd[k].cursor \in Nat
  BY FlightTyped DEF Onward
<1>2. PICK m \in Nat, n \in Nat : m = file[k] /\ n = fwd[k].cursor
  BY <1>1
<1>3. Passed(k, m)' /\ Passed(k, n)'
  BY <1>2, PassedKept DEF Covered
<1>4. ASSUME NEW e \in InFlight(k)' PROVE Queued(k, {}, e)'
  <2>1. e \in Event /\ Queued(k, {}, e)
    BY <1>1, <1>4 DEF Covered
  <2> QED BY <2>1, QueuedKept
<1> QED BY <1>2, <1>3, <1>4 DEF Covered

\* A handler that the step leaves alone.
LEMMA FedKept ==
  ASSUME Onward, NEW c \in Channels, conn'[c] = conn[c], conn[c] \in Connection,
         NEW k \in Clients, k = conn[c].client, Sent(k) \subseteq Sent(k)', Fed(c)
  PROVE  Fed(c)'
<1>1. PICK n \in Nat, batch \in SUBSET Event : n = conn[c].cursor /\ batch = conn[c].batch
  BY DEF Connection
<1>2. CASE Feeds(c)
  <2>1. Written(k, n) /\ \A e \in batch : Queued(k, batch, e)
    BY <1>1, <1>2 DEF Fed
  <2>2. Written(k, n)'
    BY <2>1, WrittenKept
  <2>3. ASSUME NEW e \in batch PROVE Queued(k, batch, e)'
    BY <2>1, QueuedKept
  <2> QED BY <1>1, <2>2, <2>3 DEF Fed
<1>3. CASE ~Feeds(c)
  BY <1>3 DEF Fed, Feeds
<1> QED BY <1>2, <1>3

LEMMA FeedsFields ==
  ASSUME TypeInv, LinkInv, NEW c \in Channels, Feeds(c)
  PROVE  /\ conn[c] \in Connection /\ conn[c].client \in Clients
         /\ conn[c].source = SourceOf[conn[c].client] /\ fwd[conn[c].client].conn = c
<1>1. conn[c] \in Connection
  BY ClosedFields DEF Feeds, TypeInv, ForwardTypeOK, StreamTypeOK
<1> QED BY <1>1, ClosedFields DEF Feeds, LinkInv, Linked, Connection

\* A step that is neither a handler's nor a process's.
LEMMA QuietCovers ==
  ASSUME Onward, LinkInv, CoverInv, UNCHANGED <<wire, skipped, forwardVars>>,
         \A c \in Channels : conn'[c] = conn[c] \/ ~conn'[c].up
  PROVE  CoverInv'
<1>1. fwd' = fwd /\ file' = file /\ handled' = handled
  BY DEF forwardVars
<1>2. ASSUME NEW k \in Clients
      PROVE  Done(k)' = Done(k) /\ InFlight(k)' = InFlight(k) /\ Sent(k)' = Sent(k)
  BY <1>1, FlightKept DEF Onward, Done, Sent
<1>3. ASSUME NEW k \in Clients PROVE Covered(k)'
  BY <1>1, <1>2, CoveredKept DEF CoverInv
<1>4. ASSUME NEW c \in Channels PROVE Fed(c)'
  <2>1. CASE Feeds(c)'
    <3>1. conn'[c] = conn[c] /\ Feeds(c)
      BY <2>1 DEF Feeds
    <3>2. PICK k \in Clients : k = conn[c].client /\ conn[c] \in Connection
      BY <3>1, FeedsFields DEF Onward
    <3> QED BY <1>2, <3>1, <3>2, FedKept DEF CoverInv
  <2>2. CASE ~Feeds(c)'
    BY <2>2 DEF Fed
  <2> QED BY <2>1, <2>2
<1> QED BY <1>3, <1>4 DEF CoverInv

\* What the handler at c does to what is sent.
LEMMA HandlerSent ==
  ASSUME TypeInv, LinkInv, QueueInv, NEW c \in Channels, HandlerMoves(c), UNCHANGED forwardVars,
         NEW l \in Clients
  PROVE  /\ Done(l) \subseteq Done(l)' /\ Sent(l) \subseteq Sent(l)'
         /\ Emits(c) /\ Feeds(c) /\ l = conn[c].client => Oldest(conn[c].batch) \in Sent(l)'
<1>1. fwd' = fwd /\ handled' = handled
  BY DEF forwardVars
<1>2. /\ skipped \in [Clients -> SUBSET Event] /\ fwd' = fwd /\ handled' = handled
      /\ wire \in [Channels -> Seq(Event)]
      /\ Waits(c) \/ Reads(c) \/ Emits(c) \/ Returns(c)
  BY HandlerBecomes DEF TypeInv, ForwardTypeOK, StreamTypeOK, forwardVars
<1>3. skipped[l] \subseteq skipped'[l]
  BY <1>2 DEF Waits, Reads, Emits, Returns
<1>4. Done(l) \subseteq Done(l)'
  BY <1>2, <1>3 DEF Done
<1>5. Emits(c) => conn[c].pc = "emit"
  BY DEF Emits
<1>6. InFlight(l) \subseteq InFlight(l)'
  <2>1. CASE InFlight(l)' = InFlight(l)
    BY <2>1
  <2>2. CASE InFlight(l)' # InFlight(l)
    <3>1. /\ conn[c].pc = "emit" /\ conn[c].up /\ conn[c].client = l /\ fwd[l].conn = c
          /\ wire'[c] = Append(wire[c], Oldest(conn[c].batch))
      BY <1>5, <2>2, HandlerFlow
    <3>2. InFlight(l)' = InFlight(l) \cup {Oldest(conn[c].batch)}
      BY <1>1, <3>1, EmitFlow, Zenon
    <3> QED BY <3>2
  <2> QED BY <2>1, <2>2
<1>7. ASSUME Emits(c), Feeds(c), l = conn[c].client PROVE Oldest(conn[c].batch) \in Sent(l)'
  <2>1. CASE skipped' = [skipped EXCEPT ![conn[c].client] = @ \cup {Oldest(conn[c].batch)}]
    BY <1>2, <1>7, <2>1 DEF Sent, Done
  <2>2. CASE wire' = [wire EXCEPT ![c] = Append(@, Oldest(conn[c].batch))]
    <3>1. wire'[c] = Append(wire[c], Oldest(conn[c].batch)) /\ fwd[l].conn = c
      BY <1>2, <1>7, <2>2, FeedsFields
    <3>2. Oldest(conn[c].batch) \in InFlight(l)'
      <4>1. conn[c].pc = "emit" /\ conn[c].up /\ conn[c].client = l
        BY <1>5, <1>7 DEF Feeds
      <4> QED BY <1>1, <3>1, <4>1, EmitFlow, Zenon
    <3> QED BY <3>2 DEF Sent
  <2> QED BY <1>7, <2>1, <2>2 DEF Emits, Feeds
<1> QED BY <1>4, <1>6, <1>7 DEF Sent

\* The rows of a batch follow what is sent without a gap.
LEMMA ReadQueues ==
  ASSUME IInv, NEW k \in Clients, NEW n \in Nat, Written(k, n),
         NEW e \in ReadSince(SourceOf[k], n, BatchLimit)
  PROVE  Queued(k, ReadSince(SourceOf[k], n, BatchLimit), e)
<1> DEFINE batch == ReadSince(SourceOf[k], n, BatchLimit)
<1>1. SourceOf[k] \in Sources /\ LogInv /\ Numbered(Rows(SourceOf[k])) /\ BatchLimit \in Nat \ {0}
  BY ForwardAssumption, StreamAssumption, RowsNumbered DEF IInv
<1>2. e \in Rows(SourceOf[k])
  BY <1>1, BatchRead
<1> SUFFICES ASSUME ~newestPruned[SourceOf[k]]
             PROVE  Upcoming(Rows(SourceOf[k]), Sent(k) \cup batch, 0, e)
  BY DEF Queued
<1>3. ASSUME NEW f \in Rows(SourceOf[k]), 0 < f.sequence, f.sequence < e.sequence
      PROVE  f \in Sent(k) \cup batch
  <2>1. f.sequence \in Nat
    BY <1>1 DEF Numbered
  <2>2. CASE f.sequence <= n
    BY <1>3, <2>2 DEF Written, Position
  <2>3. CASE n < f.sequence
    BY <1>1, <1>3, <2>3, BatchIsInterval
  <2> QED BY <2>1, <2>2, <2>3
<1>4. e.sequence \in Nat /\ \A f \in Rows(SourceOf[k]) : f.sequence = e.sequence => f = e
  BY <1>1, <1>2 DEF Numbered
<1> HIDE DEF batch
<1> QED BY <1>2, <1>3, <1>4 DEF Upcoming

\* The oldest event of a batch follows what is sent.
LEMMA OldestFollows ==
  ASSUME TypeInv, NEW k \in Clients, NEW batch \in SUBSET Event, NEW e \in batch,
         \A f \in batch : e.sequence <= f.sequence, Queued(k, batch, e)
  PROVE  Queued(k, {}, e)
<1> SUFFICES ASSUME ~newestPruned[SourceOf[k]]
             PROVE  Upcoming(Rows(SourceOf[k]), Sent(k) \cup {}, 0, e)
  BY DEF Queued
<1>1. Upcoming(Rows(SourceOf[k]), Sent(k) \cup batch, 0, e)
  BY DEF Queued
<1>2. \A f \in Rows(SourceOf[k]) : f.sequence < e.sequence => f \notin batch
  BY DEF Event
<1> QED BY <1>1, <1>2 DEF Upcoming

LEMMA HandlerCovers ==
  ASSUME TypeInv, LinkInv, QueueInv, CoverInv, NEW c \in Channels, HandlerMoves(c),
         UNCHANGED forwardVars
  PROVE  CoverInv'
<1>1. Onward
  BY HandlerTyped, HandlerFrame DEF Onward
<1>2. fwd' = fwd /\ handled' = handled /\ file' = file
  BY DEF forwardVars
<1>3. /\ conn \in [Channels -> Connection \cup {Closed}] /\ conn[c] \in Connection
      /\ conn' = [conn EXCEPT ![c] = conn'[c]]
      /\ Waits(c) \/ Reads(c) \/ Emits(c) \/ Returns(c)
  BY HandlerBecomes DEF TypeInv, ForwardTypeOK, StreamTypeOK
<1>4. PICK k \in Clients, n \in Nat, batch \in SUBSET Event :
        k = conn[c].client /\ n = conn[c].cursor /\ batch = conn[c].batch
  BY <1>3 DEF Connection
<1>5. conn[c].source = SourceOf[k]
  BY <1>3, <1>4, ClosedFields DEF LinkInv, Linked
\* What the batch holds follows what is sent, and the oldest event is next.
<1>6. ASSUME Emits(c), Feeds(c)
      PROVE  /\ Written(k, n) /\ \A f \in batch : Queued(k, batch, f)
             /\ \E e \in batch : /\ e = Oldest(conn[c].batch) /\ Queued(k, {}, e)
                                 /\ e \in Sent(k)' /\ e.sequence \in Nat
  <2>1. Written(k, n) /\ \A f \in batch : Queued(k, batch, f)
    BY <1>4, <1>6 DEF CoverInv, Fed
  <2>2. conn[c].pc = "emit"
    BY <1>6 DEF Emits
  <2>3. PICK e \in batch : e = Oldest(conn[c].batch) /\ e.sequence \in Nat
                           /\ \A f \in batch : e.sequence <= f.sequence
    BY <1>4, <2>2, OldestInBatch
  <2>4. Queued(k, {}, e)
    BY <2>1, <2>3, OldestFollows
  <2>5. e \in Sent(k)'
    BY <1>4, <1>6, <2>3, HandlerSent
  <2> QED BY <2>1, <2>3, <2>4, <2>5
<1>7. ASSUME NEW l \in Clients PROVE Covered(l)'
  <2>1. Done(l) \subseteq Done(l)' /\ Sent(l) \subseteq Sent(l)' /\ Covered(l)
    BY HandlerSent DEF CoverInv
  <2>2. CASE InFlight(l)' = InFlight(l)
    BY <1>1, <1>2, <2>1, <2>2, CoveredKept
  <2>3. CASE InFlight(l)' # InFlight(l)
    <3>1. /\ Emits(c) /\ conn[c].up /\ conn[c].client = l /\ fwd[l].conn = c
          /\ wire'[c] = Append(wire[c], Oldest(conn[c].batch))
      BY <2>3, HandlerFlow
    <3>2. conn[c].pc = "emit" /\ Feeds(c)
      BY <3>1 DEF Emits, Feeds, HandlerStates
    <3>3. InFlight(l)' = InFlight(l) \cup {Oldest(conn[c].batch)}
      BY <1>2, <3>1, <3>2, EmitFlow, Zenon
    <3>4. PICK e \in batch : e = Oldest(conn[c].batch) /\ Queued(k, {}, e)
      BY <1>6, <3>1, <3>2
    <3>5. l = k
      BY <1>4, <3>1
    <3>6. PICK m \in Nat, p \in Nat : m = file[l] /\ p = fwd[l].cursor
      BY FlightTyped
    <3>7. Passed(l, m)' /\ Passed(l, p)'
      BY <1>1, <2>1, <3>6, PassedKept DEF Covered
    <3>8. ASSUME NEW f \in InFlight(l)' PROVE Queued(l, {}, f)'
      <4>1. f \in Event /\ Queued(l, {}, f)
        BY <2>1, <3>3, <3>4, <3>5, <3>8, FlightTyped DEF Covered
      <4> QED BY <1>1, <2>1, <4>1, QueuedKept
    <3> QED BY <1>2, <3>6, <3>7, <3>8 DEF Covered
  <2> QED BY <2>2, <2>3
<1>8. ASSUME NEW d \in Channels \ {c} PROVE Fed(d)'
  <2>1. conn'[d] = conn[d]
    BY <1>3
  <2>2. CASE Feeds(d)
    <3>1. PICK l \in Clients : l = conn[d].client /\ conn[d] \in Connection
      BY <2>2, FeedsFields
    <3>2. Sent(l) \subseteq Sent(l)'
      BY HandlerSent
    <3> QED BY <1>1, <2>1, <3>1, <3>2, FedKept DEF CoverInv
  <2>3. CASE ~Feeds(d)
    BY <2>1, <2>3 DEF Fed, Feeds
  <2> QED BY <2>2, <2>3
<1>9. Fed(c)'
  <2>1. Sent(k) \subseteq Sent(k)'
    BY HandlerSent
  <2>2. CASE Waits(c)
    <3>1. /\ conn'[c].client = k /\ conn'[c].cursor = n /\ conn'[c].batch = batch
      BY <1>4, <2>2 DEF Waits, Stays
    <3>2. Feeds(c)' => Feeds(c)
      BY <1>3, <2>2 DEF Waits, Stays, Feeds, Connection, HandlerStates
    <3>3. Feeds(c) => Written(k, n) /\ \A e \in batch : Queued(k, batch, e)
      BY <1>4 DEF CoverInv, Fed
    <3>4. Feeds(c) => Written(k, n)'
      BY <1>1, <2>1, <3>3, WrittenKept
    <3>5. ASSUME Feeds(c), NEW e \in batch PROVE Queued(k, batch, e)'
      BY <1>1, <2>1, <3>3, <3>5, QueuedKept
    <3> QED BY <3>1, <3>2, <3>4, <3>5 DEF Fed
  <2>3. CASE Reads(c)
    <3>1. /\ conn'[c].client = k /\ conn'[c].cursor = n /\ (Feeds(c)' => Feeds(c))
          /\ conn'[c].batch = ReadSince(SourceOf[k], n, BatchLimit)
      BY <1>4, <1>5, <2>3 DEF Reads, Carries, Stays, Feeds
    <3>2. PICK rows \in SUBSET Event : rows = ReadSince(SourceOf[k], n, BatchLimit)
      <4>1. \A e \in ReadSince(SourceOf[k], n, BatchLimit) : e \in Event
        BY ForwardAssumption, BatchRead DEF TypeInv
      <4> QED BY <4>1
    <3>3. Feeds(c) => Written(k, n)
      BY <1>4 DEF CoverInv, Fed
    <3>4. Feeds(c) => Written(k, n)'
      BY <1>1, <2>1, <3>3, WrittenKept
    <3>5. ASSUME Feeds(c), NEW e \in rows PROVE Queued(k, rows, e)'
      <4>1. Queued(k, rows, e)
        BY <3>2, <3>3, <3>5, ReadQueues DEF TypeInv
      <4> QED BY <1>1, <2>1, <4>1, QueuedKept
    <3> QED BY <3>1, <3>2, <3>4, <3>5 DEF Fed
  <2>4. CASE Emits(c)
    <3>1. /\ conn'[c].client = k /\ (Feeds(c)' => Feeds(c))
          /\ conn'[c].cursor = Oldest(conn[c].batch).sequence
          /\ conn'[c].batch = batch \ {Oldest(conn[c].batch)}
      BY <1>4, <2>4 DEF Emits, Carries, Stays, Feeds
    <3>2. SUFFICES ASSUME Feeds(c)
                   PROVE  Fed(c)'
      BY <3>1 DEF Fed
    <3>3. /\ \A f \in batch : Queued(k, batch, f)
          /\ \E e \in batch : /\ e = Oldest(conn[c].batch) /\ Queued(k, {}, e)
                              /\ e \in Sent(k)' /\ e.sequence \in Nat
      BY <1>6, <2>4, <3>2
    <3>4. PICK e \in batch : /\ e = Oldest(conn[c].batch) /\ Queued(k, {}, e)
                             /\ e \in Sent(k)' /\ e.sequence \in Nat
      BY <3>3
    <3>5. Queued(k, {}, e)'
      BY <1>1, <2>1, <3>4, QueuedKept
    <3>6. Written(k, e.sequence)'
      <4> SUFFICES ASSUME ~newestPruned'[SourceOf[k]]
                   PROVE  Position(Rows(SourceOf[k])', Sent(k)', 0, e.sequence)
        BY DEF Written
      <4>1. Upcoming(Rows(SourceOf[k])', Sent(k)' \cup {}, 0, e)
        BY <3>5 DEF Queued
      <4>2. Numbered(Rows(SourceOf[k])') /\ Sent(k)' \cup {} = Sent(k)'
        BY <1>1, LogOnward, ForwardAssumption
      <4> QED BY <3>4, <4>1, <4>2, DeliveredIsPosition
    <3>7. ASSUME NEW f \in batch \ {e} PROVE Queued(k, batch \ {e}, f)'
      BY <1>1, <2>1, <3>3, <3>4, <3>7, QueuedKept
    <3> QED BY <3>1, <3>4, <3>6, <3>7 DEF Fed
  <2>5. CASE Returns(c)
    BY <2>5, ClosedFields DEF Returns, Fed, Feeds, HandlerStates
  <2> QED BY <1>3, <2>2, <2>3, <2>4, <2>5
<1> QED BY <1>7, <1>8, <1>9 DEF CoverInv

\* The event in hand is next, and once the target has answered the cursor may
\* move on to it.
LEMMA PostedFollows ==
  ASSUME TypeInv, QueueInv, CoverInv, NEW k \in Clients, fwd[k].pc \in {"post", "answered"}
  PROVE  /\ fwd[k].event \in Event /\ fwd[k].event.source = SourceOf[k]
         /\ ~newestPruned[SourceOf[k]] =>
              \A f \in Rows(SourceOf[k]) : f.sequence < fwd[k].event.sequence => f \in Done(k)
         /\ fwd[k].pc = "answered" => Passed(k, fwd[k].event.sequence)
<1>1. PICK e \in Event : e = fwd[k].event
  BY DEF TypeInv
<1>2. Posting(k) = {e} /\ e \in InFlight(k)
  BY <1>1 DEF Posting, InFlight
<1>3. Queued(k, {}, e) /\ e.source = SourceOf[k] /\ (fwd[k].pc = "answered" => e \in handled[k])
  BY <1>1, <1>2 DEF CoverInv, Covered, QueueInv, InOrder
<1>4. /\ Numbered(Rows(SourceOf[k])) /\ e.sequence \in Nat
      /\ \A f \in Rows(SourceOf[k]) : 0 < f.sequence
  <2>1. SourceOf[k] \in Sources /\ LogInv
    BY ForwardAssumption DEF TypeInv, IInv
  <2>2. Numbered(Rows(SourceOf[k])) /\ e.sequence \in Nat
    BY <2>1, RowsNumbered DEF Event
  <2>3. ASSUME NEW f \in Rows(SourceOf[k]) PROVE 0 < f.sequence
    <3>1. f.source = SourceOf[k] /\ f.sequence \in 1..Len(accepted[SourceOf[k]])
      BY <2>1, <2>3 DEF LogInv, SequencesBounded, Rows
    <3>2. Len(accepted[SourceOf[k]]) \in Nat
      BY <2>1 DEF LogInv, StoreTypeOK
    <3> QED BY <3>1, <3>2
  <2> QED BY <2>2, <2>3
<1>5. \A f \in Wired(k) : e.sequence < f.sequence /\ f.sequence \in Nat
  BY <1>2, FlightTyped DEF QueueInv, InOrder, InFlight, Event
<1>6. ASSUME ~newestPruned[SourceOf[k]], NEW f \in Rows(SourceOf[k]), f.sequence < e.sequence
      PROVE  f \in Done(k)
  <2>1. f \in Sent(k)
    BY <1>3, <1>4, <1>6 DEF Queued, Upcoming
  <2>2. f.sequence \in Nat
    BY <1>4 DEF Numbered
  <2> QED BY <1>2, <1>4, <1>5, <1>6, <2>1, <2>2 DEF Sent, InFlight
<1>7. ASSUME fwd[k].pc = "answered" PROVE Passed(k, e.sequence)
  <2> SUFFICES ASSUME ~newestPruned[SourceOf[k]]
               PROVE  Position(Rows(SourceOf[k]), Done(k), 0, e.sequence)
    BY DEF Passed
  <2>1. Upcoming(Rows(SourceOf[k]), Done(k), 0, e)
    BY <1>3, <1>6 DEF Queued, Upcoming
  <2>2. e \in Done(k)
    BY <1>3, <1>7 DEF Done
  <2> QED BY <1>4, <2>1, <2>2, DeliveredIsPosition
<1> QED BY <1>1, <1>3, <1>6, <1>7

\* A process without a connection starts from a cursor it had.
LEMMA PassedFromStart ==
  ASSUME TypeInv, NEW k \in Clients
  PROVE  Passed(k, 0)
BY ForwardAssumption, RowsNumbered DEF TypeInv, IInv, Numbered, Passed, Position

LEMMA ProcessCovered ==
  ASSUME TypeInv, LinkInv, QueueInv, CoverInv, NEW k \in Clients, ProcessMoves(k)
  PROVE  Covered(k)'
<1>1. Onward
  BY ProcessTyped, ProcessBecomes DEF Onward, ingestVars, storeVars
<1>2. /\ file \in [Clients -> Nat] /\ handled \in [Clients -> SUBSET Event]
      /\ fwd \in [Clients -> Process \cup {Down}] /\ skipped' = skipped
      /\ fwd' = [fwd EXCEPT ![k] = fwd'[k]] /\ Runs(fwd'[k])
      /\ Alone(k) \/ Opens(k) \/ Drops(k) \/ GoesOn(k)
  BY ProcessBecomes DEF TypeInv, ForwardTypeOK
<1>3. PICK m \in Nat, n \in Nat : m = file[k] /\ n = fwd[k].cursor
  BY FlightTyped
<1>4. /\ Covered(k) /\ Passed(k, m) /\ Passed(k, n) /\ Passed(k, 0)
      /\ InFlight(k)' \subseteq InFlight(k)
  BY <1>3, ProcessFlow, PassedFromStart DEF CoverInv, Covered, QueueInv
<1>5. CASE Alone(k) \/ Opens(k) \/ Drops(k)
  <2>1. file' = file /\ handled' = handled /\ fwd'[k].cursor \in {0, n, m}
    BY <1>3, <1>5 DEF Alone, Opens, Drops
  <2>2. Done(k)' = Done(k)
    BY <1>2, <2>1 DEF Done
  <2>3. Passed(k, m)' /\ Passed(k, n)' /\ Passed(k, 0)'
    BY <1>1, <1>4, <2>2, PassedKept
  <2>4. InFlight(k)' = {}
    <3>1. CASE fwd'[k].conn = None
      BY <1>2, <3>1 DEF Runs, Attached, Posting, Wired, InFlight
    <3>2. CASE Opens(k)
      <4>1. PICK c \in Channels : fwd'[k].conn = c /\ fwd'[k].pc = "stream" /\ conn[c] = Closed /\ wire' = wire
        BY <3>2 DEF Opens
      <4>2. wire'[c] = <<>>
        BY <4>1, ClosedFields DEF LinkInv, Linked
      <4> QED BY <4>1, <4>2, ElementsEmpty DEF Posting, Wired, InFlight
    <3> QED BY <1>5, <3>1, <3>2 DEF Alone, Drops
  <2> QED BY <1>3, <2>1, <2>3, <2>4 DEF Covered
<1>6. CASE GoesOn(k)
  <2>1. CASE ReadMessage(k)
    <3>1. file' = file /\ handled' = handled /\ fwd'[k].cursor = fwd[k].cursor
      BY <1>2, <2>1 DEF ReadMessage, Process, Down
    <3>2. InFlight(k)' = InFlight(k)
      BY <2>1, ReadFlow DEF QueueInv
    <3>3. Done(k)' = Done(k) /\ Sent(k)' = Sent(k)
      BY <1>2, <3>1, <3>2 DEF Done, Sent
    <3> QED BY <1>1, <1>4, <3>1, <3>2, <3>3, CoveredKept
  <2>2. CASE TargetAccepts(k) \/ AnswerLost(k) \/ SaveCursor(k) \/ FinishSave(k)
    <3>1. /\ InFlight(k)' \subseteq InFlight(k) /\ Sent(k)' = Sent(k)
          /\ handled[k] \subseteq handled'[k]
      BY <2>2, PostFlow DEF QueueInv
    <3>2. Done(k) \subseteq Done(k)'
      BY <1>2, <3>1 DEF Done
    <3>3. Passed(k, m)' /\ Passed(k, n)' /\ Passed(k, 0)'
      BY <1>1, <1>4, <3>2, PassedKept
    <3>4. ASSUME NEW e \in InFlight(k)' PROVE Queued(k, {}, e)'
      <4>1. e \in Event /\ Queued(k, {}, e)
        BY <1>4, <3>1, <3>4, FlightTyped DEF Covered
      <4> QED BY <1>1, <3>1, <4>1, QueuedKept
    <3>5. CASE TargetAccepts(k) \/ AnswerLost(k)
      <4>1. file' = file /\ fwd'[k].cursor = fwd[k].cursor
        BY <1>2, <3>5 DEF TargetAccepts, AnswerLost, Process, Down
      <4> QED BY <1>3, <3>3, <3>4, <4>1 DEF Covered
    <3>6. CASE SaveCursor(k)
      <4>1. fwd[k].pc = "answered" /\ fwd'[k].cursor = fwd[k].event.sequence /\ file'[k] = 0
        BY <1>2, <3>6 DEF SaveCursor, Process, Down
      <4>2. PICK p \in Nat : p = fwd[k].event.sequence /\ Passed(k, p)
        BY <4>1, PostedFollows DEF Event
      <4>3. Passed(k, p)'
        BY <1>1, <3>2, <4>2, PassedKept
      <4> QED BY <3>3, <3>4, <4>1, <4>2, <4>3 DEF Covered
    <3>7. CASE FinishSave(k)
      <4>1. fwd'[k].cursor = n /\ file'[k] \in {m, n}
        BY <1>2, <1>3, <3>7 DEF FinishSave, Process, Down
      <4> QED BY <3>3, <3>4, <4>1 DEF Covered
    <3> QED BY <2>2, <3>5, <3>6, <3>7
  <2> QED BY <1>6, <2>1, <2>2 DEF GoesOn
<1> QED BY <1>2, <1>5, <1>6

LEMMA ProcessCovers ==
  ASSUME TypeInv, LinkInv, QueueInv, CoverInv, NEW k \in Clients, ProcessMoves(k)
  PROVE  CoverInv'
<1>1. Onward /\ LinkInv'
  BY ProcessTyped, ProcessLinks, ProcessBecomes DEF Onward, ingestVars, storeVars
<1>2. /\ conn \in [Channels -> Connection \cup {Closed}] /\ wire \in [Channels -> Seq(Event)]
      /\ handled \in [Clients -> SUBSET Event] /\ file \in [Clients -> Nat]
      /\ fwd \in [Clients -> Process \cup {Down}] /\ skipped' = skipped
      /\ fwd' = [fwd EXCEPT ![k] = fwd'[k]]
      /\ Alone(k) \/ Opens(k) \/ Drops(k) \/ GoesOn(k)
  BY ProcessBecomes DEF TypeInv, ForwardTypeOK, StreamTypeOK
<1>3. ASSUME NEW l \in Clients \ {k}
      PROVE  /\ fwd'[l] = fwd[l] /\ file'[l] = file[l]
             /\ Done(l)' = Done(l) /\ InFlight(l)' = InFlight(l) /\ Sent(l)' = Sent(l)
  <2>1. fwd'[l] = fwd[l] /\ handled'[l] = handled[l] /\ file'[l] = file[l]
    BY <1>2 DEF Alone, Opens, Drops, GoesOn, ReadMessage, TargetAccepts, AnswerLost, SaveCursor,
                FinishSave
  <2>2. InFlight(l)' = InFlight(l)
    BY ProcessOthers
  <2> QED BY <1>2, <2>1, <2>2 DEF Done, Sent
<1>4. ASSUME NEW l \in Clients PROVE Covered(l)'
  BY <1>1, <1>3, CoveredKept, ProcessCovered DEF CoverInv
<1>5. ASSUME NEW c \in Channels, Feeds(c)' PROVE Fed(c)'
  <2>1. CASE conn'[c] = conn[c]
    <3>1. PICK l \in Clients : l = conn[c].client /\ conn[c] \in Connection /\ fwd[l].conn = c
      BY <1>5, <2>1, FeedsFields DEF Feeds
    <3>2. Sent(l) \subseteq Sent(l)'
      <4>1. CASE l # k
        BY <1>3, <4>1
      <4>2. CASE l = k
        <5>1. fwd'[k].conn = c
          <6>1. Linked(c)' /\ conn'[c].up /\ conn'[c].client = k
            BY <1>1, <1>5, <2>1, <3>1, <4>2 DEF Feeds, LinkInv
          <6> QED BY <6>1 DEF Linked
        <5>2. GoesOn(k)
          BY <1>2, <3>1, <4>2, <5>1, StreamAssumption DEF Alone, Opens, Drops
        <5>3. CASE ReadMessage(k)
          <6>1. InFlight(k)' = InFlight(k) /\ handled' = handled
            BY <5>3, ReadFlow DEF QueueInv, ReadMessage
          <6> QED BY <1>2, <4>2, <6>1 DEF Sent, Done
        <5>4. CASE TargetAccepts(k) \/ AnswerLost(k) \/ SaveCursor(k) \/ FinishSave(k)
          BY <4>2, <5>4, PostFlow DEF QueueInv
        <5> QED BY <5>2, <5>3, <5>4 DEF GoesOn
      <4> QED BY <4>1, <4>2
    <3> QED BY <1>1, <2>1, <3>1, <3>2, FedKept DEF CoverInv
  <2>2. CASE conn'[c] # conn[c]
    <3>1. ~Drops(k)
      BY <1>2, <1>5, <2>2, ClosedFields DEF Drops, Hangs, Feeds
    <3>2. Opens(k)
      BY <1>2, <2>2, <3>1 DEF Alone, GoesOn
    <3>3. /\ conn'[c].client = k /\ conn'[c].cursor = fwd[k].cursor /\ conn'[c].batch = {}
          /\ fwd'[k].cursor = fwd[k].cursor
      BY <1>2, <2>2, <3>2 DEF Opens
    <3>4. PICK n \in Nat : n = fwd[k].cursor
      BY FlightTyped
    <3>5. Passed(k, n)'
      BY <3>3, <3>4, ProcessCovered DEF Covered
    <3>6. Done(k)' \subseteq Sent(k)'
      BY DEF Sent
    <3>7. Written(k, n)'
      BY <3>5, <3>6 DEF Passed, Written, Position
    <3> QED BY <3>3, <3>4, <3>7 DEF Fed
  <2> QED BY <2>1, <2>2
<1> QED BY <1>4, <1>5 DEF CoverInv, Fed

LEMMA RestartCovers ==
  ASSUME TypeInv, LinkInv, CoverInv, RestartServer, UNCHANGED forwardVars
  PROVE  CoverInv'
<1>1. Onward
  BY RestartTyped DEF Onward, RestartServer, Restart
<1>2. ASSUME NEW c \in Channels PROVE ~conn'[c].up
  <2>1. CASE conn[c].held
    <3> DEFINE x == [Closed EXCEPT !.pc = "done", !.client = conn[c].client,
                       !.source = conn[c].source, !.held = TRUE]
    <3>1. ~x.up
      BY DEF Closed
    <3> HIDE DEF x
    <3>2. conn'[c] = x
      BY <2>1 DEF RestartServer, x
    <3> QED BY <3>1, <3>2
  <2>2. CASE ~conn[c].held
    BY <2>2, ClosedFields DEF RestartServer
  <2> QED BY <2>1, <2>2
<1> QED BY <1>1, <1>2, QuietCovers DEF RestartServer

-----------------------------------------------------------------------------
(* The steps together.                                                     *)

FInv == TypeInv /\ LinkInv /\ QueueInv /\ CoverInv

LEMMA InitFInv == ForwardInit => FInv
<1> SUFFICES ASSUME ForwardInit PROVE FInv
  OBVIOUS
<1>1. TypeInv /\ LinkInv
  BY InitTyped
<1>2. \A c \in Channels : conn[c].batch = {} /\ ~conn[c].up
  BY ClosedFields DEF ForwardInit, StreamInit
<1>3. \A k \in Clients : fwd[k] = Down /\ file[k] = 0
  BY DEF ForwardInit
<1>4. \A k \in Clients : /\ fwd[k].pc = "down" /\ fwd[k].conn = None /\ fwd[k].cursor = 0
                         /\ InFlight(k) = {}
  BY <1>3 DEF Down, InFlight, Posting, Wired
<1>5. QueueInv
  BY <1>2, <1>4 DEF QueueInv, InOrder, Ahead, Numbered, Feeds, InFlight
<1>6. CoverInv
  BY <1>1, <1>2, <1>3, <1>4, PassedFromStart DEF CoverInv, Covered, Fed, Feeds
<1> QED BY <1>1, <1>5, <1>6 DEF FInv

LEMMA QuietKeepsFInv ==
  ASSUME FInv, IngestNext \/ UNCHANGED ingestVars, UNCHANGED <<streamVars, forwardVars>>
  PROVE  FInv'
<1>1. TypeInv'
  BY IngestForwardTyped DEF FInv
<1>2. conn' = conn /\ wire' = wire /\ skipped' = skipped /\ fwd' = fwd /\ handled' = handled
  BY DEF streamVars, forwardVars
<1>3. LinkInv'
  BY <1>2 DEF FInv, LinkInv, Linked, Holds
<1>4. ASSUME NEW k \in Clients PROVE InFlight(k)' = InFlight(k) /\ InOrder(k)'
  BY <1>2, FlightKept DEF FInv, QueueInv
<1>5. ASSUME NEW c \in Channels PROVE Ahead(c)'
  <2>1. CASE Feeds(c)
    <3>1. PICK k \in Clients : k = conn[c].client
      BY <2>1, FeedsFields DEF FInv
    <3> QED BY <1>2, <1>4, <3>1 DEF FInv, QueueInv, Ahead, Feeds
  <2>2. CASE ~Feeds(c)
    BY <1>2, <2>2 DEF FInv, QueueInv, Ahead, Feeds
  <2> QED BY <2>1, <2>2
<1>6. CoverInv'
  <2>1. Onward
    BY <1>1 DEF FInv, Onward, ingestVars, storeVars
  <2> QED BY <1>2, <2>1, QuietCovers DEF FInv
<1> QED BY <1>1, <1>3, <1>4, <1>5, <1>6 DEF FInv, QueueInv

LEMMA NextKeepsFInv == FInv /\ [ForwardNext]_vars => FInv'
<1> SUFFICES ASSUME FInv, [ForwardNext]_vars PROVE FInv'
  OBVIOUS
<1>1. CASE IngestNext /\ UNCHANGED <<streamVars, forwardVars>>
  BY <1>1, QuietKeepsFInv
<1>2. ASSUME NEW c \in Channels, HandlerMoves(c), UNCHANGED forwardVars
      PROVE  FInv'
  BY <1>2, HandlerTyped, HandlerLinks, HandlerQueues, HandlerCovers DEF FInv
<1>3. CASE RestartServer /\ UNCHANGED forwardVars
  BY <1>3, RestartTyped, RestartLinks, RestartQueues, RestartCovers DEF FInv
<1>4. ASSUME NEW k \in Clients, ProcessMoves(k)
      PROVE  FInv'
  BY <1>4, ProcessTyped, ProcessLinks, ProcessQueues, ProcessCovers DEF FInv
<1>5. CASE UNCHANGED vars
  BY <1>5, QuietKeepsFInv DEF vars
<1> QED BY <1>1, <1>2, <1>3, <1>4, <1>5 DEF ForwardNext, HandlerMoves, ProcessMoves

\* The inductive invariant holds in every state.
THEOREM ForwardInvariance == ForwardSpec => []FInv
BY InitFInv, NextKeepsFInv, PTL DEF ForwardSpec

\* Handler, connection, process and targets keep their types, with any number
\* of clients and any interleaving of faults (internal/subscribe, forward.go).
THEOREM ForwardTypeCorrect == ForwardSpec => []ForwardTypeOK
BY ForwardInvariance, PTL DEF FInv, TypeInv

LEMMA PassedCovers == FInv => FileCoversHandled
<1> SUFFICES ASSUME FInv, NEW k \in Clients, ~newestPruned[SourceOf[k]],
                    NEW e \in Rows(SourceOf[k]), e.sequence <= file[k]
             PROVE  Settled(k, e)
  BY DEF FileCoversHandled
<1>1. Position(Rows(SourceOf[k]), Done(k), 0, file[k])
  BY DEF FInv, CoverInv, Covered, Passed
<1>2. 0 < e.sequence
  <2>1. LogInv /\ SourceOf[k] \in Sources
    BY ForwardAssumption DEF FInv, TypeInv, IInv
  <2>2. e.sequence \in 1..Len(accepted[SourceOf[k]]) /\ Len(accepted[SourceOf[k]]) \in Nat
    BY <2>1 DEF LogInv, SequencesBounded, StoreTypeOK, Rows
  <2> QED BY <2>2
<1>3. e \in Done(k)
  BY <1>1, <1>2 DEF Position
<1> QED BY <1>3 DEF Done, Settled

\* A stored event that the cursor file has passed was answered with 2xx or left
\* out of a backlog as stale (forward.go:403-404, handler.go:247).
THEOREM FileCovers == ForwardSpec => []FileCoversHandled
BY ForwardInvariance, PassedCovers, PTL

LEMMA AcceptsInOrder ==
  ASSUME FInv, [ForwardNext]_vars, NEW k \in Clients, NEW e \in handled'[k] \ handled[k]
  PROVE  /\ TargetAccepts(k) /\ e = fwd[k].event /\ e.source = SourceOf[k]
         /\ ~newestPruned[e.source] =>
              \A f \in Rows(e.source) : f.sequence < e.sequence => Settled(k, f)
<1>1. handled \in [Clients -> SUBSET Event]
  BY DEF FInv, TypeInv, ForwardTypeOK
<1>2. handled' = handled \/ \E l \in Clients : TargetAccepts(l)
  BY DEF ForwardNext, RestartServer, StartForward, ForwardStep, StopForward, Connect, ConnectFails,
         Reconnect, ReadMessage, StreamFails, EndOfStream, SaveCursor, AnswerLost, FinishSave,
         forwardVars, vars
<1>3. PICK l \in Clients : TargetAccepts(l)
  BY <1>2
<1>4. TargetAccepts(k) /\ e = fwd[k].event /\ fwd[k].pc = "post"
  BY <1>1, <1>3 DEF TargetAccepts
<1>5. /\ e.source = SourceOf[k]
      /\ ~newestPruned[SourceOf[k]] =>
           \A f \in Rows(SourceOf[k]) : f.sequence < e.sequence => f \in Done(k)
  BY <1>4, PostedFollows DEF FInv
<1> QED BY <1>4, <1>5 DEF Done, Settled

\* The target processes no event for the first time while an earlier stored one
\* is open, across cut connections, crashes and restarts of either side.
THEOREM ForwardInOrder == ForwardSpec => ForwardedInOrder
<1>1. FInv /\ [ForwardNext]_vars =>
        [\A k \in Clients : \A e \in handled'[k] \ handled[k] :
           ~newestPruned[e.source] =>
             \A f \in Rows(e.source) : f.sequence < e.sequence => Settled(k, f)]_vars
  BY AcceptsInOrder
<1> QED BY <1>1, ForwardInvariance, PTL DEF ForwardSpec, ForwardedInOrder

-----------------------------------------------------------------------------
(* Wakeups.  A handler registers before its first read, and a signal that  *)
(* it has not taken stays in its channel.                                  *)

Attentive(c) ==
  /\ conn[c].pc \in {"start", "read", "emit", "select"} => c \in registered[conn[c].source]
  /\ conn[c].pc = "select" => Attended(c, conn[c].source, conn[c].cursor)

WakeInv == \A c \in Channels : Attentive(c)

\* A step that leaves the log, the requests, and c's place in the notifier.
LEMMA AttentiveKept ==
  ASSUME NEW c \in Channels, Attentive(c), UNCHANGED <<storeVars, req>>, signal'[c] = signal[c],
         \A s \in Sources : c \in registered[s] => c \in registered'[s],
         conn[c] \in Connection,
         conn'[c].pc = conn[c].pc, conn'[c].source = conn[c].source, conn'[c].cursor = conn[c].cursor
  PROVE  Attentive(c)'
<1>1. conn[c].source \in Sources
  BY DEF Connection
<1> QED BY <1>1 DEF Attentive, Attended, Announced, NewerThan, Rows, storeVars

\* A handler touches no other handler's channel.
LEMMA HandlerSignals ==
  ASSUME TypeInv, NEW c \in Channels, HandlerMoves(c), NEW d \in Channels \ {c}
  PROVE  /\ signal'[d] = signal[d]
         /\ \A s \in Sources : d \in registered[s] => d \in registered'[s]
<1>1. registered \in [Sources -> SUBSET Channels] /\ signal \in [Channels -> BOOLEAN]
  BY DEF TypeInv, IInv, IngestTypeOK, NotifierTypeOK
<1>2. CASE Register(c) \/ NoticeGone(c) \/ ReadFails(c)
  <2>1. /\ signal' = [signal EXCEPT ![c] = FALSE]
        /\ \/ registered' = [registered EXCEPT ![conn[c].source] = @ \cup {c}]
           \/ registered' = [registered EXCEPT ![conn[c].source] = @ \ {c}]
    BY <1>2 DEF Register, NoticeGone, ReadFails, ReturnFrom, Subscribe, Unsubscribe
  <2> QED BY <1>1, <2>1
<1>3. CASE StartBackfill(c) \/ ReadRows(c) \/ SkipStale(c) \/ WriteEvent(c) \/ WakeHandler(c) \/ Sever(c)
  <2>1. registered' = registered /\ signal' \in {signal, [signal EXCEPT ![c] = FALSE]}
    BY <1>3 DEF StartBackfill, ReadRows, SkipStale, WriteEvent, WakeHandler, Sever, TakeSignal,
                ingestVars, notifierVars
  <2> QED BY <1>1, <2>1
<1> QED BY <1>2, <1>3 DEF HandlerMoves, HandlerStep

LEMMA HandlerAttends ==
  ASSUME TypeInv, WakeInv, NEW c \in Channels, HandlerMoves(c)
  PROVE  WakeInv'
<1>1. /\ conn \in [Channels -> Connection \cup {Closed}] /\ conn[c] \in Connection
      /\ conn' = [conn EXCEPT ![c] = conn'[c]] /\ UNCHANGED <<storeVars, req>>
  BY HandlerBecomes, HandlerFrame DEF TypeInv, ForwardTypeOK, StreamTypeOK
<1>2. registered \in [Sources -> SUBSET Channels] /\ conn[c].source \in Sources /\ conn[c].cursor \in Nat
  BY <1>1 DEF TypeInv, IInv, IngestTypeOK, NotifierTypeOK, Connection
<1>3. Attentive(c)
  BY DEF WakeInv
<1>4. ASSUME NEW d \in Channels \ {c} PROVE Attentive(d)'
  <2>1. conn'[d] = conn[d] /\ Attentive(d)
    BY <1>1 DEF WakeInv
  <2>2. CASE conn[d] = Closed
    BY <2>1, <2>2, ClosedFields DEF Attentive
  <2>3. CASE conn[d] # Closed
    <3>1. conn[d] \in Connection
      BY <1>1, <2>3
    <3> QED BY <1>1, <2>1, <3>1, HandlerSignals, AttentiveKept
  <2> QED BY <2>2, <2>3
<1>5. Attentive(c)'
  <2>1. CASE Register(c)
    <3>1. /\ conn'[c] = [conn[c] EXCEPT !.pc = "start"]
          /\ registered' = [registered EXCEPT ![conn[c].source] = @ \cup {c}]
      BY <1>1, <2>1 DEF Register, Subscribe
    <3>2. conn'[c].pc = "start" /\ conn'[c].source = conn[c].source
      BY <1>1, <3>1 DEF Connection
    <3> QED BY <1>2, <3>1, <3>2 DEF Attentive
  <2>2. CASE StartBackfill(c) \/ WakeHandler(c) \/ SkipStale(c) \/ WriteEvent(c)
    <3>1. registered' = registered
      BY <2>2 DEF StartBackfill, WakeHandler, SkipStale, WriteEvent, TakeSignal, ingestVars, notifierVars
    <3>2. conn[c].pc \in {"start", "select", "emit"}
      BY <2>2 DEF StartBackfill, WakeHandler, SkipStale, WriteEvent
    <3>3. conn'[c].source = conn[c].source /\ conn'[c].pc \in {"read", "emit"}
      BY <1>1, <2>2 DEF StartBackfill, WakeHandler, SkipStale, WriteEvent, Advance, Connection
    <3> QED BY <1>3, <3>1, <3>2, <3>3 DEF Attentive
  <2>3. CASE ReadRows(c)
    <3>1. registered' = registered /\ conn[c].pc = "read"
      BY <2>3 DEF ReadRows, ingestVars
    <3>2. PICK s \in Sources, n \in Nat : s = conn[c].source /\ n = conn[c].cursor
      BY <1>2
    <3>3. conn'[c].source = s /\ conn'[c].cursor = n /\ conn'[c].pc \in {"select", "emit"}
      BY <1>1, <2>3, <3>2 DEF ReadRows, Connection
    <3>4. conn'[c].pc = "select" => ReadSince(s, n, BatchLimit) = {}
      BY <1>1, <2>3, <3>2 DEF ReadRows, Connection
    <3>5. ReadSince(s, n, BatchLimit) = {} => NewerThan(s, n) = {}
      BY StreamAssumption, OldestIsRead DEF TypeInv, IInv
    <3>6. NewerThan(s, n)' = NewerThan(s, n)
      BY <1>1 DEF NewerThan, Rows, storeVars
    <3> QED BY <1>3, <3>1, <3>2, <3>3, <3>4, <3>5, <3>6 DEF Attentive, Attended
  <2>4. CASE NoticeGone(c) \/ ReadFails(c)
    <3>1. conn[c] # Closed /\ ReturnFrom(c)
      BY <1>1, <2>4, ClosedFields DEF NoticeGone, ReadFails
    <3>2. conn'[c].pc \in {"done", "free"}
      BY <3>1, ReturnBecomes, ClosedFields
    <3> QED BY <3>2 DEF Attentive
  <2>5. CASE Sever(c)
    <3>1. conn'[c] = [conn[c] EXCEPT !.up = FALSE] /\ UNCHANGED <<registered, signal>>
      BY <1>1, <2>5 DEF Sever, ingestVars
    <3>2. conn'[c].pc = conn[c].pc /\ conn'[c].source = conn[c].source /\ conn'[c].cursor = conn[c].cursor
      BY <1>1, <3>1 DEF Connection
    <3> QED BY <1>1, <1>3, <3>1, <3>2, AttentiveKept
  <2> QED BY <2>1, <2>2, <2>3, <2>4, <2>5 DEF HandlerMoves, HandlerStep
<1> QED BY <1>4, <1>5 DEF WakeInv

LEMMA ProcessAttends ==
  ASSUME TypeInv, LinkInv, WakeInv, NEW k \in Clients, ProcessMoves(k), NEW c \in Channels
  PROVE  Attentive(c)'
<1>1. /\ conn \in [Channels -> Connection \cup {Closed}]
      /\ UNCHANGED <<storeVars, req, registered, signal>>
      /\ Alone(k) \/ Opens(k) \/ Drops(k) \/ GoesOn(k)
  BY ProcessBecomes DEF TypeInv, ForwardTypeOK, StreamTypeOK, ingestVars, storeVars
<1>2. Attentive(c)
  BY DEF WakeInv
<1>3. CASE conn'[c].pc \in {"free", "accepted"}
  BY <1>3 DEF Attentive
<1>4. CASE /\ conn[c] \in Connection /\ conn'[c].pc = conn[c].pc
           /\ conn'[c].source = conn[c].source /\ conn'[c].cursor = conn[c].cursor
  BY <1>1, <1>2, <1>4, AttentiveKept
<1>5. CASE conn'[c] = conn[c]
  BY <1>1, <1>3, <1>4, <1>5, ClosedFields
<1>6. CASE conn'[c] # conn[c] /\ Opens(k)
  <2>1. conn'[c].pc = "accepted"
    BY <1>1, <1>6 DEF Opens
  <2> QED BY <1>3, <2>1
<1>7. CASE conn'[c] # conn[c] /\ Drops(k)
  <2>1. Hangs(c) /\ conn[c].held
    BY <1>1, <1>7 DEF Drops, Hangs
  <2> QED BY <1>1, <1>3, <1>4, <2>1, ClosedFields DEF Hangs
<1> QED BY <1>1, <1>5, <1>6, <1>7 DEF Alone, GoesOn

LEMMA NextKeepsWakeInv == FInv /\ WakeInv /\ [ForwardNext]_vars => WakeInv'
<1> SUFFICES ASSUME FInv, WakeInv, [ForwardNext]_vars PROVE WakeInv'
  OBVIOUS
<1>1. TypeInv /\ LinkInv /\ IInv /\ conn \in [Channels -> Connection \cup {Closed}]
  BY DEF FInv, TypeInv, ForwardTypeOK, StreamTypeOK
<1>2. CASE IngestNext /\ UNCHANGED <<streamVars, forwardVars>>
  <2> SUFFICES ASSUME NEW c \in Channels PROVE Attentive(c)'
    BY DEF WakeInv
  <2>1. Attentive(c) /\ conn' = conn
    BY <1>2 DEF WakeInv, streamVars
  <2>2. CASE conn[c] = Closed
    BY <2>1, <2>2, ClosedFields DEF Attentive
  <2>3. CASE conn[c] # Closed
    <3>1. PICK s \in Sources, n \in Nat : s = conn[c].source /\ n = conn[c].cursor
      BY <1>1, <2>3 DEF Connection
    <3>2. registered' = registered
      BY <1>2 DEF IngestNext, RequestStep, VerifyRequest, StampRequest, AnswerDuplicate, AcceptRequest,
         FailRequest, PublishEvent, PruneSource, PruneOlderThan, ReplayWake, Tick, Publish, notifierVars
    <3>3. ASSUME conn[c].pc = "select" PROVE Attended(c, s, n)'
      BY <1>1, <1>2, <2>1, <3>1, <3>3, IngestAttends DEF Attentive
    <3> QED BY <2>1, <3>1, <3>2, <3>3 DEF Attentive
  <2> QED BY <2>2, <2>3
<1>3. ASSUME NEW c \in Channels, HandlerMoves(c) PROVE WakeInv'
  BY <1>1, <1>3, HandlerAttends
<1>4. CASE RestartServer
  <2> SUFFICES ASSUME NEW c \in Channels PROVE conn'[c].pc \in {"done", "free"}
    BY DEF WakeInv, Attentive
  <2>1. CASE conn[c].held
    <3> DEFINE x == [Closed EXCEPT !.pc = "done", !.client = conn[c].client,
                       !.source = conn[c].source, !.held = TRUE]
    <3>1. x.pc = "done"
      BY DEF Closed
    <3> HIDE DEF x
    <3>2. conn'[c] = x
      BY <1>4, <2>1 DEF RestartServer, x
    <3> QED BY <3>1, <3>2
  <2>2. CASE ~conn[c].held
    BY <1>4, <2>2, ClosedFields DEF RestartServer
  <2> QED BY <2>1, <2>2
<1>5. ASSUME NEW k \in Clients, ProcessMoves(k) PROVE WakeInv'
  BY <1>1, <1>5, ProcessAttends DEF WakeInv
<1>6. CASE UNCHANGED vars
  BY <1>6 DEF vars, streamVars, ingestVars, WakeInv, Attentive, Attended, Announced, NewerThan, Rows
<1> QED BY <1>2, <1>3, <1>4, <1>5, <1>6 DEF ForwardNext, HandlerMoves, ProcessMoves

\* A handler that waits has written everything, or is about to be woken: no gap
\* between registration and backlog (handler.go:151-153).
THEOREM SelectAttended == ForwardSpec => []SelectMissesNothing
<1>1. ForwardInit => WakeInv
  BY ClosedFields DEF ForwardInit, StreamInit, WakeInv, Attentive
<1>2. WakeInv => SelectMissesNothing
  BY DEF WakeInv, Attentive, Attended, Announced, SelectMissesNothing
<1> QED BY <1>1, <1>2, NextKeepsWakeInv, ForwardInvariance, PTL DEF ForwardSpec

-----------------------------------------------------------------------------
(* Refinement of Feed.                                                     *)

Stored(k) == {e.sequence : e \in Rows(SourceOf[k])}
Taken(k) == {e.sequence : e \in handled[k]}
Omitted(k) == {e.sequence : e \in skipped[k]}

LEMMA FeedDelivers ==
  ASSUME NEW k \in Clients, Taken(k) \subseteq Taken(k)',
         \A n \in Taken(k)' \ Taken(k) : \A m \in Stored(k) :
           0 < m /\ m < n => m \in Taken(k) \cup Omitted(k),
         UNCHANGED <<storeVars, skipped, file>>
  PROVE  FeedOf!Deliver(k)
<1> USE DEF Stored, Taken, Omitted, Rows
<1> QED BY DEF FeedOf!Deliver, FeedOf!Settled, FeedOf!StoreSame, FeedOf!PositionSame, storeVars

LEMMA FeedLeavesOut ==
  ASSUME NEW k \in Clients, Omitted(k) \subseteq Omitted(k)', UNCHANGED <<storeVars, handled, file>>
  PROVE  FeedOf!LeaveOut(k)
<1> USE DEF Omitted, Rows
<1> QED BY DEF FeedOf!LeaveOut, FeedOf!StoreSame, FeedOf!PositionSame, storeVars

LEMMA FeedMoves ==
  ASSUME NEW k \in Clients, file'[k] \in Int,
         file'[k] <= 0 \/ \E m \in Stored(k) : file'[k] <= m,
         \A m \in Stored(k) : 0 < m /\ m <= file'[k] => m \in Taken(k) \cup Omitted(k),
         UNCHANGED <<storeVars, handled, skipped>>
  PROVE  FeedOf!Move(k)
<1> USE DEF Stored, Taken, Omitted, Rows
<1> QED BY DEF FeedOf!Move, FeedOf!Settled, FeedOf!StoreSame, FeedOf!ConsumerSame, storeVars

LEMMA FeedStores ==
  ASSUME NEW k \in Clients, Stored(k) \subseteq Stored(k)', Stored(k)' \subseteq Nat,
         \A n \in Stored(k)' \ Stored(k) : \A m \in Stored(k) : m < n,
         newestPruned'[SourceOf[k]] = newestPruned[SourceOf[k]], UNCHANGED <<handled, skipped, file>>
  PROVE  FeedOf!Store(k)
<1> USE DEF Stored, Rows
<1> QED BY DEF FeedOf!Store, FeedOf!PositionSame, FeedOf!ConsumerSame

LEMMA FeedPrunes ==
  ASSUME NEW k \in Clients, Stored(k)' \subseteq Stored(k),
         newestPruned'[SourceOf[k]] = (newestPruned[SourceOf[k]] \/
           \E n \in Stored(k) \ Stored(k)' : \A m \in Stored(k)' : m <= n),
         UNCHANGED <<handled, skipped, file>>
  PROVE  FeedOf!Prune(k)
<1> USE DEF Stored, Rows
<1> QED BY DEF FeedOf!Prune, FeedOf!PositionSame, FeedOf!ConsumerSame

LEMMA FeedStarts == ForwardInit => FeedOf!FeedInit
BY ForwardAssumption
DEF ForwardInit, StreamInit, IngestInit, StoreInit, FeedOf!FeedInit, Rows

LEMMA IngestFeeds ==
  ASSUME FInv, TypeInv', IngestNext, UNCHANGED <<handled, skipped, file>>, NEW k \in Clients
  PROVE  FeedOf!Promised(k)
<1>1. IInv /\ IInv'
  BY DEF FInv, TypeInv
<1>2. PICK src \in Sources : src = SourceOf[k]
  BY ForwardAssumption
<1>3. Numbered(Rows(src)) /\ Numbered(Rows(src)')
  BY <1>1 DEF IInv, LogInv, StoreTypeOK, UniqueSequences, Event, Rows, Numbered
<1>4. CASE Grown(Rows(src), Rows(src)') /\ newestPruned'[src] = newestPruned[src]
  <2>1. /\ Stored(k) \subseteq Stored(k)' /\ Stored(k)' \subseteq Nat
        /\ \A n \in Stored(k)' \ Stored(k) : \A m \in Stored(k) : m < n
    BY <1>2, <1>3, <1>4 DEF Grown, Numbered, Stored
  <2>2. FeedOf!Store(k)
    BY <1>2, <1>4, <2>1, FeedStores
  <2> QED BY <2>2 DEF FeedOf!Promised
<1>5. CASE /\ Rows(src)' \subseteq Rows(src)
           /\ newestPruned'[src] = (newestPruned[src] \/ Outlived(Rows(src), Rows(src)'))
  <2>1. Stored(k)' \subseteq Stored(k)
    BY <1>2, <1>5 DEF Stored
  <2>2. Outlived(Rows(src), Rows(src)') <=>
          \E n \in Stored(k) \ Stored(k)' : \A m \in Stored(k)' : m <= n
    BY <1>2, <1>3, <1>5 DEF Outlived, Numbered, Stored
  <2>3. FeedOf!Prune(k)
    BY <1>2, <1>5, <2>1, <2>2, FeedPrunes
  <2> QED BY <2>3 DEF FeedOf!Promised
<1> QED BY <1>1, <1>4, <1>5, LogStep

\* Where a file stands is a position, whoever wrote it.
LEMMA FileMoves ==
  ASSUME FInv', NEW k \in Clients, ~newestPruned[SourceOf[k]],
         UNCHANGED <<storeVars, handled, skipped>>
  PROVE  FeedOf!Move(k)
<1>1. file'[k] \in Nat
  BY FlightTyped DEF FInv, TypeInv, ForwardTypeOK
<1>2. Rows(SourceOf[k])' = Rows(SourceOf[k]) /\ Done(k)' = Done(k)
      /\ newestPruned' = newestPruned
  BY DEF storeVars, Rows, Done
<1>3. Passed(k, file[k])'
  BY DEF FInv, CoverInv, Covered
<1>4. Position(Rows(SourceOf[k]), Done(k), 0, file'[k])
  BY <1>2, <1>3 DEF Passed
<1>5. \A m \in Stored(k) : 0 < m /\ m <= file'[k] => m \in Taken(k) \cup Omitted(k)
  <2> TAKE m \in Stored(k)
  <2> HAVE 0 < m /\ m <= file'[k]
  <2>1. PICK e \in Rows(SourceOf[k]) : e.sequence = m
    BY DEF Stored
  <2>2. e \in Done(k)
    BY <1>4, <2>1 DEF Position
  <2> QED BY <2>1, <2>2 DEF Done, Taken, Omitted
<1>6. file'[k] <= 0 \/ \E m \in Stored(k) : file'[k] <= m
  BY <1>4 DEF Position, Stored
<1> QED BY <1>1, <1>5, <1>6, FeedMoves

LEMMA AcceptFeeds ==
  ASSUME FInv, NEW l \in Clients, TargetAccepts(l), NEW k \in Clients, ~newestPruned[SourceOf[k]]
  PROVE  FeedOf!Deliver(k)
<1>1. UNCHANGED <<storeVars, skipped, file>>
  BY DEF TargetAccepts, streamVars, ingestVars, storeVars
<1>2. handled \in [Clients -> SUBSET Event] /\ [ForwardNext]_vars
  BY DEF FInv, TypeInv, ForwardTypeOK, ForwardNext
<1>3. handled[k] \subseteq handled'[k]
  BY <1>2 DEF TargetAccepts
<1>4. ASSUME NEW n \in Taken(k)' \ Taken(k), NEW m \in Stored(k), 0 < m, m < n
      PROVE  m \in Taken(k) \cup Omitted(k)
  <2>1. PICK e \in handled'[k] \ handled[k] : e.sequence = n
    BY <1>4 DEF Taken
  <2>2. PICK f \in Rows(SourceOf[k]) : f.sequence = m
    BY <1>4 DEF Stored
  <2>3. Settled(k, f)
    BY <1>2, <1>4, <2>1, <2>2, AcceptsInOrder
  <2> QED BY <2>2, <2>3 DEF Settled, Taken, Omitted
<1>5. Taken(k) \subseteq Taken(k)'
  BY <1>3 DEF Taken
<1> QED BY <1>1, <1>4, <1>5, FeedDelivers

LEMMA NextFeeds ==
  ASSUME FInv, FInv', ForwardNext, NEW k \in Clients
  PROVE  FeedOf!Promised(k) \/ (newestPruned[SourceOf[k]] /\ newestPruned'[SourceOf[k]])
<1>1. CASE IngestNext /\ UNCHANGED <<streamVars, forwardVars>>
  <2>1. UNCHANGED <<handled, skipped, file>>
    BY <1>1 DEF streamVars, forwardVars
  <2> QED BY <1>1, <2>1, IngestFeeds DEF FInv
<1>2. ASSUME NEW c \in Channels, HandlerMoves(c), UNCHANGED forwardVars
      PROVE  FeedOf!Promised(k)
  <2>1. UNCHANGED <<storeVars, handled, file>>
    BY <1>2, HandlerFrame DEF FInv, forwardVars
  <2>2. skipped \in [Clients -> SUBSET Event] /\ (Waits(c) \/ Reads(c) \/ Emits(c) \/ Returns(c))
    BY <1>2, HandlerBecomes DEF FInv, TypeInv, ForwardTypeOK, StreamTypeOK
  <2>3. skipped[k] \subseteq skipped'[k]
    BY <2>2 DEF Waits, Reads, Emits, Returns
  <2>4. Omitted(k) \subseteq Omitted(k)'
    BY <2>3 DEF Omitted
  <2>5. FeedOf!LeaveOut(k)
    BY <2>1, <2>4, FeedLeavesOut
  <2> QED BY <2>5 DEF FeedOf!Promised
<1>3. ASSUME NEW l \in Clients, TargetAccepts(l), ~newestPruned[SourceOf[k]]
      PROVE  FeedOf!Promised(k)
  BY <1>3, AcceptFeeds DEF FeedOf!Promised
<1>4. ASSUME UNCHANGED <<storeVars, handled, skipped>>, ~newestPruned[SourceOf[k]]
      PROVE  FeedOf!Promised(k)
  BY <1>4, FileMoves DEF FeedOf!Promised
<1>5. ASSUME \/ RestartServer /\ UNCHANGED forwardVars
             \/ \E l \in Clients : ProcessMoves(l)
      PROVE  \/ \E l \in Clients : TargetAccepts(l)
             \/ UNCHANGED <<storeVars, handled, skipped>>
  BY <1>5 DEF RestartServer, Restart, forwardVars, ProcessMoves, StartForward, ForwardStep,
              StopForward, Connect, Accept, ConnectFails, Reconnect, ReadMessage, StreamFails,
              EndOfStream, SaveCursor, AnswerLost, FinishSave, streamVars, ingestVars, storeVars
<1>6. (\E l \in Clients : TargetAccepts(l)) => UNCHANGED storeVars
  BY DEF TargetAccepts, ingestVars, storeVars
<1>7. UNCHANGED storeVars => newestPruned' = newestPruned
  BY DEF storeVars
<1> QED BY <1>1, <1>2, <1>3, <1>4, <1>5, <1>6, <1>7 DEF ForwardNext, HandlerMoves, ProcessMoves

\* A forwarder is a consumer of the same feed as a push subscription: no cut,
\* crash or restart of either side lets its file pass an unsettled event.
THEOREM ForwardRefinesFeed == ForwardSpec => ForwardImplementsFeed
<1>1. FInv /\ FInv' /\ [ForwardNext]_vars => [FeedOf!FeedNext]_(FeedOf!feedVars)
  <2>1. ASSUME FInv, FInv', ForwardNext PROVE FeedOf!FeedNext
    <3> SUFFICES ASSUME NEW k \in Clients
                 PROVE  FeedOf!Promised(k) \/ (newestPruned[SourceOf[k]] /\ newestPruned'[SourceOf[k]])
      BY DEF FeedOf!FeedNext
    <3> QED BY <2>1, NextFeeds
  <2>2. UNCHANGED vars => UNCHANGED FeedOf!feedVars
    BY DEF vars, ingestVars, streamVars, forwardVars, FeedOf!feedVars, Rows
  <2> QED BY <2>1, <2>2
<1> QED BY <1>1, FeedStarts, ForwardInvariance, PTL DEF ForwardSpec, ForwardImplementsFeed, FeedOf!FeedSpec
=============================================================================
