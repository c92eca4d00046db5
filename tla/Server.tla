------------------------------- MODULE Server -------------------------------
(***************************************************************************)
(* The collection server: server/client_handler.c on top of Database, as   *)
(* driven by the event loop (lib/ocomm/eventloop.c).                       *)
(*                                                                         *)
(* The server is one thread.  The event loop calls client_callback() with  *)
(* the bytes of one recv(), and status_callback() when a connection ends;  *)
(* callbacks of different connections alternate in any order, and a recv() *)
(* may return any part of what the peer has sent.  Between two lines of a  *)
(* callback only a signal handler or the end of the process can intervene, *)
(* so a step is one line of input.                                         *)
(*                                                                         *)
(* A connection slot is reused after its handler has been freed.  The      *)
(* buffer of a handler is the MBuffer of MBuf seen as the sequence of its  *)
(* complete lines (binary: messages); an incomplete one at its end is      *)
(* invisible to read_line() and unmarshal_init().                          *)
(***************************************************************************)
EXTENDS Database

CONSTANTS
  Conns,        \* connection slots
  Domains,      \* names of experimental domains
  Scripts,      \* what a peer may send: sequences of lines
  Faults,       \* failures that may happen, see Adversity
  MaxRecv,      \* bound: lines that fit in the buffer of one recv()
  MaxConns,     \* bound: connections accepted
  MaxLuck,      \* bound: failures
  NoOne, NoDb   \* no connection, NULL database

ASSUME ServerAssumption ==
  /\ NoOne \notin Conns /\ NoDb \notin Domains
  /\ Faults \subseteq {"open", "create", "insert", "sender", "socket", "kill", "sigterm"}
  /\ MaxRecv \in Nat \ {0} /\ MaxConns \in Nat /\ MaxLuck \in Nat
  /\ IsFiniteSet(Conns)

Lines == UNION {{s[i] : i \in 1 .. Len(s)} : s \in Scripts}

Names == {line.value : line \in {l \in Lines : l.key = "sender-id"}}
Times == {line.value : line \in {l \in Lines : l.key = "start-time"}}

\* A client has one name and one start time, and counts the time of its
\* samples from there; a sample is taken at ts after the start, by the client
\* itself.  The headers that identify it (write_meta() of the client) follow
\* the one that names the domain, and come before any schema.
Speaks(s, n, t) ==
  \A i \in 1 .. Len(s) :
    /\ s[i].key = "sender-id" => s[i].value = n
    /\ s[i].key = "start-time" => s[i].value = t
    /\ s[i].key \in {"row", "meta"} =>
         s[i].sender = n /\ s[i].ts \in Int /\ s[i].at = s[i].ts + t
    /\ s[i].key = "schema" => \A key \in {"sender-id", "start-time"} :
         \E j \in 1 .. i - 1 : s[j].key = key
    /\ s[i].key = "domain" => \A key \in {"sender-id", "start-time"} :
         \A j \in 1 .. i - 1 : s[j].key # key

\* The start time is that of a clock, never 0.
ASSUME ScriptsAssumption ==
  /\ Scripts \subseteq Seq(Lines)
  /\ \A line \in Lines :
       /\ line.key = "domain" => line.value \in Domains
       /\ line.key = "start-time" => line.value \in Int \ {0}
  /\ \A s \in Scripts : \E n \in Names \cup {NoOne}, t \in Times \cup {1} : Speaks(s, n, t)

VARIABLES
  phase,        \* the process: "up", "stopping" after a signal, "down"
  running,      \* the connection whose callback runs, or NoOne
  handler,      \* ClientHandler of each slot
  chan,         \* its channel: "none", "active" or "inactive"
  buf,          \* lines in the handler's buffer
  net,          \* lines sent by the peer and not received
  eof,          \* the peer has closed its end
  store,        \* the domains: see Database
  conns, luck   \* counters for the bounds

vars == <<phase, running, handler, chan, buf, net, eof, store, conns, luck>>
connVars == <<chan, net, eof, conns>>

\* client_handler_new()
NewHandler ==
  [state |-> "C_HEADER", content |-> "C_TEXT_DATA", database |-> NoDb, gen |-> 0,
   sender_id |-> 0, time_offset |-> 0, tables |-> <<>>]
FreeHandler == [NewHandler EXCEPT !.state = "free"]

Live(c) == handler[c].state # "free"

Adversity(f) == f \in Faults /\ luck < MaxLuck /\ luck' = luck + 1
NoAdversity == UNCHANGED luck

Init ==
  /\ phase = "up" /\ running = NoOne
  /\ handler = [c \in Conns |-> FreeHandler]
  /\ chan = [c \in Conns |-> "none"]
  /\ buf = [c \in Conns |-> <<>>] /\ net = [c \in Conns |-> <<>>]
  /\ eof = [c \in Conns |-> FALSE]
  /\ store = [d \in Domains |-> NewDomain]
  /\ conns = 0 /\ luck = 0

-----------------------------------------------------------------------------
(* The peers.                                                              *)

\* on_connect()
Connect(c) ==
  /\ phase = "up" /\ running = NoOne /\ ~Live(c) /\ conns < MaxConns
  /\ \E s \in Scripts : net' = [net EXCEPT ![c] = s]
  /\ handler' = [handler EXCEPT ![c] = NewHandler]
  /\ chan' = [chan EXCEPT ![c] = "active"]
  /\ eof' = [eof EXCEPT ![c] = FALSE]
  /\ buf' = [buf EXCEPT ![c] = <<>>]
  /\ conns' = conns + 1
  /\ UNCHANGED <<phase, running, store, luck>>

\* The peer stops, with or without sending the rest.
PeerCloses(c) ==
  /\ chan[c] = "active" /\ ~eof[c]
  /\ eof' = [eof EXCEPT ![c] = TRUE]
  /\ \E rest \in {net[c], <<>>} : net' = [net EXCEPT ![c] = rest]
  /\ UNCHANGED <<phase, running, handler, chan, buf, store, conns, luck>>

-----------------------------------------------------------------------------
(* client_callback().                                                      *)

\* A recv() returns what has arrived: some complete lines, or only part of
\* one, which still makes the callback look at what it left in the buffer.
Recv(c) ==
  /\ phase = "up" /\ running = NoOne /\ chan[c] = "active" /\ net[c] # <<>>
  /\ \E n \in 0 .. MaxRecv :
       /\ n <= Len(net[c]) /\ (n = 0 => buf[c] # <<>>)
       /\ buf' = [buf EXCEPT ![c] = @ \o SubSeq(net[c], 1, n)]
       /\ net' = [net EXCEPT ![c] = SubSeq(@, n + 1, Len(@))]
  /\ running' = c
  /\ UNCHANGED <<phase, handler, chan, eof, store, conns, luck>>

Line(c) == Head(buf[c])
Taken(c) == buf' = [buf EXCEPT ![c] = Tail(@)]

\* The callback looks at the next line in one of these states.
In(c, states) ==
  /\ phase # "down" /\ running = c /\ handler[c].state \in states /\ buf[c] # <<>>
  /\ UNCHANGED <<phase, connVars>>
Handling(c) == UNCHANGED running

Fatal(c) == handler' = [handler EXCEPT ![c].state = "C_PROTOCOL_ERROR"]

\* No complete line is left: mbuf_repack_message() and return.
CallbackEnds(c) ==
  /\ phase # "down" /\ running = c /\ buf[c] = <<>>
  /\ handler[c].state # "C_PROTOCOL_ERROR"
  /\ running' = NoOne
  /\ UNCHANGED <<phase, handler, chan, buf, net, eof, store, conns, luck>>

-----------------------------------------------------------------------------
(* Headers: process_header() and process_meta().                           *)

Header(c, key) == In(c, {"C_HEADER"}) /\ Line(c).key = key /\ Taken(c) /\ Handling(c)

MetaProtocol(c) ==
  /\ Header(c, "protocol")
  /\ IF Line(c).value \in 1 .. 5 THEN UNCHANGED handler ELSE Fatal(c)
  /\ UNCHANGED store /\ NoAdversity

\* domain: self->database = database_find(value).
MetaDomain(c) ==
  /\ Header(c, "domain")
  /\ LET d == Line(c).value
     IN  \/ /\ store' = [store EXCEPT ![d] = database_find(@)]
            /\ handler' = [handler EXCEPT ![c].database = d, ![c].gen = store'[d].db.gen]
            /\ NoAdversity
         \/ /\ ~IsOpen(store[d]) /\ Adversity("open")
            /\ handler' = [handler EXCEPT ![c].database = NoDb,
                                          ![c].state = "C_PROTOCOL_ERROR"]
            /\ UNCHANGED store

\* The offset added to the client's time stamps.
\* Variant: the wrong sign.
OffsetReversed(s, t) == SeedStartTime(s, t).db.start_time - t
TimeOffset(s, t) == t - SeedStartTime(s, t).db.start_time

MetaStartTime(c) ==
  /\ Header(c, "start-time")
  /\ LET d == handler[c].database
         t == Line(c).value
     IN  \/ d = NoDb /\ Fatal(c) /\ UNCHANGED store
         \/ /\ d # NoDb
            /\ handler' = [handler EXCEPT ![c].time_offset = TimeOffset(store[d], t)]
            /\ store' = [store EXCEPT ![d] = SeedStartTime(@, t)]
  /\ NoAdversity

MetaSenderId(c) ==
  /\ Header(c, "sender-id")
  /\ LET d == handler[c].database
         n == Line(c).value
     IN  \/ d = NoDb /\ Fatal(c) /\ UNCHANGED store /\ NoAdversity
         \/ /\ d # NoDb
            /\ handler' = [handler EXCEPT ![c].sender_id = SenderId(store[d], n)]
            /\ \/ store' = [store EXCEPT ![d] = add_sender_id(@, n)] /\ NoAdversity
               \/ /\ n \notin DOMAIN store[d].file.senders /\ Adversity("sender")
                  /\ store' = [store EXCEPT ![d] = SenderNotStored(@, n)]

MetaContent(c) ==
  /\ Header(c, "content")
  /\ IF Line(c).value \in {"C_TEXT_DATA", "C_BINARY_DATA"}
     THEN handler' = [handler EXCEPT ![c].content = Line(c).value]
     ELSE Fatal(c)
  /\ UNCHANGED store /\ NoAdversity

\* app-name, and keys that are not known.
MetaOther(c) == Header(c, "other") /\ UNCHANGED <<handler, store>> /\ NoAdversity

\* A line without a colon.
MetaMalformed(c) ==
  /\ \E key \in {"row", "meta", "junk"} : Header(c, key)
  /\ Fatal(c)
  /\ UNCHANGED store /\ NoAdversity

\* The empty line.
HeaderDone(c) ==
  /\ Header(c, "end")
  /\ handler' = [handler EXCEPT ![c].state = handler[c].content]
  /\ UNCHANGED store /\ NoAdversity

\* process_schema(), for a schema in the headers or in the metadata.
Unusable(d, line) ==
  \/ d = NoDb \/ line.fields = <<>>
  \/ Usable(store[d], line.name, line.fields) = {}

\* client_realloc_tables(): a stream redefined by its client changes table.
Bound(tables, i, t) == [j \in DOMAIN tables \cup {i} |-> IF j = i THEN t ELSE tables[j]]

process_schema(c, line, tables) ==
  LET d == handler[c].database
      n == TableName(store[d], line.name, line.fields)
      known == n \in DOMAIN store[d].db.tables
  IN  \/ Unusable(d, line) /\ Fatal(c) /\ UNCHANGED store /\ NoAdversity
      \/ /\ ~Unusable(d, line)
         /\ handler' = [handler EXCEPT ![c].tables =
              Bound(tables, line.index, [domain |-> d, gen |-> handler[c].gen, name |-> n])]
         /\ store' = IF known THEN store
                     ELSE [store EXCEPT ![d] = TableCreated(@, n, line.fields)]
         /\ NoAdversity
      \/ /\ ~Unusable(d, line) /\ ~known /\ Adversity("create")
         /\ Fatal(c) /\ UNCHANGED store

MetaSchema(c) == Header(c, "schema") /\ process_schema(c, Line(c), handler[c].tables)

-----------------------------------------------------------------------------
(* Data: process_text_message() and process_bin_message().                 *)

Data(c, key) ==
  In(c, {"C_TEXT_DATA", "C_BINARY_DATA"}) /\ Line(c).key = key /\ Taken(c) /\ Handling(c)

\* table_index < table_count
InBounds(c, i) == \E j \in DOMAIN handler[c].tables : i <= j

Columns(t) == store[t.domain].db.tables[t.name]

\* Is the row stored?  Both formats check the stream and the number of
\* values; only binary values carry types that the insertion compares.
Accepted(c, line) ==
  /\ InBounds(c, line.index) /\ line.index \in DOMAIN handler[c].tables
  /\ LET columns == Columns(handler[c].tables[line.index])
     IN  /\ Len(line.fields) = Len(columns)
         /\ handler[c].state = "C_BINARY_DATA" => line.fields = columns

\* sq3_insert(): at most once per second the transaction is closed first.
\* The table's prepared statement decides where the row goes.
Reopened(d) == [store EXCEPT ![d] = dba_reopen_transaction(@)]
sq3_insert(c, t, row) ==
  LET d == handler[c].database
  IN  \E s \in {store, Reopened(d)} :
        \/ store' = [s EXCEPT ![t.domain] = Inserted(@, row)] /\ NoAdversity
        \/ store' = s /\ Adversity("insert")

StoredRow(c, line, t) ==
  [table |-> t.name, fields |-> line.fields, id |-> handler[c].sender_id,
   ts |-> line.ts + handler[c].time_offset, sender |-> line.sender,
   at |-> line.at, seq |-> line.seq]

RowInserted(c) ==
  /\ Data(c, "row") /\ Accepted(c, Line(c))
  /\ LET t == handler[c].tables[Line(c).index]
     IN  sq3_insert(c, t, StoredRow(c, Line(c), t))
  /\ UNCHANGED handler

RowDropped(c) ==
  /\ Data(c, "row") /\ ~Accepted(c, Line(c))
  /\ UNCHANGED <<handler, store>> /\ NoAdversity

\* Stream 0.  A stream 0 that the client has not declared is looked up when
\* it is first used, provided that some stream has been declared.
Stream0(c) ==
  IF 0 \in DOMAIN handler[c].tables THEN handler[c].tables[0]
  ELSE [domain |-> handler[c].database, gen |-> handler[c].gen, name |-> MetaName]

WithStream0(c) ==
  IF InBounds(c, 0) THEN Added(handler[c].tables, 0, Stream0(c)) ELSE <<>>

HeaderKeys == {"protocol", "domain", "start-time", "sender-id", "content"}

\* A new schema after the headers.
MetadataSchema(c) ==
  /\ Data(c, "meta") /\ InBounds(c, 0)
  /\ Line(c).subject = "." /\ Line(c).line.key = "schema"
  /\ process_schema(c, Line(c).line, WithStream0(c))

\* Metadata about something else than the experiment, or with a key that
\* process_meta() does not know, is stored.
MetadataStored(c) ==
  /\ Data(c, "meta") /\ InBounds(c, 0)
  /\ Line(c).subject # "." \/ Line(c).line.key \notin HeaderKeys \cup {"schema"}
  /\ handler' = [handler EXCEPT ![c].tables = WithStream0(c)]
  /\ sq3_insert(c, Stream0(c), StoredRow(c, Line(c), Stream0(c)))

MetadataIgnored(c) ==
  /\ Data(c, "meta")
  /\ ~InBounds(c, 0) \/ (Line(c).subject = "." /\ Line(c).line.key \in HeaderKeys)
  /\ handler' = [handler EXCEPT ![c].tables = WithStream0(c)]
  /\ UNCHANGED store /\ NoAdversity

\* Fewer than 3 or at least DEF_NUM_VALUES values, or a binary message of an
\* unknown type: the line is taken and the callback ends there.
BadLine(c) ==
  /\ In(c, {"C_TEXT_DATA", "C_BINARY_DATA"})
  /\ Line(c).key \notin {"row", "meta"}
  /\ Taken(c)
  /\ running' = NoOne
  /\ UNCHANGED <<handler, store>> /\ NoAdversity

-----------------------------------------------------------------------------
(* client_handler_free(), and what leads to it.                            *)

Reset(f, c, v) == [f EXCEPT ![c] = v]

ReleaseDatabase(c) ==
  store' = IF handler[c].database = NoDb THEN store
           ELSE [store EXCEPT ![handler[c].database] = database_release(@)]

client_handler_free(c) ==
  /\ ReleaseDatabase(c)
  /\ handler' = Reset(handler, c, FreeHandler)
  /\ chan' = Reset(chan, c, "none") /\ eof' = Reset(eof, c, FALSE)
  /\ buf' = Reset(buf, c, <<>>) /\ net' = Reset(net, c, <<>>)

\* C_PROTOCOL_ERROR, at the end of the callback.
Disconnect(c) ==
  /\ phase # "down" /\ running = c /\ handler[c].state = "C_PROTOCOL_ERROR"
  /\ client_handler_free(c)
  /\ running' = NoOne
  /\ UNCHANGED <<phase, conns, luck>>

\* status_callback(): SOCKET_CONN_CLOSED once everything has been read.
PeerClosed(c) ==
  /\ phase = "up" /\ running = NoOne /\ chan[c] = "active" /\ eof[c] /\ net[c] = <<>>
  /\ client_handler_free(c)
  /\ UNCHANGED <<phase, running, conns, luck>>

\* SOCKET_IDLE: nothing received for the socket timeout.
Idle(c) ==
  /\ phase = "up" /\ running = NoOne /\ chan[c] = "active" /\ ~eof[c] /\ net[c] = <<>>
  /\ client_handler_free(c)
  /\ UNCHANGED <<phase, running, conns, luck>>

\* SOCKET_UNKNOWN, SOCKET_CONN_REFUSED, SOCKET_DROPPED: the event loop
\* deactivates the channel, status_callback() only logs.
SocketFails(c) ==
  /\ phase = "up" /\ running = NoOne /\ chan[c] = "active" /\ Adversity("socket")
  /\ chan' = Reset(chan, c, "inactive") /\ net' = Reset(net, c, <<>>)
  /\ UNCHANGED <<phase, running, handler, buf, eof, store, conns>>

-----------------------------------------------------------------------------
(* The process.                                                            *)

\* sighandler() -> eventloop_terminate(): every channel is released and its
\* socket closed; the callback that was interrupted runs to its end.
Signalled ==
  /\ phase = "up" /\ Adversity("sigterm")
  /\ phase' = "stopping"
  /\ chan' = [c \in Conns |-> "none"] /\ net' = [c \in Conns |-> <<>>]
  /\ eof' = [c \in Conns |-> FALSE]
  /\ UNCHANGED <<running, handler, buf, store, conns>>

ProcessEnds ==
  /\ phase' = "down" /\ running' = NoOne
  /\ handler' = [c \in Conns |-> FreeHandler]
  /\ chan' = [c \in Conns |-> "none"] /\ eof' = [c \in Conns |-> FALSE]
  /\ buf' = [c \in Conns |-> <<>>] /\ net' = [c \in Conns |-> <<>>]
  /\ store' = [d \in Domains |-> RolledBack(store[d])]
  /\ UNCHANGED conns

\* eventloop_run() returns and so does main().
Exit == phase = "stopping" /\ running = NoOne /\ ProcessEnds /\ NoAdversity
Killed == phase # "down" /\ Adversity("kill") /\ ProcessEnds

Restart ==
  /\ phase = "down" /\ phase' = "up"
  /\ UNCHANGED <<running, handler, chan, buf, net, eof, store, conns, luck>>

-----------------------------------------------------------------------------
Meta(c) ==
  \/ MetaProtocol(c) \/ MetaDomain(c) \/ MetaStartTime(c) \/ MetaSenderId(c)
  \/ MetaContent(c) \/ MetaOther(c) \/ MetaMalformed(c) \/ MetaSchema(c)
  \/ HeaderDone(c)

Sample(c) ==
  \/ RowInserted(c) \/ RowDropped(c) \/ MetadataSchema(c) \/ MetadataStored(c)
  \/ MetadataIgnored(c) \/ BadLine(c)

Callback(c) == Meta(c) \/ Sample(c) \/ CallbackEnds(c) \/ Disconnect(c)

Next ==
  \/ \E c \in Conns :
       \/ Connect(c) \/ PeerCloses(c) \/ Recv(c) \/ Callback(c)
       \/ PeerClosed(c) \/ Idle(c) \/ SocketFails(c)
  \/ Signalled \/ Exit \/ Killed \/ Restart

\* The event loop polls every active channel in each round, and a callback
\* runs to its end; nothing is assumed of the peers.
Fairness ==
  \A c \in Conns : WF_vars(Callback(c)) /\ SF_vars(Recv(c)) /\ SF_vars(PeerClosed(c))

Spec == Init /\ [][Next]_vars /\ Fairness

-----------------------------------------------------------------------------
(* Properties.                                                             *)

States == {"free", "C_HEADER", "C_TEXT_DATA", "C_BINARY_DATA", "C_PROTOCOL_ERROR"}

\* Types of the variables; a slot without a handler has no channel either,
\* and only the running callback can be in an error state.
TypeOK ==
  /\ phase \in {"up", "stopping", "down"} /\ running \in Conns \cup {NoOne}
  /\ conns \in 0 .. MaxConns /\ luck \in 0 .. MaxLuck
  /\ chan \in [Conns -> {"none", "active", "inactive"}] /\ eof \in [Conns -> BOOLEAN]
  /\ \A c \in Conns :
       /\ handler[c].state \in States
       /\ handler[c].database \in Domains \cup {NoDb}
       /\ ~Live(c) => chan[c] = "none" /\ running # c
       /\ handler[c].state = "C_PROTOCOL_ERROR" => running = c
  /\ \A d \in Domains :
       store[d].db.ref_count \in 0 .. Cardinality(Conns)

PointsTo(d, gen) == IsOpen(store[d]) /\ store[d].db.gen = gen

\* No handler keeps a pointer to a Database that has been freed, or to a
\* table of one, even when the domain has been opened again since.
NoDanglingPointers ==
  \A c \in Conns :
    /\ handler[c].database # NoDb => PointsTo(handler[c].database, handler[c].gen)
    /\ \A i \in DOMAIN handler[c].tables :
         LET t == handler[c].tables[i]
         IN  PointsTo(t.domain, t.gen) /\ t.name \in DOMAIN store[t.domain].db.tables

Files == {store[d].file : d \in Domains} \cup {store[d].saved : d \in Domains}

\* Every stored time stamp is relative to the start time of the experiment:
\* adding the two gives the time at which the sample was taken, for samples
\* of all clients, before and after reopening and rolling back.
RowsRebased ==
  \A f \in Files : \A r \in f.rows : r.ts + f.start_time = r.at

\* The sender id of a stored row leads back to its sender, and to no other:
\* no two senders of the list share an id.  The exception is a row stored
\* under an id that the database refused to list (sq3_add_sender_id() uses it
\* nevertheless): once the database has been closed, another sender may be
\* listed with the same id, and the row then passes for one of its rows.
RowsAttributed ==
  \A f \in Files :
    /\ \A m, n \in DOMAIN f.senders : f.senders[m] = f.senders[n] => m = n
    /\ \A r \in f.rows :
         \/ r.sender \in DOMAIN f.senders /\ f.senders[r.sender] = r.id
         \/ <<r.sender, r.id>> \in f.unlisted

\* What has been committed is never changed or lost by a later step, be it
\* the end of the process: the origin of time, the senders and the rows.
CommittedIsPermanent ==
  [][\A d \in Domains :
       LET old == store[d].saved
           new == store'[d].saved
       IN  /\ old.rows \subseteq new.rows
           /\ old.start_time # 0 => new.start_time = old.start_time
           /\ \A n \in DOMAIN old.senders : new.senders[n] = old.senders[n]]_vars

\* "Gracefully terminate, emptying the buffers and closing client
\* connections": a termination by signal keeps the rows inserted so far.
GracefulTermination ==
  [][Exit => \A d \in Domains : store'[d].file.rows = store[d].file.rows]_vars
=============================================================================
