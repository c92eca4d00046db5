# A TLA+ development of OML

OML is a measurement library (liboml2), a collection server (oml2-server) and a
proxy (oml2-proxy-server), in C. This directory models the parts that carry
measurements from an application to a database, checks them with TLC on small
instances and proves what can be proved with TLAPS.

    cd tla
    tlc -config MBuf.cfg MBuf
    tlc -config BW_faults.cfg MCBufferedWriter
    tlc -config Client.cfg MCClient
    tlc -config Server.cfg MCServer
    tlc -config EventLoop.cfg MCEventLoop
    tlapm MBufProofs.tla
    tlapm QueueProofs.tla
    tlapm DrainProofs.tla
    tlapm WireProofs.tla
    tlapm PsqlProofs.tla
    tlapm ServerProofs.tla
    tlapm EventLoopProofs.tla
    tlapm ProxyProofs.tla

`PROJECT.json` maps every definition to the lines it models and lists the runs,
the findings, the hazards and the theorems.

## 1. The system

    application --omlc_inject()--> filters --rows--> BufferedWriter --thread--> OutStream
                                                                                  | TCP / file
                     [ oml2-proxy-server: store and forward, on command ] <-------+
                                                                                  |
          Database <--insert-- ClientHandler <--callbacks-- EventLoop <-----------+

### Client

| Component | State | Operations | Correct when |
|---|---|---|---|
| MBuffer (`lib/shared/mbuf.c`) | a block of memory, `rdptr`, `wrptr`, `msgptr`, four derived sizes | write, print, read, begin/reset a message, consume, clear, repack, grow | sizes agree with pointers, nothing committed is lost, nothing uncommitted is read |
| BufferedWriter (`lib/client/buffered_writer.c`) | ring of chunks, writer and reader position, `nlost`, `meta_buf`, mutex, condition | get/unlock a buffer, push metadata, send thread, close and drain | messages leave whole, in order, accounted for; the thread ends |
| Text and binary writers (`text_writer.c`, `bin_writer.c`) | the buffer of the row being written | row_start, row_cols, row_end, out_meta | the mutex is held exactly during a row |
| Output streams (`net_stream.c`, `file_stream.c`) and socket (`lib/ocomm/socket.c`) | socket, disconnected, header_written | write, reconnect | every connection is a header followed by whole messages |
| Filters (`filter.c`, `filter/*.c`) | what each filter keeps of its window | input, output, newwindow, sampling thread | a row is the function that the filter names of the samples since the row before |
| Life cycle (`init.c`, `api.c`) | options, measurement points (MPs), their streams and filters, writers | init, add an MP, start, inject, inject metadata, close, termination handler | every row follows its declaration; every sample is in a row; nothing that was freed is used |
| Configuration (`parse_config.c`, `misc.c`) | none | one pass over an XML document, which builds collectors, streams and filters or gives up half-way | a rejected document leaves a client that can be closed |

Threads: the application's threads (injection), one sampling thread per
time-based stream, one sending thread per destination, and the thread a signal
interrupts. They share the queue (one mutex) and the measurement points (one
mutex each).

### Server

| Component | State | Operations | Correct when |
|---|---|---|---|
| Event loop (`lib/ocomm/eventloop.c`) | list of channels with flags, timers, poll set | run, register, activate, release, remove, every, stop, terminate | data in order and once, then the end; no callback after release; every ready channel is served |
| Client handler (`client_handler.c`) | state machine, buffer, tables, sender id, time offset | client_callback, status_callback | every complete line is handled once and stored as the right client's |
| Databases (`database.c`, adapters for SQLite, PostgreSQL, Virtuoso and Fuseki) | reference count, tables, start time, sender counter; the transaction; the file or service | find, release, find-or-create table, insert | alive exactly while used; reopening restores what was cached; what is stored can be explained |
| Hook, monitoring (`hook.c`, `monitoring_server.c`) | a pipe; a measurement stream | - | - |

The server is single-threaded: the event loop calls back into the handlers, the
handlers call the databases. What makes it hard is the order in which the
callbacks of several clients of one experiment alternate, where recv() cuts the
input, and what a crash leaves in the file.

### Protocols

Header lines, then rows in one of two encodings: text lines
(`text_writer.c`, `text.c`, `oml_value.c`, `base64.c`, `string_utils.c`) or
binary messages (`bin_writer.c`, `marshal.c`, `binary.c`). Schemas
(`schema.c`) are printed in headers and in the catalogue of tables and are
parsed back. Correct when what is inserted was measured and, however recv()
cuts the stream, nothing that was received is lost.

### Proxy

| Component | State | Operations | Correct when |
|---|---|---|---|
| CBuffer (`lib/shared/cbuf.c`) | circular list of pages, a tail | write, cursors, advance, consume | what a cursor points to stays until it is consumed; read pages are used again |
| Proxy (`proxy_server/*.c`) | session state, list of clients; per client a state machine, headers, a message queue, a mutex and a condition | receive and store, operator's commands, forward, remove a client | each downstream connection replays headers and messages verbatim; a client is freed when all is forwarded |

The main thread runs the event loop and executes the operator's commands; every
client has a sender thread. Queue and pages of a client are protected by its
mutex, but send() reads a page without it; the list of clients and the state of
the session are not protected at all.

## 2. Modules

| Module | Models |
|---|---|
| `ReadBuffer`, `WriteBuffer` | what an MBuffer promises its two kinds of clients |
| `MBuf` | `mbuf.c`, shown to implement both |
| `OutStream` | one call of `write()` of a network or file stream, as the set of its outcomes |
| `BufferedWriter` | the queue with its writers, its sending thread, start, close and signals; uses `OutStream` |
| `Filters` | the registered filters, with a reference definition for each |
| `Client` | the client library from omlc_init() to omlc_close(), with its sampling threads; uses `Filters` |
| `Database` | `database.c` and the SQLite adapter, as operators on the record of a domain |
| `Server` | `client_handler.c` with what the event loop and the process do; uses `Database` |
| `PsqlAdapter` | the server over PostgreSQL |
| `Connection` | what the event loop promises the owner of a connection |
| `EventLoop` | `eventloop.c` with the listening socket, its connections, a timer and signals; implements `Connection` |
| `CBuf` | `cbuf.c`, as operators on a record of pages |
| `Proxy` | the proxy's main thread, sender threads, session and operator; uses `CBuf` |
| `Marshal` | `marshal.c`: values and messages as bytes, both ways |
| `BinaryStream` | a binary client, a connection, and the server or the proxy that reads it; uses `Marshal` |
| `Text` | values, strings, blobs and schemas as text, both ways |
| `TextStream` | a text client, a connection, and the server (with its catalogue of tables) or the proxy; uses `Text` |
| `MC...` | instances: model values, what clients send, settings |
| `MBufProofs` | theorems about `MBuf`: its invariant and the two refinements |
| `QueueProofs`, `DrainProofs`, `WireProofs` | theorems about `BufferedWriter` and `OutStream`: the mutex and what the chunks hold; that the reader meets every chunk, oldest first; what connections carry. Each extends the one before |
| `PsqlProofs` | theorems about `PsqlAdapter` |
| `ServerProofs` | theorems about `Server` with `Database` |
| `EventLoopProofs` | theorems about `EventLoop`, its refinement of `Connection` among them |
| `ProxyProofs` | theorems about `Proxy` with `CBuf` |

How they fit together: `Client` says which rows a writer is given, `BufferedWriter`
what becomes of a row on its way to the socket, `TextStream` and `BinaryStream`
what a row becomes on the wire and how it is read, `EventLoop` how the bytes reach
a handler, `Server` and `PsqlAdapter` what the handler stores, `Proxy` what lies
in between.

Some definitions are preceded by a *variant*: the same definition with one
mistake. Variants are used only to confirm that a property notices the mistake
(`mutants` in `PROJECT.json`).

### MBuf

Offsets stand for pointers and `data` for the memory up to `wrptr`; the four
size fields are variables of their own, because the code keeps them redundantly.
`side` records which kind of client the buffer has: the server parses with
`msgptr <= rdptr`, a chunk of the client's queue is written with
`rdptr <= msgptr`. The actions have the names of the functions. realloc() may
refuse any growth. `mbuf_print` is modelled with the byte that vsnprintf() needs
for its NUL.

### BufferedWriter and OutStream

The mutex is `lock`, the condition variable is the reader's position `"wait"`
(leaving it takes a signal or, if `Spurious`, nothing). A step is what a thread
does between two points where another can interfere: everything a row function
does under the mutex is one step; the unlocked test of `active`, the unlocked
read and reset of `nlost` and each `write()` are steps of their own. A message is
three units, one per row function, so that partial rows and partial sends can be
seen. `q` holds the chain; `completed`, `dropped`, `metadata`, `reported` and
`stream.wire` are history.

| Action | Code |
|---|---|
| `PushMeta`, `Started` | write_meta() line by line; omlc_start() |
| `RowStart`, `RowCols`, `RowEnd`, `RowEndNull` | owt_row_start, owt_row_cols, owt_row_end |
| `NlostRead`, `NlostReset` | bw_nlost_reset() in omlc_inject() |
| `ReaderTest`, `ReaderWait`, `ReaderWoken`, `ReaderLoop`, `ReaderNext`, `DrainNext` | threadStart() |
| `ProcessEnter`, `ProcessSend`, `ProcessDone` | processChunk() |
| `TerminationHandler`, `DestroyMPs`, `bw_close`, `Joined` | termination_handler(), omlc_close() |

### Filters and Client

`c` is the OmlClient with everything that hangs off it; linked lists are
sequences, pointers to MPs and writers are positions (of writers in the order of
their creation, the reverse of their list). A writer records the
schemas and rows that it is given. A value is `<<type, content>>`; a double is an
exact fraction, NaN is 0/0; `sqrt()` is kept as what it is taken of. A setting is
a command line, an environment and a parsed configuration file, which
`StartConfigure` turns into streams in one step; `StartMeta` is write_meta().
An injection with everything it triggers under the lock of the MP is one step,
and so is one round of a sampling thread; closing destroys one MP per step.
A NULL string is a value like any other, which oml_value_set() does not copy: the
variable that omlc_inject() shares between the filters of all streams keeps what the
filter before was given, so it is passed along in `Feed`. `twice` remembers names
that were given to a second MP, which the code does not check for.
`LateRead` is the unlocked first read of a sampling thread: it tells nothing apart
while the stream exists, so it is a step only after the stream was freed.

| Action | Code |
|---|---|
| `omlc_init`, `omlc_add_mp` | the functions of these names |
| `StartConfigure`, `StartMeta` | omlc_start(): parse_config() or default_configuration(); write_meta() |
| `omlc_inject`, `Metadata` | omlc_inject(), omlc_inject_metadata(), the instrumentation that follows when a second has passed |
| `omlc_close`, `DestroyNext`, `CloseWriters` | omlc_close(), destroy_mp(), destroy_ms() |
| `thread_start` | the sampling thread |

### Database and Server

A domain is a record: `db`, the Database object (numbered by `gen`, so that a
pointer to a freed object differs from one to its successor); `file`, what a
query sees; `saved`, what the last COMMIT made permanent. The operators of
`Database` are the functions of `database.c`.

`Server` has a slot per connection. `Recv` moves any number of complete lines
(also none: part of a line still makes the callback look at its buffer); then the
callback takes one line per step until nothing is left or it must stop. Between
these steps only a signal or the end of the process can happen: the server has
one thread. A line is a record of what its reader looks at; a row also carries,
as history, who sent it and when the sample was taken. `Faults` says which
failures may happen: the backend cannot open a file, create a table, insert a
row or list a sender (nobody looks at the result of the last, `SenderNotStored`), a
socket fails, SIGTERM, a crash. `unlisted` is history: the ids in use that the file
does not list.

### PsqlAdapter

`pg` is the service: what is committed, what the connection sees, whether the
transaction is aborted and which statements are prepared. Creating a table is
four steps, because it takes several transactions; the server may crash between
any two. Integers have `Bits32` and `Bits64` bits, so that a `uint64` above the
largest BIGINT exists. Concurrent clients are sessions of one server.

### EventLoop and Connection

`el` is the EventLoop object, `pc` where its thread is. A step is what happens
between two calls out of the loop (poll(), recv(), a callback), and a signal may
come between any two. `ch` is the channel being served: the arrays of the poll
set may change under the loop. Owners behave as the server's (`on_connect`,
`client_callback`, `status_callback`): they release their channel when the
connection ends or on a protocol error. After the loop has freed a channel that it
still serves (`InNotSocket`) `pc` is `"undefined"`, after it has dereferenced a NULL
handle (`Accept`) it is `"crashed"`, and nothing more is said. `Connection` is the promise to the owner
of one connection; `Promise(c)` maps the loop's state to it.

### Marshal, BinaryStream, Text, TextStream

The layout of messages is the code's, but the sizes are scaled: a byte has
`Radix` values, integers have `W16`, `W32`, `W64` bytes (or `Bits32`, `Bits64`
bits), a double sends `BIG_L` of its `Mant` bits of mantissa. Every limit (the
longest string, the longest short message, the range of an integer, the
exponent) is then reached by small messages. In text, a number is one symbol
that the C library prints and reads; characters matter where the protocol gives
them a meaning: tabs, newlines, backslashes, the digits of base64, colons.

A message under construction is what has been written of it and what the memory
behind that holds: a NULL blob abandons it, and later columns of the row are written
over its header. A number that strtod() reports as out of range (`OutOfRange`:
beyond `DBL_MAX` or nearer to 0 than `DBL_MIN`) is refused by the reader.

A behaviour writes up to `MaxRows` samples, delivers them in pieces from `Cuts`
and lets one reader, server or proxy, process what it has. In `TextStream`
clients also declare streams, and the server may be restarted and read its
catalogue back; a table may be created and not entered in the catalogue (`NoEntry`),
because dba_table_create_from_schema() ignores that the entry is refused.

### CBuf and Proxy

A buffer is `[pages, tail]`; a page keeps its memory when it is emptied, so that
a stale cursor reads what the code would read. Differences of sizes are taken
modulo `SizeMod`, because `fill - index` is a `size_t`.

`mpc` and `current` say where the main thread is, `sender[c].pc` where the sender
of client `c` is. A step ends where a mutex is taken or given up, or at an access
to something unprotected: adding to the list is two steps (`Connect`,
`Accepted`), so is removing from it (`SenderFinds`, `SenderFrees`) and each
client of a RESUME's walk (`WalkSignal`, `WalkNext`); `SenderSends` runs without
the mutex. The headers are one unit on the wire, `HeaderUnit`; when send() takes
part of one, it is sent again from its start and the connection carries
`DamagedHeaders`, or nothing or `CutHeaders` if it then breaks. A sender keeps the mutex from one step to the next only while it
removes its client, so `Unlocked(c)` stands for the mutex. A client that sends
nothing in `Cases` does not connect. After an access to freed memory or to a
missing header `process` is `"undefined"` and nothing more is said.

| Action | Code |
|---|---|
| `Connect`, `Accepted` | on_connect(), session_add_client() |
| `RecvHeaders`, `RecvMessage`, `RecvError`, `store_received_message`, `Signal` | client_callback(), proxy_message_loop() |
| `ClientClosed` | status_callback() |
| `Command`, `WalkSignal`, `WalkNext`, `WalkEnds` | stdin_handler() |
| `SenderStarts` to `SenderSent` | client_send_thread(), client_sender_connect(), client_send_headers() |
| `SenderFinds`, `SenderFrees` | session_remove_client(), client_free() |

## 3. Runs

Every run ends within about three minutes. Deadlock is checked only in `mbuf` and in the
runs of `Client`: elsewhere a client may close and stop, and a server may wait for
clients that never come.

| Run | Instance | Distinct states |
|---|---|---|
| `mbuf` | 2 byte values, lengths 2 to 6, growth 2, writes up to 2 | 42,000 |
| `bw_faults` | 1 writer, 2 chunks, 4 rows, 3 adverse events, failed allocations, signals, network and file | 739,000 |
| `bw_threads` | an injecting and a sampling thread, 3 chunks, 5 rows, 1 adverse event, fairness | 582,000 |
| `client` | 18 settings; two MPs, one with a number and a string, one with two strings, or twice the same; 5 injections, of NULL strings too, or rounds of sampling threads, 3 when every stream has a thread | 656,000 |
| `server` | 2 connections, 10 kinds of clients, 2 adverse events, 3 lines per recv() | 2,247,000 |
| `psql` | 2 clients, 2 tables, 3 samples of 3 values, 2 crashes, 4 openings | 4,155,000 |
| `eventloop` | 1 connection with 2 bytes and a timer, 2 connections with 1 byte; 1 socket failure, signals, stop | 691,000 |
| `binary` | up to 3 samples out of a set at the limits of the format, pieces of 1 byte or everything, server and proxy | 525,000 |
| `text` | up to 3 declarations out of 9, 2 samples out of 6, 1 restart, 1 table without an entry, pieces of 4 symbols or everything, server and proxy | 1,700,000 |
| `proxy` | pages of 3 units; a client with 4 messages of up to 2 units and 1 disturbance; 2 messages and 2 disturbances; clients with bad input; 2 clients | 164,000 |
| `server_sigterm`, `client_metadata` | as small as the case needs | violations, section 6 |

What they show:

- `mbuf`: `Inv` (the inductive invariant of section 4); `ReaderRefinement`,
  `WriterRefinement`: MBuf implements the two abstract buffers.
- `bw_faults`: nothing disappears unaccounted for (`NothingVanishes`); first in
  first out and a complete drain until the first loss (`FifoUntilLoss`,
  `DrainedUntilLoss`); losses are reported (`LossesReported`); every connection is a
  header and whole messages (`WellFramed`).
- `bw_threads`: the mutex (`LockDiscipline`, `NeverDropWhileReading`,
  `DrainIsExclusive`); committed rows survive other writers
  (`WritersKeepCommitted`); metadata comes before the rows that need it after a
  reconnection (`MetadataReplayed`); bw_close() returns unless its signal is missed
  (`CloseReturnsUnlessSignalMissed`).
- `client`: a row is what its filters promise of the samples since the row before,
  for every writer of the stream (`RowsAggregate`, against the reference
  definitions), but for the column of a "first" or "last" that a NULL string decides;
  its stream was declared with its columns (`RowsDeclared`); every
  sample of a counting stream is in a row when the library has closed
  (`SamplesReported`); freed streams are not used (`MemorySafe`) and the threads
  end (`SamplersStop`).
- `server`: no handler points to a freed database or table
  (`NoDanglingPointers`); every stored row, in the file and in its committed part,
  has a time relative to the one origin of the experiment (`RowsRebased`) and an id
  that leads back to its sender (`RowsAttributed`, for senders that could be stored);
  what was committed stays
  (`CommittedIsPermanent`).
- `psql`: until a value is refused, rows keep their sender and origin
  (`AttributedUntilRefused`); a row reported as inserted stays, crashes and aborted
  transactions apart (`InsertedIsKept`); every table has a schema unless a crash
  fell between two of the transactions that create it (`CatalogueComplete`).
- `eventloop`: `ConnectionsBehave` (the refinement of `Connection`, for every
  connection); the loop uses no freed channel, except one whose descriptor is not a
  socket any more, and frees the released ones (`ChannelMemory`); only silent clients are dropped as idle (`IdleMeansSilent`);
  the end of a connection is noticed (`PeerCloseNoticed`); told to stop, the loop returns
  unless it missed the signal, the signal itself crashed the process, or a freed
  channel was used (`StopsUnlessMissed`, section 6).
- `binary`: what the server inserts was measured and comes once and in order
  (`DecodedWasSent`), unless it was found inside a message after one that was discarded
  and not skipped: one of the samples is a blob that holds a whole message; everything
  insertable is inserted, except behind a discarded message that spoils the search
  (`NothingLost`); the proxy stores messages byte for byte (`ProxyStoresSent`).
- `text`: the same for lines (`TextDecodedWasSent`, `EveryLineInserted`, without the
  numbers that strtod() finds out of range); a stream that comes back, also after a
  restart, is given its table again (`TableFoundAgain`) if no table of its name lacks its
  entry.
- `proxy`: a queued message can be read back from its cursor whatever was emptied,
  reused and inserted since (`QueuedIntact`); each downstream connection has the
  headers and then the messages from the first that no earlier one took whole,
  verbatim (`ReplayedUntilPageEnd`); a client that has gone is forwarded and freed
  (`EventuallyForwarded`). The first two except a client with a message that began
  at the end of a full page, see section 6.

Why the bounds are enough. A chunk takes one message and part of the next
(`TargetSize` 3), so four rows with two chunks reach reuse, insertion, recycling
and a recycled chunk on which the reader stands; three chunks and five rows
reach recycling with a chunk in between. Three adverse events reach a failure
during recovery from a failure. Five events of `Client` reach two windows and a
partial one, a late MP with rows of its own, and a sampling thread on either side
of every step of the application. Two connections reach every order of opening,
sharing and closing a domain; with a crash and a second adverse event also
reopening after a roll-back. `MaxRename` and `MAX_TABLE_RENAME` are 3 so that running
out of table names is possible (the code has 10). In `psql` two crashes reach one
during the recovery from another. In `eventloop` two connections reach a callback
that shortens the poll set before the other is served. Three binary messages
reach a discarded one between two good ones. In `proxy` the second of four messages spans two pages, and the fourth
spans the end of the second page and finds the first one emptied or not, by how
far the sender has come, so both reuse and insertion occur; another client has a
message that ends where a page does.
Two clients reach every overlap of adding to, walking and removing from the
list. `MaxMsgs`, `MaxLuck`, `MaxRecv`, `MaxConns`, `MaxRows`, `MaxLines`,
`MaxRestarts`, `MaxCrashes`, `MaxOpens`, `MaxTime` and `events` bound counters and
appear only in guards.

Fairness. In `BufferedWriter`: weak fairness of the main thread, of the sending
thread, of a row that has been started, of the termination handler, and of time.
This is a scheduler that lets every runnable thread run; no fairness is assumed
of the mutex (a thread waiting for it may be overtaken for ever), of the
application, or of the network. In `Client`: omlc_close() goes on once begun, and a
sampling thread that sleeps wakes up. In `EventLoop`: weak fairness of the loop's
thread, and time passes; nothing of peers and signals. In `Server`: a callback
runs to its end, and a channel that is readable again and again is read, because
every round of eventloop_run() goes through all channels; nothing is assumed of the
peers. In `Proxy`: weak fairness of what the main thread has begun and of each sender
(runnable threads run), and strong fairness of reading a channel and of noticing
its end, for the same reason as in `Server`. Nothing is assumed of peers and
operator: that the operator lets the session send and repeats RESUME is a premise
of `EventuallyForwarded`, needed because a single RESUME can miss a sender that
does not yet wait. Failures of the downstream connection are bounded by `luck`,
so the property says: once it no longer fails.

## 4. Theorems

For every value of the constants that satisfies the named assumptions, checked by
tlapm. Every one but `MBufSafe` and the three about the mutex states a property
that a run checks and that is not inductive by itself; the strengthened invariants
were checked by TLC (with Nat cut to a small interval where they quantify over it)
as well as proved, except the proxy's, which quantifies over functions that TLC
cannot enumerate.

### MBuf (`MBufProofs`)

- `MBufSafe`: `Spec => []Inv`. `Inv` is inductive: the size fields are the
  differences of the pointers, `base <= rdptr <= wrptr <= base + length`, and
  `msgptr` is on the side of `rdptr` that belongs to the client. The last part is
  what makes `mbuf_repack_message` (which moves `rdptr` back by `msgptr`) safe.
  One lemma per operation; `GrowthFits` is the arithmetic of
  mbuf_check_resize(): the new length has room for what is to be written.
- `ReaderRefines`, `WriterRefines`: an MBuffer implements the abstract buffer of
  either kind of client. Under `Inv`, every operation maps to an operation of the
  abstract buffer or leaves it unchanged; the lemmas say which, as facts about
  `SubSeq` of the memory.

### The queue (`QueueProofs`, `DrainProofs`, `WireProofs`)

From `BWAssumption` (at least two chunks, finitely many writer threads) and
`StreamAssumption`, for every stream, any number of threads, chunks and rows and,
except where a theorem names the faults it needs, every set of faults:

- `LockDisciplineHolds`: who holds the mutex where. The invariant adds to the
  two below that a thread inside a row holds the mutex, that rows have ended
  when `active` is cleared, and that the reading mark of a chunk is set only
  while the reader sends it. Lemmas for the steps of the main thread, the
  writers and the reader; `NextChunkKeepsReading` covers getNextWriteChunk().
- `DropNeverHitsReader`: `assert(nextBuffer->reading == 0)` cannot fail.
- `DrainNeedsNoLock`: the drain loop, which runs without the mutex, has the
  queue for itself.
- `NothingIsLost`: a completed message is queued, sent or was recycled. The
  inductive invariant is `Shape` (the chain is closed; a message under
  construction belongs to the thread that holds the mutex, in the writer's chunk),
  `Messages` (what a chunk holds up to `msgptr` is whole messages, what lies beyond
  is as much of one as its thread has written), `Sending` (what processChunk() has
  counted as sent is the beginning of the chunk and is on the wire, perhaps over
  two connections) and the property. `Sending` is needed because mbuf_read_skip()
  trusts a counter that was accumulated over several calls of `write()`.
- `CommittedIsLeftAlone`: a step of a writer changes the committed messages only of
  the chunk that it recycles. From `Shape` alone.
- `LossesAreReported`: with one injecting thread no dropped message is missing from
  what omlc_inject() reported plus `nlost`. `Losses` says that a chunk's
  `nmessages` is at least the number of messages committed to it, for every chunk,
  and that a value of `nlost` that was read and not yet reset is still its value.
- `DrainedMeansSent`: when threadStart() returns 1 and no chunk was recycled,
  everything was sent. The chunks with messages are a path along `next` from the
  reader's chunk to the writer's (`Chained`): growing the chain lengthens the path at
  its end, the reader shortens it at its beginning, and a chunk is left only when it
  is empty. The path is an existentially quantified sequence, so that no induction
  over the chain is needed. `Numbered` adds that `completed` is increasing, that a
  chunk holds its messages in that order, and the path that the messages of a chunk
  are older than those of the chunks behind it; `DrainOK` is the conjunction.
- `FirstInFirstOut`: until the first loss messages are sent in the order of their
  completion. The invariant `WireInOrder` says that only completed messages are on the
  wire; that where any unit of a message stands, the first unit of every older message
  stands before it, on that connection or an earlier one; and that no message is
  there in full before every older one is. From `DrainOK`: the reader sends the
  first chunk of the path, and the older messages that are not on the wire are in
  front of the message in that chunk. `FirstSent` is the least place in lexicographic
  order, which exists because the order of Nat is well founded (`LeastPlace`).
- `MetadataComesFirst`: a connection never carries a message before the metadata that
  is older. On the connection on which the metadata was first sent this is
  `WireInOrder`; on a later one `MetadataKept` says that the header, a copy of
  `meta_buf`, has told of it. The hypothesis `"other" \notin Faults` is needed: when
  sendto() fails with an error that socket.c does not know, net_stream.c compares -1
  as a size_t and takes the header for sent (`HeaderSent`), and a connection without
  a header follows; TLC finds one with `Faults = {"closed", "other"}`.
- `ConnectionsAreFramed`: one header, then whole messages, the last one perhaps cut.
  `Framing`: each connection has that form (`FramedWire`, by position rather than with
  `%`), a socket is connected only with its header sent, and on the open connection
  what was sent of the reader's chunk starts behind a whole message. The hypothesis
  `FaultsEndConnection` leaves "refused", "closed" and "short": after EINTR (or an
  unknown error) the chunk is sent again on the connection that already carries its
  beginning, and TLC finds a repeated unit with `Faults = {"short", "interrupted"}`;
  a header that was cut is sent again the same way.

### The PostgreSQL adapter (`PsqlProofs`)

From `PsqlAssumption` and `TablesAssumption` (no stream has the name of a table of the
adapter's own), for any clients, tables, values and widths of integers:

- `CatalogueIsComplete`: the invariant follows the four transactions that create a
  table: between them, exactly the table that is being created may lack its schema.
- `InsertedStays`: an action property; a row disappears only by a crash or with an
  aborted transaction.
- `RowsAreAttributed`: the sender's id in a row is the one under which the sender is
  listed, and ids are never given twice. The invariant relates the connection's view,
  what is committed, and the ids that open clients remember.

### The server (`ServerProofs`)

From `ServerAssumption` (finitely many connections) and `ScriptsAssumption`: a client
has one name and one start time, never 0; it sends them after `domain:` and before any
schema, as write_meta() does; a row carries the time since then. Domains, tables,
scripts, connections and faults are arbitrary:

- `PointersAreValid`: the reference count of a domain is the number of handlers that
  hold it (the part that makes the property inductive), so a database is freed
  exactly with its last handler, and the generation that a handler remembers is the
  current one.
- `CommittedIsKept`: committed tables, senders, rows and start times stay through every
  step, failure and crash. It needs that the file extends what is saved.
- `RowsAreAttributed`, `RowsAreRebased`: by an invariant that follows a row from the
  buffer to the file: a handler's `sender_id` is the one of its client's name in the
  file, or is `unlisted` (storing it failed, which the server ignores), its time offset is the difference of its start time and the domain's origin,
  the ids in file and cache agree, and a crash takes file and handlers back together.

### The event loop (`EventLoopProofs`)

For any set of connections, any bounds and faults, signals and timers, with the
server's owners (`Owner = "server"`). The proxy's owners are left out: they call
eventloop_socket_remove() inside a callback, which frees the channel that the loop
goes on with (section 6).

- `ChannelsAreValid`: the loop refers only to channels that have not been freed, and
  the sweep at the end of a round frees all that were released. The exception is the
  channel of a descriptor that is not a socket any more: the loop frees it and goes on.
- `LoopKeepsItsPromise`: for each connection the loop implements `Connection`: what
  was sent arrives in order and once, then the end is told, and nothing follows the
  release.
- `OnlySilentClientsAreDropped`: SOCKET_IDLE is told only to a client that has been
  silent for the timeout, or wrote after poll() had returned, or is broken.

The inductive invariant has five layers. `Types`. `Lists`: the channels are a list
without repetition, disjoint from the freed ones; only listed channels are active or
removable; the poll set is the active part of the list as it was when update_fds()
last ran, and can differ from it only while `fds_dirty` is set. `Round`: what poll()
reported is about channels of the poll set, nothing of it has been told to channels
that the round has not come to, and the channel in hand is where `pc` says. `Bytes`: for each connection
what its owner was given, what the loop has in hand and what is in the socket are,
in this order, what the peer sent, unless the connection is broken. `Activity`:
`last_activity` is not older than the last byte that was there when poll() returned,
and such a byte is still pending or has been noted before the check for idleness.
`Bytes` alone does not give `IdleMeansSilent`, because a byte may arrive between
poll() and the check; `Activity` says which.

`Kept`, the filter behind update_fds() and the sweep, is a recursive function. What it
computes is proved by induction stated as a fact about sets (`Induction`: a set of
numbers that contains 0 and the successor of each of its members contains every
number), which follows from `WFMin` of the library and needs no operator parameter.

### The proxy (`ProxyProofs`)

From `ProxyAssumption` (messages are not empty: a text message has the end of its
line, a binary one its header) and `CBufAssumption` (a page is small against the
range of a `size_t`), for any clients,
messages, sizes of pages, commands and disturbances:

- `QueueIsReadBack`: each queued message is found in the pages from its cursor on.
- `MessagesAreReplayed`: each downstream connection carries the headers, perhaps with
  parts of them repeated or, if it breaks there, cut, and then what was stored, in order, from the first message that no earlier connection took whole.

Both except a client of which a message began at the end of a full page (`pageEnd`,
section 6): its cursor is behind the page, and once that page is emptied nothing
leads from there to the next one.

The state does not say what the argument is about: which units were stored (`all`),
where each message ends among them (`off`), where in the pages each unit was put
(`place`), and how many messages were out whole when each connection ended (`taken`).
The invariant of a client (`View`) says that such functions exist, and every step
shows which to take next; `off` and `all` grow with a stored message, `place` also
when pages are inserted, `taken` with a connection. Its parts:

- `Paged`, `Laid`: the pages are a closed list, and the units that are not yet
  consumed lie one behind the other, up to the fill of the tail; all other pages are
  empty, and all but the tail are full or empty. Without this the receiver could use
  again a page that still has unsent units: it takes the next page if that is marked
  empty, and inserts one if not.
- `Offsets`, `Stock`: the queue is the end of what was stored, with the cursor of each
  message at the place of its first unit.
- `Underway`: what send() reads without the mutex is the next part of the first queued
  message and lies within one page, whatever is stored meanwhile.
- `Replay`, `InStep`: each connection continues where the one before it had taken
  messages whole, and where the sender stands agrees with what the current one has
  carried. A broken connection leaves the message in the queue and its units in the
  pages: cbuf_consume_cursor() comes only after all of it was sent.

`ProxyInv` adds the shape of the variables and what the main thread has in hand. Its
proof is by one lemma per step of the main thread and the sender, on facts about
cbuf_write(), cbuf_advance_cursor() and cbuf_consume_cursor() for any number of
units. What these recursive functions compute is proved with the same `Induction` as
above: the values for 0, 1, .. n are a function that satisfies the recursion, and the
set of n for which the claim holds contains all numbers.

### Only model-checked

- Liveness and everything under fairness (`CloseReturnsUnlessSignalMissed`,
  `SamplersStop`, `PeerCloseNoticed`, `StopsUnlessMissed`, `EventuallyForwarded`): out of
  the prover's reach.
- `BinaryStream`, `TextStream` and `Client`: encoders, decoders and filters are
  recursive over nested data; each would need an induction of its own.
- The event loop with the proxy's owners.

## 5. Not modelled

- In `Database`, that storing the start time of an experiment may fail (the result is
  ignored at `client_handler.c:472`, so the origin is gone after a reopening), and the
  error path of database_init() on which a table is freed and stays in the list
  (`database.c:541`).
- The error returns of write_schema(), which write_meta() ignores: names of streams and
  filters are cut to 63 characters, so an entry reaches 512 only by its concepts.
- The XML library and synonyms of element names: a configuration file is given as
  a parsed document. Filter properties: no registered filter has one. The
  histogram filter is never registered.
- The text of SQL statements, connection strings, and the Virtuoso and Fuseki
  adapters, which are built only on request and send every row to an external
  service without a transaction of their own.
- Semantic concepts, except where the server compares schemas.
- The hook and the server's own measurements, which go through the client library.
- zlib streams, the log, memory counters, the creation of listening sockets, and
  file and standard input channels of the event loop.
- The proxy's copy of the messages in a result file and its signal handling.
- `bw_push`, `cbuf_read_cursor` and the socket groups, which nothing calls.
- In `BufferedWriter` the binary writer is represented by the text writer: both call
  the queue in the same order, but the binary one marks a failed row in other ways.
- In `Client` a configuration is read in one step, while in the program sampling
  threads already run; allocations do not fail.
- In the models of the protocols a client's rows come one after the other: how
  several threads share the queue is `BufferedWriter`'s.

## 6. What the models showed

With a run of their own (`findings` in `PROJECT.json`):

- `server_sigterm`: SIGTERM leaves the open transaction to be rolled back.
- `client_metadata`: the metadata stream takes the sampling parameters of the
  default streams. With a configuration file that lists streams it has none and
  never reports; with `--oml-samples n` only every n-th value is sent, with
  `--oml-interval` the first of each interval.

Seen while modelling, without a run:

- SIGTERM between poll(), which reports a connection, and accept(): the signal handler
  releases the listener and clears its handle, the round goes on with the listener's
  callback, and on_client_connect() dereferences NULL (`socket.c:412`). The loop does not
  return, the process crashes; `StopsUnlessMissed` excepts it by name (`CrashedBySignal`).
- The sending thread tests `active` without the mutex and waits without a
  predicate, so bw_close() can signal in between and join for ever
  (`CloseReturnsUnlessSignalMissed` excludes it).
- After a recycled chunk the drain loop can meet the writer's chunk first and
  report success with messages left (`DrainedUntilLoss` stops at the first loss).
- A text line with too few values, or a binary message of unknown type, ends the
  callback (`BadLine`); the complete lines behind it wait for more input or are
  lost.
- The proxy handles one message per recv(); what else has been received when the
  client goes is never forwarded.
- A message that begins at the end of a full page is read from behind that page
  once the message before it has been consumed (`ReplayedUntilPageEnd` excludes it).
- `nlost` is read and reset without the mutex: with two threads, a drop in between
  is not reported (`LossesReported` holds for one).
- owt_row_end() keeps the mutex if a previous function of the row gave up
  (`RowEndNull`).
- -1 in a `size_t` passes for a complete header (`net_stream_write`).
- `mbuf_print` loses the last character of a string that exactly fills the
  buffer (`mbuf.c:434`).
- A failed write forgets what was sent of the chunk; if the connection survives
  (EINTR), part of a message is sent twice on it. In the same way a header that
  was accepted in part is sent again from its start.
- `nlost` counts all messages written to a recycled chunk since its last reuse,
  also delivered ones.
- A sampling interval shorter than write_meta() lets rows leave before the header
  is complete, with index 0 (`RowsDeclared` excludes them).
- A metadata message lost with a recycled chunk is not replayed unless it had
  been put in `meta_buf` (`MetadataBeforeData` holds only until the first loss).
- A signal inside a row makes the termination handler wait for a mutex that the
  interrupted thread holds.
- `backoff` (a `uint8_t`) wraps to 0 after eight failures in a row.
- A second `domain:` line overwrites the pointer to the first database without
  releasing it.
- After a socket error status_callback() only logs, so the handler and its share
  of the database stay until the process ends.
- A start time of 0 means "not set".
- The id of a sender is used although storing it may have failed (a name with a quote,
  or so long that the statement has 512 characters): after a reopening another sender
  can be given it (`RowsAttributed` excludes rows of such senders).
- The entry of a table in the catalogue is refused in the same way when its schema has
  too many columns for a statement: after a restart the table is ignored, and cannot be
  created either (`TableFoundAgain` excludes such names).
- A number that strtod() reports as out of range, subnormal ones included, makes the
  server discard the sample (`EveryLineInserted` excludes them).
- database_init() failing leaves the SQLite connection open.
- Proxy: the list of clients has no lock. A client that connects while another is
  removed can be missing from the list, and a walk can meet a freed client
  (`EventuallyForwarded` excludes both).
- Proxy: a sender whose client has gone, or was cut off, before its headers were
  complete reads NULL header pointers; proxy_client.h says that headers "can
  safely be read" in state C_DATA only. C_CONFIGURE's error is overwritten by
  C_DATA.
- Proxy: PAUSE neither stops a sender inside its loop nor wakes one; a signal sent
  before the sender waits is lost; a header accepted in part is sent again from
  its start; client_free() destroys a mutex that is locked.

- Proxy: its callbacks free their channel with eventloop_socket_remove() while the
  loop still serves it (`Owner = "proxy"` in `EventLoop` breaks `ChannelMemory`).
- Event loop: when recv() says that a descriptor is not a socket, the channel is freed
  with eventloop_socket_remove() and used until the end of the round (`InNotSocket`;
  `ChannelMemory` excludes it).
- Event loop: a signal between the test of `stopping` and poll() is missed if no
  descriptor is left; bytes that recv() returns on a channel in error are dropped;
  idle channels are reaped only in a round with events.
- marshal_finalize() writes the length of a long message through a pointer from
  before mbuf_write(), which may have moved the buffer; a message of more than 255
  values wraps its count; a discarded message is not skipped, so a sync pattern
  inside it is taken for the next message, and a whole message inside it is inserted
  (`DecodedWasSent` and `NothingLost` exclude what follows); a NULL blob abandons the
  message, and the columns after it are sent without a header.
- The proxy reads the length of a binary message whose header is split, and treats
  a remainder of one byte as a protocol error.
- The catalogue keeps no concepts of a schema.
- PostgreSQL: a refused value aborts the transaction and loses the samples since it
  was opened; senders that connect meanwhile all get id 0; a crash while a table
  is created leaves one that can neither be found nor created again.
- Client: an MP added late to a client that samples several at a time declares the
  columns of its fields, while its rows have those of "avg"; the declaration itself
  may be sampled away (`RowsDeclared` excludes both).
- Client: a NULL string or blob is not copied, and the failure is ignored: "first" and
  "last" keep the value of an earlier window, or are given that of the field before
  (`RowsAggregate` excludes the column).
- Client: a second MP of a name has no stream; the first one's stream is given the same
  writer again and writes every row twice, and the index that was announced for the
  second MP is announced again for the next one (`RowsDeclared` excludes it).
- Client: the last window of a stream with an interval is lost at omlc_close().
- Client: a numeric operation on a string field makes a filter without instance
  data, which the first report dereferences. `MemorySafe` admits exactly this.
- Client: a sampling thread that is scheduled for the first time only after
  omlc_close() has destroyed its stream reads freed memory (`LateRead`); one that
  runs while the configuration is read may meet the array of writers being moved.
- Client: default_filter_meta() assigns its own parameter instead of the caller's
  pointer, so write_schema() uses an uninitialised `concepts` for every filter but
  "first".

## 7. Plan

1. For `Client`, that a thread that has begun has an MP that is active or has no
   streams; the proxy's list of clients, as far as its two threads leave it intact.
2. Reading the configuration in steps, against sampling threads that already run.
