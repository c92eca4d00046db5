--------------------------- MODULE BufferedWriter ---------------------------
(***************************************************************************)
(* The output queue of a measurement client: lib/client/buffered_writer.c  *)
(* between the threads that write rows through text_writer.c and the       *)
(* thread that sends them to an output stream.                             *)
(*                                                                         *)
(* The queue is a circular chain of chunks.  Rows are written into         *)
(* writerChunk; when it is full the next chunk is used if it is empty, a   *)
(* new chunk is inserted if one may still be allocated, and otherwise the  *)
(* next chunk is emptied and its messages are lost.  The reader thread     *)
(* follows: it sends the complete messages of its chunk and moves on until *)
(* it meets writerChunk.  One mutex protects the queue and one condition   *)
(* variable wakes the reader.                                              *)
(*                                                                         *)
(* Threads and what they run:                                              *)
(*   main            write_meta(), then omlc_close() -> bw_close()         *)
(*   Writers         filter_process(): row_start, row_cols, row_end, and,  *)
(*                   in a thread that called omlc_inject(), bw_nlost_reset *)
(*   FilterThreads   those of Writers that are sampling threads of         *)
(*                   filter.c, started before write_meta() runs            *)
(*   any of Writers  the termination handler, on a signal                  *)
(*   Reader          threadStart() and processChunk()                      *)
(* A step is what a thread does between two points where another thread    *)
(* can interfere, or one call of outStream->write().                       *)
(***************************************************************************)
EXTENDS OutStream, FiniteSets

CONSTANTS
  Writers,        \* threads that write rows
  FilterThreads,  \* those that sample periodically
  EarlyRows,      \* may a sampling interval end before write_meta() does?
  Signals,        \* may SIGINT or SIGTERM interrupt a writer thread?
  Schema0,        \* those whose rows are metadata (ms->index = 0)
  NChunks,        \* chunks of the queue: max(queueCapacity / bufSize, 2)
  TargetSize,     \* targetBufSize of a chunk, in units
  HeaderLines,    \* lines pushed by write_meta()
  Oom,            \* row functions in which realloc() may fail:
                  \* a subset of {"start", "cols", "end"}
  Spurious,       \* may pthread_cond_wait() return without a signal?
  MaxMsgs,        \* bound: rows written
  MaxLuck,        \* bound: adverse events
  BackoffMod,     \* 2^8: backoff is a uint8_t
  Reader,         \* the sending thread
  NoOne           \* nobody holds the mutex

ASSUME BWAssumption ==
  /\ IsFiniteSet(Writers)
  /\ FilterThreads \subseteq Writers /\ Schema0 \subseteq Writers
  /\ NChunks \in Nat /\ NChunks >= 2
  /\ TargetSize \in Nat \ {0}
  /\ HeaderLines \in Nat /\ MaxMsgs \in Nat /\ MaxLuck \in Nat
  /\ Oom \subseteq {"start", "cols", "end"}
  /\ {Spurious, EarlyRows, Signals} \subseteq BOOLEAN
  /\ BackoffMod \in Nat /\ BackoffMod > 1
  /\ Reader \notin Writers /\ NoOne \notin Writers \cup {Reader}

VARIABLES
  \* struct BufferedWriter
  active, lock,
  q,            \* the chain, see below
  meta_buf,     \* header lines (0) and metadata messages
  backoff,
  cooling,      \* less than backoff seconds have passed since the last failure
  retval,
  \* the main thread, and the lines it has pushed
  mainpc, lines,
  suspended,    \* the thread in which the termination handler runs, or NoOne
  \* the writer threads
  wpc, wmsg,    \* where each one is, and the message it writes
  wnlost,       \* n of bw_nlost_reset()
  wbuf,         \* OmlTextWriter.mbuf: a chunk, or 0 for NULL
  \* the reader thread
  rpc, chunk, allsent, size, sent,
  \* the output stream
  stream,
  \* history
  msgs,         \* rows started so far
  completed,    \* messages in the order in which row_end() committed them
  metadata,     \* those that describe the streams (schema 0)
  dropped,      \* messages lost with a recycled chunk
  reported      \* sum of the results of bw_nlost_reset()

queueVars == <<active, lock, q, meta_buf>>
senderVars == <<backoff, cooling, retval, rpc, chunk, allsent, size, sent>>
mainVars == <<mainpc, lines, suspended>>
writerVars == <<wpc, wmsg, wnlost, wbuf>>
historyVars == <<msgs, completed, metadata, dropped, reported>>
vars == <<queueVars, senderVars, mainVars, writerVars, stream, historyVars>>

ChunkIds == 1 .. NChunks

-----------------------------------------------------------------------------
(* Messages.  A message has three units, one for each row function.  A     *)
(* header is everything in meta_buf, sent as two units.                    *)

Unit(m, p) == [body |-> <<m>>, part |-> p]
LastPart == 3

Header(meta) == << [body |-> meta, part |-> -1], [body |-> meta, part |-> -2] >>
IsHeader(u) == u.part < 0

-----------------------------------------------------------------------------
(* The MBuffer of a chunk, as established in MBuf on the writer side: the  *)
(* memory up to wrptr, and the offsets rdptr <= msgptr <= wrptr.           *)

EmptyBuf == [data |-> <<>>, rd |-> 0, msg |-> 0]
Wr(b) == Len(b.data)
Pending(b) == SubSeq(b.data, b.rd + 1, b.msg)
Extend(b, u) == [b EXCEPT !.data = Append(@, u)]
BeginWrite(b) == [b EXCEPT !.msg = Wr(b)]
ResetWrite(b) == [b EXCEPT !.data = SubSeq(@, 1, b.msg)]
ReadSkip(b, n) == [b EXCEPT !.rd = @ + n]
RepackMessage2(b) ==
  [data |-> SubSeq(b.data, b.msg + 1, Wr(b)), rd |-> 0, msg |-> 0]

-----------------------------------------------------------------------------
(* The chain of chunks.                                                    *)

\* bw_create(): one chunk, linked to itself.
NewQueue ==
  [next |-> [c \in ChunkIds |-> IF c = 1 THEN 1 ELSE 0],
   mbuf |-> [c \in ChunkIds |-> EmptyBuf],
   nmessages |-> [c \in ChunkIds |-> 0],
   reading |-> [c \in ChunkIds |-> FALSE],
   unallocated |-> NChunks - 1,
   writer |-> 1,
   nlost |-> 0]

\* Case 1 of getNextWriteChunk(): the reader has finished with the next chunk.
ReuseNext(k) ==
  LET n == k.next[k.writer]
  IN  [k EXCEPT !.mbuf[n] = EmptyBuf, !.writer = n, !.nmessages[n] = 0]

\* Case 2: insert a new chunk between the current and the next one.
InsertChunk(k) ==
  LET c == NChunks - k.unallocated + 1
  IN  [k EXCEPT !.next[c] = k.next[k.writer], !.next[k.writer] = c,
                !.writer = c, !.unallocated = @ - 1]

\* Case 3: the chain is full, the messages of the next chunk are dropped.
DropNext(k) ==
  LET n == k.next[k.writer]
  IN  [k EXCEPT !.writer = n, !.nlost = @ + k.nmessages[n],
                !.nmessages[n] = 0, !.mbuf[n] = RepackMessage2(@)]

\* Variant: a chunk from which nothing was read yet is taken for an empty one.
NextIsUnread(k) == k.mbuf[k.next[k.writer]].rd = 0

NextIsEmpty(k) == LET b == k.mbuf[k.next[k.writer]] IN Wr(b) = b.rd
ChainFull(k) == ~NextIsEmpty(k) /\ k.unallocated = 0

\* The end of getNextWriteChunk(): a message under construction moves along
\* from the chunk "from".  Rows never leave one behind.
CarryMessage(k, from) ==
  LET b == k.mbuf[from]
      m == SubSeq(b.data, b.msg + 1, Wr(b))
      copied == [k EXCEPT !.mbuf[k.writer].data = @ \o m,
                          !.nmessages[k.writer] = @ + 1]
  IN  IF m = <<>> THEN k
      ELSE [copied EXCEPT !.mbuf[from] = ResetWrite(@)]

getNextWriteChunk(k) ==
  IF NextIsEmpty(k) THEN CarryMessage(ReuseNext(k), k.writer)
  ELSE IF k.unallocated > 0 THEN CarryMessage(InsertChunk(k), k.writer)
  ELSE CarryMessage(DropNext(k), k.next[k.writer])

\* bw_get_write_buf(): move on when the current chunk has reached its target.
\* (Rows are only started while the queue is active, see MayWrite.)
NeedsNext(k) == Wr(k.mbuf[k.writer]) >= TargetSize
WriteChunk(k) == IF NeedsNext(k) THEN getNextWriteChunk(k) ELSE k

\* The messages among the units s.
MessagesIn(s) == { s[i].body[1] : i \in { j \in 1 .. Len(s) : ~IsHeader(s[j]) } }

\* The messages lost when the writer moves on in k.
LostBy(k) ==
  IF NeedsNext(k) /\ ChainFull(k)
    THEN MessagesIn(Pending(k.mbuf[k.next[k.writer]]))
    ELSE {}

\* pthread_cond_signal(): only a thread that is already waiting notices.
Signalled == IF rpc = "wait" THEN "woken" ELSE rpc

\* bw_unlock_buf().
bw_unlock_buf == rpc' = Signalled /\ lock' = NoOne

Adversity == stream.luck > 0 /\ stream' = Unlucky(stream)

-----------------------------------------------------------------------------
Init ==
  /\ active = TRUE
  /\ lock = NoOne
  /\ q = NewQueue
  /\ meta_buf = <<>>
  /\ backoff = 1
  /\ cooling = FALSE
  /\ retval = 0
  /\ mainpc = "start" /\ lines = 0 /\ suspended = NoOne
  /\ wpc = [w \in Writers |-> "idle"]
  /\ wmsg = [w \in Writers |-> 0]
  /\ wnlost = [w \in Writers |-> 0]
  /\ wbuf = 0
  /\ rpc = "test" /\ chunk = 1 /\ allsent = 1 /\ size = 0 /\ sent = 0
  /\ stream \in { NewStream(kind, MaxLuck) : kind \in StreamKinds }
  /\ msgs = 0 /\ completed = <<>> /\ metadata = {} /\ dropped = {} /\ reported = 0

-----------------------------------------------------------------------------
(* The main thread.                                                        *)

\* One line of write_meta(): owt_meta() -> bw_push_meta(), under the mutex.
PushMeta ==
  /\ mainpc = "start" /\ lines < HeaderLines
  /\ lock = NoOne
  /\ meta_buf' = Append(meta_buf, 0)
  /\ lines' = lines + 1
  /\ UNCHANGED <<active, lock, q, mainpc, suspended, senderVars, writerVars,
                 stream, historyVars>>

\* omlc_start() returns: the application may inject measurements.
Started ==
  /\ mainpc = "start" /\ lines = HeaderLines
  /\ mainpc' = "run"
  /\ UNCHANGED <<queueVars, lines, suspended, senderVars, writerVars, stream,
                 historyVars>>

\* termination_handler() runs omlc_close() in the thread w that the signal
\* interrupts, wherever w is; w goes no further.
TerminationHandler(w) ==
  /\ Signals /\ mainpc = "run"
  /\ mainpc' = "handler"
  /\ suspended' = w
  /\ UNCHANGED <<queueVars, lines, senderVars, writerVars, stream, historyVars>>

\* Variant: destroy_mp() does not take the mutex of the measurement point.
DestroyMPsUnlocked ==
  /\ mainpc \in {"run", "handler"}
  /\ mainpc' = "close"
  /\ UNCHANGED <<queueVars, lines, suspended, senderVars, writerVars, stream,
                 historyVars>>

\* omlc_close() first destroys the measurement points: destroy_mp() takes the
\* mutex of each, which a thread holds from the start to the end of its row.
\* No row is started afterwards.
DestroyMPs ==
  /\ mainpc \in {"run", "handler"}
  /\ \A w \in Writers : wpc[w] = "idle"
  /\ mainpc' = "close"
  /\ UNCHANGED <<queueVars, lines, suspended, senderVars, writerVars, stream,
                 historyVars>>

\* Variant: bw_close() does not wake the reader.
CloseUnsignalled ==
  /\ mainpc = "close"
  /\ lock = NoOne
  /\ active' = FALSE
  /\ mainpc' = "join"
  /\ UNCHANGED <<lock, q, meta_buf, senderVars, lines, suspended, writerVars,
                 stream, historyVars>>

\* bw_close() up to pthread_join().
bw_close ==
  /\ mainpc = "close"
  /\ lock = NoOne
  /\ active' = FALSE
  /\ rpc' = Signalled
  /\ mainpc' = "join"
  /\ UNCHANGED <<lock, q, meta_buf, backoff, cooling, retval, chunk, allsent,
                 size, sent, lines, suspended, writerVars, stream, historyVars>>

\* pthread_join() returns and the stream is closed.
Joined ==
  /\ mainpc = "join" /\ rpc = "done"
  /\ mainpc' = "closed"
  /\ stream' = IF stream.kind = "net" THEN [stream EXCEPT !.socket = FALSE]
                                      ELSE stream
  /\ UNCHANGED <<queueVars, lines, suspended, senderVars, writerVars, historyVars>>

-----------------------------------------------------------------------------
(* The writer threads.                                                     *)

MayWrite(w) ==
  /\ suspended # w
  /\ \/ mainpc \in {"run", "handler"}
     \/ mainpc = "start" /\ EarlyRows /\ w \in FilterThreads

\* owt_row_start(): bw_get_write_buf() takes the mutex, mbuf_begin_write(),
\* and the first unit.  When the buffer cannot grow, the message is reset and
\* mbuf forgotten, with the mutex held.
RowStart(w) ==
  /\ wpc[w] = "idle" /\ MayWrite(w) /\ msgs < MaxMsgs
  /\ lock = NoOne
  /\ lock' = w
  /\ msgs' = msgs + 1
  /\ wmsg' = [wmsg EXCEPT ![w] = msgs + 1]
  /\ wpc' = [wpc EXCEPT ![w] = "cols"]
  /\ dropped' = dropped \cup LostBy(q)
  /\ LET k == WriteChunk(q)
         b == BeginWrite(k.mbuf[k.writer])
     IN  \/ /\ q' = [k EXCEPT !.mbuf[k.writer] = Extend(b, Unit(msgs + 1, 1))]
            /\ wbuf' = k.writer
            /\ UNCHANGED stream
         \/ /\ "start" \in Oom /\ Adversity
            /\ q' = [k EXCEPT !.mbuf[k.writer] = ResetWrite(b)]
            /\ wbuf' = 0
  /\ UNCHANGED <<active, meta_buf, senderVars, mainVars, wnlost, completed,
                 metadata, reported>>

\* owt_row_cols(), for all the values of the row.
RowCols(w) ==
  /\ suspended # w
  /\ wpc[w] = "cols"
  /\ wpc' = [wpc EXCEPT ![w] = "end"]
  /\ \/ /\ wbuf = 0
        /\ UNCHANGED <<q, wbuf, stream>>
     \/ /\ wbuf # 0
        /\ q' = [q EXCEPT !.mbuf[wbuf] = Extend(@, Unit(wmsg[w], 2))]
        /\ UNCHANGED <<wbuf, stream>>
     \/ /\ wbuf # 0 /\ "cols" \in Oom /\ Adversity
        /\ q' = [q EXCEPT !.mbuf[wbuf] = ResetWrite(@)]
        /\ wbuf' = 0
  /\ UNCHANGED <<active, lock, meta_buf, senderVars, mainVars, wmsg, wnlost, historyVars>>

\* A sampling thread is done with its row; omlc_inject() has lost rows to count.
AfterRow(w) == IF w \in FilterThreads THEN "idle" ELSE "readlost"

\* Variant: metadata is not copied to meta_buf.
NeverSchema0(w) == FALSE

\* An early row of a sampling thread still has index 0.
IsSchema0(w) == w \in Schema0 \/ mainpc = "start"

\* owt_row_end() when a previous function gave up: the mutex is not released.
RowEndNull(w) ==
  /\ suspended # w
  /\ wpc[w] = "end" /\ wbuf = 0
  /\ wpc' = [wpc EXCEPT ![w] = AfterRow(w)]
  /\ UNCHANGED <<queueVars, senderVars, mainVars, wmsg, wnlost, wbuf, stream, historyVars>>

\* owt_row_end(): the last unit, the copy of metadata to meta_buf, the commit
\* and the count; then bw_unlock_buf().
RowEnd(w) ==
  /\ suspended # w
  /\ wpc[w] = "end" /\ wbuf # 0
  /\ wpc' = [wpc EXCEPT ![w] = AfterRow(w)]
  /\ wbuf' = 0
  /\ bw_unlock_buf
  /\ LET counted == [q EXCEPT !.nmessages[q.writer] = @ + 1]
     IN  \/ /\ q' = [counted EXCEPT !.mbuf[wbuf] =
                       BeginWrite(Extend(@, Unit(wmsg[w], LastPart)))]
            /\ completed' = Append(completed, wmsg[w])
            /\ metadata' = IF w \in Schema0 THEN metadata \cup {wmsg[w]}
                                             ELSE metadata
            /\ meta_buf' = IF IsSchema0(w) THEN Append(meta_buf, wmsg[w])
                                           ELSE meta_buf
            /\ UNCHANGED stream
         \/ /\ "end" \in Oom /\ Adversity
            /\ q' = [counted EXCEPT !.mbuf[wbuf] = ResetWrite(@)]
            /\ UNCHANGED <<completed, metadata, meta_buf>>
  /\ UNCHANGED <<active, backoff, cooling, retval, chunk, allsent, size, sent,
                 mainVars, wmsg, wnlost, msgs, dropped, reported>>

\* bw_nlost_reset() does not take the mutex: it reads nlost ...
\* Variant: it sets it to zero first.
NlostZeroed(w) ==
  /\ wpc[w] = "readlost"
  /\ q' = [q EXCEPT !.nlost = 0]
  /\ wnlost' = [wnlost EXCEPT ![w] = 0]
  /\ wpc' = [wpc EXCEPT ![w] = "resetlost"]
  /\ UNCHANGED <<active, lock, meta_buf, senderVars, mainVars, wmsg, wbuf, stream, historyVars>>
NlostRead(w) ==
  /\ suspended # w
  /\ wpc[w] = "readlost"
  /\ wnlost' = [wnlost EXCEPT ![w] = q.nlost]
  /\ wpc' = [wpc EXCEPT ![w] = "resetlost"]
  /\ UNCHANGED <<queueVars, senderVars, mainVars, wmsg, wbuf, stream, historyVars>>

\* ... and then sets it to zero.
NlostReset(w) ==
  /\ suspended # w
  /\ wpc[w] = "resetlost"
  /\ q' = [q EXCEPT !.nlost = 0]
  /\ reported' = reported + wnlost[w]
  /\ wpc' = [wpc EXCEPT ![w] = "idle"]
  /\ wnlost' = [wnlost EXCEPT ![w] = 0]
  /\ UNCHANGED <<active, lock, meta_buf, senderVars, mainVars, wmsg, wbuf, stream,
                 msgs, completed, metadata, dropped>>

-----------------------------------------------------------------------------
(* The reader thread.  While it serves it holds the mutex from the return  *)
(* of pthread_cond_wait() to the end of the round; it drains without it.   *)

Draining == lock # Reader

ReaderOnly == UNCHANGED <<active, meta_buf, mainVars, writerVars, historyVars>>

\* while (self->active), tested without the mutex.
ReaderTest ==
  /\ rpc = "test"
  /\ rpc' = IF active THEN "lock" ELSE "enter"
  /\ ReaderOnly
  /\ UNCHANGED <<lock, q, backoff, cooling, retval, chunk, allsent, size, sent, stream>>

\* oml_lock() and pthread_cond_wait(), which releases the mutex.
ReaderWait ==
  /\ rpc = "lock" /\ lock = NoOne
  /\ rpc' = "wait"
  /\ ReaderOnly
  /\ UNCHANGED <<lock, q, backoff, cooling, retval, chunk, allsent, size, sent, stream>>

SpuriousWakeup ==
  /\ rpc = "wait" /\ Spurious /\ Adversity
  /\ rpc' = "woken"
  /\ ReaderOnly
  /\ UNCHANGED <<lock, q, backoff, cooling, retval, chunk, allsent, size, sent>>

\* pthread_cond_wait() returns with the mutex.
ReaderWoken ==
  /\ rpc = "woken" /\ lock = NoOne
  /\ lock' = Reader
  /\ rpc' = "loop"
  /\ ReaderOnly
  /\ UNCHANGED <<q, backoff, cooling, retval, chunk, allsent, size, sent, stream>>

\* Top of the do-while: only a chunk with complete messages is processed.
ReaderLoop ==
  /\ rpc = "loop"
  /\ rpc' = IF q.mbuf[chunk].msg > q.mbuf[chunk].rd THEN "enter" ELSE "return"
  /\ ReaderOnly
  /\ UNCHANGED <<lock, q, backoff, cooling, retval, chunk, allsent, size, sent, stream>>

\* processChunk(), first part: nothing is sent during the back-off.
ProcessEnter ==
  /\ rpc = "enter"
  /\ IF cooling
       THEN /\ allsent' = -1
            /\ rpc' = "return"
            /\ UNCHANGED <<q, size, sent>>
       ELSE /\ q' = [q EXCEPT !.reading[chunk] = TRUE]
            /\ size' = q.mbuf[chunk].msg - q.mbuf[chunk].rd
            /\ sent' = 0
            /\ rpc' = "send"
            /\ UNCHANGED allsent
  /\ ReaderOnly
  /\ UNCHANGED <<lock, backoff, cooling, retval, chunk, stream>>

\* The next back-off time: a uint8_t that doubles.
NextBackoff ==
  IF backoff = 0 THEN 1
  ELSE IF backoff < BackoffMod - 1 THEN (backoff * 2) % BackoffMod
  ELSE backoff

\* Variant: the chunk is still marked after a failure.
FailedStillReading ==
  /\ backoff' = NextBackoff
  /\ cooling' = (NextBackoff > 0)
  /\ allsent' = -2
  /\ rpc' = "return"
  /\ UNCHANGED <<q, sent>>

\* processChunk() gives up: everything it took from the chunk will be resent.
SendFailed ==
  /\ backoff' = NextBackoff
  /\ cooling' = (NextBackoff > 0)
  /\ q' = [q EXCEPT !.reading[chunk] = FALSE]
  /\ allsent' = -2
  /\ rpc' = "return"
  /\ UNCHANGED sent

\* One call of outStream->write() in processChunk().
ProcessSend ==
  /\ rpc = "send" /\ size > sent
  /\ LET b == q.mbuf[chunk]
         buf == SubSeq(b.data, b.rd + sent + 1, b.rd + size)
     IN  \E o \in outStream_write(stream, buf, Header(meta_buf)) :
           /\ stream' = o.stream
           /\ IF o.ret > 0
                THEN /\ sent' = sent + o.ret
                     /\ backoff' = 0
                     /\ UNCHANGED <<q, cooling, allsent, rpc>>
                ELSE SendFailed
  /\ ReaderOnly
  /\ UNCHANGED <<lock, retval, chunk, size>>

\* processChunk(), last part: skip what was sent, clear the chunk when it is
\* empty.
ProcessDone ==
  /\ rpc = "send" /\ size = sent
  /\ LET b == ReadSkip(q.mbuf[chunk], sent)
         empty == Wr(b) = b.rd
     IN  /\ q' = [q EXCEPT !.mbuf[chunk] = IF empty THEN EmptyBuf ELSE b,
                           !.reading[chunk] = FALSE]
         /\ allsent' = IF empty THEN 1 ELSE 0
  /\ rpc' = "return"
  /\ ReaderOnly
  /\ UNCHANGED <<lock, backoff, cooling, retval, chunk, size, sent, stream>>

\* Variant: the result of processChunk() is ignored.
MovesOnAnyway == chunk # q.writer

\* Does the do-while go on with the next chunk?
MovesOn == chunk # q.writer /\ allsent > 0

\* Variant: the mutex is kept at the end of the round.
ReaderKeepsMutex ==
  /\ rpc = "return" /\ ~Draining
  /\ rpc' = "test"
  /\ ReaderOnly
  /\ UNCHANGED <<lock, q, backoff, cooling, retval, chunk, allsent, size, sent, stream>>

\* Bottom of the do-while: stop at the writer's chunk or when something was
\* left unsent, and release the mutex.
ReaderNext ==
  /\ rpc = "return" /\ ~Draining
  /\ IF MovesOn
       THEN /\ chunk' = q.next[chunk]
            /\ rpc' = "loop"
            /\ UNCHANGED lock
       ELSE /\ lock' = NoOne
            /\ rpc' = "test"
            /\ UNCHANGED chunk
  /\ ReaderOnly
  /\ UNCHANGED <<q, backoff, cooling, retval, allsent, size, sent, stream>>

\* Variant: draining stops after the first chunk.
DrainOne ==
  /\ rpc = "return" /\ Draining
  /\ \/ /\ allsent = 0 \/ (allsent = -1 /\ ~cooling)
        /\ rpc' = "enter" /\ UNCHANGED <<chunk, retval>>
     \/ /\ allsent \in {-2, 1}
        /\ retval' = allsent /\ rpc' = "done" /\ UNCHANGED chunk
  /\ ReaderOnly
  /\ UNCHANGED <<lock, q, backoff, cooling, allsent, size, sent, stream>>

\* The drain loop of threadStart().
DrainNext ==
  /\ rpc = "return" /\ Draining
  /\ \/ /\ allsent > 0 /\ chunk # q.writer
        /\ chunk' = q.next[chunk] /\ rpc' = "enter" /\ UNCHANGED retval
     \/ /\ allsent = 0 \/ (allsent = -1 /\ ~cooling)   \* sleep(backoff)
        /\ rpc' = "enter" /\ UNCHANGED <<chunk, retval>>
     \/ /\ allsent = -2 \/ (allsent > 0 /\ chunk = q.writer)
        /\ retval' = allsent /\ rpc' = "done" /\ UNCHANGED chunk
  /\ ReaderOnly
  /\ UNCHANGED <<lock, q, backoff, cooling, allsent, size, sent, stream>>

\* backoff seconds have passed since the last failure.
TimePasses ==
  /\ cooling
  /\ cooling' = FALSE
  /\ UNCHANGED <<queueVars, backoff, retval, rpc, chunk, allsent, size, sent,
                 mainVars, writerVars, stream, historyVars>>

-----------------------------------------------------------------------------
ReaderStep ==
  \/ ReaderTest \/ ReaderWait \/ ReaderWoken \/ ReaderLoop
  \/ ProcessEnter \/ ProcessSend \/ ProcessDone \/ ReaderNext \/ DrainNext

RowStep(w) ==
  RowCols(w) \/ RowEnd(w) \/ RowEndNull(w) \/ NlostRead(w) \/ NlostReset(w)

MainStep == PushMeta \/ Started \/ bw_close \/ Joined

Next ==
  \/ MainStep
  \/ DestroyMPs
  \/ \E w \in Writers : RowStart(w) \/ RowStep(w) \/ TerminationHandler(w)
  \/ ReaderStep
  \/ SpuriousWakeup
  \/ TimePasses

Spec == Init /\ [][Next]_vars

\* A thread that can run does, a row that was started goes on, and time
\* passes.  The application need not write rows, nor close the library.
FairSpec ==
  /\ Spec
  /\ WF_vars(ReaderStep)
  /\ WF_vars(MainStep)
  /\ WF_vars(mainpc = "handler" /\ DestroyMPs)
  /\ \A w \in Writers : WF_vars(RowStep(w))
  /\ WF_vars(TimePasses)

-----------------------------------------------------------------------------
(* Safety.                                                                 *)

Units == [body : Seq(Nat), part : {-2, -1, 1, 2, 3}]
Buffers == [data : Seq(Units), rd : Nat, msg : Nat]

TypeOK ==
  /\ active \in BOOLEAN
  /\ lock \in Writers \cup {Reader, NoOne}
  /\ q \in [next : [ChunkIds -> 0 .. NChunks], mbuf : [ChunkIds -> Buffers],
            nmessages : [ChunkIds -> Nat], reading : [ChunkIds -> BOOLEAN],
            unallocated : Nat, writer : ChunkIds, nlost : Nat]
  /\ meta_buf \in Seq(Nat)
  /\ backoff \in 0 .. (BackoffMod - 1) /\ cooling \in BOOLEAN
  /\ retval \in {-2, 0, 1}
  /\ mainpc \in {"start", "run", "handler", "close", "join", "closed"}
  /\ suspended \in Writers \cup {NoOne}
  /\ lines \in 0 .. HeaderLines
  /\ wpc \in [Writers -> {"idle", "cols", "end", "readlost", "resetlost"}]
  /\ wmsg \in [Writers -> Nat] /\ wnlost \in [Writers -> Nat]
  /\ wbuf \in 0 .. NChunks
  /\ rpc \in {"test", "lock", "wait", "woken", "loop", "enter", "send",
              "return", "done"}
  /\ chunk \in ChunkIds /\ allsent \in {-2, -1, 0, 1}
  /\ size \in Nat /\ sent \in Nat
  /\ msgs \in Nat /\ completed \in Seq(Nat)
  /\ metadata \subseteq Nat /\ dropped \subseteq Nat
  /\ reported \in Nat

\* The units s are whole messages, one after the other.
WholeMessages(s) ==
  /\ Len(s) % LastPart = 0
  /\ \A i \in 1 .. Len(s) : /\ s[i].part = ((i - 1) % LastPart) + 1
                            /\ s[i].part > 1 => s[i].body = s[i - 1].body

\* assert(nextBuffer->reading == 0) in getNextWriteChunk(): the chunk that is
\* dropped is never the one that is being sent, because the reader holds the
\* mutex while it serves and rows have stopped when it drains.
NeverDropWhileReading ==
  \A c \in ChunkIds : q.reading[c] =>
    /\ c = chunk
    /\ lock = Reader \/ ~active

Processing == rpc \in {"enter", "send", "return"}

\* threadStart() drains without the mutex.  It may: by then no thread is in a
\* row, nobody holds the mutex, and none can start.
DrainIsExclusive ==
  (Processing /\ lock # Reader) =>
    /\ ~active
    /\ lock = NoOne
    /\ \A w \in Writers : wpc[w] = "idle"

\* k is a record with reading marks.
HasReading(k) == "reading" \in DOMAIN k

\* The inductive invariant behind the two: who holds the mutex where.
LockDiscipline ==
  /\ HasReading(q)
  /\ q.reading \in [ChunkIds -> BOOLEAN]
  /\ \A c \in ChunkIds : q.reading[c] => c = chunk /\ rpc = "send"
  /\ rpc = "loop" => lock = Reader
  /\ lock = Reader => rpc = "loop" \/ Processing
  /\ Processing => lock = Reader \/ ~active
  /\ active <=> mainpc \in {"start", "run", "handler", "close"}
  /\ ~active => lock \in {Reader, NoOne}
  /\ \A w \in Writers : wpc[w] # "idle" => mainpc \in {"start", "run", "handler"}
  /\ DOMAIN wpc = Writers
  /\ \A w \in Writers : wpc[w] \in {"cols", "end"} => lock = w

\* The messages the kernel has accepted in full, over all connections.
SentMessages ==
  { m \in 1 .. MaxMsgs :
      \E c \in 1 .. Len(stream.wire) :
        LET w == stream.wire[c]
        IN  \E i \in 1 .. (Len(w) - 2) : \A p \in 1 .. LastPart :
              w[i + p - 1] = Unit(m, p) }

QueuedMessages == UNION { MessagesIn(Pending(q.mbuf[c])) : c \in ChunkIds }

Completed == { completed[i] : i \in 1 .. Len(completed) }

\* A committed message is never silently lost: it waits in the queue, or the
\* stream has accepted it in full, or it went with a recycled chunk.  What is
\* resent after a failure may be accepted more than once.
NothingVanishes ==
  Completed \subseteq QueuedMessages \cup SentMessages \cup dropped

\* Position of the first unit of m in what the kernel accepted, connection
\* by connection.
FirstSent(m) ==
  LET places == UNION { { <<c, i>> : i \in { j \in 1 .. Len(stream.wire[c]) :
                                               stream.wire[c][j] = Unit(m, 1) } } :
                        c \in 1 .. Len(stream.wire) }
  IN  CHOOSE p \in places : \A o \in places :
        p[1] < o[1] \/ (p[1] = o[1] /\ p[2] <= o[2])

\* Until the first loss the queue is first-in first-out, through growth of the
\* chain, failures, back-off and reconnections.
FifoUntilLoss ==
  dropped = {} =>
    \A i, j \in 1 .. Len(completed) :
      (i < j /\ completed[j] \in SentMessages) =>
        /\ completed[i] \in SentMessages
        /\ LET a == FirstSent(completed[i])
               b == FirstSent(completed[j])
           IN  a[1] < b[1] \/ (a[1] = b[1] /\ a[2] < b[2])

\* threadStart() returns 1 only after every message was sent, as long as none
\* was lost: bw_close() then logs "Buffered queue fully drained".
DrainedUntilLoss ==
  (retval = 1 /\ dropped = {}) => Completed \subseteq SentMessages

\* bw_nlost_reset(): "return the number of lost messages in the BufferedWriter
\* before resetting".  With one injecting thread every loss is reported or
\* still to be reported.  (A second thread that recycles a chunk between the
\* read and the reset of nlost is forgotten.)
LossesReported ==
  Cardinality(Writers) = 1 => Cardinality(dropped) <= reported + q.nlost

\* What a server can make of a connection: the header, then messages.
Frames(w) ==
  \/ w = <<>>
  \/ /\ w[1].part = -1
     /\ Len(w) > 1 => w[2] = [w[1] EXCEPT !.part = -2]
     /\ LET data == SubSeq(w, 3, Len(w))
            whole == Len(data) - (Len(data) % LastPart)
        IN  /\ WholeMessages(SubSeq(data, 1, whole))
            /\ \A i \in (whole + 1) .. Len(data) :
                 data[i] = Unit(data[whole + 1].body[1], i - whole)

\* Each connection carries one header followed by whole messages; only the
\* last message of a connection may be cut.  (A file has no connections: after
\* a failure the chunk is written again behind what was already stored.)
WellFramed ==
  stream.kind = "net" => \A c \in 1 .. Len(stream.wire) : Frames(stream.wire[c])

\* api.c: after a network error, "initial headers", then "all schema0", then
\* the data: "schema0 MP definitions are required".  A message is only sent on
\* a connection that has carried all metadata committed before it.
MetadataBeforeData ==
  \A c \in 1 .. Len(stream.wire) : \A i \in 1 .. Len(stream.wire[c]) :
    LET w == stream.wire[c]
        before(m) == { completed[n] : n \in { k \in 1 .. Len(completed) :
                         \E o \in (k + 1) .. Len(completed) : completed[o] = m } }
        known == UNION { { w[j].body[n] : n \in 1 .. Len(w[j].body) } :
                         j \in 1 .. (i - 1) }
    IN  ~IsHeader(w[i]) => (before(w[i].body[1]) \cap metadata) \subseteq known

\* It does as long as nothing was lost: a reconnection replays from meta_buf
\* what was sent on earlier connections.
MetadataReplayed == dropped = {} => MetadataBeforeData

-----------------------------------------------------------------------------
(* Steps.                                                                  *)

\* Writers never touch what is committed, except when they recycle a chunk of
\* a full chain.
WritersKeepCommitted ==
  [][ \A c \in ChunkIds :
        (lock' \in Writers /\ Pending(q'.mbuf[c]) # Pending(q.mbuf[c]))
           => c = q.next[q.writer] /\ ChainFull(q) ]_vars

-----------------------------------------------------------------------------
(* Liveness.                                                               *)

\* "Blocks until the buffered writer drains": bw_close() returns.
CloseReturns == (mainpc = "join") ~> (mainpc = "closed")

\* It does, whatever the stream does while draining, unless the reader had just
\* seen active and had yet to wait when bw_close() signalled.
CloseReturnsUnlessSignalMissed ==
  [](mainpc = "join" => rpc # "lock") => CloseReturns

=============================================================================
