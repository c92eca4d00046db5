---------------------------- MODULE QueueProofs -----------------------------
(***************************************************************************)
(* Proofs about the mutex of lib/client/buffered_writer.c and about what   *)
(* its queue holds, for any number of threads, chunks and messages, and    *)
(* for every behaviour of the output stream.                               *)
(***************************************************************************)
EXTENDS BufferedWriter, SequenceTheorems, FiniteSetTheorems, TLAPS

-----------------------------------------------------------------------------
(* The mutex.                                                              *)

\* Nothing a writer does to the chain touches the reading marks.
LEMMA CarryKeepsReading ==
  ASSUME NEW k, HasReading(k), NEW from
  PROVE  HasReading(CarryMessage(k, from)) /\ CarryMessage(k, from).reading = k.reading
BY DEF HasReading, CarryMessage

LEMMA NextChunkKeepsReading ==
  ASSUME NEW k, HasReading(k)
  PROVE  HasReading(WriteChunk(k)) /\ WriteChunk(k).reading = k.reading
<1>1. HasReading(ReuseNext(k)) /\ ReuseNext(k).reading = k.reading
  BY DEF HasReading, ReuseNext
<1>2. HasReading(InsertChunk(k)) /\ InsertChunk(k).reading = k.reading
  BY DEF HasReading, InsertChunk
<1>3. HasReading(DropNext(k)) /\ DropNext(k).reading = k.reading
  BY DEF HasReading, DropNext
<1>4. HasReading(getNextWriteChunk(k)) /\ getNextWriteChunk(k).reading = k.reading
  BY <1>1, <1>2, <1>3, CarryKeepsReading DEF getNextWriteChunk
<1>. QED
  BY <1>4 DEF WriteChunk

-----------------------------------------------------------------------------
\* The steps of the main thread.
LEMMA MainKeepsLockDiscipline ==
  ASSUME LockDiscipline,
         \/ MainStep \/ DestroyMPs
         \/ \E w \in Writers : TerminationHandler(w)
  PROVE  LockDiscipline'
<1>. USE DEF LockDiscipline, Processing
<1>1. CASE PushMeta
  BY <1>1 DEF PushMeta, senderVars, writerVars
<1>2. CASE Started
  BY <1>2 DEF Started, queueVars, senderVars, writerVars
<1>3. CASE DestroyMPs
  BY <1>3 DEF DestroyMPs, queueVars, senderVars, writerVars
<1>4. CASE \E w \in Writers : TerminationHandler(w)
  BY <1>4 DEF TerminationHandler, queueVars, senderVars, writerVars
<1>5. CASE bw_close
  <2>1. rpc' = rpc \/ (rpc = "wait" /\ rpc' = "woken")
    BY <1>5 DEF bw_close, Signalled
  <2>2. UNCHANGED <<lock, q, chunk, wpc>> /\ lock = NoOne /\ ~active'
        /\ mainpc = "close" /\ mainpc' = "join"
    BY <1>5 DEF bw_close, writerVars
  <2>. QED
    BY <2>1, <2>2, BWAssumption
<1>6. CASE Joined
  BY <1>6 DEF Joined, queueVars, senderVars, writerVars
<1>. QED
  BY <1>1, <1>2, <1>3, <1>4, <1>5, <1>6 DEF MainStep

\* The steps of a writer thread.  It only takes the mutex while the queue is
\* active, and never marks a chunk.
LEMMA WriterKeepsLockDiscipline ==
  ASSUME LockDiscipline, NEW w \in Writers, RowStart(w) \/ RowStep(w)
  PROVE  LockDiscipline'
<1>. USE DEF LockDiscipline, Processing
<1>1. CASE RowStart(w)
  <2>1. HasReading(q') /\ q'.reading = q.reading
    BY <1>1, NextChunkKeepsReading DEF RowStart, HasReading
  <2>2. /\ lock = NoOne /\ lock' = w
        /\ UNCHANGED <<active, rpc, chunk, mainpc>>
        /\ wpc' = [wpc EXCEPT ![w] = "cols"]
        /\ mainpc \in {"start", "run", "handler"}
    BY <1>1 DEF RowStart, MayWrite, senderVars, mainVars
  <2>. QED
    BY <2>1, <2>2, BWAssumption
<1>2. CASE RowCols(w)
  <2>1. HasReading(q') /\ q'.reading = q.reading
    BY <1>2 DEF RowCols, HasReading
  <2>2. /\ UNCHANGED <<active, lock, rpc, chunk, mainpc>>
        /\ wpc[w] = "cols" /\ wpc' = [wpc EXCEPT ![w] = "end"]
    BY <1>2 DEF RowCols, senderVars, mainVars
  <2>. QED
    BY <2>1, <2>2
<1>3. CASE RowEnd(w)
  <2>1. HasReading(q') /\ q'.reading = q.reading
    BY <1>3 DEF RowEnd, HasReading
  <2>2. rpc' = rpc \/ (rpc = "wait" /\ rpc' = "woken")
    BY <1>3 DEF RowEnd, bw_unlock_buf, Signalled
  <2>3. /\ lock' = NoOne /\ UNCHANGED <<active, chunk, mainpc>>
        /\ wpc[w] = "end" /\ wpc' = [wpc EXCEPT ![w] = AfterRow(w)]
    BY <1>3 DEF RowEnd, bw_unlock_buf, mainVars
  <2>4. AfterRow(w) \in {"idle", "readlost"} /\ lock = w
    BY <2>3 DEF AfterRow
  <2>5. \A v \in Writers : wpc'[v] \notin {"cols", "end"}
    BY <2>3, <2>4
  <2>. QED
    BY <2>1, <2>2, <2>3, <2>4, <2>5, BWAssumption
<1>4. CASE RowEndNull(w)
  BY <1>4 DEF RowEndNull, AfterRow, queueVars, senderVars, mainVars
<1>5. CASE NlostRead(w)
  BY <1>5 DEF NlostRead, queueVars, senderVars, mainVars
<1>6. CASE NlostReset(w)
  <2>1. HasReading(q') /\ q'.reading = q.reading
    BY <1>6 DEF NlostReset, HasReading
  <2>2. /\ UNCHANGED <<active, lock, rpc, chunk, mainpc>>
        /\ wpc[w] = "resetlost" /\ wpc' = [wpc EXCEPT ![w] = "idle"]
    BY <1>6 DEF NlostReset, senderVars, mainVars
  <2>. QED
    BY <2>1, <2>2
<1>. QED
  BY <1>1, <1>2, <1>3, <1>4, <1>5, <1>6 DEF RowStep

\* The steps of the reader thread.
LEMMA ReaderKeepsLockDiscipline ==
  ASSUME LockDiscipline, ReaderStep \/ SpuriousWakeup \/ TimePasses
  PROVE  LockDiscipline'
<1>. USE DEF LockDiscipline, Processing
<1>1. CASE ReaderTest
  BY <1>1 DEF ReaderTest, ReaderOnly, mainVars, writerVars
<1>2. CASE ReaderWait
  BY <1>2 DEF ReaderWait, ReaderOnly, mainVars, writerVars
<1>3. CASE SpuriousWakeup
  BY <1>3 DEF SpuriousWakeup, ReaderOnly, mainVars, writerVars
<1>4. CASE ReaderWoken
  BY <1>4, BWAssumption DEF ReaderWoken, ReaderOnly, mainVars, writerVars
<1>5. CASE ReaderLoop
  BY <1>5 DEF ReaderLoop, ReaderOnly, mainVars, writerVars
<1>6. CASE ProcessEnter
  <2>1. /\ rpc = "enter" /\ rpc' \in {"return", "send"}
        /\ UNCHANGED <<lock, chunk, active, mainpc, wpc>>
    BY <1>6 DEF ProcessEnter, ReaderOnly, mainVars, writerVars
  <2>2. \/ q' = q
        \/ /\ HasReading(q') /\ rpc' = "send"
           /\ q'.reading = [q.reading EXCEPT ![chunk] = TRUE]
    BY <1>6 DEF ProcessEnter, HasReading
  <2>. QED
    BY <2>1, <2>2
<1>7. CASE ProcessSend
  <2>1. /\ rpc = "send" /\ rpc' \in {"return", "send"}
        /\ UNCHANGED <<lock, chunk, active, mainpc, wpc>>
    BY <1>7 DEF ProcessSend, SendFailed, ReaderOnly, mainVars, writerVars
  <2>2. \/ q' = q /\ rpc' = "send"
        \/ HasReading(q') /\ q'.reading = [q.reading EXCEPT ![chunk] = FALSE]
    BY <1>7 DEF ProcessSend, SendFailed, HasReading
  <2>. QED
    BY <2>1, <2>2
<1>8. CASE ProcessDone
  <2>1. /\ rpc = "send" /\ rpc' = "return"
        /\ UNCHANGED <<lock, chunk, active, mainpc, wpc>>
    BY <1>8 DEF ProcessDone, ReaderOnly, mainVars, writerVars
  <2>2. HasReading(q') /\ q'.reading = [q.reading EXCEPT ![chunk] = FALSE]
    BY <1>8 DEF ProcessDone, HasReading
  <2>. QED
    BY <2>1, <2>2
<1>9. CASE ReaderNext
  BY <1>9, BWAssumption DEF ReaderNext, MovesOn, Draining, ReaderOnly, mainVars, writerVars
<1>10. CASE DrainNext
  BY <1>10 DEF DrainNext, Draining, ReaderOnly, mainVars, writerVars
<1>11. CASE TimePasses
  BY <1>11 DEF TimePasses, queueVars, mainVars, writerVars
<1>. QED
  BY <1>1, <1>2, <1>3, <1>4, <1>5, <1>6, <1>7, <1>8, <1>9, <1>10, <1>11
     DEF ReaderStep

-----------------------------------------------------------------------------
\* LockDiscipline is an invariant.
THEOREM LockDisciplineHolds == Spec => []LockDiscipline
<1>1. Init => LockDiscipline
  <2>. SUFFICES ASSUME Init PROVE LockDiscipline
    OBVIOUS
  <2>1. HasReading(q) /\ q.reading = [c \in ChunkIds |-> FALSE]
    BY DEF Init, NewQueue, HasReading
  <2>. QED
    BY <2>1, BWAssumption DEF Init, LockDiscipline, Processing
<1>2. LockDiscipline /\ [Next]_vars => LockDiscipline'
  <2>. SUFFICES ASSUME LockDiscipline, [Next]_vars PROVE LockDiscipline'
    OBVIOUS
  <2>1. CASE MainStep \/ DestroyMPs \/ \E w \in Writers : TerminationHandler(w)
    BY <2>1, MainKeepsLockDiscipline
  <2>2. CASE \E w \in Writers : RowStart(w) \/ RowStep(w)
    BY <2>2, WriterKeepsLockDiscipline
  <2>3. CASE ReaderStep \/ SpuriousWakeup \/ TimePasses
    BY <2>3, ReaderKeepsLockDiscipline
  <2>4. CASE UNCHANGED vars
    BY <2>4 DEF vars, queueVars, senderVars, mainVars, writerVars,
                LockDiscipline, Processing
  <2>. QED
    BY <2>1, <2>2, <2>3, <2>4 DEF Next
<1>. QED
  BY <1>1, <1>2, PTL DEF Spec

\* assert(nextBuffer->reading == 0) in getNextWriteChunk() never fails: when a
\* writer recycles a chunk it is not being sent, for any number of writer
\* threads, any chain and any behaviour of the stream.
THEOREM DropNeverHitsReader == Spec => []NeverDropWhileReading
<1>1. LockDiscipline => NeverDropWhileReading
  BY DEF LockDiscipline, Processing, NeverDropWhileReading
<1>. QED
  BY <1>1, LockDisciplineHolds, PTL

\* The reader drains the queue without the mutex only when no other thread is
\* in a row or can start one.
THEOREM DrainNeedsNoLock == Spec => []DrainIsExclusive
<1>1. LockDiscipline => DrainIsExclusive
  BY DEF LockDiscipline, Processing, DrainIsExclusive
<1>. QED
  BY <1>1, LockDisciplineHolds, PTL

-----------------------------------------------------------------------------
(* What the chunks hold.                                                   *)

\* The chunks of the chain, in the order in which they were allocated.
Allocated(k) == 1 .. (NChunks - k.unallocated)

BufferOK(b) ==
  /\ b \in Buffers
  /\ b.data \in Seq(Units) /\ b.rd \in Nat /\ b.msg \in Nat
  /\ b.rd <= b.msg /\ b.msg <= Wr(b)

\* The chain is closed, and a chunk that is not in it is as new.
ChainOK(k) ==
  /\ DOMAIN k = {"next", "mbuf", "nmessages", "reading", "unallocated", "writer", "nlost"}
  /\ k.unallocated \in 0 .. (NChunks - 1)
  /\ k.writer \in Allocated(k)
  /\ DOMAIN k.next = ChunkIds
  /\ \A c \in Allocated(k) : k.next[c] \in Allocated(k)
  /\ DOMAIN k.mbuf = ChunkIds
  /\ \A c \in ChunkIds : BufferOK(k.mbuf[c])
  /\ k.nmessages \in [ChunkIds -> Nat]
  /\ k.nlost \in Nat
  /\ \A c \in ChunkIds \ Allocated(k) : k.mbuf[c] = EmptyBuf /\ k.nmessages[c] = 0

\* The chunk c has no message under construction.
Closed(k, c) == Wr(k.mbuf[c]) = k.mbuf[c].msg

\* A message under construction is the one of the thread that holds the mutex,
\* in the chunk where rows are written.
Shape ==
  /\ LockDiscipline
  /\ ChainOK(q)
  /\ chunk \in Allocated(q)
  /\ wbuf # 0 => wbuf = q.writer /\ lock \in Writers /\ wpc[lock] \in {"cols", "end"}
  /\ \A c \in ChunkIds : c # wbuf => Closed(q, c)

-----------------------------------------------------------------------------
\* The first 3 * e units of d are whole messages among the n first.
Framed(d, e, n) ==
  \A j \in Nat : j < e =>
    \E m \in 1 .. n : /\ d[3 * j + 1] = Unit(m, 1)
                      /\ d[3 * j + 2] = Unit(m, 2)
                      /\ d[3 * j + 3] = Unit(m, 3)

FramedBuf(b, n) ==
  \E r, e \in Nat : b.rd = 3 * r /\ b.msg = 3 * e /\ Framed(b.data, e, n)

\* The message of thread w, as far as it is written in b.
Partial(b, m, where) ==
  /\ where = "cols" => Wr(b) = b.msg + 1
  /\ where = "end" => Wr(b) = b.msg + 2 /\ b.data[b.msg + 2] = Unit(m, 2)
  /\ b.data[b.msg + 1] = Unit(m, 1)

Messages ==
  /\ msgs \in 0 .. MaxMsgs
  /\ DOMAIN wmsg = Writers
  /\ \A c \in ChunkIds : FramedBuf(q.mbuf[c], msgs)
  /\ wbuf # 0 => /\ wmsg[lock] \in 1 .. msgs
                 /\ Partial(q.mbuf[wbuf], wmsg[lock], wpc[lock])
  /\ completed \in Seq(Nat) /\ meta_buf \in Seq(Nat)

\* What the kernel has accepted; a stream that is connected has a wire.
StreamOK(s) ==
  /\ DOMAIN s = {"kind", "socket", "disconnected", "header_written", "wire", "luck"}
  /\ s.kind \in {"net", "file"}
  /\ s.wire \in Seq(Seq(Units))
  /\ s.kind = "file" \/ ~s.disconnected => Len(s.wire) > 0

\* The next call of write() goes on where the last one ended.
Connected(s) ==
  /\ s.header_written /\ Len(s.wire) > 0
  /\ s.kind = "net" => s.socket /\ ~s.disconnected

EndsWith(s, units) == \E w \in Seq(Units) : s.wire[Len(s.wire)] = w \o units

\* What processChunk() has sent so far is the end of the current connection.
Sending ==
  /\ StreamOK(stream)
  /\ rpc = "send" =>
       LET b == q.mbuf[chunk]
       IN  /\ size = b.msg - b.rd /\ sent \in 0 .. size
           /\ sent > 0 => /\ Connected(stream)
                          /\ EndsWith(stream, SubSeq(b.data, b.rd + 1, b.rd + sent))

\* A chunk counts at least the messages it holds; nothing is forgotten between
\* the two halves of bw_nlost_reset().
Losses ==
  /\ \A c \in ChunkIds : q.mbuf[c].msg <= 3 * q.nmessages[c]
  /\ IsFiniteSet(dropped) /\ reported \in Nat /\ wnlost \in [Writers -> Nat]
  /\ Cardinality(Writers) = 1 =>
       \A w \in Writers : wpc[w] = "resetlost" => wnlost[w] = q.nlost
  /\ LossesReported

QueueInv == Shape /\ Messages /\ Sending /\ NothingVanishes

-----------------------------------------------------------------------------
(* Buffers.                                                                *)

LEMMA UnitsAreUnits ==
  ASSUME NEW m \in Nat, NEW p \in {1, 2, 3}
  PROVE  Unit(m, p) \in Units
<1>1. <<m>> \in Seq(Nat)
  OBVIOUS
<1>. QED
  BY <1>1 DEF Unit, Units

LEMMA EmptyIsOK == BufferOK(EmptyBuf) /\ Wr(EmptyBuf) = 0 /\ EmptyBuf.msg = 0 /\ EmptyBuf.rd = 0
BY EmptySeq DEF Buffers, BufferOK, EmptyBuf, Wr

LEMMA ExtendKeeps ==
  ASSUME NEW b, BufferOK(b), NEW u \in Units
  PROVE  LET x == Extend(b, u)
         IN  /\ BufferOK(x) /\ x.rd = b.rd /\ x.msg = b.msg
             /\ Wr(x) = Wr(b) + 1 /\ x.data[Wr(b) + 1] = u
             /\ \A i \in 1 .. Wr(b) : x.data[i] = b.data[i]
             /\ Pending(x) = Pending(b)
<1>. DEFINE x == Extend(b, u)
<1>1. /\ x = [data |-> Append(b.data, u), rd |-> b.rd, msg |-> b.msg]
      /\ x.data = Append(b.data, u) /\ x.rd = b.rd /\ x.msg = b.msg
  <2>. DEFINE d == Append(b.data, u)
  <2>1. x = [b EXCEPT !.data = d]
    BY DEF Extend
  <2>. HIDE DEF d, x
  <2>2. x = [data |-> d, rd |-> b.rd, msg |-> b.msg]
    BY <2>1 DEF Buffers, BufferOK
  <2>3. x.data = d /\ x.rd = b.rd /\ x.msg = b.msg
    BY <2>2
  <2>. QED
    BY <2>2, <2>3 DEF d
<1>2. /\ Append(b.data, u) \in Seq(Units) /\ Len(Append(b.data, u)) = Len(b.data) + 1
      /\ Len(b.data) \in Nat
      /\ Append(b.data, u)[Len(b.data) + 1] = u
      /\ \A i \in 1 .. Len(b.data) : Append(b.data, u)[i] = b.data[i]
  BY AppendProperties, LenProperties DEF Buffers, BufferOK
<1>. HIDE DEF x
<1>3. BufferOK(x)
  BY <1>1, <1>2 DEF Buffers, BufferOK, Wr
<1>4. SubSeq(x.data, x.rd + 1, x.msg) = SubSeq(b.data, b.rd + 1, b.msg)
  <2>1. PICK d, z, r, m, n : /\ d = b.data /\ z = x.data /\ r = b.rd /\ m = b.msg /\ n = Len(d)
                             /\ x.rd = r /\ x.msg = m
    BY <1>1
  <2>2. r \in Nat /\ m \in Nat /\ n \in Nat /\ m <= n
    BY <1>2, <2>1 DEF BufferOK, Wr
  <2>3. \A i \in 1 .. n : z[i] = d[i]
    BY <1>1, <1>2, <2>1
  <2>4. PICK a : a = r + 1
    OBVIOUS
  <2>5. /\ a \in Int /\ m \in Int /\ \A i \in 1 .. m - a + 1 : a + i - 1 \in 1 .. n
        /\ \A i \in a .. m : i \in 1 .. n
    BY ONLY <2>2, <2>4
  <2>6. SubSeq(z, r + 1, m) = SubSeq(d, r + 1, m)
    <3>1. d \in Seq(Units) /\ \A i \in a .. m : d[i] \in Units /\ z[i] \in Units
      <4>1. d \in Seq(Units)
        BY <2>1 DEF BufferOK
      <4>2. \A i \in 1 .. n : d[i] \in Units
        BY <2>1, <4>1, ElementOfSeq
      <4>. QED
        BY ONLY <2>3, <2>5, <4>1, <4>2
    <3>2. PICK f, g : f = SubSeq(z, a, m) /\ g = SubSeq(d, a, m)
      OBVIOUS
    <3>3. /\ f \in Seq(Units) /\ Len(f) = (IF a <= m THEN m - a + 1 ELSE 0)
          /\ \A i \in 1 .. m - a + 1 : f[i] = z[a + i - 1]
      BY ONLY <2>5, <3>1, <3>2, SubSeqProperties
    <3>4. /\ g \in Seq(Units) /\ Len(g) = (IF a <= m THEN m - a + 1 ELSE 0)
          /\ \A i \in 1 .. m - a + 1 : g[i] = d[a + i - 1]
      BY ONLY <2>5, <3>1, <3>2, SubSeqProperties
    <3>5. \A i \in 1 .. m - a + 1 : f[i] = g[i]
      BY ONLY <2>3, <2>5, <3>3, <3>4
    <3>6. \A i \in 1 .. Len(f) : i \in 1 .. m - a + 1
      <4>1. PICK k : k = Len(f)
        OBVIOUS
      <4>2. k = (IF a <= m THEN m - a + 1 ELSE 0)
        BY ONLY <3>3, <4>1
      <4>3. \A i \in 1 .. k : i \in 1 .. m - a + 1
        BY ONLY <2>5, <4>2
      <4>. QED
        BY ONLY <4>1, <4>3
    <3>7. Len(f) = Len(g) /\ \A i \in 1 .. Len(f) : f[i] = g[i]
      BY ONLY <3>3, <3>4, <3>5, <3>6
    <3>8. f = g
      BY ONLY <3>3, <3>4, <3>7, SeqEqual
    <3>. QED
      BY <2>4, <3>2, <3>8
  <2>. QED
    BY <2>1, <2>6
<1>. QED
  BY <1>1, <1>2, <1>3, <1>4 DEF Wr, Pending, x

LEMMA BeginKeeps ==
  ASSUME NEW b, BufferOK(b)
  PROVE  LET x == BeginWrite(b)
         IN  /\ BufferOK(x) /\ x.rd = b.rd /\ x.data = b.data
             /\ x.msg = Wr(b) /\ Wr(x) = Wr(b)
             /\ Wr(b) = b.msg => x = b
<1>1. Len(b.data) \in Nat
  BY LenProperties DEF Buffers, BufferOK
<1>. QED
  BY <1>1 DEF BeginWrite, Buffers, BufferOK, Wr

LEMMA ResetKeeps ==
  ASSUME NEW b, BufferOK(b)
  PROVE  LET x == ResetWrite(b)
         IN  /\ BufferOK(x) /\ x.rd = b.rd /\ x.msg = b.msg /\ Wr(x) = b.msg
             /\ \A i \in 1 .. b.msg : x.data[i] = b.data[i]
             /\ Pending(x) = Pending(b)
<1>. DEFINE x == ResetWrite(b)
<1>1. /\ x = [data |-> SubSeq(b.data, 1, b.msg), rd |-> b.rd, msg |-> b.msg]
      /\ x.data = SubSeq(b.data, 1, b.msg) /\ x.rd = b.rd /\ x.msg = b.msg
  <2>. DEFINE d == SubSeq(b.data, 1, b.msg)
  <2>1. x = [b EXCEPT !.data = d]
    BY DEF ResetWrite
  <2>. HIDE DEF d, x
  <2>2. x = [data |-> d, rd |-> b.rd, msg |-> b.msg]
    BY <2>1 DEF Buffers, BufferOK
  <2>3. x.data = d /\ x.rd = b.rd /\ x.msg = b.msg
    BY <2>2
  <2>. QED
    BY <2>2, <2>3 DEF d
<1>2. /\ SubSeq(b.data, 1, b.msg) \in Seq(Units)
      /\ Len(SubSeq(b.data, 1, b.msg)) = b.msg
      /\ \A i \in 1 .. b.msg : SubSeq(b.data, 1, b.msg)[i] = b.data[i]
  BY DEF Buffers, BufferOK, Wr
<1>. HIDE DEF x
<1>3. BufferOK(x)
  BY <1>1, <1>2 DEF Buffers, BufferOK, Wr
<1>4. SubSeq(x.data, x.rd + 1, x.msg) = SubSeq(b.data, b.rd + 1, b.msg)
  BY <1>1, <1>2, SMTT(30) DEF Buffers, BufferOK, Wr
<1>. QED
  BY <1>1, <1>2, <1>3, <1>4 DEF Wr, Pending, x

\* A chunk without a message under construction is emptied by repacking.
LEMMA RepackEmpties ==
  ASSUME NEW b, BufferOK(b), Wr(b) = b.msg
  PROVE  RepackMessage2(b) = EmptyBuf
<1>1. SubSeq(b.data, b.msg + 1, Wr(b)) = <<>>
  BY DEF Buffers, BufferOK, Wr
<1>. QED
  BY <1>1 DEF RepackMessage2, EmptyBuf

LEMMA EmptyHasNothing ==
  ASSUME NEW b, BufferOK(b), b.rd = b.msg
  PROVE  Pending(b) = <<>>
BY DEF Buffers, BufferOK, Pending, Wr

LEMMA NothingInNothing == MessagesIn(<<>>) = {}
BY EmptySeq DEF MessagesIn

-----------------------------------------------------------------------------
(* The chain.                                                              *)

\* Without a message under construction, nothing is carried along.
LEMMA NothingCarried ==
  ASSUME NEW k, NEW from, BufferOK(k.mbuf[from]), Closed(k, from)
  PROVE  CarryMessage(k, from) = k
<1>1. SubSeq(k.mbuf[from].data, k.mbuf[from].msg + 1, Wr(k.mbuf[from])) = <<>>
  BY DEF Closed, BufferOK, Wr
<1>. QED
  BY <1>1 DEF CarryMessage

\* In t the writer has gone to chunk c, which is then empty.
Moves(k, t, c) ==
  /\ ChainOK(t)
  /\ t.writer = c
  /\ \A d \in ChunkIds :
       /\ t.mbuf[d] = IF d = c THEN EmptyBuf ELSE k.mbuf[d]
       /\ t.nmessages[d] = IF d = c THEN 0 ELSE k.nmessages[d]
  /\ Allocated(k) \subseteq Allocated(t)

LEMMA Reusing ==
  ASSUME NEW k, ChainOK(k), \A c \in ChunkIds : Closed(k, c)
  PROVE  LET t == CarryMessage(ReuseNext(k), k.writer)
             c == k.next[k.writer]
         IN  Moves(k, t, c) /\ t.nlost = k.nlost /\ t.next = k.next
<1>. DEFINE c == k.next[k.writer]
            t == ReuseNext(k)
<1>0. c \in Allocated(k) /\ c \in ChunkIds /\ k.writer \in ChunkIds
  BY BWAssumption DEF ChainOK, Allocated, ChunkIds
<1>1. /\ DOMAIN t = DOMAIN k
      /\ t.writer = c /\ t.next = k.next /\ t.nlost = k.nlost
      /\ t.unallocated = k.unallocated
      /\ t.mbuf = [k.mbuf EXCEPT ![c] = EmptyBuf]
      /\ t.nmessages = [k.nmessages EXCEPT ![c] = 0]
  BY DEF ReuseNext, ChainOK
<1>. HIDE DEF t, c
<1>2. \A d \in ChunkIds :
        /\ t.mbuf[d] = IF d = c THEN EmptyBuf ELSE k.mbuf[d]
        /\ t.nmessages[d] = IF d = c THEN 0 ELSE k.nmessages[d]
  BY <1>1 DEF ChainOK
<1>3. ChainOK(t) /\ Allocated(k) \subseteq Allocated(t)
  BY <1>0, <1>1, <1>2, EmptyIsOK DEF ChainOK, Allocated
<1>4. CarryMessage(t, k.writer) = t
  <2>1. BufferOK(t.mbuf[k.writer])
    BY <1>0, <1>3 DEF ChainOK
  <2>2. Closed(t, k.writer)
    BY <1>0, <1>2, EmptyIsOK DEF Closed
  <2>. QED
    BY <2>1, <2>2, NothingCarried
<1>. QED
  BY <1>1, <1>2, <1>3, <1>4 DEF t, c, Moves

LEMMA Inserting ==
  ASSUME NEW k, ChainOK(k), \A c \in ChunkIds : Closed(k, c), k.unallocated > 0
  PROVE  LET t == CarryMessage(InsertChunk(k), k.writer)
             c == NChunks - k.unallocated + 1
         IN  /\ Moves(k, t, c) /\ t.nlost = k.nlost /\ c \in ChunkIds /\ t.mbuf = k.mbuf
             /\ t.next[k.writer] = c /\ c \in Allocated(t)
             /\ \A d \in Allocated(k) : d # k.writer => t.next[d] = k.next[d]
<1>. DEFINE c == NChunks - k.unallocated + 1
            t == InsertChunk(k)
<1>0. /\ c \in ChunkIds /\ k.writer \in ChunkIds /\ c \notin Allocated(k) /\ c # k.writer
      /\ k.unallocated - 1 \in 0 .. (NChunks - 1)
  BY BWAssumption DEF ChainOK, Allocated, ChunkIds
<1>1. /\ DOMAIN t = DOMAIN k
      /\ t.writer = c /\ t.nlost = k.nlost
      /\ t.next = [[k.next EXCEPT ![c] = k.next[k.writer]] EXCEPT ![k.writer] = c]
      /\ t.unallocated = k.unallocated - 1
      /\ t.mbuf = k.mbuf
      /\ t.nmessages = k.nmessages
  BY DEF InsertChunk, ChainOK
<1>. HIDE DEF t
<1>2. Allocated(t) = Allocated(k) \cup {c}
  BY <1>0, <1>1, BWAssumption DEF ChainOK, Allocated
<1>. HIDE DEF c
<1>3. /\ \A d \in Allocated(t) : t.next[d] \in Allocated(t)
      /\ t.next[k.writer] = c /\ c \in Allocated(t)
      /\ \A d \in Allocated(k) : d # k.writer => t.next[d] = k.next[d]
  <2>1. \A d \in ChunkIds : t.next[d] = IF d = k.writer THEN c
                                       ELSE IF d = c THEN k.next[k.writer] ELSE k.next[d]
    BY <1>0, <1>1 DEF ChainOK
  <2>2. Allocated(t) \subseteq ChunkIds
    BY <1>0, <1>1, BWAssumption DEF Allocated, ChunkIds
  <2>. QED
    BY <1>0, <1>2, <2>1, <2>2 DEF ChainOK
<1>4. \A d \in ChunkIds :
        /\ t.mbuf[d] = IF d = c THEN EmptyBuf ELSE k.mbuf[d]
        /\ t.nmessages[d] = IF d = c THEN 0 ELSE k.nmessages[d]
  <2>1. k.mbuf[c] = EmptyBuf /\ k.nmessages[c] = 0
    BY <1>0 DEF ChainOK
  <2>. QED
    BY <1>1, <2>1 DEF ChainOK
<1>5. ChainOK(t)
  BY <1>0, <1>1, <1>2, <1>3 DEF ChainOK
<1>6. CarryMessage(t, k.writer) = t
  <2>1. BufferOK(t.mbuf[k.writer])
    BY <1>0, <1>5 DEF ChainOK
  <2>2. Closed(t, k.writer)
    BY <1>0, <1>1 DEF Closed
  <2>. QED
    BY <2>1, <2>2, NothingCarried
<1>. QED
  BY <1>0, <1>1, <1>2, <1>3, <1>4, <1>5, <1>6 DEF t, c, Moves

LEMMA Dropping ==
  ASSUME NEW k, ChainOK(k), \A c \in ChunkIds : Closed(k, c)
  PROVE  LET c == k.next[k.writer]
             t == CarryMessage(DropNext(k), c)
         IN  Moves(k, t, c) /\ t.nlost = k.nlost + k.nmessages[c]
<1>. DEFINE c == k.next[k.writer]
            t == DropNext(k)
<1>0. c \in Allocated(k) /\ c \in ChunkIds /\ k.writer \in ChunkIds
  BY BWAssumption DEF ChainOK, Allocated, ChunkIds
<1>1. /\ DOMAIN t = DOMAIN k
      /\ t.writer = c /\ t.next = k.next /\ t.nlost = k.nlost + k.nmessages[c]
      /\ t.unallocated = k.unallocated
      /\ t.mbuf = [k.mbuf EXCEPT ![c] = RepackMessage2(k.mbuf[c])]
      /\ t.nmessages = [k.nmessages EXCEPT ![c] = 0]
  BY DEF DropNext, ChainOK
<1>. HIDE DEF t, c
<1>2. t.mbuf = [k.mbuf EXCEPT ![c] = EmptyBuf]
  <2>1. BufferOK(k.mbuf[c]) /\ Wr(k.mbuf[c]) = k.mbuf[c].msg
    BY <1>0 DEF ChainOK, Closed
  <2>. QED
    BY <1>1, <2>1, RepackEmpties
<1>3. \A d \in ChunkIds :
        /\ t.mbuf[d] = IF d = c THEN EmptyBuf ELSE k.mbuf[d]
        /\ t.nmessages[d] = IF d = c THEN 0 ELSE k.nmessages[d]
  BY <1>1, <1>2 DEF ChainOK
<1>4. ChainOK(t) /\ Allocated(k) \subseteq Allocated(t)
  <2>1. t.nlost \in Nat
    BY <1>0, <1>1 DEF ChainOK
  <2>. QED
    BY <1>0, <1>1, <1>3, <2>1, EmptyIsOK DEF ChainOK, Allocated
<1>5. CarryMessage(t, c) = t
  <2>1. BufferOK(t.mbuf[c])
    BY <1>0, <1>4 DEF ChainOK
  <2>2. Closed(t, c)
    BY <1>0, <1>3, EmptyIsOK DEF Closed
  <2>. QED
    BY <2>1, <2>2, NothingCarried
<1>. QED
  BY <1>1, <1>3, <1>4, <1>5 DEF t, c, Moves

\* What bw_get_write_buf() does to a chain without a message under
\* construction: nothing, or the writer moves to a chunk that was empty or
\* whose messages are lost and counted.
LEMMA WriteChunkMoves ==
  ASSUME NEW k, ChainOK(k), \A c \in ChunkIds : Closed(k, c)
  PROVE  LET t == WriteChunk(k)
         IN  \/ t = k /\ LostBy(k) = {}
             \/ \E c \in ChunkIds :
                  /\ Moves(k, t, c)
                  /\ \/ /\ k.mbuf[c].rd = k.mbuf[c].msg
                        /\ t.nlost = k.nlost /\ LostBy(k) = {}
                     \/ /\ c = k.next[k.writer] /\ ChainFull(k)
                        /\ t.nlost = k.nlost + k.nmessages[c]
                        /\ LostBy(k) = MessagesIn(Pending(k.mbuf[c]))
<1>. DEFINE t == WriteChunk(k)
            n == k.next[k.writer]
<1>0. n \in ChunkIds /\ BufferOK(k.mbuf[n]) /\ k.unallocated \in Nat
  <2>1. Allocated(k) \subseteq ChunkIds /\ k.unallocated \in Nat
    BY BWAssumption DEF ChainOK, Allocated, ChunkIds
  <2>. QED
    BY <2>1 DEF ChainOK
<1>1. CASE ~NeedsNext(k)
  BY <1>1 DEF WriteChunk, LostBy
<1>2. CASE NeedsNext(k) /\ NextIsEmpty(k)
  <2>1. t = CarryMessage(ReuseNext(k), k.writer) /\ LostBy(k) = {}
    BY <1>2 DEF WriteChunk, getNextWriteChunk, LostBy, ChainFull
  <2>2. k.mbuf[n].rd = k.mbuf[n].msg
    BY <1>0, <1>2 DEF NextIsEmpty, BufferOK, Closed
  <2>. QED
    BY <1>0, <2>1, <2>2, Reusing
<1>3. CASE NeedsNext(k) /\ ~NextIsEmpty(k) /\ k.unallocated > 0
  <2>. DEFINE c == NChunks - k.unallocated + 1
  <2>1. t = CarryMessage(InsertChunk(k), k.writer) /\ LostBy(k) = {}
    BY <1>3 DEF WriteChunk, getNextWriteChunk, LostBy, ChainFull
  <2>2. Moves(k, t, c) /\ t.nlost = k.nlost /\ c \in ChunkIds
    BY <1>3, <2>1, Inserting
  <2>3. c \notin Allocated(k)
    BY BWAssumption DEF ChainOK, Allocated
  <2>4. k.mbuf[c].rd = k.mbuf[c].msg
    BY <2>2, <2>3, EmptyIsOK DEF ChainOK
  <2>. QED
    BY <2>1, <2>2, <2>4
<1>4. CASE NeedsNext(k) /\ ~NextIsEmpty(k) /\ k.unallocated = 0
  <2>1. t = CarryMessage(DropNext(k), n)
        /\ LostBy(k) = MessagesIn(Pending(k.mbuf[n])) /\ ChainFull(k)
    BY <1>4 DEF WriteChunk, getNextWriteChunk, LostBy, ChainFull
  <2>. QED
    BY <1>0, <2>1, Dropping
<1>. QED
  BY <1>0, <1>1, <1>2, <1>3, <1>4

\* In t the buffer of chunk c is b, the others are as in k.
Stores(k, t, c, b) == \A d \in ChunkIds : t.mbuf[d] = IF d = c THEN b ELSE k.mbuf[d]

\* In t chunk c counts one more message than in k.
Counts(k, t, c) ==
  \A d \in ChunkIds :
    t.nmessages[d] = IF d = c THEN k.nmessages[d] + 1 ELSE k.nmessages[d]

\* The effect of storing b as the buffer of chunk c.
LEMMA PutBuffer ==
  ASSUME NEW k, ChainOK(k), NEW c \in Allocated(k), NEW b, BufferOK(b),
         NEW t, t = [k EXCEPT !.mbuf[c] = b]
  PROVE  /\ ChainOK(t) /\ c \in ChunkIds /\ Allocated(t) = Allocated(k)
         /\ t.writer = k.writer /\ t.nlost = k.nlost /\ t.next = k.next
         /\ t.nmessages = k.nmessages
         /\ Stores(k, t, c, b)
<1>0. c \in ChunkIds
  BY BWAssumption DEF ChainOK, Allocated, ChunkIds
<1>1. /\ DOMAIN t = DOMAIN k /\ t.mbuf = [k.mbuf EXCEPT ![c] = b]
      /\ t.writer = k.writer /\ t.nlost = k.nlost /\ t.next = k.next
      /\ t.nmessages = k.nmessages /\ t.unallocated = k.unallocated
  BY DEF ChainOK
<1>2. Stores(k, t, c, b)
  BY <1>1 DEF ChainOK, Stores
<1>3. Allocated(t) = Allocated(k)
  BY <1>1 DEF Allocated
<1>4. ChainOK(t)
  BY <1>0, <1>1, <1>2, <1>3 DEF ChainOK, Stores
<1>. QED
  BY <1>0, <1>1, <1>2, <1>3, <1>4

-----------------------------------------------------------------------------
(* The shape of the queue is kept.                                         *)

\* When nobody holds the mutex no message is under construction.
LEMMA FreeMeansClosed ==
  ASSUME Shape, lock \notin Writers
  PROVE  wbuf = 0 /\ \A c \in ChunkIds : Closed(q, c)
BY BWAssumption DEF Shape, ChunkIds

LEMMA InitShape == Init => Shape
<1>. SUFFICES ASSUME Init PROVE Shape
  OBVIOUS
<1>1. LockDiscipline
  <2>1. HasReading(q) /\ q.reading = [c \in ChunkIds |-> FALSE]
    BY DEF Init, NewQueue, HasReading
  <2>. QED
    BY <2>1, BWAssumption DEF Init, LockDiscipline, Processing
<1>2. /\ DOMAIN q = {"next", "mbuf", "nmessages", "reading", "unallocated", "writer", "nlost"}
      /\ q.next = [c \in ChunkIds |-> IF c = 1 THEN 1 ELSE 0]
      /\ q.mbuf = [c \in ChunkIds |-> EmptyBuf]
      /\ q.nmessages = [c \in ChunkIds |-> 0]
      /\ q.unallocated = NChunks - 1 /\ q.writer = 1 /\ q.nlost = 0
  BY DEF Init, NewQueue
<1>3. Allocated(q) = {1} /\ 1 \in ChunkIds
  BY <1>2, BWAssumption DEF Allocated, ChunkIds
<1>4. ChainOK(q)
  BY <1>2, <1>3, EmptyIsOK, BWAssumption DEF ChainOK
<1>5. \A c \in ChunkIds : Closed(q, c)
  BY <1>2, EmptyIsOK DEF Closed
<1>. QED
  BY <1>1, <1>3, <1>4, <1>5 DEF Shape, Init

\* What RowStart() does to the queue, in terms of the chain k after
\* bw_get_write_buf().
LEMMA RowStartEffect ==
  ASSUME Shape, Messages, NEW w \in Writers, RowStart(w)
  PROVE  LET k == WriteChunk(q)
             b == k.mbuf[k.writer]
             u == Unit(msgs + 1, 1)
         IN  /\ ChainOK(k) /\ (\A c \in ChunkIds : Closed(k, c))
             /\ Allocated(q) \subseteq Allocated(k)
             /\ \/ q' = [k EXCEPT !.mbuf[k.writer] = Extend(b, u)] /\ wbuf' = k.writer
                \/ q' = [k EXCEPT !.mbuf[k.writer] = ResetWrite(b)] /\ wbuf' = 0
             /\ BufferOK(b) /\ k.writer \in Allocated(k) /\ k.writer \in ChunkIds
             /\ u \in Units /\ msgs + 1 \in 1 .. MaxMsgs
<1>. DEFINE k == WriteChunk(q)
            b == k.mbuf[k.writer]
            u == Unit(msgs + 1, 1)
<1>1. lock = NoOne /\ NoOne \notin Writers
  BY BWAssumption DEF RowStart
<1>2. ChainOK(q) /\ \A c \in ChunkIds : Closed(q, c)
  BY <1>1, FreeMeansClosed DEF Shape
<1>3. k = q \/ \E c \in ChunkIds : Moves(q, k, c)
  BY <1>2, WriteChunkMoves
<1>4. ChainOK(k) /\ (\A c \in ChunkIds : Closed(k, c)) /\ Allocated(q) \subseteq Allocated(k)
  BY <1>2, <1>3, EmptyIsOK DEF Moves, Closed
<1>5. k.writer \in Allocated(k) /\ k.writer \in ChunkIds
  BY <1>4, BWAssumption DEF ChainOK, Allocated, ChunkIds
<1>6. BufferOK(b) /\ Wr(b) = b.msg
  BY <1>4, <1>5 DEF ChainOK, Closed
<1>. HIDE DEF k
<1>7. BeginWrite(b) = b
  BY <1>6, BeginKeeps
<1>8. \/ q' = [k EXCEPT !.mbuf[k.writer] = Extend(BeginWrite(b), u)] /\ wbuf' = k.writer
      \/ q' = [k EXCEPT !.mbuf[k.writer] = ResetWrite(BeginWrite(b))] /\ wbuf' = 0
  BY DEF RowStart, k
<1>9. msgs + 1 \in 1 .. MaxMsgs
  BY BWAssumption DEF RowStart, Messages
<1>10. u \in Units
  BY <1>9, BWAssumption, UnitsAreUnits
<1>. QED
  BY <1>4, <1>5, <1>6, <1>7, <1>8, <1>9, <1>10 DEF k

\* Only the reading marks and the count of lost messages differ.
SameChain(k, t) ==
  /\ DOMAIN t = DOMAIN k /\ t.next = k.next /\ t.mbuf = k.mbuf
  /\ t.nmessages = k.nmessages /\ t.unallocated = k.unallocated
  /\ t.writer = k.writer

LEMMA SameIsOK ==
  ASSUME NEW k, NEW t, ChainOK(k), SameChain(k, t), t.nlost \in Nat
  PROVE  ChainOK(t) /\ Allocated(t) = Allocated(k) /\ \A c : Closed(t, c) <=> Closed(k, c)
<1>1. Allocated(t) = Allocated(k)
  BY DEF SameChain, Allocated
<1>. QED
  BY <1>1 DEF SameChain, ChainOK, Closed

LEMMA RowStartShape ==
  ASSUME Shape, Messages, NEW w \in Writers, RowStart(w)
  PROVE  Shape'
<1>. DEFINE k == WriteChunk(q)
            b == k.mbuf[k.writer]
            u == Unit(msgs + 1, 1)
<1>1. /\ ChainOK(k) /\ (\A c \in ChunkIds : Closed(k, c))
      /\ Allocated(q) \subseteq Allocated(k)
      /\ \/ q' = [k EXCEPT !.mbuf[k.writer] = Extend(b, u)] /\ wbuf' = k.writer
         \/ q' = [k EXCEPT !.mbuf[k.writer] = ResetWrite(b)] /\ wbuf' = 0
      /\ BufferOK(b) /\ k.writer \in Allocated(k) /\ k.writer \in ChunkIds
      /\ u \in Units
  BY RowStartEffect
<1>2. LockDiscipline'
  BY WriterKeepsLockDiscipline DEF Shape
<1>3. lock' = w /\ wpc' = [wpc EXCEPT ![w] = "cols"] /\ DOMAIN wpc = Writers /\ chunk' = chunk
  BY DEF RowStart, Shape, LockDiscipline, senderVars
<1>. HIDE DEF k, u
<1>4. CASE q' = [k EXCEPT !.mbuf[k.writer] = Extend(b, u)] /\ wbuf' = k.writer
  <2>. DEFINE x == Extend(b, u)
  <2>1. BufferOK(x)
    BY <1>1, ExtendKeeps
  <2>. HIDE DEF x
  <2>2. /\ ChainOK(q') /\ Allocated(q') = Allocated(k) /\ q'.writer = k.writer
        /\ Stores(k, q', k.writer, x)
    BY <1>1, <1>4, <2>1, PutBuffer DEF x
  <2>. QED
    BY <1>1, <1>2, <1>3, <1>4, <2>2 DEF Shape, Closed, Stores
<1>5. CASE q' = [k EXCEPT !.mbuf[k.writer] = ResetWrite(b)] /\ wbuf' = 0
  <2>. DEFINE x == ResetWrite(b)
  <2>1. BufferOK(x) /\ Wr(x) = x.msg
    BY <1>1, ResetKeeps
  <2>. HIDE DEF x
  <2>2. /\ ChainOK(q') /\ Allocated(q') = Allocated(k) /\ q'.writer = k.writer
        /\ Stores(k, q', k.writer, x)
    BY <1>1, <1>5, <2>1, PutBuffer DEF x
  <2>. QED
    BY <1>1, <1>2, <1>3, <1>5, <2>1, <2>2 DEF Shape, Closed, Stores
<1>. QED
  BY <1>1, <1>4, <1>5

\* What RowCols() does to the queue.
LEMMA RowColsEffect ==
  ASSUME Shape, Messages, NEW w \in Writers, RowCols(w)
  PROVE  /\ lock = w
         /\ \/ wbuf = 0 /\ wbuf' = 0 /\ q' = q
            \/ /\ wbuf # 0 /\ wbuf = q.writer /\ wbuf \in Allocated(q) /\ wbuf \in ChunkIds
               /\ BufferOK(q.mbuf[wbuf])
               /\ wmsg[w] \in 1 .. msgs /\ Unit(wmsg[w], 2) \in Units
               /\ Partial(q.mbuf[wbuf], wmsg[w], "cols")
               /\ \/ /\ q' = [q EXCEPT !.mbuf[wbuf] = Extend(q.mbuf[wbuf], Unit(wmsg[w], 2))]
                     /\ wbuf' = wbuf
                  \/ /\ q' = [q EXCEPT !.mbuf[wbuf] = ResetWrite(q.mbuf[wbuf])]
                     /\ wbuf' = 0
<1>1. lock = w /\ wpc[w] = "cols"
  BY DEF RowCols, Shape, LockDiscipline
<1>2. CASE wbuf = 0
  BY <1>1, <1>2 DEF RowCols
<1>3. CASE wbuf # 0
  <2>1. wbuf = q.writer /\ wbuf \in Allocated(q) /\ wbuf \in ChunkIds
    BY <1>3, BWAssumption DEF Shape, ChainOK, Allocated, ChunkIds
  <2>2. BufferOK(q.mbuf[wbuf])
    BY <2>1 DEF Shape, ChainOK
  <2>3. wmsg[w] \in 1 .. msgs /\ msgs \in Nat /\ Partial(q.mbuf[wbuf], wmsg[w], "cols")
    BY <1>1, <1>3, BWAssumption DEF Messages
  <2>4. Unit(wmsg[w], 2) \in Units
    BY <2>3, UnitsAreUnits
  <2>5. \/ /\ q' = [q EXCEPT !.mbuf[wbuf] = Extend(q.mbuf[wbuf], Unit(wmsg[w], 2))]
           /\ wbuf' = wbuf
        \/ /\ q' = [q EXCEPT !.mbuf[wbuf] = ResetWrite(q.mbuf[wbuf])]
           /\ wbuf' = 0
    BY <1>3 DEF RowCols
  <2>. QED
    BY <1>1, <1>3, <2>1, <2>2, <2>3, <2>4, <2>5
<1>. QED
  BY <1>2, <1>3

LEMMA RowColsShape ==
  ASSUME Shape, Messages, NEW w \in Writers, RowCols(w)
  PROVE  Shape'
<1>1. LockDiscipline'
  BY WriterKeepsLockDiscipline DEF Shape, RowStep
<1>2. /\ lock = w /\ lock' = w /\ wpc' = [wpc EXCEPT ![w] = "end"]
      /\ DOMAIN wpc = Writers /\ chunk' = chunk
  BY RowColsEffect DEF RowCols, Shape, LockDiscipline, senderVars
<1>3. CASE wbuf = 0 /\ wbuf' = 0 /\ q' = q
  BY <1>1, <1>2, <1>3 DEF Shape
<1>. DEFINE b == q.mbuf[wbuf]
            u == Unit(wmsg[w], 2)
<1>4. ASSUME wbuf # 0, wbuf = q.writer, wbuf \in Allocated(q), BufferOK(b), u \in Units,
             \/ q' = [q EXCEPT !.mbuf[wbuf] = Extend(b, u)] /\ wbuf' = wbuf
             \/ q' = [q EXCEPT !.mbuf[wbuf] = ResetWrite(b)] /\ wbuf' = 0
      PROVE  Shape'
  <2>. HIDE DEF u
  <2>1. PICK x : /\ BufferOK(x) /\ q' = [q EXCEPT !.mbuf[wbuf] = x]
                 /\ \/ wbuf' = wbuf
                    \/ wbuf' = 0 /\ Wr(x) = x.msg
    BY <1>4, ExtendKeeps, ResetKeeps
  <2>2. /\ ChainOK(q') /\ Allocated(q') = Allocated(q) /\ q'.writer = q.writer
        /\ Stores(q, q', wbuf, x)
    BY <1>4, <2>1, PutBuffer DEF Shape
  <2>. QED
    BY <1>1, <1>2, <1>4, <2>1, <2>2 DEF Shape, Closed, Stores
<1>. QED
  BY <1>3, <1>4, RowColsEffect

\* The effect of storing b in the chunk of the writer and counting a message.
LEMMA CountBuffer ==
  ASSUME NEW k, ChainOK(k), NEW b, BufferOK(b), NEW t,
         DOMAIN t = DOMAIN k,
         t.mbuf = [k.mbuf EXCEPT ![k.writer] = b],
         t.nmessages = [k.nmessages EXCEPT ![k.writer] = @ + 1],
         t.writer = k.writer, t.nlost = k.nlost, t.next = k.next,
         t.unallocated = k.unallocated
  PROVE  /\ ChainOK(t) /\ Allocated(t) = Allocated(k)
         /\ Stores(k, t, k.writer, b) /\ Counts(k, t, k.writer)
<1>1. k.writer \in Allocated(k) /\ k.writer \in ChunkIds
  BY BWAssumption DEF ChainOK, Allocated, ChunkIds
<1>2. Allocated(t) = Allocated(k)
  BY DEF Allocated
<1>3. /\ t.nmessages \in [ChunkIds -> Nat]
      /\ Stores(k, t, k.writer, b) /\ Counts(k, t, k.writer)
  BY <1>1 DEF ChainOK, Stores, Counts
<1>4. ChainOK(t)
  BY <1>1, <1>2, <1>3 DEF ChainOK, Stores
<1>. QED
  BY <1>2, <1>3, <1>4

\* What RowEnd() does to the queue: the message is committed or removed, and
\* counted in both cases.
LEMMA RowEndEffect ==
  ASSUME Shape, Messages, NEW w \in Writers, RowEnd(w)
  PROVE  LET b == q.mbuf[wbuf]
             m == wmsg[w]
         IN  /\ lock = w /\ wbuf = q.writer /\ wbuf \in ChunkIds /\ wbuf' = 0
             /\ BufferOK(b) /\ m \in 1 .. msgs /\ Unit(m, 3) \in Units
             /\ Partial(b, m, "end")
             /\ ChainOK(q') /\ Allocated(q') = Allocated(q) /\ q'.nlost = q.nlost
             /\ \A d \in ChunkIds : d # wbuf => q'.mbuf[d] = q.mbuf[d]
             /\ Counts(q, q', wbuf)
             /\ \/ /\ q'.mbuf[wbuf] = BeginWrite(Extend(b, Unit(m, 3)))
                   /\ completed' = Append(completed, m)
                   /\ meta_buf' = meta_buf \/ meta_buf' = Append(meta_buf, m)
                \/ /\ q'.mbuf[wbuf] = ResetWrite(b)
                   /\ completed' = completed /\ meta_buf' = meta_buf
<1>. DEFINE b == q.mbuf[wbuf]
            m == wmsg[w]
<1>1. lock = w /\ wpc[w] = "end" /\ wbuf # 0 /\ wbuf' = 0
  BY DEF RowEnd, Shape, LockDiscipline
<1>2. wbuf = q.writer /\ wbuf \in ChunkIds /\ ChainOK(q)
  <2>1. wbuf = q.writer /\ ChainOK(q)
    BY <1>1 DEF Shape
  <2>2. q.writer \in ChunkIds
    BY <2>1, BWAssumption DEF ChainOK, Allocated, ChunkIds
  <2>. QED
    BY <2>1, <2>2
<1>3. BufferOK(b)
  BY <1>2 DEF ChainOK
<1>4. m \in 1 .. msgs /\ msgs \in Nat /\ Partial(b, m, "end")
  BY <1>1, BWAssumption DEF Messages
<1>5. Unit(m, 3) \in Units
  BY <1>4, UnitsAreUnits
<1>. DEFINE s == [q EXCEPT !.nmessages[q.writer] = @ + 1]
            y == BeginWrite(Extend(b, Unit(m, 3)))
            z == ResetWrite(b)
<1>6. BufferOK(y) /\ BufferOK(z)
  BY <1>3, <1>5, ExtendKeeps, BeginKeeps, ResetKeeps
<1>7. s.mbuf = q.mbuf
  BY <1>2 DEF ChainOK
<1>8. \/ /\ q' = [s EXCEPT !.mbuf[wbuf] = y]
         /\ completed' = Append(completed, m)
         /\ meta_buf' = meta_buf \/ meta_buf' = Append(meta_buf, m)
      \/ /\ q' = [s EXCEPT !.mbuf[wbuf] = z]
         /\ completed' = completed /\ meta_buf' = meta_buf
  <2>1. LastPart = 3
    BY DEF LastPart
  <2>2. s.mbuf[wbuf] = b
    BY <1>7
  <2>. HIDE DEF b, m, s
  <2>3. \/ /\ q' = [s EXCEPT !.mbuf[wbuf] = BeginWrite(Extend(s.mbuf[wbuf], Unit(m, LastPart)))]
           /\ completed' = Append(completed, m)
           /\ meta_buf' = meta_buf \/ meta_buf' = Append(meta_buf, m)
        \/ /\ q' = [s EXCEPT !.mbuf[wbuf] = ResetWrite(s.mbuf[wbuf])]
           /\ completed' = completed /\ meta_buf' = meta_buf
    BY DEF RowEnd, m, s
  <2>. QED
    BY <2>1, <2>2, <2>3
<1>9. ASSUME NEW x, BufferOK(x), q' = [s EXCEPT !.mbuf[wbuf] = x]
      PROVE  /\ ChainOK(q') /\ Allocated(q') = Allocated(q) /\ q'.nlost = q.nlost
             /\ Stores(q, q', wbuf, x) /\ Counts(q, q', wbuf)
  <2>. HIDE DEF b, m
  <2>1. /\ DOMAIN q' = DOMAIN q
        /\ q'.mbuf = [q.mbuf EXCEPT ![q.writer] = x]
        /\ q'.nmessages = [q.nmessages EXCEPT ![q.writer] = @ + 1]
        /\ q'.writer = q.writer /\ q'.nlost = q.nlost /\ q'.next = q.next
        /\ q'.unallocated = q.unallocated
    BY <1>2, <1>9 DEF ChainOK
  <2>2. /\ ChainOK(q') /\ Allocated(q') = Allocated(q)
        /\ Stores(q, q', q.writer, x) /\ Counts(q, q', q.writer)
    <3>1. ChainOK(q) /\ BufferOK(x)
      BY <1>2, <1>9
    <3>. QED
      BY ONLY <2>1, <3>1, CountBuffer
  <2>. QED
    BY <1>2, <2>1, <2>2
<1>. HIDE DEF s, y, z
<1>10. CASE /\ q' = [s EXCEPT !.mbuf[wbuf] = y]
            /\ completed' = Append(completed, m)
            /\ meta_buf' = meta_buf \/ meta_buf' = Append(meta_buf, m)
  <2>1. q'.mbuf[wbuf] = y
    BY <1>2, <1>6, <1>9, <1>10 DEF Stores
  <2>. QED
    BY <1>1, <1>2, <1>3, <1>4, <1>5, <1>6, <1>9, <1>10, <2>1, SMTT(30) DEF y, Stores
<1>11. CASE /\ q' = [s EXCEPT !.mbuf[wbuf] = z]
            /\ completed' = completed /\ meta_buf' = meta_buf
  <2>1. q'.mbuf[wbuf] = z
    BY <1>2, <1>6, <1>9, <1>11 DEF Stores
  <2>. QED
    BY <1>1, <1>2, <1>3, <1>4, <1>5, <1>6, <1>9, <1>11, <2>1, SMTT(30) DEF z, Stores
<1>. QED
  BY <1>8, <1>10, <1>11

LEMMA RowEndShape ==
  ASSUME Shape, Messages, NEW w \in Writers, RowEnd(w)
  PROVE  Shape'
<1>. DEFINE b == q.mbuf[wbuf]
            m == wmsg[w]
<1>1. LockDiscipline' /\ chunk' = chunk
  BY WriterKeepsLockDiscipline DEF Shape, RowStep, RowEnd
<1>2. /\ wbuf \in ChunkIds /\ wbuf' = 0 /\ BufferOK(b) /\ Unit(m, 3) \in Units
      /\ ChainOK(q') /\ Allocated(q') = Allocated(q)
      /\ \A d \in ChunkIds : d # wbuf => q'.mbuf[d] = q.mbuf[d]
      /\ \/ q'.mbuf[wbuf] = BeginWrite(Extend(b, Unit(m, 3)))
         \/ q'.mbuf[wbuf] = ResetWrite(b)
  BY RowEndEffect
<1>. HIDE DEF b
<1>3. Wr(q'.mbuf[wbuf]) = q'.mbuf[wbuf].msg
  BY <1>2, ExtendKeeps, BeginKeeps, ResetKeeps
<1>. QED
  BY <1>1, <1>2, <1>3 DEF Shape, Closed, Stores

\* What the reader does to the queue.
LEMMA ReaderEffect ==
  ASSUME Shape, ReaderStep \/ SpuriousWakeup \/ TimePasses
  PROVE  /\ UNCHANGED <<active, wbuf, wpc, wmsg, wnlost, mainpc, msgs, completed, meta_buf,
                        dropped, reported>>
         /\ \/ /\ SameChain(q, q') \/ q' = q
               /\ q'.nlost = q.nlost
               /\ lock' = lock \/ (lock' \notin Writers /\ lock \notin Writers)
               /\ chunk' = chunk \/ chunk' = q.next[chunk]
               /\ stream' = stream \/ SpuriousWakeup \/ ProcessSend
            \/ ProcessDone
<1>. USE DEF ReaderOnly, mainVars, writerVars, historyVars
<1>1. CASE ReaderTest
  BY <1>1 DEF ReaderTest
<1>2. CASE ReaderWait
  BY <1>2 DEF ReaderWait
<1>3. CASE SpuriousWakeup
  BY <1>3 DEF SpuriousWakeup
<1>4. CASE ReaderWoken
  BY <1>4, BWAssumption DEF ReaderWoken
<1>5. CASE ReaderLoop
  BY <1>5 DEF ReaderLoop
<1>6. CASE ProcessEnter
  BY <1>6 DEF ProcessEnter, SameChain, Shape, ChainOK
<1>7. CASE ProcessSend
  BY <1>7 DEF ProcessSend, SendFailed, SameChain, Shape, ChainOK
<1>8. CASE ProcessDone
  BY <1>8 DEF ProcessDone
<1>9. CASE ReaderNext
  BY <1>9, BWAssumption DEF ReaderNext, Draining
<1>10. CASE DrainNext
  BY <1>10 DEF DrainNext
<1>11. CASE TimePasses
  BY <1>11 DEF TimePasses, queueVars
<1>. QED
  BY <1>1, <1>2, <1>3, <1>4, <1>5, <1>6, <1>7, <1>8, <1>9, <1>10, <1>11
     DEF ReaderStep

\* processChunk() skips what was sent.
LEMMA ProcessDoneEffect ==
  ASSUME Shape, Messages, Sending, ProcessDone
  PROVE  LET b == q.mbuf[chunk]
         IN  /\ rpc = "send" /\ chunk \in Allocated(q) /\ chunk \in ChunkIds
             /\ BufferOK(b) /\ sent = b.msg - b.rd /\ wbuf = 0 /\ Wr(b) = b.msg
             /\ ChainOK(q') /\ Allocated(q') = Allocated(q) /\ q'.nlost = q.nlost
             /\ q'.mbuf[chunk] = EmptyBuf
             /\ \A d \in ChunkIds : d # chunk => q'.mbuf[d] = q.mbuf[d]
             /\ q'.nmessages = q.nmessages
             /\ UNCHANGED <<lock, chunk, stream>> /\ rpc' = "return"
             /\ lock \notin Writers
<1>. DEFINE b == q.mbuf[chunk]
            r == ReadSkip(b, sent)
<1>1. rpc = "send" /\ chunk \in Allocated(q) /\ chunk \in ChunkIds /\ ChainOK(q)
  BY BWAssumption DEF ProcessDone, Shape, ChainOK, Allocated, ChunkIds
<1>2. BufferOK(b)
  BY <1>1 DEF ChainOK
<1>3. sent = b.msg - b.rd
  BY <1>1 DEF Sending, ProcessDone
<1>4. lock \notin Writers
  BY <1>1, BWAssumption DEF Shape, LockDiscipline, Processing
<1>5. wbuf = 0 /\ Wr(b) = b.msg
  BY <1>1, <1>4, FreeMeansClosed DEF Closed
<1>6. Wr(r) = r.rd
  <2>1. r.data = b.data /\ r.rd = b.rd + sent
    BY <1>2 DEF ReadSkip, BufferOK, Buffers
  <2>. QED
    BY <1>2, <1>3, <1>5, <2>1 DEF Wr, BufferOK
<1>7. q' = [q EXCEPT !.mbuf[chunk] = EmptyBuf, !.reading[chunk] = FALSE]
      /\ UNCHANGED <<lock, chunk, stream>> /\ rpc' = "return"
  BY <1>6 DEF ProcessDone
<1>. DEFINE t == [q EXCEPT !.mbuf[chunk] = EmptyBuf]
<1>8. /\ ChainOK(t) /\ Allocated(t) = Allocated(q) /\ t.nlost = q.nlost
      /\ t.nmessages = q.nmessages
      /\ Stores(q, t, chunk, EmptyBuf)
  <2>1. t = [q EXCEPT !.mbuf[chunk] = EmptyBuf]
    OBVIOUS
  <2>. HIDE DEF t
  <2>. QED
    <3>1. ChainOK(q) /\ BufferOK(EmptyBuf) /\ chunk \in Allocated(q)
      BY <1>1, EmptyIsOK
    <3>. QED
      BY ONLY <2>1, <3>1, PutBuffer
<1>9. SameChain(t, q') /\ q'.nlost = t.nlost
  BY <1>1, <1>7 DEF SameChain, ChainOK
<1>. HIDE DEF t
<1>10. ChainOK(q') /\ Allocated(q') = Allocated(t) /\ q'.mbuf = t.mbuf
       /\ q'.nmessages = t.nmessages
  <2>1. t.nlost \in Nat
    BY <1>8 DEF ChainOK
  <2>. QED
    BY <1>8, <1>9, <2>1, SameIsOK DEF SameChain
<1>. QED
  BY <1>1, <1>2, <1>3, <1>4, <1>5, <1>7, <1>8, <1>9, <1>10 DEF Stores

LEMMA ReaderShape ==
  ASSUME Shape, Messages, Sending, ReaderStep \/ SpuriousWakeup \/ TimePasses
  PROVE  Shape'
<1>1. LockDiscipline'
  BY ReaderKeepsLockDiscipline DEF Shape
<1>2. CASE ProcessDone
  <2>1. /\ wbuf' = 0 /\ chunk' \in Allocated(q') /\ ChainOK(q')
    BY <1>2, ProcessDoneEffect, ReaderEffect
  <2>2. \A d \in ChunkIds : Closed(q', d)
    <3>1. \A d \in ChunkIds : Closed(q, d)
      BY <1>2, ProcessDoneEffect, FreeMeansClosed
    <3>. QED
      BY <1>2, <3>1, ProcessDoneEffect, EmptyIsOK DEF Closed
  <2>. QED
    BY <1>1, <2>1, <2>2 DEF Shape
<1>3. CASE ~ProcessDone
  <2>1. /\ UNCHANGED <<wbuf, wpc>>
        /\ SameChain(q, q') \/ q' = q
        /\ q'.nlost = q.nlost
        /\ lock' = lock \/ (lock' \notin Writers /\ lock \notin Writers)
        /\ chunk' = chunk \/ chunk' = q.next[chunk]
    BY <1>3, ReaderEffect
  <2>2. ChainOK(q) /\ q.nlost \in Nat
    BY DEF Shape, ChainOK
  <2>3. ChainOK(q') /\ Allocated(q') = Allocated(q) /\ \A c : Closed(q', c) <=> Closed(q, c)
    BY <2>1, <2>2, SameIsOK
  <2>4. q'.writer = q.writer
    BY <2>1 DEF SameChain
  <2>5. chunk' \in Allocated(q')
    BY <2>1, <2>2, <2>3 DEF Shape, ChainOK
  <2>. QED
    BY <1>1, <2>1, <2>3, <2>4, <2>5 DEF Shape
<1>. QED
  BY <1>2, <1>3

\* The steps that leave the chain alone.
Elsewhere ==
  \/ MainStep \/ DestroyMPs
  \/ \E w \in Writers :
       TerminationHandler(w) \/ RowEndNull(w) \/ NlostRead(w) \/ NlostReset(w)
  \/ UNCHANGED vars

LEMMA ElsewhereEffect ==
  ASSUME Shape, Elsewhere
  PROVE  /\ UNCHANGED <<lock, wbuf, chunk, wmsg, msgs, completed, dropped, size, sent>>
         /\ rpc' = rpc \/ (rpc = "wait" /\ rpc' = "woken")
         /\ q' = q \/ (SameChain(q, q') /\ q'.nlost = 0)
         /\ wbuf # 0 => wpc'[lock] = wpc[lock]
         /\ stream' = stream \/ Joined
         /\ meta_buf' = meta_buf \/ meta_buf' = Append(meta_buf, 0)
<1>. USE DEF queueVars, senderVars, mainVars, writerVars, historyVars
<1>1. CASE MainStep
  BY <1>1 DEF MainStep, PushMeta, Started, bw_close, Joined, Signalled
<1>2. CASE DestroyMPs
  BY <1>2 DEF DestroyMPs
<1>3. ASSUME NEW w \in Writers, TerminationHandler(w)
      PROVE  UNCHANGED <<q, lock, wbuf, chunk, wmsg, msgs, completed, dropped, size, sent,
                         rpc, wpc, stream, meta_buf>>
  BY <1>3 DEF TerminationHandler
<1>4. ASSUME NEW w \in Writers, RowEndNull(w)
      PROVE  /\ UNCHANGED <<q, lock, wbuf, chunk, wmsg, msgs, completed, dropped, size, sent,
                            rpc, stream, meta_buf>>
             /\ wbuf = 0
  BY <1>4 DEF RowEndNull
<1>5. ASSUME NEW w \in Writers, NlostRead(w) \/ NlostReset(w)
      PROVE  /\ UNCHANGED <<lock, wbuf, chunk, wmsg, msgs, completed, dropped, size, sent,
                            rpc, stream, meta_buf>>
             /\ q' = q \/ (SameChain(q, q') /\ q'.nlost = 0)
             /\ wbuf # 0 => wpc'[lock] = wpc[lock]
  <2>1. /\ UNCHANGED <<lock, wbuf, chunk, wmsg, msgs, completed, dropped, size, sent,
                       rpc, stream, meta_buf>>
        /\ q' = q \/ q' = [q EXCEPT !.nlost = 0]
        /\ wpc[w] \in {"readlost", "resetlost"} /\ wpc' = [wpc EXCEPT ![w] = wpc'[w]]
    BY <1>5 DEF NlostRead, NlostReset, Shape, LockDiscipline
  <2>2. q' = q \/ (SameChain(q, q') /\ q'.nlost = 0)
    BY <2>1 DEF SameChain, Shape, ChainOK
  <2>3. wbuf # 0 => lock # w
    BY <2>1 DEF Shape
  <2>. QED
    BY <2>1, <2>2, <2>3 DEF Shape, LockDiscipline
<1>6. CASE UNCHANGED vars
  BY <1>6 DEF vars
<1>. QED
  BY <1>1, <1>2, <1>3, <1>4, <1>5, <1>6 DEF Elsewhere

LEMMA ElsewhereShape ==
  ASSUME Shape, Elsewhere
  PROVE  Shape'
<1>1. LockDiscipline'
  <2>1. CASE UNCHANGED vars
    BY <2>1 DEF vars, queueVars, senderVars, mainVars, writerVars, Shape,
                LockDiscipline, Processing
  <2>2. CASE ~UNCHANGED vars
    <3>1. \/ MainStep \/ DestroyMPs \/ \E w \in Writers : TerminationHandler(w)
          \/ \E w \in Writers : RowStep(w)
      BY <2>2 DEF Elsewhere, RowStep
    <3>. QED
      BY <3>1, MainKeepsLockDiscipline, WriterKeepsLockDiscipline DEF Shape
  <2>. QED
    BY <2>1, <2>2
<1>2. /\ UNCHANGED <<lock, wbuf, chunk>>
      /\ q' = q \/ (SameChain(q, q') /\ q'.nlost = 0)
      /\ wbuf # 0 => wpc'[lock] = wpc[lock]
  BY ElsewhereEffect
<1>3. ChainOK(q') /\ Allocated(q') = Allocated(q) /\ \A c : Closed(q', c) <=> Closed(q, c)
  BY <1>2, SameIsOK DEF Shape
<1>4. q'.writer = q.writer
  BY <1>2 DEF SameChain
<1>. QED
  BY <1>1, <1>2, <1>3, <1>4 DEF Shape

\* Every step is one of these.
LEMMA StepsSplit ==
  ASSUME [Next]_vars
  PROVE  \/ Elsewhere
         \/ \E w \in Writers : RowStart(w) \/ RowCols(w) \/ RowEnd(w)
         \/ ReaderStep \/ SpuriousWakeup \/ TimePasses
BY DEF Next, RowStep, Elsewhere

LEMMA ShapeKept ==
  ASSUME Shape, Messages, Sending, [Next]_vars
  PROVE  Shape'
BY StepsSplit, ElsewhereShape, RowStartShape, RowColsShape, RowEndShape, ReaderShape

-----------------------------------------------------------------------------
(* The messages in the queue are whole.                                    *)

LEMMA FramedGrows ==
  ASSUME NEW b, NEW n \in Nat, FramedBuf(b, n)
  PROVE  FramedBuf(b, n + 1)
<1>1. PICK r \in Nat, e \in Nat : b.rd = 3 * r /\ b.msg = 3 * e /\ Framed(b.data, e, n)
  BY DEF FramedBuf
<1>2. 1 .. n \subseteq 1 .. (n + 1)
  OBVIOUS
<1>3. Framed(b.data, e, n + 1)
  BY <1>1, <1>2 DEF Framed
<1>. QED
  BY <1>1, <1>3 DEF FramedBuf

LEMMA FramedEmpty ==
  ASSUME NEW n \in Nat
  PROVE  FramedBuf(EmptyBuf, n)
<1>1. EmptyBuf.rd = 3 * 0 /\ EmptyBuf.msg = 3 * 0 /\ Framed(EmptyBuf.data, 0, n)
  BY EmptyIsOK DEF Framed
<1>. QED
  BY <1>1 DEF FramedBuf

LEMMA FramedSame ==
  ASSUME NEW b, NEW x, NEW n \in Nat, FramedBuf(b, n),
         x.rd = b.rd, x.msg = b.msg, \A i \in 1 .. b.msg : x.data[i] = b.data[i]
  PROVE  FramedBuf(x, n)
<1>1. PICK r \in Nat, e \in Nat : b.rd = 3 * r /\ b.msg = 3 * e /\ Framed(b.data, e, n)
  BY DEF FramedBuf
<1>2. Framed(x.data, e, n)
  <2>. SUFFICES ASSUME NEW j \in Nat, j < e
       PROVE  \E m \in 1 .. n : /\ x.data[3 * j + 1] = Unit(m, 1)
                                /\ x.data[3 * j + 2] = Unit(m, 2)
                                /\ x.data[3 * j + 3] = Unit(m, 3)
    BY DEF Framed
  <2>1. 3 * j + 1 \in 1 .. b.msg /\ 3 * j + 2 \in 1 .. b.msg /\ 3 * j + 3 \in 1 .. b.msg
    BY <1>1
  <2>2. PICK m \in 1 .. n : /\ b.data[3 * j + 1] = Unit(m, 1)
                            /\ b.data[3 * j + 2] = Unit(m, 2)
                            /\ b.data[3 * j + 3] = Unit(m, 3)
    BY <1>1 DEF Framed
  <2>. QED
    BY <2>1, <2>2
<1>. QED
  BY <1>1, <1>2 DEF FramedBuf

\* The third unit of a message completes it.
LEMMA FramedCommit ==
  ASSUME NEW b, BufferOK(b), NEW n \in Nat, FramedBuf(b, n), NEW m \in 1 .. n,
         Partial(b, m, "end"), Unit(m, 3) \in Units
  PROVE  LET x == BeginWrite(Extend(b, Unit(m, 3)))
         IN  /\ FramedBuf(x, n) /\ BufferOK(x)
             /\ x.msg = b.msg + 3 /\ x.rd = b.rd /\ Wr(x) = b.msg + 3
             /\ \A i \in 1 .. b.msg : x.data[i] = b.data[i]
             /\ x.data[b.msg + 1] = Unit(m, 1) /\ x.data[b.msg + 2] = Unit(m, 2)
             /\ x.data[b.msg + 3] = Unit(m, 3)
<1>. DEFINE y == Extend(b, Unit(m, 3))
            x == BeginWrite(y)
<1>1. Wr(b) = b.msg + 2 /\ b.data[b.msg + 1] = Unit(m, 1) /\ b.data[b.msg + 2] = Unit(m, 2)
      /\ b.msg \in Nat
  BY DEF Partial, BufferOK
<1>2. /\ BufferOK(y) /\ y.rd = b.rd /\ y.msg = b.msg
      /\ Wr(y) = Wr(b) + 1 /\ y.data[Wr(b) + 1] = Unit(m, 3)
      /\ \A i \in 1 .. Wr(b) : y.data[i] = b.data[i]
  BY ExtendKeeps
<1>. HIDE DEF y
<1>3. BufferOK(x) /\ x.rd = y.rd /\ x.data = y.data /\ x.msg = Wr(y) /\ Wr(x) = Wr(y)
  BY <1>2, BeginKeeps
<1>. HIDE DEF x
<1>4. /\ x.msg = b.msg + 3 /\ x.rd = b.rd /\ Wr(x) = b.msg + 3
      /\ \A i \in 1 .. b.msg : x.data[i] = b.data[i]
      /\ x.data[b.msg + 1] = Unit(m, 1) /\ x.data[b.msg + 2] = Unit(m, 2)
      /\ x.data[b.msg + 3] = Unit(m, 3)
  BY <1>1, <1>2, <1>3
<1>5. PICK r \in Nat, e \in Nat : b.rd = 3 * r /\ b.msg = 3 * e /\ Framed(b.data, e, n)
  BY DEF FramedBuf
<1>6. Framed(x.data, e + 1, n)
  <2>. SUFFICES ASSUME NEW j \in Nat, j < e + 1
       PROVE  \E l \in 1 .. n : /\ x.data[3 * j + 1] = Unit(l, 1)
                                /\ x.data[3 * j + 2] = Unit(l, 2)
                                /\ x.data[3 * j + 3] = Unit(l, 3)
    BY DEF Framed
  <2>1. CASE j = e
    BY <1>4, <1>5, <2>1
  <2>2. CASE j < e
    <3>1. 3 * j + 1 \in 1 .. b.msg /\ 3 * j + 2 \in 1 .. b.msg /\ 3 * j + 3 \in 1 .. b.msg
      BY <1>5, <2>2
    <3>2. PICK l \in 1 .. n : /\ b.data[3 * j + 1] = Unit(l, 1)
                              /\ b.data[3 * j + 2] = Unit(l, 2)
                              /\ b.data[3 * j + 3] = Unit(l, 3)
      BY <1>5, <2>2 DEF Framed
    <3>. QED
      BY <1>4, <3>1, <3>2
  <2>. QED
    BY <2>1, <2>2, <1>5
<1>7. FramedBuf(x, n)
  BY <1>4, <1>5, <1>6 DEF FramedBuf
<1>. QED
  BY <1>3, <1>4, <1>7 DEF x, y

LEMMA InitMessages == Init => Messages
<1>. SUFFICES ASSUME Init PROVE Messages
  OBVIOUS
<1>1. q.mbuf = [c \in ChunkIds |-> EmptyBuf]
  BY DEF Init, NewQueue
<1>2. \A c \in ChunkIds : FramedBuf(q.mbuf[c], 0)
  BY <1>1, FramedEmpty
<1>3. completed \in Seq(Nat) /\ meta_buf \in Seq(Nat)
  BY EmptySeq DEF Init
<1>. QED
  BY <1>2, <1>3, BWAssumption DEF Init, Messages

LEMMA RowStartMessages ==
  ASSUME Shape, Messages, NEW w \in Writers, RowStart(w)
  PROVE  Messages'
<1>. DEFINE k == WriteChunk(q)
            b == k.mbuf[k.writer]
            u == Unit(msgs + 1, 1)
<1>1. /\ ChainOK(k) /\ (\A c \in ChunkIds : Closed(k, c))
      /\ \/ q' = [k EXCEPT !.mbuf[k.writer] = Extend(b, u)] /\ wbuf' = k.writer
         \/ q' = [k EXCEPT !.mbuf[k.writer] = ResetWrite(b)] /\ wbuf' = 0
      /\ BufferOK(b) /\ k.writer \in Allocated(k) /\ k.writer \in ChunkIds
      /\ u \in Units /\ msgs + 1 \in 1 .. MaxMsgs
  BY RowStartEffect
<1>2. /\ lock' = w /\ wpc' = [wpc EXCEPT ![w] = "cols"] /\ DOMAIN wpc = Writers
      /\ wmsg' = [wmsg EXCEPT ![w] = msgs + 1] /\ msgs' = msgs + 1
      /\ UNCHANGED <<completed, meta_buf>>
  BY DEF RowStart, Shape, LockDiscipline
<1>3. msgs \in Nat /\ msgs' \in Nat
  BY <1>2, BWAssumption DEF Messages
<1>4. \A c \in ChunkIds : FramedBuf(k.mbuf[c], msgs')
  <2>1. ChainOK(q) /\ \A c \in ChunkIds : Closed(q, c)
    BY FreeMeansClosed, BWAssumption DEF Shape, RowStart
  <2>2. k = q \/ \E c \in ChunkIds : Moves(q, k, c)
    BY <2>1, WriteChunkMoves
  <2>3. \A c \in ChunkIds : FramedBuf(q.mbuf[c], msgs')
    BY <1>2, <1>3, FramedGrows DEF Messages
  <2>. QED
    BY <1>3, <2>2, <2>3, FramedEmpty DEF Moves
<1>. HIDE DEF k
<1>5. CASE q' = [k EXCEPT !.mbuf[k.writer] = Extend(b, u)] /\ wbuf' = k.writer
  <2>. DEFINE x == Extend(b, u)
  <2>1. /\ BufferOK(x) /\ x.rd = b.rd /\ x.msg = b.msg
        /\ Wr(x) = Wr(b) + 1 /\ x.data[Wr(b) + 1] = u
        /\ \A i \in 1 .. Wr(b) : x.data[i] = b.data[i]
    BY <1>1, ExtendKeeps
  <2>. HIDE DEF x
  <2>2. Stores(k, q', k.writer, x)
    BY <1>1, <1>5, <2>1, PutBuffer DEF x
  <2>3. Wr(b) = b.msg
    BY <1>1 DEF Closed
  <2>4. FramedBuf(x, msgs')
    BY <1>1, <1>3, <1>4, <2>1, <2>3, FramedSame
  <2>5. Partial(x, msgs + 1, "cols")
    BY <2>1, <2>3 DEF Partial
  <2>6. \A c \in ChunkIds : FramedBuf(q'.mbuf[c], msgs')
    BY <1>4, <2>2, <2>4 DEF Stores
  <2>7. q'.mbuf[wbuf'] = x
    BY <1>1, <1>5, <2>2 DEF Stores
  <2>. QED
    BY <1>1, <1>2, <1>3, <2>5, <2>6, <2>7 DEF Messages
<1>6. CASE q' = [k EXCEPT !.mbuf[k.writer] = ResetWrite(b)] /\ wbuf' = 0
  <2>. DEFINE x == ResetWrite(b)
  <2>1. /\ BufferOK(x) /\ x.rd = b.rd /\ x.msg = b.msg
        /\ \A i \in 1 .. b.msg : x.data[i] = b.data[i]
    BY <1>1, ResetKeeps
  <2>. HIDE DEF x
  <2>2. Stores(k, q', k.writer, x)
    BY <1>1, <1>6, <2>1, PutBuffer DEF x
  <2>3. FramedBuf(x, msgs')
    BY <1>1, <1>3, <1>4, <2>1, FramedSame
  <2>4. \A c \in ChunkIds : FramedBuf(q'.mbuf[c], msgs')
    BY <1>4, <2>2, <2>3 DEF Stores
  <2>. QED
    BY <1>1, <1>2, <1>3, <1>6, <2>4 DEF Messages
<1>. QED
  BY <1>1, <1>5, <1>6

LEMMA RowColsMessages ==
  ASSUME Shape, Messages, NEW w \in Writers, RowCols(w)
  PROVE  Messages'
<1>. DEFINE b == q.mbuf[wbuf]
            u == Unit(wmsg[w], 2)
<1>1. /\ lock = w /\ lock' = w /\ wpc' = [wpc EXCEPT ![w] = "end"] /\ DOMAIN wpc = Writers
      /\ UNCHANGED <<wmsg, msgs, completed, meta_buf>>
  BY RowColsEffect DEF RowCols, Shape, LockDiscipline, historyVars
<1>2. msgs \in Nat
  BY BWAssumption DEF Messages
<1>3. CASE wbuf = 0 /\ wbuf' = 0 /\ q' = q
  BY <1>1, <1>3 DEF Messages
<1>4. ASSUME wbuf # 0, wbuf \in Allocated(q), wbuf \in ChunkIds, BufferOK(b), u \in Units,
             wmsg[w] \in 1 .. msgs, Partial(b, wmsg[w], "cols"),
             q' = [q EXCEPT !.mbuf[wbuf] = Extend(b, u)], wbuf' = wbuf
      PROVE  Messages'
  <2>. DEFINE x == Extend(b, u)
  <2>1. /\ BufferOK(x) /\ x.rd = b.rd /\ x.msg = b.msg
        /\ Wr(x) = Wr(b) + 1 /\ x.data[Wr(b) + 1] = u
        /\ \A i \in 1 .. Wr(b) : x.data[i] = b.data[i]
    BY <1>4, ExtendKeeps
  <2>2. Wr(b) = b.msg + 1 /\ b.data[b.msg + 1] = Unit(wmsg[w], 1) /\ b.msg \in Nat
    BY <1>4 DEF Partial, BufferOK
  <2>3. x = Extend(b, u)
    OBVIOUS
  <2>. HIDE DEF x, u
  <2>4. Stores(q, q', wbuf, x)
    BY <1>4, <2>1, <2>3, PutBuffer DEF Shape
  <2>. HIDE DEF b
  <2>5. Partial(x, wmsg[w], "end")
    BY <2>1, <2>2 DEF Partial, u
  <2>6. FramedBuf(b, msgs)
    BY <1>4 DEF Messages, b
  <2>7. FramedBuf(x, msgs)
    BY <1>2, <2>1, <2>2, <2>6, FramedSame
  <2>8. \A c \in ChunkIds : FramedBuf(q'.mbuf[c], msgs)
    BY <2>4, <2>7 DEF Stores, Messages
  <2>9. q'.mbuf[wbuf'] = x
    BY <1>4, <2>4 DEF Stores
  <2>. QED
    BY <1>1, <1>4, <2>5, <2>8, <2>9 DEF Messages
<1>5. ASSUME wbuf \in Allocated(q), wbuf \in ChunkIds, BufferOK(b),
             q' = [q EXCEPT !.mbuf[wbuf] = ResetWrite(b)], wbuf' = 0
      PROVE  Messages'
  <2>. DEFINE x == ResetWrite(b)
  <2>1. /\ BufferOK(x) /\ x.rd = b.rd /\ x.msg = b.msg
        /\ \A i \in 1 .. b.msg : x.data[i] = b.data[i]
    BY <1>5, ResetKeeps
  <2>2. x = ResetWrite(b)
    OBVIOUS
  <2>. HIDE DEF x
  <2>3. Stores(q, q', wbuf, x)
    BY <1>5, <2>1, <2>2, PutBuffer DEF Shape
  <2>4. FramedBuf(b, msgs)
    BY <1>5 DEF Messages
  <2>5. FramedBuf(x, msgs)
    BY <1>2, <2>1, <2>4, FramedSame
  <2>6. \A c \in ChunkIds : FramedBuf(q'.mbuf[c], msgs)
    BY <2>3, <2>5 DEF Stores, Messages
  <2>. QED
    BY <1>1, <1>5, <2>6 DEF Messages
<1>. HIDE DEF b, u
<1>. QED
  BY <1>3, <1>4, <1>5, RowColsEffect DEF b, u

LEMMA RowEndMessages ==
  ASSUME Shape, Messages, NEW w \in Writers, RowEnd(w)
  PROVE  Messages'
<1>. DEFINE b == q.mbuf[wbuf]
            m == wmsg[w]
<1>1. /\ wbuf \in ChunkIds /\ wbuf' = 0
      /\ BufferOK(b) /\ m \in 1 .. msgs /\ Unit(m, 3) \in Units
      /\ Partial(b, m, "end")
      /\ \A d \in ChunkIds : d # wbuf => q'.mbuf[d] = q.mbuf[d]
      /\ \/ /\ q'.mbuf[wbuf] = BeginWrite(Extend(b, Unit(m, 3)))
            /\ completed' = Append(completed, m)
            /\ meta_buf' = meta_buf \/ meta_buf' = Append(meta_buf, m)
         \/ /\ q'.mbuf[wbuf] = ResetWrite(b)
            /\ completed' = completed /\ meta_buf' = meta_buf
  BY RowEndEffect
<1>2. UNCHANGED <<wmsg, msgs>>
  BY DEF RowEnd
<1>3. msgs \in Nat /\ FramedBuf(b, msgs)
  BY <1>1, BWAssumption DEF Messages
<1>. HIDE DEF b
<1>4. FramedBuf(q'.mbuf[wbuf], msgs)
  <2>1. FramedBuf(BeginWrite(Extend(b, Unit(m, 3))), msgs)
    BY <1>1, <1>3, FramedCommit
  <2>2. FramedBuf(ResetWrite(b), msgs)
    BY <1>1, <1>3, ResetKeeps, FramedSame
  <2>. QED
    BY <1>1, <2>1, <2>2
<1>5. \A c \in ChunkIds : FramedBuf(q'.mbuf[c], msgs)
  BY <1>1, <1>4 DEF Messages
<1>6. completed' \in Seq(Nat) /\ meta_buf' \in Seq(Nat)
  <2>1. m \in Nat
    BY <1>1
  <2>2. Append(completed, m) \in Seq(Nat) /\ Append(meta_buf, m) \in Seq(Nat)
    BY <2>1, AppendProperties DEF Messages
  <2>. QED
    BY <1>1, <2>2 DEF Messages
<1>. QED
  BY <1>1, <1>2, <1>5, <1>6 DEF Messages

LEMMA ReaderMessages ==
  ASSUME Shape, Messages, Sending, ReaderStep \/ SpuriousWakeup \/ TimePasses
  PROVE  Messages'
<1>0. /\ UNCHANGED <<wbuf, wpc, wmsg, msgs, completed, meta_buf>>
      /\ msgs \in Nat
  BY ReaderEffect, BWAssumption DEF Messages
<1>1. CASE ProcessDone
  <2>1. wbuf = 0 /\ \A c \in ChunkIds : FramedBuf(q'.mbuf[c], msgs)
    BY <1>0, <1>1, ProcessDoneEffect, FramedEmpty DEF Messages
  <2>. QED
    BY <1>0, <2>1 DEF Messages
<1>2. CASE ~ProcessDone
  <2>1. /\ q'.mbuf = q.mbuf
        /\ lock' = lock \/ (lock' \notin Writers /\ lock \notin Writers)
    BY <1>2, ReaderEffect DEF SameChain
  <2>. QED
    BY <1>0, <2>1 DEF Messages, Shape
<1>. QED
  BY <1>1, <1>2

LEMMA ElsewhereMessages ==
  ASSUME Shape, Messages, Elsewhere
  PROVE  Messages'
<1>1. /\ UNCHANGED <<lock, wbuf, wmsg, msgs, completed>> /\ q'.mbuf = q.mbuf
      /\ wbuf # 0 => wpc'[lock] = wpc[lock]
      /\ meta_buf' = meta_buf \/ meta_buf' = Append(meta_buf, 0)
  BY ElsewhereEffect DEF SameChain
<1>2. meta_buf' \in Seq(Nat)
  <2>1. Append(meta_buf, 0) \in Seq(Nat)
    BY AppendProperties DEF Messages
  <2>. QED
    BY <1>1, <2>1 DEF Messages
<1>. QED
  BY <1>1, <1>2 DEF Messages

LEMMA MessagesKept ==
  ASSUME Shape, Messages, Sending, [Next]_vars
  PROVE  Messages'
BY StepsSplit, ElsewhereMessages, RowStartMessages, RowColsMessages, RowEndMessages,
   ReaderMessages

-----------------------------------------------------------------------------
(* The output stream.                                                      *)

\* What was accepted stays accepted.
Grows(a, z) ==
  /\ Len(a) <= Len(z)
  /\ \A c \in 1 .. Len(a) :
       /\ Len(a[c]) <= Len(z[c])
       /\ \A i \in 1 .. Len(a[c]) : z[c][i] = a[c][i]

LEMMA GrowsSame ==
  ASSUME NEW a \in Seq(Seq(Units))
  PROVE  Grows(a, a)
BY DEF Grows

LEMMA GrowsTwice ==
  ASSUME NEW a \in Seq(Seq(Units)), NEW b \in Seq(Seq(Units)), NEW z \in Seq(Seq(Units)),
         Grows(a, b), Grows(b, z)
  PROVE  Grows(a, z)
<1>1. Len(a) \in Nat /\ Len(b) \in Nat /\ Len(z) \in Nat /\ Len(a) <= Len(b)
      /\ Len(b) <= Len(z)
  BY DEF Grows
<1>2. ASSUME NEW c \in 1 .. Len(a)
      PROVE  /\ Len(a[c]) <= Len(z[c])
             /\ \A i \in 1 .. Len(a[c]) : z[c][i] = a[c][i]
  <2>1. c \in 1 .. Len(b) /\ c \in 1 .. Len(z)
    BY <1>1
  <2>2. a[c] \in Seq(Units) /\ b[c] \in Seq(Units) /\ z[c] \in Seq(Units)
    BY <2>1
  <2>3. Len(a[c]) \in Nat /\ Len(b[c]) \in Nat /\ Len(z[c]) \in Nat
    BY <2>2
  <2>4. /\ Len(a[c]) <= Len(b[c]) /\ (\A i \in 1 .. Len(a[c]) : b[c][i] = a[c][i])
        /\ Len(b[c]) <= Len(z[c]) /\ (\A i \in 1 .. Len(b[c]) : z[c][i] = b[c][i])
    BY <2>1 DEF Grows
  <2>5. Len(a[c]) <= Len(z[c]) /\ 1 .. Len(a[c]) \subseteq 1 .. Len(b[c])
    BY <2>3, <2>4
  <2>. QED
    BY <2>4, <2>5
<1>3. Len(a) <= Len(z)
  BY <1>1
<1>. QED
  BY ONLY <1>2, <1>3, Zenon DEF Grows

\* What is new in z is the last n units of its last connection, from "units".
Adds(a, z, units, n) ==
  \A c \in 1 .. Len(z) : \A i \in 1 .. Len(z[c]) :
    (c <= Len(a) => i > Len(a[c])) =>
      /\ c = Len(z) /\ i > Len(z[c]) - n
      /\ \E u \in 1 .. Len(units) : z[c][i] = units[u]

\* Nothing is new.
LEMMA AddsNothing ==
  ASSUME NEW a \in Seq(Seq(Units)), NEW units, NEW n
  PROVE  Adds(a, a, units, n)
<1>. SUFFICES ASSUME NEW c \in 1 .. Len(a), NEW i \in 1 .. Len(a[c]), c <= Len(a) => i > Len(a[c])
              PROVE  FALSE
  BY DEF Adds
<1>1. a[c] \in Seq(Units)
  OBVIOUS
<1>2. Len(a) \in Nat /\ Len(a[c]) \in Nat
  BY <1>1
<1>. QED
  BY <1>2

\* Connecting adds nothing to what is sent then.
LEMMA AddsLater ==
  ASSUME NEW a \in Seq(Seq(Units)), NEW b \in Seq(Seq(Units)), NEW z \in Seq(Seq(Units)),
         Adds(a, b, <<>>, 0), NEW units, NEW n, Adds(b, z, units, n)
  PROVE  Adds(a, z, units, n)
<1>. SUFFICES ASSUME NEW c \in 1 .. Len(z), NEW i \in 1 .. Len(z[c]), c <= Len(a) => i > Len(a[c])
              PROVE  c <= Len(b) => i > Len(b[c])
  BY DEF Adds
<1>. SUFFICES ASSUME c <= Len(b), ~(i > Len(b[c])) PROVE FALSE
  OBVIOUS
<1>1. Len(z) \in Nat /\ Len(b) \in Nat /\ c \in 1 .. Len(b)
  OBVIOUS
<1>2. b[c] \in Seq(Units) /\ z[c] \in Seq(Units)
  BY <1>1
<1>3. i \in 1 .. Len(b[c])
  <2>1. Len(b[c]) \in Nat /\ Len(z[c]) \in Nat
    BY <1>2
  <2>. QED
    BY <2>1
<1>4. PICK u \in 1 .. Len(<<>>) : TRUE
  BY <1>1, <1>3 DEF Adds
<1>. QED
  BY <1>4

LEMMA SubSeqOf ==
  ASSUME NEW d \in Seq(Units), NEW a \in Nat, NEW m \in Nat, a + m <= Len(d)
  PROVE  /\ SubSeq(d, a + 1, a + m) \in Seq(Units) /\ Len(SubSeq(d, a + 1, a + m)) = m
         /\ \A i \in 1 .. m : SubSeq(d, a + 1, a + m)[i] = d[a + i]
<1>1. Len(d) \in Nat /\ \A i \in (a + 1) .. (a + m) : d[i] \in Units
  OBVIOUS
<1>2. a + 1 \in Int /\ a + m \in Int
  OBVIOUS
<1>3. /\ SubSeq(d, a + 1, a + m) \in Seq(Units)
      /\ Len(SubSeq(d, a + 1, a + m)) = IF a + 1 <= a + m THEN (a + m) - (a + 1) + 1 ELSE 0
      /\ \A i \in 1 .. ((a + m) - (a + 1) + 1) :
           SubSeq(d, a + 1, a + m)[i] = d[(a + 1) + i - 1]
  BY <1>1, <1>2, SubSeqProperties
<1>. QED
  BY <1>3

\* The fields that a call of sendto() leaves alone.
SameSetting(s, t) ==
  /\ DOMAIN t = DOMAIN s /\ t.kind = s.kind /\ t.socket = s.socket
  /\ t.header_written = s.header_written

LEMMA AcceptedEffect ==
  ASSUME NEW s, StreamOK(s), Len(s.wire) > 0, NEW units \in Seq(Units)
  PROVE  LET t == Accepted(s, units)
         IN  /\ StreamOK(t) /\ Grows(s.wire, t.wire) /\ SameSetting(s, t)
             /\ t.disconnected = s.disconnected /\ Len(t.wire) = Len(s.wire)
             /\ t.wire[Len(t.wire)] = s.wire[Len(s.wire)] \o units
             /\ s.wire[Len(s.wire)] \in Seq(Units)
             /\ Adds(s.wire, t.wire, units, Len(units))
<1>. DEFINE t == Accepted(s, units)
            n == Len(s.wire)
            last == s.wire[n] \o units
<1>0. n \in Nat /\ n > 0 /\ n \in 1 .. n /\ s.wire \in Seq(Seq(Units))
  BY DEF StreamOK
<1>1. s.wire[n] \in Seq(Units)
  BY <1>0
<1>2. /\ last \in Seq(Units) /\ Len(last) >= Len(s.wire[n]) /\ Len(s.wire[n]) \in Nat
      /\ \A i \in 1 .. Len(s.wire[n]) : last[i] = s.wire[n][i]
  BY <1>1, ConcatProperties
<1>20. ASSUME NEW i \in 1 .. Len(last), i > Len(s.wire[n])
       PROVE  i > Len(last) - Len(units) /\ \E u \in 1 .. Len(units) : last[i] = units[u]
  <2>1. Len(last) = Len(s.wire[n]) + Len(units) /\ Len(units) \in Nat /\ Len(s.wire[n]) \in Nat
    BY <1>1
  <2>2. i - Len(s.wire[n]) \in 1 .. Len(units) /\ i > Len(last) - Len(units)
    BY <1>20, <2>1
  <2>3. last[i] = units[i - Len(s.wire[n])]
    BY <1>1, <1>20, <2>1
  <2>. QED
    BY <2>2, <2>3
<1>. HIDE DEF last
<1>3. /\ DOMAIN t = DOMAIN s /\ t.wire = [s.wire EXCEPT ![n] = last]
      /\ t.kind = s.kind /\ t.socket = s.socket /\ t.header_written = s.header_written
      /\ t.disconnected = s.disconnected
  BY DEF Accepted, StreamOK, last
<1>. HIDE DEF t
<1>4. t.wire \in Seq(Seq(Units)) /\ Len(t.wire) = n
  BY <1>0, <1>2, <1>3, ExceptSeq
<1>5. \A c \in 1 .. n : t.wire[c] = IF c = n THEN last ELSE s.wire[c]
  BY <1>0, <1>3
<1>. HIDE DEF n
<1>6. Grows(s.wire, t.wire)
  <2>1. ASSUME NEW c \in 1 .. n
        PROVE  /\ Len(s.wire[c]) <= Len(t.wire[c])
               /\ \A i \in 1 .. Len(s.wire[c]) : t.wire[c][i] = s.wire[c][i]
    <3>1. CASE c = n
      BY <1>2, <1>5, <3>1
    <3>2. CASE c # n
      <4>1. t.wire[c] = s.wire[c]
        BY <1>5, <3>2
      <4>2. Len(s.wire[c]) \in Nat
        BY <1>0 DEF n
      <4>. QED
        BY <4>1, <4>2
    <3>. QED
      BY <3>1, <3>2
  <2>. QED
    BY <1>0, <1>4, <2>1 DEF Grows, n
<1>7. StreamOK(t)
  BY <1>0, <1>3, <1>4 DEF StreamOK, n
<1>8. t.wire[Len(t.wire)] = last
  BY <1>0, <1>4, <1>5
<1>9. Adds(s.wire, t.wire, units, Len(units))
  <2>1. ASSUME NEW c \in 1 .. n, NEW i \in 1 .. Len(t.wire[c]), i > Len(s.wire[c])
        PROVE  c = n
    <3>. SUFFICES ASSUME c # n PROVE FALSE
      OBVIOUS
    <3>1. t.wire[c] = s.wire[c] /\ s.wire[c] \in Seq(Units)
      BY <1>0, <1>5 DEF n
    <3>2. Len(s.wire[c]) \in Nat
      BY <3>1
    <3>. QED
      BY <2>1, <3>1, <3>2
  <2>2. \A c \in 1 .. n : c <= n
    BY <1>0
  <2>. QED
    BY <1>4, <1>5, <1>20, <2>1, <2>2 DEF Adds, n
<1>. QED
  BY <1>1, <1>3, <1>4, <1>6, <1>7, <1>8, <1>9 DEF SameSetting, t, n, last

\* After outcome o of sending buf on s: a positive result is the number of
\* units of buf that the kernel put behind what the connection had carried.
Sends(s, buf, o) ==
  /\ StreamOK(o.stream) /\ SameSetting(s, o.stream) /\ Grows(s.wire, o.stream.wire)
  /\ Adds(s.wire, o.stream.wire, buf, o.ret)
  /\ s.kind = "file" \/ ~s.disconnected => Len(o.stream.wire) = Len(s.wire)
  /\ o.ret \in Int
  /\ o.ret < 0 => "other" \in Faults
  /\ o.ret > 0 =>
       /\ o.ret <= Len(buf) /\ Len(o.stream.wire) > 0
       /\ s.kind = "net" => ~o.stream.disconnected
       /\ \E w \in Seq(Units) :
            /\ o.stream.wire[Len(o.stream.wire)] = w \o SubSeq(buf, 1, o.ret)
            /\ s.kind = "file" \/ ~s.disconnected => w = s.wire[Len(s.wire)]

\* Bad luck is not told apart.
LEMMA UnluckyEffect ==
  ASSUME NEW s, StreamOK(s)
  PROVE  LET t == Unlucky(s)
         IN  /\ StreamOK(t) /\ SameSetting(s, t) /\ t.wire = s.wire
             /\ t.disconnected = s.disconnected
BY DEF Unlucky, StreamOK, SameSetting

\* The kernel accepts the first n units of buf on a connection.
LEMMA AcceptsSome ==
  ASSUME NEW s, StreamOK(s), Len(s.wire) > 0, s.kind = "file" \/ ~s.disconnected,
         NEW t, t = s \/ t = Unlucky(s),
         NEW buf \in Seq(Units), NEW n \in 0 .. Len(buf),
         NEW o, o = Outcome(Accepted(t, SubSeq(buf, 1, n)), n)
  PROVE  Sends(s, buf, o)
<1>1. /\ StreamOK(t) /\ SameSetting(s, t) /\ t.wire = s.wire
      /\ t.disconnected = s.disconnected
  BY UnluckyEffect DEF SameSetting
<1>. DEFINE part == SubSeq(buf, 1, n)
            x == Accepted(t, part)
<1>2. part \in Seq(Units)
  BY SubSeqProperties
<1>3. o.stream = x /\ o.ret = n
  BY DEF Outcome
<1>4. /\ StreamOK(x) /\ Grows(t.wire, x.wire) /\ SameSetting(t, x)
      /\ x.disconnected = t.disconnected /\ Len(x.wire) = Len(t.wire)
      /\ x.wire[Len(x.wire)] = t.wire[Len(t.wire)] \o part
      /\ t.wire[Len(t.wire)] \in Seq(Units) /\ Adds(t.wire, x.wire, part, Len(part))
  BY <1>1, <1>2, AcceptedEffect
<1>40. Len(part) = n /\ \A u \in 1 .. Len(part) : u \in 1 .. Len(buf) /\ part[u] = buf[u]
  <2>1. /\ n \in Nat /\ Len(buf) \in Nat /\ 1 \in 1 .. Len(buf) + 1 /\ n \in 1 - 1 .. Len(buf)
        /\ n <= Len(buf)
    OBVIOUS
  <2>2. Len(part) = n /\ \A u \in 1 .. n : part[u] = buf[u]
    BY <2>1
  <2>. QED
    BY <2>1, <2>2
<1>. HIDE DEF x, part
<1>41. Adds(s.wire, x.wire, buf, n)
  BY <1>1, <1>4, <1>40 DEF Adds
<1>5. SameSetting(s, x)
  BY <1>1, <1>4 DEF SameSetting
<1>6. n \in Int /\ n <= Len(buf) /\ ~(n < 0)
  OBVIOUS
<1>7. s.kind = "net" => ~x.disconnected
  BY <1>1, <1>4
<1>8. Len(x.wire) > 0 /\ Len(x.wire) = Len(s.wire)
  BY <1>1, <1>4
<1>9. \E w \in Seq(Units) :
         /\ x.wire[Len(x.wire)] = w \o part
         /\ s.kind = "file" \/ ~s.disconnected => w = s.wire[Len(s.wire)]
  BY <1>1, <1>4
<1>. QED
  BY <1>1, <1>3, <1>4, <1>41, <1>5, <1>6, <1>7, <1>8, <1>9 DEF Sends, part

\* A call that accepts nothing.
LEMMA AcceptsNone ==
  ASSUME NEW s, StreamOK(s), NEW t, StreamOK(t), SameSetting(s, t), t.wire = s.wire,
         NEW buf, NEW n \in {0, -1}, n = -1 => "other" \in Faults, NEW o, o = Outcome(t, n)
  PROVE  Sends(s, buf, o)
<1>1. o.stream = t /\ o.ret = n
  BY DEF Outcome
<1>2. Grows(s.wire, t.wire)
  BY GrowsSame DEF StreamOK
<1>3. Adds(s.wire, t.wire, buf, n)
  BY AddsNothing DEF StreamOK
<1>. QED
  BY <1>1, <1>2, <1>3 DEF Sends

LEMMA SendtoEffect ==
  ASSUME NEW s, StreamOK(s), ~s.disconnected, NEW buf \in Seq(Units), NEW short,
         NEW o \in sendto(s, buf, short)
  PROVE  Sends(s, buf, o)
<1>0. Len(s.wire) > 0 /\ Len(buf) \in Nat /\ SubSeq(buf, 1, Len(buf)) = buf
  BY SubSeqFull, LenProperties DEF StreamOK
<1>. DEFINE u == Unlucky(s)
<1>1. /\ StreamOK(u) /\ SameSetting(s, u) /\ u.wire = s.wire
      /\ u.disconnected = s.disconnected
  BY UnluckyEffect
<1>. DEFINE d == [u EXCEPT !.disconnected = TRUE]
<1>2. StreamOK(d) /\ SameSetting(s, d) /\ d.wire = s.wire
  BY <1>0, <1>1 DEF StreamOK, SameSetting
<1>3. \/ o = Outcome(Accepted(s, buf), Len(buf))
      \/ \E n \in 1 .. (Len(buf) - 1) : o = Outcome(Accepted(u, SubSeq(buf, 1, n)), n)
      \/ o = Outcome(d, 0)
      \/ o = Outcome(u, 0)
      \/ o = Outcome(u, -1) /\ "other" \in Faults
  BY DEF sendto, If
<1>4. CASE o = Outcome(Accepted(s, buf), Len(buf))
  <2>1. Len(buf) \in 0 .. Len(buf)
    BY <1>0
  <2>. QED
    BY <1>0, <1>4, <2>1, AcceptsSome
<1>5. ASSUME NEW n \in 1 .. (Len(buf) - 1), o = Outcome(Accepted(u, SubSeq(buf, 1, n)), n)
      PROVE  Sends(s, buf, o)
  <2>1. n \in 0 .. Len(buf)
    BY <1>0, <1>5
  <2>. QED
    BY <1>0, <1>5, <2>1, AcceptsSome
<1>. HIDE DEF u, d
<1>. QED
  BY <1>1, <1>2, <1>3, <1>4, <1>5, AcceptsNone

LEMMA ConnectEffect ==
  ASSUME NEW s, StreamOK(s)
  PROVE  LET t == s_connect(s)
         IN  /\ StreamOK(t) /\ SameSetting(s, t) /\ Grows(s.wire, t.wire)
             /\ ~t.disconnected /\ t.wire \in Seq(Seq(Units))
             /\ Adds(s.wire, t.wire, <<>>, 0)
<1>. DEFINE t == s_connect(s)
<1>1. /\ DOMAIN t = DOMAIN s /\ t.kind = s.kind /\ t.socket = s.socket
      /\ t.header_written = s.header_written /\ t.disconnected = FALSE
      /\ t.wire = Append(s.wire, <<>>)
  BY DEF s_connect, StreamOK
<1>. HIDE DEF t
<1>2. <<>> \in Seq(Units) /\ s.wire \in Seq(Seq(Units))
  BY EmptySeq DEF StreamOK
<1>3. /\ t.wire \in Seq(Seq(Units)) /\ Len(t.wire) = Len(s.wire) + 1 /\ Len(s.wire) \in Nat
      /\ (\A c \in 1 .. Len(s.wire) : t.wire[c] = s.wire[c]) /\ t.wire[Len(s.wire) + 1] = <<>>
  BY <1>1, <1>2, AppendProperties, LenProperties
<1>4. Grows(s.wire, t.wire)
  <2>1. ASSUME NEW c \in 1 .. Len(s.wire)
        PROVE  /\ Len(s.wire[c]) <= Len(t.wire[c])
               /\ \A i \in 1 .. Len(s.wire[c]) : t.wire[c][i] = s.wire[c][i]
    <3>1. t.wire[c] = s.wire[c] /\ s.wire[c] \in Seq(Units)
      BY <1>2, <1>3
    <3>2. Len(s.wire[c]) \in Nat
      BY <3>1
    <3>. QED
      BY <3>1, <3>2
  <2>2. Len(s.wire) <= Len(t.wire)
    BY <1>3
  <2>. QED
    BY <2>1, <2>2 DEF Grows
<1>5. StreamOK(t)
  BY <1>1, <1>3 DEF StreamOK
<1>6. Adds(s.wire, t.wire, <<>>, 0)
  <2>. SUFFICES ASSUME NEW c \in 1 .. Len(t.wire), NEW i \in 1 .. Len(t.wire[c]),
                       c <= Len(s.wire) => i > Len(s.wire[c])
                PROVE  FALSE
    BY DEF Adds
  <2>1. CASE c = Len(s.wire) + 1
    <3>1. Len(t.wire[c]) = 0
      BY <1>3, <2>1
    <3>. QED
      BY <3>1
  <2>2. CASE c # Len(s.wire) + 1
    <3>1. c \in 1 .. Len(s.wire) /\ c <= Len(s.wire)
      BY <1>3, <2>2
    <3>2. t.wire[c] = s.wire[c] /\ s.wire[c] \in Seq(Units)
      BY <1>2, <1>3, <3>1
    <3>3. Len(s.wire[c]) \in Nat
      BY <3>2
    <3>. QED
      BY <3>1, <3>2, <3>3
  <2>. QED
    BY <2>1, <2>2
<1>. QED
  BY <1>1, <1>3, <1>4, <1>5, <1>6 DEF SameSetting, t

LEMMA SocketSendtoEffect ==
  ASSUME NEW s, StreamOK(s), s.kind = "net", NEW buf \in Seq(Units), NEW short,
         NEW o \in socket_sendto(s, buf, short)
  PROVE  Sends(s, buf, o)
<1>1. CASE ~s.disconnected
  BY <1>1, SendtoEffect DEF socket_sendto
<1>2. CASE s.disconnected
  <2>. DEFINE t == s_connect(s)
  <2>1. /\ StreamOK(t) /\ SameSetting(s, t) /\ Grows(s.wire, t.wire)
        /\ ~t.disconnected /\ Adds(s.wire, t.wire, <<>>, 0)
    BY ConnectEffect
  <2>2. o = Outcome(Unlucky(s), 0) \/ o \in sendto(t, buf, short)
    BY <1>2 DEF socket_sendto, If
  <2>3. CASE o = Outcome(Unlucky(s), 0)
    BY <2>3, UnluckyEffect, AcceptsNone
  <2>. HIDE DEF t
  <2>4. CASE o \in sendto(t, buf, short)
    <3>1. Sends(t, buf, o)
      BY <2>1, <2>4, SendtoEffect
    <3>2. SameSetting(s, o.stream) /\ t.kind = "net"
      BY <2>1, <3>1 DEF Sends, SameSetting
    <3>3. Grows(s.wire, o.stream.wire)
      BY <2>1, <3>1, GrowsTwice DEF Sends, StreamOK
    <3>4. Adds(s.wire, o.stream.wire, buf, o.ret)
      BY <2>1, <3>1, AddsLater DEF Sends, StreamOK
    <3>. QED
      BY <1>2, <3>1, <3>2, <3>3, <3>4 DEF Sends
  <2>. QED
    BY <2>2, <2>3, <2>4
<1>. QED
  BY <1>1, <1>2

\* What is new in z is of a header, or the last n units of its last connection.
AddsBehindHeader(a, z, n) ==
  \A c \in 1 .. Len(z) : \A i \in 1 .. Len(z[c]) :
    (c <= Len(a) => i > Len(a[c])) =>
      IsHeader(z[c][i]) \/ (c = Len(z) /\ i > Len(z[c]) - n)

\* What write_header() may be given.
HeaderOK(header) ==
  /\ header \in Seq(Units) /\ Len(header) > 0
  /\ \A i \in 1 .. Len(header) : IsHeader(header[i])

\* Stream s became t, which has accepted n units of data.  If it is connected,
\* the connection is the one that s had, or it carries the header before the
\* data, unless sending the header failed with an error that passes for success.
Announced(s, header, t, n) ==
  LET w == t.wire[Len(t.wire)]
  IN  /\ Connected(s) => Len(t.wire) = Len(s.wire)
      /\ Connected(t) /\ ~Connected(s) /\ "other" \notin Faults =>
           \E e \in 1 .. Len(w) : w[e] = header[1] /\ (n > 0 => e <= Len(w) - n)

\* After outcome o of OmlOutStream.write() of buf on s.
Writes(s, buf, header, o) ==
  /\ StreamOK(o.stream) /\ Grows(s.wire, o.stream.wire)
  /\ AddsBehindHeader(s.wire, o.stream.wire, o.ret)
  /\ Announced(s, header, o.stream, o.ret)
  /\ o.ret \in Int
  /\ o.ret > 0 =>
       /\ o.ret <= Len(buf) /\ Connected(o.stream)
       /\ \E w \in Seq(Units) :
            /\ o.stream.wire[Len(o.stream.wire)] = w \o SubSeq(buf, 1, o.ret)
            /\ Connected(s) => w = s.wire[Len(s.wire)]
            /\ (~Connected(s) /\ "other" \notin Faults) =>
                 \E v \in Seq(Units) : w = v \o header

LEMMA AddsHeader ==
  ASSUME NEW a \in Seq(Seq(Units)), NEW z \in Seq(Seq(Units)), NEW header, HeaderOK(header),
         NEW m, Adds(a, z, header, m), NEW n
  PROVE  AddsBehindHeader(a, z, n)
BY DEF Adds, AddsBehindHeader, HeaderOK

LEMMA AddsBoth ==
  ASSUME NEW a \in Seq(Seq(Units)), NEW b \in Seq(Seq(Units)), NEW z \in Seq(Seq(Units)),
         NEW header, HeaderOK(header), NEW m, Adds(a, b, header, m), Grows(b, z),
         NEW units, NEW n, Adds(b, z, units, n)
  PROVE  AddsBehindHeader(a, z, n)
<1>. SUFFICES ASSUME NEW c \in 1 .. Len(z), NEW i \in 1 .. Len(z[c]),
                     c <= Len(a) => i > Len(a[c])
              PROVE  IsHeader(z[c][i]) \/ (c = Len(z) /\ i > Len(z[c]) - n)
  BY DEF AddsBehindHeader
<1>1. CASE c <= Len(b) => i > Len(b[c])
  BY <1>1 DEF Adds
<1>2. CASE c <= Len(b) /\ ~(i > Len(b[c]))
  <2>1. Len(z) \in Nat /\ Len(b) \in Nat /\ c \in 1 .. Len(b)
    BY <1>2
  <2>2. b[c] \in Seq(Units) /\ z[c] \in Seq(Units)
    BY <2>1
  <2>3. i \in 1 .. Len(b[c])
    <3>1. Len(b[c]) \in Nat /\ Len(z[c]) \in Nat
      BY <2>2
    <3>. QED
      BY <1>2, <3>1
  <2>4. z[c][i] = b[c][i]
    BY <2>1, <2>3 DEF Grows
  <2>5. PICK u \in 1 .. Len(header) : b[c][i] = header[u]
    BY <2>1, <2>3 DEF Adds
  <2>. QED
    BY <2>4, <2>5 DEF HeaderOK
<1>. QED
  BY <1>1, <1>2

\* Only data was sent.
LEMMA WritesData ==
  ASSUME NEW s, StreamOK(s), NEW buf, NEW header, HeaderOK(header), NEW o, Sends(s, buf, o),
         s.header_written, s.kind = "net" => s.socket /\ ~s.disconnected
  PROVE  Writes(s, buf, header, o)
<1>1. Connected(s) /\ (s.kind = "file" \/ ~s.disconnected)
  BY DEF Connected, StreamOK
<1>2. o.ret > 0 => Connected(o.stream)
  BY DEF Sends, SameSetting, Connected
<1>3. AddsBehindHeader(s.wire, o.stream.wire, o.ret)
  BY DEF Sends, Adds, AddsBehindHeader
<1>4. Announced(s, header, o.stream, o.ret)
  BY <1>1 DEF Sends, Announced
<1>. QED
  BY <1>1, <1>2, <1>3, <1>4 DEF Sends, Writes

\* The header was sent before the data; h is the outcome of sending it.
LEMMA WritesBoth ==
  ASSUME NEW s, StreamOK(s), NEW buf \in Seq(Units), NEW header, HeaderOK(header),
         NEW s0, ~Connected(s0), s0.wire = s.wire,
         NEW h, Sends(s, header, h), h.ret = -1 \/ h.ret >= Len(header),
         NEW x, StreamOK(x), x.wire = h.stream.wire, x.kind = s.kind,
         x.disconnected = h.stream.disconnected, x.header_written, x.kind = "net" => x.socket,
         NEW o, Sends(x, buf, o)
  PROVE  Writes(s0, buf, header, o)
<1>1. Grows(s0.wire, o.stream.wire)
  BY GrowsTwice DEF Sends, StreamOK
<1>2. AddsBehindHeader(s0.wire, o.stream.wire, o.ret)
  BY AddsBoth DEF Sends, StreamOK
<1>3. o.ret > 0 => Connected(o.stream)
  BY DEF Sends, SameSetting, Connected
<1>4. ASSUME "other" \notin Faults
      PROVE  \E v \in Seq(Units) : x.wire[Len(x.wire)] = v \o header /\ (x.kind = "file" \/ ~x.disconnected)
  <2>1. h.ret \in Int /\ Len(header) \in Nat /\ h.ret > 0 /\ h.ret <= Len(header)
    <3>1. h.ret \in Int /\ (h.ret > 0 => h.ret <= Len(header)) /\ ~(h.ret < 0)
      BY <1>4 DEF Sends
    <3>2. Len(header) \in Nat /\ Len(header) > 0
      BY DEF HeaderOK
    <3>. QED
      BY <3>1, <3>2
  <2>2. h.ret = Len(header)
    BY <2>1
  <2>3. SubSeq(header, 1, h.ret) = header
    BY <2>2, SubSeqFull DEF HeaderOK
  <2>4. s.kind = "net" => ~h.stream.disconnected
    BY <2>1 DEF Sends
  <2>5. s.kind \in {"net", "file"}
    BY DEF StreamOK
  <2>6. PICK v \in Seq(Units) : h.stream.wire[Len(h.stream.wire)] = v \o SubSeq(header, 1, h.ret)
    BY <2>1 DEF Sends
  <2>. QED
    BY <2>3, <2>4, <2>5, <2>6
<1>5. ASSUME o.ret > 0
      PROVE  \E w \in Seq(Units) :
               /\ o.stream.wire[Len(o.stream.wire)] = w \o SubSeq(buf, 1, o.ret)
               /\ "other" \notin Faults => \E v \in Seq(Units) : w = v \o header
  <2>1. PICK w \in Seq(Units) :
           /\ o.stream.wire[Len(o.stream.wire)] = w \o SubSeq(buf, 1, o.ret)
           /\ x.kind = "file" \/ ~x.disconnected => w = x.wire[Len(x.wire)]
    BY <1>5 DEF Sends
  <2>. QED
    BY <1>4, <1>5, <2>1
<1>6. Announced(s0, header, o.stream, o.ret)
  <2>. SUFFICES ASSUME "other" \notin Faults
                PROVE  LET w == o.stream.wire[Len(o.stream.wire)]
                       IN  \E e \in 1 .. Len(w) : /\ w[e] = header[1]
                                                  /\ o.ret > 0 => e <= Len(w) - o.ret
    BY DEF Announced
  <2>. DEFINE z == o.stream.wire
              l == Len(z)
  <2>1. PICK v \in Seq(Units) : x.wire[Len(x.wire)] = v \o header
                               /\ (x.kind = "file" \/ ~x.disconnected)
    BY <1>4
  <2>2. /\ Len(x.wire) = l /\ Grows(x.wire, z) /\ z \in Seq(Seq(Units))
        /\ x.wire \in Seq(Seq(Units)) /\ header \in Seq(Units) /\ Len(header) > 0
    BY <2>1 DEF Sends, StreamOK, HeaderOK
  <2>3. l \in Nat /\ l > 0
    <3>1. Len(x.wire) > 0
      BY <2>1 DEF StreamOK
    <3>. QED
      BY <2>2, <3>1
  <2>. DEFINE e == Len(v) + 1
  <2>4. e \in 1 .. Len(v \o header) /\ (v \o header)[e] = header[1] /\ v \o header \in Seq(Units)
    <3>1. Len(v) \in Nat /\ Len(header) \in Nat /\ header \in Seq(Units) /\ v \in Seq(Units)
      BY <2>1, <2>2
    <3>2. /\ Len(v \o header) = Len(v) + Len(header) /\ v \o header \in Seq(Units)
          /\ \A i \in 1 .. (Len(v) + Len(header)) :
               (v \o header)[i] = IF i <= Len(v) THEN v[i] ELSE header[i - Len(v)]
      BY <3>1, ConcatProperties
    <3>3. e \in 1 .. (Len(v) + Len(header)) /\ ~(e <= Len(v)) /\ e - Len(v) = 1
      BY <2>2, <3>1
    <3>. QED
      BY <3>2, <3>3
  <2>. HIDE DEF z, l, e
  <2>5. l \in 1 .. Len(x.wire) /\ e \in 1 .. Len(x.wire[l]) /\ x.wire[l][e] = header[1]
    BY <2>1, <2>2, <2>3, <2>4
  <2>6. Len(x.wire[l]) <= Len(z[l]) /\ z[l][e] = x.wire[l][e]
    BY <2>2, <2>5 DEF Grows
  <2>7. x.wire[l] \in Seq(Units) /\ z[l] \in Seq(Units)
    <3>1. l \in 1 .. Len(z)
      BY <2>3 DEF l
    <3>. QED
      BY <2>2, <2>5, <3>1
  <2>8. Len(x.wire[l]) \in Nat /\ Len(z[l]) \in Nat
    BY <2>7
  <2>9. e \in 1 .. Len(z[l]) /\ z[l][e] = header[1]
    BY <2>5, <2>6, <2>8
  <2>10. o.ret > 0 => e <= Len(z[l]) - o.ret
    <3>. SUFFICES ASSUME o.ret > 0 PROVE e <= Len(z[l]) - o.ret
      OBVIOUS
    <3>. DEFINE n == o.ret
    <3>1. n \in Nat /\ n <= Len(buf) /\ Len(buf) \in Nat
      BY SMTT(30) DEF Sends
    <3>2. z[l] = x.wire[l] \o SubSeq(buf, 1, n)
      BY <2>1, <2>2 DEF Sends, z, l
    <3>3. SubSeq(buf, 1, n) \in Seq(Units) /\ Len(SubSeq(buf, 1, n)) = n
      <4>1. 0 \in Nat /\ 0 + n <= Len(buf) /\ 0 + 1 = 1 /\ 0 + n = n
        BY <3>1
      <4>2. SubSeq(buf, 0 + 1, 0 + n) \in Seq(Units) /\ Len(SubSeq(buf, 0 + 1, 0 + n)) = n
        BY <3>1, <4>1, SubSeqOf
      <4>. QED
        BY <4>1, <4>2
    <3>. HIDE DEF n
    <3>4. Len(z[l]) = Len(x.wire[l]) + n
      BY <2>7, <3>2, <3>3, ConcatProperties
    <3>5. e <= Len(z[l]) - n
      BY <2>5, <2>8, <3>1, <3>4
    <3>. QED
      BY <3>5 DEF n
  <2>. QED
    BY <2>9, <2>10 DEF z, l
<1>. QED
  BY <1>1, <1>2, <1>3, <1>5, <1>6 DEF Sends, Writes

\* The header was not sent.
LEMMA WritesHeader ==
  ASSUME NEW s, StreamOK(s), ~s.header_written, NEW buf, NEW header, HeaderOK(header),
         NEW s0, ~Connected(s0), s0.wire = s.wire, NEW h, Sends(s, header, h), NEW o, o = Outcome(h.stream, 0)
  PROVE  Writes(s0, buf, header, o)
<1>1. o.stream = h.stream /\ o.ret = 0
  BY DEF Outcome
<1>2. AddsBehindHeader(s0.wire, o.stream.wire, o.ret)
  BY <1>1, AddsHeader DEF Sends, StreamOK
<1>3. Announced(s0, header, o.stream, o.ret)
  BY <1>1 DEF Announced, Connected, Sends, SameSetting
<1>. QED
  BY <1>1, <1>2, <1>3 DEF Sends, Writes

LEMMA NetWriteEffect ==
  ASSUME NEW s0, StreamOK(s0), s0.kind = "net", NEW buf \in Seq(Units),
         NEW header, HeaderOK(header), NEW o \in net_stream_write(s0, buf, header)
  PROVE  Writes(s0, buf, header, o)
<1>. DEFINE s1 == IF s0.socket THEN s0 ELSE open_socket(s0)
            s == IF s1.disconnected THEN [s1 EXCEPT !.header_written = FALSE] ELSE s1
<1>1. StreamOK(s1) /\ s1.kind = "net" /\ s1.wire = s0.wire /\ s1.socket
      /\ (s0.socket => s1 = s0) /\ (~s0.socket => s1.disconnected)
  BY DEF open_socket, StreamOK
<1>. HIDE DEF s1
<1>2. StreamOK(s) /\ s.kind = "net" /\ s.wire = s0.wire /\ s.socket
      /\ (s.header_written => s = s0 /\ ~s0.disconnected)
  BY <1>1 DEF StreamOK
<1>3. o \in IF s.header_written
            THEN socket_sendto(s, buf, "short")
            ELSE UNION { IF HeaderSent(h.ret, header)
                           THEN socket_sendto([h.stream EXCEPT !.header_written = TRUE],
                                              buf, "short")
                           ELSE {Outcome(h.stream, 0)} :
                         h \in socket_sendto(s, header, "shortheader") }
  BY DEF net_stream_write, s1
<1>. HIDE DEF s
<1>4. CASE s.header_written
  <2>1. Sends(s, buf, o)
    BY <1>2, <1>3, <1>4, SocketSendtoEffect
  <2>. QED
    BY <1>2, <1>4, <2>1, WritesData
<1>5. CASE ~s.header_written
  <2>0. ~Connected(s0)
    BY <1>1, <1>2, <1>5 DEF Connected, s
  <2>1. PICK h \in socket_sendto(s, header, "shortheader") :
          o \in IF HeaderSent(h.ret, header)
                  THEN socket_sendto([h.stream EXCEPT !.header_written = TRUE], buf, "short")
                  ELSE {Outcome(h.stream, 0)}
    BY <1>3, <1>5
  <2>2. Sends(s, header, h)
    BY <1>2, <2>1, SocketSendtoEffect DEF HeaderOK
  <2>. DEFINE t == h.stream
              x == [t EXCEPT !.header_written = TRUE]
  <2>3. StreamOK(t) /\ t.kind = "net" /\ t.socket
    BY <1>2, <2>2 DEF Sends, SameSetting
  <2>4. CASE o = Outcome(t, 0)
    BY <1>2, <1>5, <2>0, <2>2, <2>4, WritesHeader
  <2>5. CASE o \in socket_sendto(x, buf, "short") /\ HeaderSent(h.ret, header)
    <3>1. StreamOK(x) /\ x.wire = t.wire /\ x.kind = "net" /\ x.socket /\ x.header_written
          /\ x.disconnected = t.disconnected
      BY <2>3 DEF StreamOK
    <3>. HIDE DEF x
    <3>2. Sends(x, buf, o)
      BY <2>5, <3>1, SocketSendtoEffect
    <3>3. h.ret = -1 \/ h.ret >= Len(header)
      BY <2>5 DEF HeaderSent
    <3>. QED
      BY <1>2, <2>0, <2>2, <3>1, <3>2, <3>3, WritesBoth
  <2>. QED
    BY <2>1, <2>4, <2>5
<1>. QED
  BY <1>4, <1>5

LEMMA FwriteEffect ==
  ASSUME NEW s, StreamOK(s), s.kind = "file", NEW buf \in Seq(Units), NEW short,
         NEW o \in fwrite(s, buf, short)
  PROVE  Sends(s, buf, o)
<1>0. Len(s.wire) > 0 /\ Len(buf) \in Nat /\ SubSeq(buf, 1, Len(buf)) = buf
  BY SubSeqFull, LenProperties DEF StreamOK
<1>1. \/ o = Outcome(Accepted(s, buf), Len(buf))
      \/ \E n \in 0 .. (Len(buf) - 1) :
           o = Outcome(Accepted(Unlucky(s), SubSeq(buf, 1, n)), n)
  BY DEF fwrite, If
<1>2. CASE o = Outcome(Accepted(s, buf), Len(buf))
  <2>1. Len(buf) \in 0 .. Len(buf)
    BY <1>0
  <2>. QED
    BY <1>0, <1>2, <2>1, AcceptsSome
<1>3. ASSUME NEW n \in 0 .. (Len(buf) - 1),
             o = Outcome(Accepted(Unlucky(s), SubSeq(buf, 1, n)), n)
      PROVE  Sends(s, buf, o)
  <2>1. n \in 0 .. Len(buf)
    BY <1>0, <1>3
  <2>. QED
    BY <1>0, <1>3, <2>1, AcceptsSome
<1>. QED
  BY <1>1, <1>2, <1>3

LEMMA FileWriteEffect ==
  ASSUME NEW s, StreamOK(s), s.kind = "file", NEW buf \in Seq(Units),
         NEW header, HeaderOK(header), NEW o \in file_stream_write(s, buf, header)
  PROVE  Writes(s, buf, header, o)
<1>1. CASE s.header_written
  <2>1. Sends(s, buf, o)
    BY <1>1, FwriteEffect DEF file_stream_write
  <2>. QED
    BY <1>1, <2>1, WritesData
<1>2. CASE ~s.header_written
  <2>0. ~Connected(s)
    BY <1>2 DEF Connected
  <2>1. PICK h \in fwrite(s, header, "short") :
          o \in IF h.ret < Len(header)
                  THEN {Outcome(h.stream, 0)}
                  ELSE fwrite([h.stream EXCEPT !.header_written = TRUE], buf, "short")
    BY <1>2 DEF file_stream_write
  <2>2. Sends(s, header, h)
    BY <2>1, FwriteEffect DEF HeaderOK
  <2>. DEFINE t == h.stream
              x == [t EXCEPT !.header_written = TRUE]
  <2>3. StreamOK(t) /\ t.kind = "file"
    BY <2>2 DEF Sends, SameSetting
  <2>4. CASE o = Outcome(t, 0)
    BY <1>2, <2>0, <2>2, <2>4, WritesHeader
  <2>5. CASE o \in fwrite(x, buf, "short") /\ ~(h.ret < Len(header))
    <3>1. StreamOK(x) /\ x.wire = t.wire /\ x.kind = "file" /\ x.header_written
          /\ x.disconnected = t.disconnected
      BY <2>3 DEF StreamOK
    <3>. HIDE DEF x
    <3>2. Sends(x, buf, o)
      BY <2>5, <3>1, FwriteEffect
    <3>3. h.ret >= Len(header)
      <4>1. h.ret \in Int /\ Len(header) \in Nat
        BY <2>2 DEF Sends, HeaderOK
      <4>. QED
        BY <2>5, <4>1
    <3>. QED
      BY <2>0, <2>2, <3>1, <3>2, <3>3, WritesBoth
  <2>. QED
    BY <2>1, <2>4, <2>5
<1>. QED
  BY <1>1, <1>2

LEMMA WriteEffect ==
  ASSUME NEW s, StreamOK(s), NEW buf \in Seq(Units), NEW meta \in Seq(Nat),
         NEW o \in outStream_write(s, buf, Header(meta))
  PROVE  Writes(s, buf, Header(meta), o)
<1>1. HeaderOK(Header(meta))
  <2>. DEFINE a == [body |-> meta, part |-> -1]
              z == [body |-> meta, part |-> -2]
  <2>1. a \in Units /\ z \in Units /\ IsHeader(a) /\ IsHeader(z)
    BY DEF Units, IsHeader
  <2>2. Header(meta) = <<a, z>>
    BY DEF Header
  <2>. HIDE DEF a, z
  <2>. QED
    BY <2>1, <2>2 DEF HeaderOK
<1>2. s.kind \in {"net", "file"}
  BY DEF StreamOK
<1>3. CASE s.kind = "net"
  BY <1>1, <1>3, NetWriteEffect DEF outStream_write
<1>4. CASE s.kind = "file"
  BY <1>1, <1>4, FileWriteEffect DEF outStream_write
<1>. QED
  BY <1>2, <1>3, <1>4

-----------------------------------------------------------------------------
(* Writers keep what is committed.                                         *)

\* A row that starts leaves the complete messages of every chunk alone, except
\* those of the next chunk of a full chain, which are counted as lost.
LEMMA RowStartPending ==
  ASSUME Shape, Messages, NEW w \in Writers, RowStart(w), NEW c \in ChunkIds
  PROVE  \/ Pending(q'.mbuf[c]) = Pending(q.mbuf[c])
         \/ /\ c = q.next[q.writer] /\ ChainFull(q)
            /\ LostBy(q) = MessagesIn(Pending(q.mbuf[c]))
            /\ Pending(q'.mbuf[c]) = <<>>
<1>. DEFINE k == WriteChunk(q)
            b == k.mbuf[k.writer]
            u == Unit(msgs + 1, 1)
<1>1. /\ ChainOK(k)
      /\ \/ q' = [k EXCEPT !.mbuf[k.writer] = Extend(b, u)]
         \/ q' = [k EXCEPT !.mbuf[k.writer] = ResetWrite(b)]
      /\ BufferOK(b) /\ k.writer \in Allocated(k) /\ k.writer \in ChunkIds
      /\ u \in Units
  BY RowStartEffect
<1>2. ChainOK(q) /\ \A d \in ChunkIds : Closed(q, d)
  BY FreeMeansClosed, BWAssumption DEF Shape, RowStart
<1>3. \/ k = q
      \/ \E d \in ChunkIds :
           /\ Moves(q, k, d)
           /\ \/ q.mbuf[d].rd = q.mbuf[d].msg
              \/ /\ d = q.next[q.writer] /\ ChainFull(q)
                 /\ LostBy(q) = MessagesIn(Pending(q.mbuf[d]))
  BY <1>2, WriteChunkMoves
<1>. HIDE DEF k, u
<1>4. Pending(q'.mbuf[c]) = Pending(k.mbuf[c])
  <2>. DEFINE y == Extend(b, u)
              z == ResetWrite(b)
  <2>1. BufferOK(y) /\ BufferOK(z) /\ Pending(y) = Pending(b) /\ Pending(z) = Pending(b)
    BY <1>1, ExtendKeeps, ResetKeeps
  <2>2. q' = [k EXCEPT !.mbuf[k.writer] = y] \/ q' = [k EXCEPT !.mbuf[k.writer] = z]
    BY <1>1
  <2>. HIDE DEF y, z
  <2>3. Stores(k, q', k.writer, y) \/ Stores(k, q', k.writer, z)
    BY <1>1, <2>1, <2>2, PutBuffer
  <2>. QED
    BY <2>1, <2>3 DEF Stores
<1>5. Pending(EmptyBuf) = <<>>
  BY EmptyIsOK, EmptyHasNothing
<1>6. CASE k = q
  BY <1>4, <1>6
<1>7. ASSUME NEW d \in ChunkIds, Moves(q, k, d),
             \/ q.mbuf[d].rd = q.mbuf[d].msg
             \/ /\ d = q.next[q.writer] /\ ChainFull(q)
                /\ LostBy(q) = MessagesIn(Pending(q.mbuf[d]))
      PROVE  \/ Pending(q'.mbuf[c]) = Pending(q.mbuf[c])
             \/ /\ c = q.next[q.writer] /\ ChainFull(q)
                /\ LostBy(q) = MessagesIn(Pending(q.mbuf[c]))
                /\ Pending(q'.mbuf[c]) = <<>>
  <2>1. CASE c # d
    <3>1. k.mbuf[c] = q.mbuf[c]
      BY <1>7, <2>1 DEF Moves
    <3>. QED
      BY <1>4, <3>1
  <2>2. CASE c = d /\ q.mbuf[d].rd = q.mbuf[d].msg
    <3>1. k.mbuf[c] = EmptyBuf
      BY <1>7, <2>2 DEF Moves
    <3>2. BufferOK(q.mbuf[c])
      BY <1>2 DEF ChainOK
    <3>3. Pending(q.mbuf[c]) = <<>>
      BY <2>2, <3>2, EmptyHasNothing
    <3>. QED
      BY <1>4, <1>5, <3>1, <3>3
  <2>3. c = d => Pending(q'.mbuf[c]) = <<>>
    BY <1>4, <1>5, <1>7 DEF Moves
  <2>. QED
    BY <1>7, <2>1, <2>2, <2>3
<1>. QED
  BY <1>3, <1>6, <1>7

LEMMA RowColsPending ==
  ASSUME Shape, Messages, NEW w \in Writers, RowCols(w), NEW c \in ChunkIds
  PROVE  Pending(q'.mbuf[c]) = Pending(q.mbuf[c])
<1>. DEFINE b == q.mbuf[wbuf]
            u == Unit(wmsg[w], 2)
            y == Extend(b, u)
            z == ResetWrite(b)
<1>1. CASE q' = q
  BY <1>1
<1>2. CASE q' # q
  <2>1. /\ wbuf \in Allocated(q) /\ BufferOK(b) /\ u \in Units
        /\ q' = [q EXCEPT !.mbuf[wbuf] = y] \/ q' = [q EXCEPT !.mbuf[wbuf] = z]
    BY <1>2, RowColsEffect
  <2>. HIDE DEF u
  <2>2. BufferOK(y) /\ BufferOK(z) /\ Pending(y) = Pending(b) /\ Pending(z) = Pending(b)
    BY <2>1, ExtendKeeps, ResetKeeps
  <2>. HIDE DEF y, z
  <2>3. Stores(q, q', wbuf, y) \/ Stores(q, q', wbuf, z)
    BY <2>1, <2>2, PutBuffer DEF Shape
  <2>. QED
    BY <2>2, <2>3 DEF Stores
<1>. QED
  BY <1>1, <1>2

-----------------------------------------------------------------------------
(* What processChunk() has sent is on the wire.                            *)

\* The next n units of a buffer, after the m that were sent.
LEMMA SubSeqJoins ==
  ASSUME NEW d \in Seq(Units), NEW a \in Nat, NEW m \in Nat, NEW l \in Nat, NEW n \in Nat,
         a + l <= Len(d), m + n <= l, NEW buf, buf = SubSeq(d, a + m + 1, a + l)
  PROVE  /\ buf \in Seq(Units) /\ Len(buf) = l - m
         /\ SubSeq(d, a + 1, a + m) \in Seq(Units) /\ Len(SubSeq(d, a + 1, a + m)) = m
         /\ SubSeq(buf, 1, n) \in Seq(Units)
         /\ SubSeq(d, a + 1, a + m) \o SubSeq(buf, 1, n) = SubSeq(d, a + 1, a + (m + n))
<1>. DEFINE x == SubSeq(d, a + 1, a + m)
            y == SubSeq(buf, 1, n)
            z == SubSeq(d, a + 1, a + (m + n))
<1>0. Len(d) \in Nat
  OBVIOUS
<1>1. /\ buf \in Seq(Units) /\ Len(buf) = l - m
      /\ \A i \in 1 .. (l - m) : buf[i] = d[a + m + i]
  <2>1. a + m \in Nat /\ l - m \in Nat /\ (a + m) + (l - m) = a + l
    OBVIOUS
  <2>. QED
    BY <2>1, <1>0, SubSeqOf
<1>2. x \in Seq(Units) /\ Len(x) = m /\ \A i \in 1 .. m : x[i] = d[a + i]
  BY <1>0, SubSeqOf
<1>3. z \in Seq(Units) /\ Len(z) = m + n /\ \A i \in 1 .. (m + n) : z[i] = d[a + i]
  <2>1. m + n \in Nat /\ a + (m + n) <= Len(d)
    BY <1>0
  <2>. QED
    BY <2>1, SubSeqOf
<1>4. y \in Seq(Units) /\ Len(y) = n /\ \A i \in 1 .. n : y[i] = buf[i]
  <2>1. 0 + n <= Len(buf)
    BY <1>1
  <2>2. /\ SubSeq(buf, 0 + 1, 0 + n) \in Seq(Units) /\ Len(SubSeq(buf, 0 + 1, 0 + n)) = n
        /\ \A i \in 1 .. n : SubSeq(buf, 0 + 1, 0 + n)[i] = buf[0 + i]
    BY <1>1, <2>1, SubSeqOf
  <2>3. 0 + 1 = 1 /\ 0 + n = n /\ \A i \in 1 .. n : 0 + i = i
    OBVIOUS
  <2>. QED
    BY <2>2, <2>3
<1>. HIDE DEF x, y, z
<1>5. /\ x \o y \in Seq(Units) /\ Len(x \o y) = m + n
      /\ \A i \in 1 .. (m + n) : (x \o y)[i] = IF i <= m THEN x[i] ELSE y[i - m]
  BY <1>2, <1>4, ConcatProperties, ZenonT(30)
<1>6. \A i \in 1 .. (m + n) : (x \o y)[i] = z[i]
  <2>. SUFFICES ASSUME NEW i \in 1 .. (m + n) PROVE (x \o y)[i] = z[i]
    OBVIOUS
  <2>1. CASE i <= m
    <3>1. (x \o y)[i] = x[i] /\ i \in 1 .. m
      BY <1>5, <2>1
    <3>. QED
      BY <1>2, <1>3, <3>1
  <2>2. CASE ~(i <= m)
    <3>1. i - m \in 1 .. n /\ i - m \in 1 .. (l - m) /\ a + m + (i - m) = a + i
      BY <2>2
    <3>2. (x \o y)[i] = y[i - m]
      BY <1>5, <2>2
    <3>3. y[i - m] = buf[i - m]
      BY <1>4, <3>1
    <3>4. buf[i - m] = d[a + m + (i - m)]
      BY <1>1, <3>1
    <3>. QED
      BY <1>3, <3>1, <3>2, <3>3, <3>4
  <2>. QED
    BY <2>1, <2>2
<1>7. x \o y = z
  BY <1>3, <1>5, <1>6, SeqEqual
<1>. QED
  BY <1>1, <1>2, <1>4, <1>7 DEF x, y, z

LEMMA InitSending == Init => Sending
<1>. SUFFICES ASSUME Init PROVE Sending
  OBVIOUS
<1>1. PICK kind \in StreamKinds : stream = NewStream(kind, MaxLuck)
  BY DEF Init
<1>2. <<>> \in Seq(Seq(Units)) /\ << <<>> >> \in Seq(Seq(Units)) /\ Len(<< <<>> >>) = 1
  <2>1. <<>> \in Seq(Units)
    BY EmptySeq
  <2>. QED
    BY <2>1, EmptySeq
<1>3. kind \in {"net", "file"}
  BY StreamAssumption
<1>4. /\ DOMAIN stream = {"kind", "socket", "disconnected", "header_written", "wire", "luck"}
      /\ stream.kind = kind /\ stream.disconnected = (kind = "net")
      /\ stream.wire = IF kind = "file" THEN << <<>> >> ELSE <<>>
  BY <1>1 DEF NewStream
<1>5. StreamOK(stream)
  <2>1. CASE kind = "file"
    BY <1>2, <1>4, <2>1 DEF StreamOK
  <2>2. CASE kind = "net"
    BY <1>2, <1>4, <2>2 DEF StreamOK
  <2>. QED
    BY <1>3, <2>1, <2>2
<1>. QED
  BY <1>5 DEF Init, Sending

\* Nobody else has the mutex while a chunk is sent.
LEMMA SendingAlone ==
  ASSUME Shape, NEW w \in Writers, RowStart(w) \/ RowCols(w) \/ RowEnd(w)
  PROVE  rpc # "send" /\ rpc' # "send"
<1>1. lock = w \/ (lock = NoOne /\ active)
  BY DEF RowStart, RowCols, RowEnd, MayWrite, Shape, LockDiscipline
<1>2. rpc # "send"
  BY <1>1, BWAssumption DEF Shape, LockDiscipline, Processing
<1>3. rpc' = rpc \/ rpc' = "woken"
  BY DEF RowStart, RowCols, RowEnd, bw_unlock_buf, Signalled, senderVars
<1>. QED
  BY <1>2, <1>3

LEMMA RowSending ==
  ASSUME Shape, Sending, NEW w \in Writers, RowStart(w) \/ RowCols(w) \/ RowEnd(w)
  PROVE  Sending' /\ stream'.wire = stream.wire
<1>1. stream' = stream \/ stream' = Unlucky(stream)
  BY DEF RowStart, RowCols, RowEnd, Adversity
<1>2. StreamOK(stream') /\ stream'.wire = stream.wire
  BY <1>1, UnluckyEffect DEF Sending
<1>. QED
  BY <1>2, SendingAlone DEF Sending

\* One call of write() in processChunk().
LEMMA ProcessSendSending ==
  ASSUME Shape, Messages, Sending, ProcessSend
  PROVE  Sending' /\ Grows(stream.wire, stream'.wire)
<1>. DEFINE b == q.mbuf[chunk]
            d == b.data
            buf == SubSeq(d, b.rd + sent + 1, b.rd + size)
<1>1. /\ size = b.msg - b.rd /\ sent \in 0 .. size /\ size > sent /\ rpc = "send"
      /\ sent > 0 => /\ Connected(stream)
                     /\ EndsWith(stream, SubSeq(d, b.rd + 1, b.rd + sent))
  BY DEF Sending, ProcessSend
<1>2. BufferOK(b)
  BY BWAssumption DEF Shape, ChainOK, Allocated, ChunkIds
<1>3. /\ d \in Seq(Units) /\ b.rd \in Nat /\ size \in Nat /\ sent \in Nat
      /\ b.rd + size <= Len(d)
  BY <1>1, <1>2 DEF BufferOK, Wr
<1>. DEFINE r == b.rd
            A == SubSeq(d, r + 1, r + sent)
<1>4. ASSUME NEW n \in Nat, sent + n <= size
      PROVE  /\ buf \in Seq(Units) /\ Len(buf) = size - sent
             /\ A \in Seq(Units) /\ Len(A) = sent /\ SubSeq(buf, 1, n) \in Seq(Units)
             /\ A \o SubSeq(buf, 1, n) = SubSeq(d, r + 1, r + (sent + n))
  <2>1. buf = SubSeq(d, r + sent + 1, r + size)
    OBVIOUS
  <2>2. r \in Nat /\ size \in Nat /\ sent \in Nat /\ d \in Seq(Units) /\ r + size <= Len(d)
    BY <1>3
  <2>. HIDE DEF buf, d, r
  <2>. QED
    BY <1>4, <2>1, <2>2, SubSeqJoins
<1>40. buf \in Seq(Units) /\ Len(buf) = size - sent /\ size - sent \in Nat
  <2>1. 0 \in Nat /\ sent + 0 <= size /\ size - sent \in Nat
    BY <1>1, <1>3
  <2>. QED
    BY <1>4, <2>1
<1>5. PICK o \in outStream_write(stream, buf, Header(meta_buf)) :
        /\ stream' = o.stream
        /\ IF o.ret > 0
             THEN sent' = sent + o.ret /\ UNCHANGED <<q, rpc>>
             ELSE rpc' = "return"
  BY DEF ProcessSend, SendFailed
<1>6. Writes(stream, buf, Header(meta_buf), o)
  BY <1>40, WriteEffect DEF Sending, Messages
<1>7. UNCHANGED <<chunk, size>>
  BY DEF ProcessSend
<1>8. CASE ~(o.ret > 0)
  BY <1>5, <1>6, <1>8 DEF Writes, Sending
<1>9. CASE o.ret > 0
  <2>. DEFINE n == o.ret
  <2>1. /\ n \in Nat /\ n <= size - sent /\ sent' = sent + n
        /\ Connected(stream') /\ UNCHANGED <<q, rpc>>
    BY <1>40, <1>5, <1>6, <1>9 DEF Writes
  <2>2. PICK v \in Seq(Units) :
          /\ stream'.wire[Len(stream'.wire)] = v \o SubSeq(buf, 1, n)
          /\ Connected(stream) => v = stream.wire[Len(stream.wire)]
    BY <1>5, <1>6, <1>9 DEF Writes
  <2>. DEFINE B == SubSeq(buf, 1, n)
              C == SubSeq(d, r + 1, r + (sent + n))
  <2>3. sent + n <= size
    BY <1>3, <2>1
  <2>4. A \in Seq(Units) /\ Len(A) = sent /\ B \in Seq(Units) /\ A \o B = C
    BY <1>4, <2>1, <2>3
  <2>40. sent > 0 => Connected(stream) /\ EndsWith(stream, A)
    BY <1>1
  <2>. HIDE DEF A, B, C
  <2>5. \E y \in Seq(Units) : v \o B = y \o C
    <3>1. CASE sent = 0
      <4>1. A = <<>>
        BY <2>4, <3>1, EmptySeq
      <4>2. A \o B = B
        BY <2>4, <4>1, ConcatEmptySeq
      <4>3. v \o B = v \o C
        BY <2>4, <4>2
      <4>. QED
        BY <2>2, <4>3
    <3>2. CASE sent > 0
      <4>1. PICK y \in Seq(Units) : stream.wire[Len(stream.wire)] = y \o A
        BY <2>40, <3>2 DEF EndsWith
      <4>2. v = y \o A
        BY <2>2, <2>40, <3>2, <4>1
      <4>3. (y \o A) \o B = y \o (A \o B)
        <5>1. y \in Seq(Units) /\ A \in Seq(Units) /\ B \in Seq(Units)
          BY <2>4, <4>1
        <5>. QED
          BY ONLY <5>1, ConcatAssociative
      <4>. QED
        BY <2>4, <4>1, <4>2, <4>3
    <3>3. sent = 0 \/ sent > 0
      BY <1>3
    <3>. QED
      BY <3>1, <3>2, <3>3
  <2>6. EndsWith(stream', C)
    BY <2>2, <2>5 DEF EndsWith, B
  <2>7. sent' \in 0 .. size /\ sent' = sent + n
    BY <1>3, <2>1
  <2>8. EndsWith(stream', SubSeq(d, b.rd + 1, b.rd + sent'))
    BY <2>6, <2>7 DEF C
  <2>. QED
    BY <1>1, <1>5, <1>6, <1>7, <2>1, <2>7, <2>8 DEF Writes, Sending
<1>. QED
  BY <1>8, <1>9

LEMMA ReaderSending ==
  ASSUME Shape, Messages, Sending, ReaderStep \/ SpuriousWakeup \/ TimePasses
  PROVE  Sending' /\ Grows(stream.wire, stream'.wire)
<1>0. StreamOK(stream) /\ Grows(stream.wire, stream.wire)
  BY GrowsSame DEF Sending, StreamOK
<1>1. CASE ProcessSend
  BY <1>1, ProcessSendSending
<1>2. CASE SpuriousWakeup
  <2>1. stream' = Unlucky(stream) /\ rpc' = "woken"
    BY <1>2 DEF SpuriousWakeup, Adversity
  <2>2. StreamOK(stream') /\ stream'.wire = stream.wire
    BY <1>0, <2>1, UnluckyEffect
  <2>. QED
    BY <1>0, <2>1, <2>2 DEF Sending
<1>3. CASE TimePasses
  BY <1>0, <1>3 DEF TimePasses, queueVars, Sending
<1>4. CASE ProcessEnter
  <2>1. stream' = stream /\ chunk' = chunk
    BY <1>4 DEF ProcessEnter
  <2>2. CASE rpc' = "send"
    <3>1. size' = q.mbuf[chunk].msg - q.mbuf[chunk].rd /\ sent' = 0 /\ q'.mbuf = q.mbuf
      BY <1>4, <2>2 DEF ProcessEnter, Shape, ChainOK
    <3>2. BufferOK(q.mbuf[chunk])
      BY BWAssumption DEF Shape, ChainOK, Allocated, ChunkIds
    <3>3. 0 \in 0 .. size' /\ ~(0 > 0)
      BY <3>1, <3>2 DEF BufferOK
    <3>. QED
      BY <1>0, <2>1, <3>1, <3>3 DEF Sending
  <2>3. CASE rpc' # "send"
    BY <1>0, <2>1, <2>3 DEF Sending
  <2>. QED
    BY <2>2, <2>3
<1>5. CASE ReaderTest \/ ReaderWait \/ ReaderWoken \/ ReaderLoop \/ ProcessDone
           \/ ReaderNext \/ DrainNext
  <2>1. stream' = stream /\ rpc' # "send"
    BY <1>5 DEF ReaderTest, ReaderWait, ReaderWoken, ReaderLoop, ProcessDone, ReaderNext, DrainNext
  <2>. QED
    BY <1>0, <2>1 DEF Sending
<1>. QED
  BY <1>1, <1>2, <1>3, <1>4, <1>5 DEF ReaderStep

LEMMA ElsewhereSending ==
  ASSUME Shape, Sending, Elsewhere
  PROVE  Sending' /\ stream'.wire = stream.wire
<1>1. /\ UNCHANGED <<chunk, size, sent>> /\ q'.mbuf = q.mbuf
      /\ rpc' = rpc \/ rpc' = "woken"
      /\ stream' = stream \/ Joined
  BY ElsewhereEffect DEF SameChain
<1>2. CASE stream' = stream
  BY <1>1, <1>2 DEF Sending
<1>3. CASE Joined
  <2>1. rpc = "done" /\ stream' \in {stream, [stream EXCEPT !.socket = FALSE]}
    BY <1>3 DEF Joined
  <2>2. StreamOK(stream') /\ stream'.wire = stream.wire
    BY <2>1 DEF Sending, StreamOK
  <2>. QED
    BY <1>1, <2>1, <2>2 DEF Sending
<1>. QED
  BY <1>1, <1>2, <1>3

LEMMA SendingKept ==
  ASSUME Shape, Messages, Sending, [Next]_vars
  PROVE  Sending' /\ Grows(stream.wire, stream'.wire)
<1>1. Grows(stream.wire, stream.wire)
  BY GrowsSame DEF Sending, StreamOK
<1>2. CASE Elsewhere
  BY <1>1, <1>2, ElsewhereSending
<1>3. CASE \E w \in Writers : RowStart(w) \/ RowCols(w) \/ RowEnd(w)
  BY <1>1, <1>3, RowSending
<1>4. CASE ReaderStep \/ SpuriousWakeup \/ TimePasses
  BY <1>4, ReaderSending
<1>. QED
  BY <1>2, <1>3, <1>4, StepsSplit

-----------------------------------------------------------------------------
(* Nothing vanishes.                                                       *)

\* Message m is on connection w from position i.
At(w, i, m) == w[i] = Unit(m, 1) /\ w[i + 1] = Unit(m, 2) /\ w[i + 2] = Unit(m, 3)

LEMMA SentAt ==
  ASSUME Sending, NEW m
  PROVE  m \in SentMessages <=>
           /\ m \in 1 .. MaxMsgs
           /\ \E c \in 1 .. Len(stream.wire) : \E i \in 1 .. (Len(stream.wire[c]) - 2) :
                At(stream.wire[c], i, m)
<1>1. ASSUME NEW c \in 1 .. Len(stream.wire), NEW i \in 1 .. (Len(stream.wire[c]) - 2)
      PROVE  (\A p \in 1 .. LastPart : stream.wire[c][i + p - 1] = Unit(m, p))
               <=> At(stream.wire[c], i, m)
  <2>1. stream.wire[c] \in Seq(Units)
    BY DEF Sending, StreamOK
  <2>2. Len(stream.wire[c]) \in Nat
    BY <2>1
  <2>3. i + 1 - 1 = i /\ i + 2 - 1 = i + 1 /\ i + 3 - 1 = i + 2
    BY <2>2
  <2>4. \A p \in 1 .. 3 : p = 1 \/ p = 2 \/ p = 3
    OBVIOUS
  <2>. QED
    BY <2>3, <2>4 DEF At, LastPart
<1>. QED
  BY <1>1 DEF SentMessages

\* What was sent stays sent.
LEMMA SentStays ==
  ASSUME Sending, Sending', Grows(stream.wire, stream'.wire)
  PROVE  SentMessages \subseteq SentMessages'
<1>. SUFFICES ASSUME NEW m, m \in SentMessages PROVE m \in SentMessages'
  OBVIOUS
<1>. DEFINE a == stream.wire
            z == stream'.wire
<1>1. m \in 1 .. MaxMsgs /\ a \in Seq(Seq(Units)) /\ z \in Seq(Seq(Units))
  BY SentAt DEF Sending, StreamOK
<1>2. PICK c \in 1 .. Len(a) : \E i \in 1 .. (Len(a[c]) - 2) : At(a[c], i, m)
  BY SentAt
<1>3. PICK i \in 1 .. (Len(a[c]) - 2) : At(a[c], i, m)
  BY <1>2
<1>4. Len(a) <= Len(z) /\ Len(a[c]) <= Len(z[c])
      /\ \A j \in 1 .. Len(a[c]) : z[c][j] = a[c][j]
  BY <1>2 DEF Grows
<1>5. c \in 1 .. Len(z) /\ Len(a[c]) \in Nat /\ Len(z[c]) \in Nat
  <2>1. c \in 1 .. Len(z)
    BY <1>1, <1>2, <1>4
  <2>. HIDE DEF a, z
  <2>. QED
    BY <1>1, <1>2, <2>1
<1>. HIDE DEF a, z
<1>6. i \in 1 .. (Len(z[c]) - 2) /\ i \in 1 .. Len(a[c])
      /\ i + 1 \in 1 .. Len(a[c]) /\ i + 2 \in 1 .. Len(a[c])
  BY <1>3, <1>4, <1>5
<1>7. At(z[c], i, m)
  BY <1>3, <1>4, <1>6 DEF At
<1>8. \E e \in 1 .. Len(z) : \E j \in 1 .. (Len(z[e]) - 2) : At(z[e], j, m)
  BY <1>5, <1>6, <1>7
<1>9. m \in SentMessages' <=>
        /\ m \in 1 .. MaxMsgs
        /\ \E e \in 1 .. Len(z) : \E j \in 1 .. (Len(z[e]) - 2) : At(z[e], j, m)
  <2>1. ASSUME NEW e \in 1 .. Len(z), NEW j \in 1 .. (Len(z[e]) - 2)
        PROVE  (\A p \in 1 .. LastPart : z[e][j + p - 1] = Unit(m, p)) <=> At(z[e], j, m)
    <3>1. Len(z[e]) \in Nat
      BY <1>1
    <3>2. j + 1 - 1 = j /\ j + 2 - 1 = j + 1 /\ j + 3 - 1 = j + 2
      BY <3>1
    <3>3. \A p \in 1 .. 3 : p = 1 \/ p = 2 \/ p = 3
      OBVIOUS
    <3>. QED
      BY <3>2, <3>3 DEF At, LastPart
  <2>. QED
    BY <2>1 DEF SentMessages, z
<1>. QED
  BY <1>1, <1>8, <1>9

LEMMA ThreeWays ==
  ASSUME NEW k \in Nat, k > 0
  PROVE  \E j \in Nat : k = 3 * j + 1 \/ k = 3 * j + 2 \/ k = 3 * j + 3
<1>. DEFINE j == (k - 1) \div 3
<1>1. j \in Nat /\ k - 1 = 3 * j + ((k - 1) % 3) /\ (k - 1) % 3 \in 0 .. 2
  OBVIOUS
<1>. HIDE DEF j
<1>2. k = 3 * j + 1 \/ k = 3 * j + 2 \/ k = 3 * j + 3
  BY <1>1
<1>. QED
  BY <1>1, <1>2

LEMMA PendingUnits ==
  ASSUME NEW b, BufferOK(b)
  PROVE  /\ Pending(b) \in Seq(Units) /\ Len(Pending(b)) = b.msg - b.rd
         /\ \A i \in 1 .. (b.msg - b.rd) : Pending(b)[i] = b.data[b.rd + i]
<1>. DEFINE n == b.msg - b.rd
<1>1. n \in Nat /\ b.rd + n = b.msg /\ b.rd \in Nat /\ b.data \in Seq(Units)
      /\ b.rd + n <= Len(b.data)
  BY DEF BufferOK, Wr
<1>2. /\ SubSeq(b.data, b.rd + 1, b.rd + n) \in Seq(Units)
      /\ Len(SubSeq(b.data, b.rd + 1, b.rd + n)) = n
      /\ \A i \in 1 .. n : SubSeq(b.data, b.rd + 1, b.rd + n)[i] = b.data[b.rd + i]
  <2>. HIDE DEF n
  <2>. QED
    BY <1>1, SubSeqOf
<1>. QED
  BY <1>1, <1>2 DEF Pending

\* Where a message of a chunk is: between those before and after it.
LEMMA MessagePlace ==
  ASSUME NEW b, BufferOK(b), NEW n \in Nat, FramedBuf(b, n), NEW m \in MessagesIn(Pending(b))
  PROVE  /\ m \in 1 .. n
         /\ \E j \in Nat : b.rd <= 3 * j /\ 3 * j + 3 <= b.msg /\ At(b.data, 3 * j + 1, m)
<1>1. PICK r \in Nat, e \in Nat : b.rd = 3 * r /\ b.msg = 3 * e /\ Framed(b.data, e, n)
  BY DEF FramedBuf
<1>2. PICK i \in 1 .. Len(Pending(b)) : m = Pending(b)[i].body[1]
  BY DEF MessagesIn
<1>3. i \in 1 .. (b.msg - b.rd) /\ m = b.data[b.rd + i].body[1]
  BY <1>2, PendingUnits
<1>4. PICK j \in Nat : i + 3 * r = 3 * j + 1 \/ i + 3 * r = 3 * j + 2 \/ i + 3 * r = 3 * j + 3
  <2>1. i + 3 * r \in Nat /\ i + 3 * r > 0
    BY <1>1, <1>3
  <2>. QED
    BY <2>1, ThreeWays
<1>5. j < e /\ j >= r /\ b.rd <= 3 * j /\ 3 * j + 3 <= b.msg
  BY <1>1, <1>3, <1>4
<1>6. PICK l \in 1 .. n : /\ b.data[3 * j + 1] = Unit(l, 1)
                          /\ b.data[3 * j + 2] = Unit(l, 2)
                          /\ b.data[3 * j + 3] = Unit(l, 3)
  BY <1>1, <1>5 DEF Framed
<1>7. m = l
  <2>1. b.rd + i = 3 * j + 1 \/ b.rd + i = 3 * j + 2 \/ b.rd + i = 3 * j + 3
    BY <1>1, <1>3, <1>4
  <2>2. \A p \in {1, 2, 3} : Unit(l, p).body[1] = l
    BY DEF Unit
  <2>. QED
    BY <1>3, <1>6, <2>1, <2>2
<1>8. 3 * j + 1 + 1 = 3 * j + 2 /\ 3 * j + 1 + 2 = 3 * j + 3
  OBVIOUS
<1>9. At(b.data, 3 * j + 1, m)
  BY <1>6, <1>7, <1>8 DEF At
<1>. QED
  BY <1>4, <1>5, <1>6, <1>7, <1>9

\* A message of a chunk is there as a whole.
LEMMA WholeInPending ==
  ASSUME NEW b, BufferOK(b), NEW n \in Nat, FramedBuf(b, n), NEW m \in MessagesIn(Pending(b))
  PROVE  m \in 1 .. n /\ \E i \in 1 .. (b.msg - b.rd - 2) : At(b.data, b.rd + i, m)
<1>0. b.rd \in Nat /\ b.msg \in Nat
  BY DEF BufferOK
<1>1. PICK j \in Nat : b.rd <= 3 * j /\ 3 * j + 3 <= b.msg /\ At(b.data, 3 * j + 1, m)
  BY MessagePlace
<1>. DEFINE k == 3 * j + 1 - b.rd
<1>2. k \in 1 .. (b.msg - b.rd - 2) /\ b.rd + k = 3 * j + 1
  BY <1>0, <1>1
<1>. HIDE DEF k
<1>. QED
  BY <1>1, <1>2, MessagePlace

\* The units of a message announce it.
LEMMA UnitAnnounces ==
  ASSUME NEW b, BufferOK(b), NEW i \in 1 .. (b.msg - b.rd), NEW m, NEW p \in {1, 2, 3},
         b.data[b.rd + i] = Unit(m, p)
  PROVE  m \in MessagesIn(Pending(b))
<1>1. i \in 1 .. Len(Pending(b)) /\ Pending(b)[i] = Unit(m, p)
  BY PendingUnits
<1>2. ~IsHeader(Unit(m, p)) /\ Unit(m, p).body[1] = m
  BY DEF IsHeader, Unit
<1>. QED
  BY <1>1, <1>2 DEF MessagesIn

\* A message that is committed joins those of its chunk.
LEMMA CommitJoins ==
  ASSUME NEW b, BufferOK(b), NEW n \in Nat, FramedBuf(b, n), NEW x, BufferOK(x),
         x.rd = b.rd, x.msg = b.msg + 3, \A i \in 1 .. b.msg : x.data[i] = b.data[i],
         NEW m, x.data[b.msg + 1] = Unit(m, 1)
  PROVE  MessagesIn(Pending(b)) \cup {m} \subseteq MessagesIn(Pending(x))
<1>0. b.rd \in Nat /\ b.msg \in Nat /\ b.rd <= b.msg
  BY DEF BufferOK
<1>1. m \in MessagesIn(Pending(x))
  <2>. DEFINE k == b.msg + 1 - b.rd
  <2>1. k \in 1 .. (x.msg - x.rd) /\ x.rd + k = b.msg + 1
    BY <1>0
  <2>. HIDE DEF k
  <2>2. x.data[x.rd + k] = Unit(m, 1)
    BY <2>1
  <2>. QED
    BY <2>1, <2>2, UnitAnnounces
<1>2. ASSUME NEW l \in MessagesIn(Pending(b)) PROVE l \in MessagesIn(Pending(x))
  <2>1. PICK i \in 1 .. (b.msg - b.rd - 2) : At(b.data, b.rd + i, l)
    BY WholeInPending
  <2>2. i \in 1 .. (x.msg - x.rd) /\ x.rd + i \in 1 .. b.msg
    BY <1>0, <2>1
  <2>3. x.data[x.rd + i] = Unit(l, 1)
    BY <2>1, <2>2 DEF At
  <2>. QED
    BY <2>2, <2>3, UnitAnnounces
<1>. QED
  BY <1>1, <1>2

\* A message stays where it is when something is put before it.
LEMMA TailHolds ==
  ASSUME NEW w \in Seq(Units), NEW p \in Seq(Units), NEW m,
         NEW i \in 1 .. (Len(p) - 2), At(p, i, m)
  PROVE  \E k \in 1 .. (Len(w \o p) - 2) : At(w \o p, k, m)
<1>. DEFINE z == w \o p
            l == Len(w)
            n == Len(p)
<1>1. l \in Nat /\ n \in Nat /\ Len(z) = l + n
  OBVIOUS
<1>2. \A j \in 1 .. n : z[l + j] = p[j]
  <2>. SUFFICES ASSUME NEW j \in 1 .. n PROVE z[l + j] = p[j]
    OBVIOUS
  <2>1. l + j \in 1 .. (Len(w) + Len(p)) /\ ~(l + j <= Len(w)) /\ l + j - Len(w) = j
    BY <1>1
  <2>. QED
    BY <2>1, ConcatProperties
<1>. HIDE DEF z, l, n
<1>3. i \in 1 .. (n - 2)
  BY DEF n
<1>4. i \in 1 .. n /\ i + 1 \in 1 .. n /\ i + 2 \in 1 .. n /\ l + i \in 1 .. (Len(z) - 2)
      /\ l + i + 1 = l + (i + 1) /\ l + i + 2 = l + (i + 2)
  BY <1>1, <1>3
<1>5. At(z, l + i, m)
  BY <1>2, <1>4 DEF At
<1>. QED
  BY <1>4, <1>5 DEF z

\* What processChunk() skips was accepted in full.
LEMMA SkippedWasSent ==
  ASSUME Shape, Messages, Sending, ProcessDone
  PROVE  MessagesIn(Pending(q.mbuf[chunk])) \subseteq SentMessages
<1>. DEFINE b == q.mbuf[chunk]
<1>1. rpc = "send" /\ chunk \in ChunkIds /\ BufferOK(b) /\ sent = b.msg - b.rd
  BY ProcessDoneEffect
<1>2. FramedBuf(b, msgs) /\ msgs \in Nat /\ msgs <= MaxMsgs
  BY <1>1, BWAssumption DEF Messages
<1>. SUFFICES ASSUME NEW m \in MessagesIn(Pending(b)) PROVE m \in SentMessages
  OBVIOUS
<1>3. sent > 0 => EndsWith(stream, SubSeq(b.data, b.rd + 1, b.rd + sent))
  BY <1>1 DEF Sending
<1>. HIDE DEF b
<1>4. m \in 1 .. msgs /\ \E i \in 1 .. (b.msg - b.rd - 2) : At(b.data, b.rd + i, m)
  BY <1>1, <1>2, WholeInPending
<1>5. PICK i \in 1 .. (b.msg - b.rd - 2) : At(b.data, b.rd + i, m)
  BY <1>4
<1>6. b.rd \in Nat /\ b.msg \in Nat /\ sent \in Nat /\ sent > 0 /\ b.rd + sent = b.msg
  BY <1>1, <1>5 DEF BufferOK
<1>. DEFINE p == Pending(b)
            n == Len(stream.wire)
<1>7. PICK w \in Seq(Units) : stream.wire[n] = w \o p
  BY <1>3, <1>6 DEF EndsWith, Pending
<1>8. /\ p \in Seq(Units) /\ Len(p) = b.msg - b.rd
      /\ \A j \in 1 .. (b.msg - b.rd) : p[j] = b.data[b.rd + j]
  BY <1>1, PendingUnits
<1>9. n \in Nat /\ n \in 1 .. n
  BY <1>1, <1>6 DEF Sending, StreamOK, Connected
<1>. HIDE DEF p, n
<1>10. i \in 1 .. (Len(p) - 2) /\ At(p, i, m)
  <2>1. /\ i \in 1 .. (b.msg - b.rd) /\ i + 1 \in 1 .. (b.msg - b.rd)
        /\ i + 2 \in 1 .. (b.msg - b.rd)
        /\ b.rd + i + 1 = b.rd + (i + 1) /\ b.rd + i + 2 = b.rd + (i + 2)
    BY <1>5, <1>6
  <2>. QED
    BY <1>5, <1>8, <2>1 DEF At
<1>11. \E k \in 1 .. (Len(w \o p) - 2) : At(w \o p, k, m)
  BY <1>8, <1>10, TailHolds
<1>12. \E c \in 1 .. Len(stream.wire) : \E j \in 1 .. (Len(stream.wire[c]) - 2) :
         At(stream.wire[c], j, m)
  BY <1>7, <1>9, <1>11 DEF n
<1>13. m \in 1 .. MaxMsgs
  BY <1>2, <1>4, BWAssumption
<1>. QED
  BY <1>12, <1>13, SentAt

\* The chunks hold what they held, but for messages that go elsewhere.
LEMMA StillQueued ==
  ASSUME NEW gone,
         \A c \in ChunkIds : MessagesIn(Pending(q.mbuf[c])) \subseteq
                               MessagesIn(Pending(q'.mbuf[c])) \cup gone
  PROVE  QueuedMessages \subseteq QueuedMessages' \cup gone
<1>. SUFFICES ASSUME NEW m, m \in QueuedMessages, m \notin gone PROVE m \in QueuedMessages'
  OBVIOUS
<1>1. PICK c \in ChunkIds : m \in MessagesIn(Pending(q.mbuf[c]))
  BY DEF QueuedMessages
<1>2. m \in MessagesIn(Pending(q'.mbuf[c]))
  BY <1>1
<1>. QED
  BY <1>2 DEF QueuedMessages, ChunkIds

LEMMA InitVanish == Init => NothingVanishes
<1>. SUFFICES ASSUME Init PROVE NothingVanishes
  OBVIOUS
<1>1. completed = <<>>
  BY DEF Init
<1>2. Completed = {}
  BY <1>1 DEF Completed
<1>. QED
  BY <1>2 DEF NothingVanishes

\* What a step does to the messages that are queued.
LEMMA QueuedKept ==
  ASSUME Shape, Messages, Sending, [Next]_vars
  PROVE  /\ QueuedMessages \subseteq QueuedMessages' \cup dropped' \cup SentMessages
         /\ dropped \subseteq dropped'
         /\ \/ completed' = completed
            \/ \E m \in QueuedMessages' : completed' = Append(completed, m)
<1>1. CASE \E w \in Writers : RowStart(w)
  <2>1. PICK w \in Writers : RowStart(w)
    BY <1>1
  <2>2. dropped' = dropped \cup LostBy(q) /\ completed' = completed
    BY <2>1 DEF RowStart
  <2>3. \A c \in ChunkIds : MessagesIn(Pending(q.mbuf[c])) \subseteq
                              MessagesIn(Pending(q'.mbuf[c])) \cup LostBy(q)
    BY <2>1, RowStartPending
  <2>4. QueuedMessages \subseteq QueuedMessages' \cup LostBy(q)
    BY <2>3, StillQueued
  <2>. QED
    BY <2>2, <2>4
<1>2. CASE \E w \in Writers : RowCols(w)
  <2>1. PICK w \in Writers : RowCols(w)
    BY <1>2
  <2>2. dropped' = dropped /\ completed' = completed
    BY <2>1 DEF RowCols, historyVars
  <2>3. \A c \in ChunkIds : MessagesIn(Pending(q.mbuf[c])) \subseteq
                              MessagesIn(Pending(q'.mbuf[c])) \cup {}
    BY <2>1, RowColsPending
  <2>4. QueuedMessages \subseteq QueuedMessages' \cup {}
    BY <2>3, StillQueued
  <2>. QED
    BY <2>2, <2>4
<1>3. CASE \E w \in Writers : RowEnd(w)
  <2>1. PICK w \in Writers : RowEnd(w)
    BY <1>3
  <2>. DEFINE b == q.mbuf[wbuf]
              m == wmsg[w]
  <2>2. dropped' = dropped
    BY <2>1 DEF RowEnd
  <2>3. /\ wbuf \in ChunkIds /\ BufferOK(b) /\ m \in 1 .. msgs /\ Unit(m, 3) \in Units
        /\ Partial(b, m, "end")
        /\ \A d \in ChunkIds : d # wbuf => q'.mbuf[d] = q.mbuf[d]
        /\ \/ /\ q'.mbuf[wbuf] = BeginWrite(Extend(b, Unit(m, 3)))
              /\ completed' = Append(completed, m)
           \/ /\ q'.mbuf[wbuf] = ResetWrite(b)
              /\ completed' = completed
    BY <2>1, RowEndEffect
  <2>4. FramedBuf(b, msgs) /\ msgs \in Nat
    BY <2>3, BWAssumption DEF Messages
  <2>. HIDE DEF b, m
  <2>5. CASE /\ q'.mbuf[wbuf] = BeginWrite(Extend(b, Unit(m, 3)))
             /\ completed' = Append(completed, m)
    <3>. DEFINE x == BeginWrite(Extend(b, Unit(m, 3)))
    <3>1. /\ BufferOK(x) /\ x.msg = b.msg + 3 /\ x.rd = b.rd
          /\ \A i \in 1 .. b.msg : x.data[i] = b.data[i]
          /\ x.data[b.msg + 1] = Unit(m, 1)
      BY <2>3, <2>4, FramedCommit
    <3>. HIDE DEF x
    <3>2. MessagesIn(Pending(b)) \cup {m} \subseteq MessagesIn(Pending(x))
      BY ONLY <2>3, <2>4, <3>1, CommitJoins
    <3>3. q'.mbuf[wbuf] = x
      BY <2>5 DEF x
    <3>4. \A c \in ChunkIds : MessagesIn(Pending(q.mbuf[c])) \subseteq
                                MessagesIn(Pending(q'.mbuf[c])) \cup {}
      <4>. SUFFICES ASSUME NEW c \in ChunkIds
                    PROVE  MessagesIn(Pending(q.mbuf[c])) \subseteq
                             MessagesIn(Pending(q'.mbuf[c]))
        OBVIOUS
      <4>1. CASE c = wbuf
        BY <3>2, <3>3, <4>1 DEF b
      <4>2. CASE c # wbuf
        BY <2>3, <4>2
      <4>. QED
        BY <4>1, <4>2
    <3>5. QueuedMessages \subseteq QueuedMessages' \cup {}
      BY <3>4, StillQueued
    <3>6. m \in QueuedMessages'
      <4>1. m \in MessagesIn(Pending(q'.mbuf[wbuf]))
        BY <3>2, <3>3
      <4>. QED
        BY <2>3, <4>1 DEF QueuedMessages, ChunkIds
    <3>. QED
      BY <2>2, <2>5, <3>5, <3>6
  <2>6. CASE q'.mbuf[wbuf] = ResetWrite(b) /\ completed' = completed
    <3>1. Pending(q'.mbuf[wbuf]) = Pending(b)
      BY <2>3, <2>6, ResetKeeps
    <3>2. \A c \in ChunkIds : MessagesIn(Pending(q.mbuf[c])) \subseteq
                                MessagesIn(Pending(q'.mbuf[c])) \cup {}
      <4>. SUFFICES ASSUME NEW c \in ChunkIds
                    PROVE  MessagesIn(Pending(q.mbuf[c])) \subseteq
                             MessagesIn(Pending(q'.mbuf[c]))
        OBVIOUS
      <4>1. CASE c = wbuf
        BY <3>1, <4>1 DEF b
      <4>2. CASE c # wbuf
        BY <2>3, <4>2
      <4>. QED
        BY <4>1, <4>2
    <3>3. QueuedMessages \subseteq QueuedMessages' \cup {}
      BY <3>2, StillQueued
    <3>. QED
      BY <2>2, <2>6, <3>3
  <2>. QED
    BY <2>3, <2>5, <2>6
<1>4. CASE ReaderStep \/ SpuriousWakeup \/ TimePasses
  <2>1. /\ dropped' = dropped /\ completed' = completed
        /\ SameChain(q, q') \/ q' = q \/ ProcessDone
    BY <1>4, ReaderEffect
  <2>2. CASE SameChain(q, q') \/ q' = q
    <3>1. q'.mbuf = q.mbuf
      BY <2>2 DEF SameChain
    <3>. QED
      BY <2>1, <3>1 DEF QueuedMessages, ChunkIds
  <2>3. CASE ProcessDone
    <3>1. chunk \in ChunkIds /\ \A d \in ChunkIds : d # chunk => q'.mbuf[d] = q.mbuf[d]
      BY <2>3, ProcessDoneEffect
    <3>2. MessagesIn(Pending(q.mbuf[chunk])) \subseteq SentMessages
      BY <2>3, SkippedWasSent
    <3>3. \A c \in ChunkIds : MessagesIn(Pending(q.mbuf[c])) \subseteq
                                MessagesIn(Pending(q'.mbuf[c])) \cup SentMessages
      <4>. SUFFICES ASSUME NEW c \in ChunkIds
                    PROVE  MessagesIn(Pending(q.mbuf[c])) \subseteq
                             MessagesIn(Pending(q'.mbuf[c])) \cup SentMessages
        OBVIOUS
      <4>1. CASE c = chunk
        BY <3>2, <4>1
      <4>2. CASE c # chunk
        BY <3>1, <4>2
      <4>. QED
        BY <4>1, <4>2
    <3>4. QueuedMessages \subseteq QueuedMessages' \cup SentMessages
      BY <3>3, StillQueued
    <3>. QED
      BY <2>1, <3>4
  <2>. QED
    BY <2>1, <2>2, <2>3
<1>5. CASE Elsewhere
  <2>1. /\ dropped' = dropped /\ completed' = completed
        /\ q' = q \/ SameChain(q, q')
    BY <1>5, ElsewhereEffect
  <2>2. q'.mbuf = q.mbuf
    BY <2>1 DEF SameChain
  <2>. QED
    BY <2>1, <2>2 DEF QueuedMessages, ChunkIds
<1>. QED
  BY <1>1, <1>2, <1>3, <1>4, <1>5, StepsSplit

LEMMA VanishKept ==
  ASSUME Shape, Messages, Sending, NothingVanishes, [Next]_vars
  PROVE  NothingVanishes'
<1>1. SentMessages \subseteq SentMessages'
  BY SendingKept, SentStays
<1>2. Completed \subseteq QueuedMessages' \cup SentMessages' \cup dropped'
  BY <1>1, QueuedKept DEF NothingVanishes
<1>3. \/ completed' = completed
      \/ \E m \in QueuedMessages' : completed' = Append(completed, m)
  BY QueuedKept
<1>4. Completed' \subseteq Completed \cup QueuedMessages'
  <2>1. CASE completed' = completed
    BY <2>1 DEF Completed
  <2>2. ASSUME NEW m \in QueuedMessages', completed' = Append(completed, m)
        PROVE  Completed' \subseteq Completed \cup {m}
    <3>1. completed \in Seq(Nat) /\ Len(completed) \in Nat
      BY DEF Messages
    <3>2. /\ Len(completed') = Len(completed) + 1
          /\ completed'[Len(completed) + 1] = m
          /\ \A i \in 1 .. Len(completed) : completed'[i] = completed[i]
      BY <2>2, <3>1
    <3>. SUFFICES ASSUME NEW i \in 1 .. Len(completed')
                  PROVE  completed'[i] \in Completed \cup {m}
      BY DEF Completed
    <3>3. i = Len(completed) + 1 \/ i \in 1 .. Len(completed)
      BY <3>1, <3>2
    <3>. QED
      BY <3>2, <3>3 DEF Completed
  <2>. QED
    BY <1>3, <2>1, <2>2
<1>. QED
  BY <1>2, <1>4 DEF NothingVanishes

-----------------------------------------------------------------------------
(* The theorems.                                                           *)

LEMMA QueueInvHolds == Spec => []QueueInv
<1>1. Init => QueueInv
  BY InitShape, InitMessages, InitSending, InitVanish DEF QueueInv
<1>2. QueueInv /\ [Next]_vars => QueueInv'
  BY ShapeKept, MessagesKept, SendingKept, VanishKept DEF QueueInv
<1>. QED
  BY <1>1, <1>2, PTL DEF Spec

\* A committed message is never silently lost, whatever the stream, the memory
\* allocation and the threads do: it waits in a chunk of buffered_writer.c, or
\* the kernel has accepted it in full, or it went with a recycled chunk.
THEOREM NothingIsLost == Spec => []NothingVanishes
<1>1. QueueInv => NothingVanishes
  BY DEF QueueInv
<1>. QED
  BY <1>1, QueueInvHolds, PTL

\* A thread that holds the mutex leaves every committed message where it is,
\* except when getNextWriteChunk() recycles the next chunk of a full chain.
THEOREM CommittedIsLeftAlone == Spec => WritersKeepCommitted
<1>. DEFINE A == \A c \in ChunkIds :
                   (lock' \in Writers /\ Pending(q'.mbuf[c]) # Pending(q.mbuf[c]))
                      => c = q.next[q.writer] /\ ChainFull(q)
<1>1. QueueInv /\ [Next]_vars => [A]_vars
  <2>. SUFFICES ASSUME QueueInv, [Next]_vars, lock' \in Writers, NEW c \in ChunkIds,
                       Pending(q'.mbuf[c]) # Pending(q.mbuf[c])
                PROVE  c = q.next[q.writer] /\ ChainFull(q)
    OBVIOUS
  <2>. USE DEF QueueInv
  <2>1. CASE \E w \in Writers : RowStart(w)
    BY <2>1, RowStartPending
  <2>2. CASE \E w \in Writers : RowCols(w)
    BY <2>2, RowColsPending
  <2>3. CASE \E w \in Writers : RowEnd(w)
    BY <2>3, BWAssumption DEF RowEnd, bw_unlock_buf
  <2>4. CASE ReaderStep \/ SpuriousWakeup \/ TimePasses
    <3>1. SameChain(q, q') \/ q' = q \/ ProcessDone
      BY <2>4, ReaderEffect
    <3>2. CASE ProcessDone
      BY <3>2, ProcessDoneEffect
    <3>. QED
      BY <3>1, <3>2 DEF SameChain
  <2>5. CASE Elsewhere
    BY <2>5, ElsewhereEffect DEF SameChain
  <2>. QED
    BY <2>1, <2>2, <2>3, <2>4, <2>5, StepsSplit
<1>. QED
  BY <1>1, QueueInvHolds, PTL DEF Spec, WritersKeepCommitted

-----------------------------------------------------------------------------
(* Losses are reported.                                                    *)

\* A chunk holds no more messages than it has room for.
LEMMA FewMessages ==
  ASSUME NEW b, BufferOK(b), NEW n \in Nat, FramedBuf(b, n), NEW l \in Nat, b.msg <= 3 * l
  PROVE  /\ IsFiniteSet(MessagesIn(Pending(b)))
         /\ Cardinality(MessagesIn(Pending(b))) \in Nat
         /\ Cardinality(MessagesIn(Pending(b))) <= l
<1>. DEFINE S == MessagesIn(Pending(b))
            f == [j \in 1 .. l |-> b.data[3 * (j - 1) + 1].body[1]]
            T == { f[j] : j \in 1 .. l }
<1>1. S \subseteq T
  <2>. SUFFICES ASSUME NEW m \in S PROVE m \in T
    OBVIOUS
  <2>1. PICK j \in Nat : b.rd <= 3 * j /\ 3 * j + 3 <= b.msg /\ At(b.data, 3 * j + 1, m)
    BY MessagePlace
  <2>2. b.msg \in Nat
    BY DEF BufferOK
  <2>3. j + 1 \in 1 .. l /\ j + 1 - 1 = j
    BY <2>1, <2>2
  <2>4. f[j + 1] = b.data[3 * j + 1].body[1]
    BY <2>3
  <2>5. b.data[3 * j + 1].body[1] = m
    BY <2>1 DEF At, Unit
  <2>. QED
    BY <2>3, <2>4, <2>5
<1>. HIDE DEF S
<1>2. f \in Surjection(1 .. l, T)
  BY DEF Surjection
<1>. HIDE DEF f, T
<1>3. IsFiniteSet(1 .. l) /\ Cardinality(1 .. l) = l
  <2>1. /\ IsFiniteSet(1 .. l)
        /\ Cardinality(1 .. l) = IF 1 > l THEN 0 ELSE l - 1 + 1
    BY FS_Interval
  <2>. QED
    BY <2>1
<1>4. IsFiniteSet(T) /\ Cardinality(T) <= l
  BY <1>2, <1>3, FS_Surjection
<1>5. IsFiniteSet(S) /\ Cardinality(S) <= Cardinality(T)
  BY <1>1, <1>4, FS_Subset
<1>6. Cardinality(S) \in Nat /\ Cardinality(T) \in Nat
  BY <1>4, <1>5, FS_CardinalityType
<1>. QED
  BY <1>4, <1>5, <1>6 DEF S

\* A chunk counts at least the messages that it holds.
Counted(k) == \A c \in ChunkIds : k.mbuf[c].msg <= 3 * k.nmessages[c]

\* What RowStart() does to the counts.
LEMMA RowStartCounts ==
  ASSUME Shape, Messages, Counted(q), NEW w \in Writers, RowStart(w)
  PROVE  /\ Counted(q') /\ q'.nlost \in Nat
         /\ IsFiniteSet(LostBy(q)) /\ Cardinality(LostBy(q)) \in Nat
         /\ q.nlost + Cardinality(LostBy(q)) <= q'.nlost
<1>. DEFINE k == WriteChunk(q)
            b == k.mbuf[k.writer]
            u == Unit(msgs + 1, 1)
<1>1. /\ ChainOK(k)
      /\ \/ q' = [k EXCEPT !.mbuf[k.writer] = Extend(b, u)]
         \/ q' = [k EXCEPT !.mbuf[k.writer] = ResetWrite(b)]
      /\ BufferOK(b) /\ k.writer \in Allocated(k) /\ k.writer \in ChunkIds
      /\ u \in Units
  BY RowStartEffect
<1>2. ChainOK(q) /\ \A d \in ChunkIds : Closed(q, d)
  BY FreeMeansClosed, BWAssumption DEF Shape, RowStart
<1>3. \/ k = q /\ LostBy(q) = {}
      \/ \E d \in ChunkIds :
           /\ Moves(q, k, d)
           /\ \/ k.nlost = q.nlost /\ LostBy(q) = {}
              \/ /\ k.nlost = q.nlost + q.nmessages[d]
                 /\ LostBy(q) = MessagesIn(Pending(q.mbuf[d]))
  BY <1>2, WriteChunkMoves
<1>. HIDE DEF k, u
<1>4. /\ q'.nmessages = k.nmessages /\ q'.nlost = k.nlost /\ q'.nlost \in Nat
      /\ \A c \in ChunkIds : q'.mbuf[c].msg = k.mbuf[c].msg
  <2>. DEFINE y == Extend(b, u)
              z == ResetWrite(b)
  <2>1. BufferOK(y) /\ BufferOK(z) /\ y.msg = b.msg /\ z.msg = b.msg
    BY <1>1, ExtendKeeps, ResetKeeps
  <2>2. q' = [k EXCEPT !.mbuf[k.writer] = y] \/ q' = [k EXCEPT !.mbuf[k.writer] = z]
    BY <1>1
  <2>. HIDE DEF y, z
  <2>3. /\ q'.nmessages = k.nmessages /\ q'.nlost = k.nlost /\ ChainOK(q')
        /\ Stores(k, q', k.writer, y) \/ Stores(k, q', k.writer, z)
    BY <1>1, <2>1, <2>2, PutBuffer
  <2>4. \A c \in ChunkIds : q'.mbuf[c].msg = k.mbuf[c].msg
    BY <2>1, <2>3 DEF Stores
  <2>. QED
    BY <2>3, <2>4 DEF ChainOK
<1>5. q.nlost \in Nat
  BY <1>2 DEF ChainOK
<1>6. IsFiniteSet({}) /\ Cardinality({}) = 0
  BY FS_EmptySet
<1>7. CASE k = q /\ LostBy(q) = {}
  BY <1>4, <1>5, <1>6, <1>7 DEF Counted
<1>8. ASSUME NEW d \in ChunkIds, Moves(q, k, d)
      PROVE  Counted(q')
  <2>. SUFFICES ASSUME NEW c \in ChunkIds PROVE k.mbuf[c].msg <= 3 * k.nmessages[c]
    BY <1>4 DEF Counted
  <2>1. CASE c = d
    BY <1>8, <2>1, EmptyIsOK DEF Moves
  <2>2. CASE c # d
    BY <1>8, <2>2 DEF Moves, Counted
  <2>. QED
    BY <2>1, <2>2
<1>9. ASSUME NEW d \in ChunkIds, k.nlost = q.nlost + q.nmessages[d],
             LostBy(q) = MessagesIn(Pending(q.mbuf[d]))
      PROVE  /\ IsFiniteSet(LostBy(q)) /\ Cardinality(LostBy(q)) \in Nat
             /\ q.nlost + Cardinality(LostBy(q)) <= q'.nlost
  <2>1. BufferOK(q.mbuf[d]) /\ q.nmessages[d] \in Nat /\ q.mbuf[d].msg <= 3 * q.nmessages[d]
    BY <1>2 DEF ChainOK, Counted
  <2>2. FramedBuf(q.mbuf[d], msgs) /\ msgs \in Nat
    BY BWAssumption DEF Messages
  <2>3. /\ IsFiniteSet(LostBy(q)) /\ Cardinality(LostBy(q)) \in Nat
        /\ Cardinality(LostBy(q)) <= q.nmessages[d]
    BY <1>9, <2>1, <2>2, FewMessages
  <2>. QED
    BY <1>4, <1>5, <1>9, <2>1, <2>3
<1>10. ASSUME LostBy(q) = {}, k.nlost = q.nlost
       PROVE  /\ IsFiniteSet(LostBy(q)) /\ Cardinality(LostBy(q)) \in Nat
              /\ q.nlost + Cardinality(LostBy(q)) <= q'.nlost
  BY <1>4, <1>5, <1>6, <1>10
<1>. QED
  BY <1>3, <1>4, <1>7, <1>8, <1>9, <1>10

LEMMA OneIsAlone ==
  ASSUME Cardinality(Writers) = 1, NEW x \in Writers, NEW w \in Writers
  PROVE  x = w
<1>1. PICK y : Writers = {y}
  BY BWAssumption, FS_Singleton
<1>. QED
  BY <1>1

LEMMA InitLosses == Init => Losses
<1>. SUFFICES ASSUME Init PROVE Losses
  OBVIOUS
<1>1. IsFiniteSet({}) /\ Cardinality({}) = 0
  BY FS_EmptySet
<1>2. /\ dropped = {} /\ reported = 0 /\ wnlost \in [Writers -> Nat]
      /\ \A w \in Writers : wpc[w] = "idle"
  BY DEF Init
<1>3. q.nlost = 0 /\ \A c \in ChunkIds : q.mbuf[c] = EmptyBuf /\ q.nmessages[c] = 0
  BY DEF Init, NewQueue
<1>. QED
  BY <1>1, <1>2, <1>3, EmptyIsOK DEF Losses, LossesReported

LEMMA RowLosses ==
  ASSUME Shape, Messages, Losses, NEW w \in Writers, RowStart(w) \/ RowCols(w) \/ RowEnd(w)
  PROVE  Losses'
<1>0. /\ Counted(q) /\ q.nlost \in Nat /\ DOMAIN wpc = Writers
      /\ IsFiniteSet(dropped) /\ Cardinality(dropped) \in Nat /\ reported \in Nat
      /\ wnlost \in [Writers -> Nat]
  BY FS_CardinalityType DEF Losses, Counted, Shape, ChainOK, LockDiscipline
<1>1. CASE RowStart(w)
  <2>1. /\ Counted(q') /\ q'.nlost \in Nat
        /\ IsFiniteSet(LostBy(q)) /\ Cardinality(LostBy(q)) \in Nat
        /\ q.nlost + Cardinality(LostBy(q)) <= q'.nlost
    BY <1>0, <1>1, RowStartCounts
  <2>2. /\ dropped' = dropped \cup LostBy(q) /\ reported' = reported /\ wnlost' = wnlost
        /\ wpc' = [wpc EXCEPT ![w] = "cols"]
    BY <1>1 DEF RowStart
  <2>3. /\ IsFiniteSet(dropped') /\ Cardinality(dropped') \in Nat
        /\ Cardinality(dropped') <= Cardinality(dropped) + Cardinality(LostBy(q))
    <3>. DEFINE both == dropped \cap LostBy(q)
    <3>1. IsFiniteSet(dropped') /\
          Cardinality(dropped') = Cardinality(dropped) + Cardinality(LostBy(q)) - Cardinality(both)
      BY <1>0, <2>1, <2>2, FS_Union
    <3>2. IsFiniteSet(both)
      BY <1>0, FS_Subset
    <3>3. Cardinality(both) \in Nat /\ Cardinality(dropped') \in Nat
      BY <3>1, <3>2, FS_CardinalityType
    <3>. QED
      BY <1>0, <2>1, <3>1, <3>3
  <2>4. Cardinality(Writers) = 1 => Cardinality(dropped') <= reported' + q'.nlost
    BY <1>0, <2>1, <2>2, <2>3 DEF Losses, LossesReported
  <2>5. Cardinality(Writers) = 1 => \A x \in Writers : wpc'[x] = "cols"
    <3>. SUFFICES ASSUME Cardinality(Writers) = 1, NEW x \in Writers PROVE wpc'[x] = "cols"
      OBVIOUS
    <3>1. x = w
      BY OneIsAlone
    <3>. QED
      BY <1>0, <2>2, <3>1
  <2>. QED
    BY <1>0, <2>1, <2>2, <2>3, <2>4, <2>5 DEF Losses, LossesReported, Counted
<1>2. ASSUME Counted(q'), q'.nlost = q.nlost, dropped' = dropped, reported' = reported,
             wnlost' = wnlost, NEW where, where # "resetlost",
             wpc' = [wpc EXCEPT ![w] = where]
      PROVE  Losses'
  BY <1>0, <1>2 DEF Losses, LossesReported, Counted
<1>3. CASE RowCols(w)
  <2>1. /\ dropped' = dropped /\ reported' = reported /\ wnlost' = wnlost
        /\ wpc' = [wpc EXCEPT ![w] = "end"]
    BY <1>3 DEF RowCols, historyVars
  <2>2. Counted(q') /\ q'.nlost = q.nlost
    <3>. DEFINE b == q.mbuf[wbuf]
                y == Extend(b, Unit(wmsg[w], 2))
                z == ResetWrite(b)
    <3>1. \/ q' = q
          \/ /\ wbuf \in Allocated(q) /\ wbuf \in ChunkIds /\ BufferOK(b)
             /\ Unit(wmsg[w], 2) \in Units
             /\ q' = [q EXCEPT !.mbuf[wbuf] = y] \/ q' = [q EXCEPT !.mbuf[wbuf] = z]
      BY <1>3, RowColsEffect
    <3>2. CASE q' = q
      BY <1>0, <3>2
    <3>3. CASE /\ wbuf \in Allocated(q) /\ wbuf \in ChunkIds /\ BufferOK(b)
               /\ Unit(wmsg[w], 2) \in Units
               /\ q' = [q EXCEPT !.mbuf[wbuf] = y] \/ q' = [q EXCEPT !.mbuf[wbuf] = z]
      <4>1. BufferOK(y) /\ BufferOK(z) /\ y.msg = b.msg /\ z.msg = b.msg
        BY <3>3, ExtendKeeps, ResetKeeps
      <4>. HIDE DEF y, z
      <4>2. /\ q'.nmessages = q.nmessages /\ q'.nlost = q.nlost
            /\ Stores(q, q', wbuf, y) \/ Stores(q, q', wbuf, z)
        BY <3>3, <4>1, PutBuffer DEF Shape
      <4>. QED
        BY <1>0, <4>1, <4>2 DEF Stores, Counted
    <3>. QED
      BY <3>1, <3>2, <3>3
  <2>. QED
    BY <1>2, <2>1, <2>2
<1>4. CASE RowEnd(w)
  <2>1. /\ dropped' = dropped /\ reported' = reported /\ wnlost' = wnlost
        /\ wpc' = [wpc EXCEPT ![w] = AfterRow(w)]
    BY <1>4 DEF RowEnd
  <2>. DEFINE b == q.mbuf[wbuf]
              m == wmsg[w]
  <2>2. /\ wbuf \in ChunkIds /\ BufferOK(b) /\ m \in 1 .. msgs /\ Unit(m, 3) \in Units
        /\ Partial(b, m, "end") /\ q'.nlost = q.nlost
        /\ \A d \in ChunkIds : d # wbuf => q'.mbuf[d] = q.mbuf[d]
        /\ Counts(q, q', wbuf)
        /\ \/ q'.mbuf[wbuf] = BeginWrite(Extend(b, Unit(m, 3)))
           \/ q'.mbuf[wbuf] = ResetWrite(b)
    BY <1>4, RowEndEffect
  <2>3. FramedBuf(b, msgs) /\ msgs \in Nat
    BY <2>2, BWAssumption DEF Messages
  <2>4. b.msg \in Nat /\ q.nmessages \in [ChunkIds -> Nat]
    BY <2>2 DEF BufferOK, Shape, ChainOK
  <2>5. q'.mbuf[wbuf].msg = b.msg \/ q'.mbuf[wbuf].msg = b.msg + 3
    BY <2>2, <2>3, FramedCommit, ResetKeeps
  <2>6. b.msg <= 3 * q.nmessages[wbuf]
    BY <1>0, <2>2 DEF Counted
  <2>. HIDE DEF b, m
  <2>7. Counted(q')
    <3>. SUFFICES ASSUME NEW c \in ChunkIds PROVE q'.mbuf[c].msg <= 3 * q'.nmessages[c]
      BY DEF Counted
    <3>1. CASE c = wbuf
      <4>1. q'.nmessages[c] = q.nmessages[wbuf] + 1 /\ q.nmessages[wbuf] \in Nat
        BY <2>2, <2>4, <3>1 DEF Counts
      <4>. QED
        BY <2>4, <2>5, <2>6, <3>1, <4>1
    <3>2. CASE c # wbuf
      BY <1>0, <2>2, <3>2 DEF Counts, Counted
    <3>. QED
      BY <3>1, <3>2
  <2>8. AfterRow(w) # "resetlost"
    BY DEF AfterRow
  <2>. QED
    BY <1>2, <2>1, <2>2, <2>7, <2>8
<1>. QED
  BY <1>1, <1>3, <1>4

LEMMA ReaderLosses ==
  ASSUME Shape, Messages, Sending, Losses, ReaderStep \/ SpuriousWakeup \/ TimePasses
  PROVE  Losses'
<1>1. /\ UNCHANGED <<wpc, wnlost, dropped, reported>>
      /\ \/ (SameChain(q, q') \/ q' = q) /\ q'.nlost = q.nlost
         \/ ProcessDone
  BY ReaderEffect
<1>2. Counted(q') /\ q'.nlost = q.nlost
  <2>1. CASE (SameChain(q, q') \/ q' = q) /\ q'.nlost = q.nlost
    BY <2>1 DEF SameChain, Counted, Losses
  <2>2. CASE ProcessDone
    <3>1. /\ q'.nlost = q.nlost /\ q'.mbuf[chunk] = EmptyBuf
          /\ \A d \in ChunkIds : d # chunk => q'.mbuf[d] = q.mbuf[d]
          /\ q'.nmessages = q.nmessages
      BY <2>2, ProcessDoneEffect
    <3>2. \A d \in ChunkIds : 0 <= 3 * q.nmessages[d]
      BY DEF Shape, ChainOK
    <3>. QED
      BY <3>1, <3>2, EmptyIsOK DEF Counted, Losses
  <2>. QED
    BY <1>1, <2>1, <2>2
<1>. QED
  BY <1>1, <1>2 DEF Losses, LossesReported, Counted

LEMMA ElsewhereLosses ==
  ASSUME Shape, Losses, Elsewhere
  PROVE  Losses'
<1>. USE DEF queueVars, senderVars, mainVars, writerVars, historyVars
<1>0. q.nlost \in Nat /\ DOMAIN wpc = Writers
  BY DEF Shape, ChainOK, LockDiscipline
<1>1. dropped' = dropped /\ (q' = q \/ SameChain(q, q'))
  BY ElsewhereEffect
<1>2. Counted(q')
  BY <1>1 DEF SameChain, Counted, Losses
<1>3. ASSUME q' = q, reported' = reported, wnlost' = wnlost,
             \A x \in Writers : wpc'[x] = "resetlost" => wpc[x] = "resetlost"
      PROVE  Losses'
  BY <1>1, <1>3 DEF Losses, LossesReported
<1>4. CASE MainStep
  BY <1>3, <1>4 DEF MainStep, PushMeta, Started, bw_close, Joined
<1>5. CASE DestroyMPs
  BY <1>3, <1>5 DEF DestroyMPs
<1>6. ASSUME NEW w \in Writers, TerminationHandler(w)
      PROVE  Losses'
  BY <1>3, <1>6 DEF TerminationHandler
<1>7. ASSUME NEW w \in Writers, RowEndNull(w)
      PROVE  Losses'
  BY <1>0, <1>3, <1>7 DEF RowEndNull, AfterRow
<1>8. ASSUME NEW w \in Writers, NlostRead(w)
      PROVE  Losses'
  <2>1. /\ q' = q /\ reported' = reported /\ wnlost' = [wnlost EXCEPT ![w] = q.nlost]
        /\ wpc' = [wpc EXCEPT ![w] = "resetlost"]
    BY <1>8 DEF NlostRead
  <2>. QED
    BY <1>0, <1>1, <1>2, <2>1 DEF Losses, LossesReported, Counted
<1>9. ASSUME NEW w \in Writers, NlostReset(w)
      PROVE  Losses'
  <2>1. /\ q' = [q EXCEPT !.nlost = 0] /\ reported' = reported + wnlost[w]
        /\ wnlost' = [wnlost EXCEPT ![w] = 0] /\ wpc[w] = "resetlost"
        /\ wpc' = [wpc EXCEPT ![w] = "idle"]
    BY <1>9 DEF NlostReset
  <2>2. q'.nlost = 0
    BY <2>1 DEF Shape, ChainOK
  <2>3. wnlost[w] \in Nat /\ reported \in Nat
    BY DEF Losses
  <2>4. Cardinality(Writers) = 1 => wnlost[w] = q.nlost
    BY <2>1 DEF Losses
  <2>5. Cardinality(Writers) = 1 => Cardinality(dropped') <= reported' + q'.nlost
    BY <1>0, <1>1, <2>1, <2>2, <2>3, <2>4 DEF Losses, LossesReported
  <2>6. Cardinality(Writers) = 1 => \A x \in Writers : wpc'[x] # "resetlost"
    <3>. SUFFICES ASSUME Cardinality(Writers) = 1, NEW x \in Writers PROVE wpc'[x] = "idle"
      OBVIOUS
    <3>1. x = w
      BY OneIsAlone
    <3>. QED
      BY <1>0, <2>1, <3>1
  <2>. QED
    BY <1>0, <1>1, <1>2, <2>1, <2>3, <2>5, <2>6 DEF Losses, LossesReported, Counted
<1>10. CASE UNCHANGED vars
  BY <1>3, <1>10 DEF vars
<1>. QED
  BY <1>4, <1>5, <1>6, <1>7, <1>8, <1>9, <1>10 DEF Elsewhere

\* With one injecting thread, every message lost with a recycled chunk has been
\* reported by bw_nlost_reset() or still will be.
THEOREM LossesAreReported == Spec => []LossesReported
<1>1. Init => Losses
  BY InitLosses
<1>2. QueueInv /\ Losses /\ [Next]_vars => Losses'
  BY StepsSplit, RowLosses, ReaderLosses, ElsewhereLosses DEF QueueInv
<1>3. Losses => LossesReported
  BY DEF Losses
<1>. QED
  BY <1>1, <1>2, <1>3, QueueInvHolds, PTL DEF Spec

=============================================================================
