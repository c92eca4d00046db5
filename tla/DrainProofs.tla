---------------------------- MODULE DrainProofs -----------------------------
(***************************************************************************)
(* The reader thread of lib/client/buffered_writer.c meets every chunk     *)
(* that holds messages: as long as no chunk was recycled, the chunks with  *)
(* messages are those between its own chunk and writerChunk, in the order  *)
(* of their next pointers.  So when threadStart() returns 1 the queue is   *)
(* empty.                                                                  *)
(***************************************************************************)
EXTENDS QueueProofs

\* The messages that wait in chunk c of k.
Held(k, c) == MessagesIn(Pending(k.mbuf[c]))

\* The messages that start in p, oldest first.
InOrder(p) ==
  \A i, j \in 1 .. Len(p) : \A x, y \in Nat :
    (i < j /\ p[i] = Unit(x, 1) /\ p[j] = Unit(y, 1)) => x < y

\* Rows are completed in the order in which they were started, and a chunk
\* holds completed rows in that order.
Numbered ==
  /\ \A i, j \in 1 .. Len(completed) : i < j => completed[i] < completed[j]
  /\ \A i \in 1 .. Len(completed) : completed[i] \in 1 .. msgs
  /\ wbuf # 0 => \A i \in 1 .. Len(completed) : completed[i] < wmsg[lock]
  /\ \A c \in ChunkIds : Held(q, c) \subseteq Completed /\ InOrder(Pending(q.mbuf[c]))

\* processChunk() has just emptied the chunk of the reader.
Emptied == rpc = "return" /\ allsent > 0

\* p are the n chunks from the reader's to the writer's, oldest messages first;
\* all others are empty, and these are not, but for the one where rows are
\* written and the one that was just emptied.
Path(k, from, done, n, p) ==
  /\ p[1] = from /\ p[n] = k.writer
  /\ \A i \in 1 .. (n - 1) : k.next[p[i]] = p[i + 1]
  /\ \A i, j \in 1 .. n : p[i] = p[j] => i = j
  /\ \A c \in ChunkIds : (\A i \in 1 .. n : p[i] # c) => k.mbuf[c].msg = 0
  /\ \A i \in 1 .. (n - 1) : (i = 1 /\ done) \/ k.mbuf[p[i]].msg > 0
  /\ \A i, j \in 1 .. n : i < j =>
       \A x \in Held(k, p[i]), y \in Held(k, p[j]) : x < y

Chained(k, from, done) ==
  \E n \in Nat : n > 0 /\ \E p \in [1 .. n -> Allocated(k)] : Path(k, from, done, n, p)

DrainInv ==
  /\ \A c \in ChunkIds : q.mbuf[c].rd = 0
  /\ Emptied => q.mbuf[chunk].msg = 0
  /\ rpc = "done" => ~active
  /\ retval = 1 => rpc = "done"
  /\ dropped = {} => Chained(q, chunk, Emptied)
  /\ retval = 1 /\ dropped = {} => \A c \in ChunkIds : q.mbuf[c].msg = 0

-----------------------------------------------------------------------------
(* Numbers.                                                                *)

\* What is left to show of a step that commits nothing.
LEMMA NumberedStays ==
  ASSUME Numbered, Messages, completed' = completed, msgs' \in Nat, msgs <= msgs',
         \A c \in ChunkIds : \/ Pending(q'.mbuf[c]) = Pending(q.mbuf[c])
                             \/ Pending(q'.mbuf[c]) = <<>>,
         wbuf' # 0 => \A i \in 1 .. Len(completed) : completed[i] < wmsg'[lock']
  PROVE  Numbered'
<1>1. \A i \in 1 .. Len(completed) : completed[i] \in 1 .. msgs'
  BY BWAssumption DEF Numbered, Messages
<1>2. InOrder(<<>>)
  BY DEF InOrder
<1>3. Completed' = Completed
  BY DEF Completed
<1>4. ASSUME NEW c \in ChunkIds
      PROVE  Held(q', c) \subseteq Completed /\ InOrder(Pending(q'.mbuf[c]))
  BY <1>2, NothingInNothing DEF Numbered, Held
<1>. QED
  BY <1>1, <1>3, <1>4 DEF Numbered, Held, ChunkIds

LEMMA UnitsDiffer ==
  ASSUME NEW x, NEW y, NEW p, NEW r, Unit(x, p) = Unit(y, r)
  PROVE  x = y /\ p = r
<1>1. Unit(x, p).part = Unit(y, r).part /\ Unit(x, p).body[1] = Unit(y, r).body[1]
  OBVIOUS
<1>. QED
  BY <1>1 DEF Unit

\* A message that is committed is the last of its chunk.
LEMMA CommitOrder ==
  ASSUME NEW b, BufferOK(b), NEW x, BufferOK(x), x.rd = b.rd, x.msg = b.msg + 3,
         \A i \in 1 .. b.msg : x.data[i] = b.data[i], NEW m \in Nat,
         x.data[b.msg + 1] = Unit(m, 1), x.data[b.msg + 2] = Unit(m, 2),
         x.data[b.msg + 3] = Unit(m, 3),
         InOrder(Pending(b)), \A y \in MessagesIn(Pending(b)) : y < m
  PROVE  /\ InOrder(Pending(x))
         /\ MessagesIn(Pending(x)) \subseteq MessagesIn(Pending(b)) \cup {m}
<1>. DEFINE n == b.msg - b.rd
            p == Pending(b)
            z == Pending(x)
<1>0. b.rd \in Nat /\ b.msg \in Nat /\ n \in Nat /\ x.msg - x.rd = n + 3
  BY DEF BufferOK
<1>1. /\ Len(p) = n /\ (\A i \in 1 .. n : p[i] = b.data[b.rd + i])
      /\ Len(z) = n + 3 /\ (\A i \in 1 .. (n + 3) : z[i] = x.data[b.rd + i])
  BY <1>0, PendingUnits
<1>2. \A i \in 1 .. n : z[i] = p[i] /\ i \in 1 .. (n + 3)
  <2>1. \A i \in 1 .. n : b.rd + i \in 1 .. b.msg /\ i \in 1 .. (n + 3)
    BY <1>0
  <2>. QED
    BY <1>1, <2>1
<1>3. z[n + 1] = Unit(m, 1) /\ z[n + 2] = Unit(m, 2) /\ z[n + 3] = Unit(m, 3)
  <2>1. /\ b.rd + (n + 1) = b.msg + 1 /\ b.rd + (n + 2) = b.msg + 2
        /\ b.rd + (n + 3) = b.msg + 3
        /\ n + 1 \in 1 .. (n + 3) /\ n + 2 \in 1 .. (n + 3) /\ n + 3 \in 1 .. (n + 3)
    BY <1>0
  <2>. QED
    BY <1>1, <2>1
<1>4. \A i \in 1 .. (n + 3) : i \in 1 .. n \/ i = n + 1 \/ i = n + 2 \/ i = n + 3
  BY <1>0
<1>5. ASSUME NEW i \in 1 .. n, NEW y, NEW r \in {1, 2, 3}, z[i] = Unit(y, r)
      PROVE  y \in MessagesIn(p)
  <2>1. b.data[b.rd + i] = Unit(y, r)
    BY <1>1, <1>2, <1>5
  <2>. QED
    BY <2>1, UnitAnnounces
<1>. HIDE DEF n, p, z
<1>6. ASSUME NEW i \in 1 .. Len(z), NEW j \in 1 .. Len(z), NEW u \in Nat, NEW v \in Nat,
             i < j, z[i] = Unit(u, 1), z[j] = Unit(v, 1)
      PROVE  u < v
  <2>1. i \in 1 .. (n + 3) /\ j \in 1 .. (n + 3)
    BY <1>1
  <2>2. j # n + 2 /\ j # n + 3 /\ i # n + 2 /\ i # n + 3
    BY <1>3, <1>6, UnitsDiffer
  <2>3. CASE j = n + 1
    <3>1. v = m /\ i \in 1 .. n
      BY <1>0, <1>3, <1>4, <1>6, <2>1, <2>2, <2>3, UnitsDiffer
    <3>2. u \in MessagesIn(p)
      BY <1>5, <1>6, <3>1
    <3>. QED
      BY <3>1, <3>2 DEF p
  <2>4. CASE j \in 1 .. n
    <3>1. i \in 1 .. n
      BY <1>0, <1>6, <2>1, <2>4
    <3>2. p[i] = Unit(u, 1) /\ p[j] = Unit(v, 1)
      BY <1>2, <1>6, <2>4, <3>1
    <3>. QED
      BY <1>1, <1>6, <2>4, <3>1, <3>2 DEF InOrder, p
  <2>. QED
    BY <1>4, <2>1, <2>2, <2>3, <2>4
<1>7. ASSUME NEW y \in MessagesIn(z) PROVE y \in MessagesIn(p) \cup {m}
  <2>1. PICK i \in 1 .. Len(z) : ~IsHeader(z[i]) /\ y = z[i].body[1]
    BY DEF MessagesIn
  <2>2. CASE i \in 1 .. n
    <3>1. i \in 1 .. Len(p) /\ p[i] = z[i]
      BY <1>1, <1>2, <2>2
    <3>. QED
      BY <2>1, <3>1 DEF MessagesIn
  <2>3. CASE i = n + 1 \/ i = n + 2 \/ i = n + 3
    <3>1. \A r \in {1, 2, 3} : Unit(m, r).body[1] = m
      BY DEF Unit
    <3>. QED
      BY <1>3, <2>1, <2>3, <3>1
  <2>. QED
    BY <1>1, <1>4, <2>1, <2>2, <2>3
<1>8. InOrder(z)
  BY <1>6 DEF InOrder
<1>. QED
  BY <1>7, <1>8 DEF p, z

LEMMA RowStartNumbered ==
  ASSUME Shape, Messages, Numbered, NEW w \in Writers, RowStart(w)
  PROVE  Numbered'
<1>1. /\ completed' = completed /\ msgs' = msgs + 1 /\ lock' = w
      /\ wmsg' = [wmsg EXCEPT ![w] = msgs + 1] /\ msgs \in Nat /\ DOMAIN wmsg = Writers
  BY BWAssumption DEF RowStart, Messages
<1>2. wmsg'[lock'] = msgs + 1 /\ msgs' \in Nat /\ msgs <= msgs'
  BY <1>1
<1>3. \A i \in 1 .. Len(completed) : completed[i] < msgs + 1
  BY <1>1 DEF Numbered
<1>4. \A c \in ChunkIds : \/ Pending(q'.mbuf[c]) = Pending(q.mbuf[c])
                          \/ Pending(q'.mbuf[c]) = <<>>
  BY RowStartPending
<1>. QED
  BY <1>1, <1>2, <1>3, <1>4, NumberedStays

LEMMA RowColsNumbered ==
  ASSUME Shape, Messages, Numbered, NEW w \in Writers, RowCols(w)
  PROVE  Numbered'
<1>1. UNCHANGED <<completed, msgs, lock, wmsg>> /\ msgs \in Nat
  BY BWAssumption DEF RowCols, Messages, historyVars
<1>2. wbuf' # 0 => wbuf # 0
  BY RowColsEffect
<1>3. \A c \in ChunkIds : Pending(q'.mbuf[c]) = Pending(q.mbuf[c])
  BY RowColsPending
<1>4. msgs' \in Nat /\ msgs <= msgs'
  BY <1>1
<1>. QED
  BY <1>1, <1>2, <1>3, <1>4, NumberedStays DEF Numbered

LEMMA RowEndNumbered ==
  ASSUME Shape, Messages, Numbered, NEW w \in Writers, RowEnd(w)
  PROVE  /\ Numbered'
         /\ \A c \in ChunkIds : c # q.writer => Held(q', c) = Held(q, c)
         /\ \A y \in Held(q', q.writer) : \/ y \in Held(q, q.writer)
                                         \/ \A x \in Completed : x < y
<1>. DEFINE b == q.mbuf[wbuf]
            m == wmsg[w]
<1>1. /\ lock = w /\ wbuf = q.writer /\ wbuf \in ChunkIds /\ wbuf' = 0 /\ wbuf # 0
      /\ BufferOK(b) /\ m \in 1 .. msgs /\ Unit(m, 3) \in Units
      /\ Partial(b, m, "end")
      /\ \A d \in ChunkIds : d # wbuf => q'.mbuf[d] = q.mbuf[d]
      /\ \/ /\ q'.mbuf[wbuf] = BeginWrite(Extend(b, Unit(m, 3)))
            /\ completed' = Append(completed, m)
         \/ /\ q'.mbuf[wbuf] = ResetWrite(b)
            /\ completed' = completed
  BY RowEndEffect DEF RowEnd
<1>2. /\ msgs' = msgs /\ msgs \in Nat /\ completed \in Seq(Nat)
      /\ FramedBuf(b, msgs)
  BY <1>1, BWAssumption DEF RowEnd, Messages
<1>3. \A i \in 1 .. Len(completed) : completed[i] < m
  BY <1>1 DEF Numbered
<1>4. \A x \in Completed : x < m
  BY <1>3 DEF Completed
<1>. HIDE DEF b, m
<1>5. \A c \in ChunkIds : c # wbuf => Pending(q'.mbuf[c]) = Pending(q.mbuf[c])
  BY <1>1
<1>6. CASE q'.mbuf[wbuf] = ResetWrite(b) /\ completed' = completed
  <2>1. \A c \in ChunkIds : Pending(q'.mbuf[c]) = Pending(q.mbuf[c])
    <3>1. Pending(q'.mbuf[wbuf]) = Pending(b)
      BY <1>1, <1>6, ResetKeeps
    <3>. QED
      BY <1>5, <3>1 DEF b
  <2>2. msgs' \in Nat /\ msgs <= msgs'
    BY <1>2
  <2>3. Numbered'
    BY <1>1, <1>6, <2>1, <2>2, NumberedStays
  <2>. QED
    BY <1>1, <2>1, <2>3 DEF Held
<1>7. CASE /\ q'.mbuf[wbuf] = BeginWrite(Extend(b, Unit(m, 3)))
           /\ completed' = Append(completed, m)
  <2>. DEFINE x == BeginWrite(Extend(b, Unit(m, 3)))
  <2>1. /\ BufferOK(x) /\ x.msg = b.msg + 3 /\ x.rd = b.rd
        /\ \A i \in 1 .. b.msg : x.data[i] = b.data[i]
        /\ x.data[b.msg + 1] = Unit(m, 1) /\ x.data[b.msg + 2] = Unit(m, 2)
        /\ x.data[b.msg + 3] = Unit(m, 3)
    BY <1>1, <1>2, FramedCommit
  <2>. HIDE DEF x
  <2>2. InOrder(Pending(b)) /\ MessagesIn(Pending(b)) \subseteq Completed
    BY <1>1 DEF Numbered, Held, b
  <2>3. \A y \in MessagesIn(Pending(b)) : y < m
    BY <1>4, <2>2
  <2>4. m \in Nat
    BY <1>1
  <2>5. InOrder(Pending(x)) /\ MessagesIn(Pending(x)) \subseteq MessagesIn(Pending(b)) \cup {m}
    BY ONLY <1>1, <2>1, <2>2, <2>3, <2>4, CommitOrder
  <2>6. q'.mbuf[wbuf] = x
    BY <1>7 DEF x
  <2>. DEFINE l == Len(completed)
              z == completed'
  <2>7. /\ l \in Nat /\ Len(z) = l + 1 /\ z[l + 1] = m
        /\ \A i \in 1 .. l : z[i] = completed[i]
    BY <1>2, <1>7, <2>4, AppendProperties
  <2>. HIDE DEF z, l
  <2>8. \A i \in 1 .. (l + 1) : i = l + 1 \/ i \in 1 .. l
    BY <2>7
  <2>9. \A i, j \in 1 .. Len(z) : i < j => z[i] < z[j]
    <3>. SUFFICES ASSUME NEW i \in 1 .. (l + 1), NEW j \in 1 .. (l + 1), i < j PROVE z[i] < z[j]
      BY <2>7
    <3>1. i \in 1 .. l
      BY <2>7
    <3>2. CASE j = l + 1
      BY <1>3, <2>7, <3>1, <3>2 DEF l
    <3>3. CASE j \in 1 .. l
      BY <2>7, <3>1, <3>3 DEF Numbered, l
    <3>. QED
      BY <2>8, <3>2, <3>3
  <2>10. \A i \in 1 .. Len(z) : z[i] \in 1 .. msgs
    BY <1>1, <2>7, <2>8 DEF Numbered, l
  <2>11. Completed \cup {m} \subseteq Completed'
    <3>1. ASSUME NEW y \in Completed PROVE y \in Completed'
      <4>1. PICK i \in 1 .. l : y = completed[i]
        BY DEF Completed, l
      <4>2. i \in 1 .. Len(z) /\ y = z[i]
        BY <2>7, <4>1
      <4>. QED
        BY <4>2 DEF Completed, z
    <3>2. m \in Completed'
      <4>1. l + 1 \in 1 .. Len(z)
        BY <2>7
      <4>. QED
        BY <2>7, <4>1 DEF Completed, z
    <3>. QED
      BY <3>1, <3>2
  <2>12. ASSUME NEW c \in ChunkIds
         PROVE  Held(q', c) \subseteq Completed' /\ InOrder(Pending(q'.mbuf[c]))
    <3>1. CASE c = wbuf
      BY <2>2, <2>5, <2>6, <2>11, <3>1 DEF Held
    <3>2. CASE c # wbuf
      BY <1>5, <2>11, <3>2 DEF Numbered, Held
    <3>. QED
      BY <3>1, <3>2
  <2>13. Numbered'
    BY <1>1, <1>2, <2>9, <2>10, <2>12 DEF Numbered, z, Held, ChunkIds
  <2>14. \A y \in Held(q', wbuf) : y \in Held(q, wbuf) \/ \A v \in Completed : v < y
    BY <1>4, <2>5, <2>6 DEF Held, b
  <2>. QED
    BY <1>1, <1>5, <2>13, <2>14 DEF Held
<1>. QED
  BY <1>1, <1>6, <1>7

LEMMA ReaderNumbered ==
  ASSUME Shape, Messages, Sending, Numbered, ReaderStep \/ SpuriousWakeup \/ TimePasses
  PROVE  Numbered'
<1>1. UNCHANGED <<wbuf, wmsg, msgs, completed>> /\ msgs \in Nat /\ msgs' \in Nat /\ msgs <= msgs'
  BY ReaderEffect, BWAssumption DEF Messages
<1>2. \A c \in ChunkIds : \/ Pending(q'.mbuf[c]) = Pending(q.mbuf[c])
                          \/ Pending(q'.mbuf[c]) = <<>>
  <2>1. CASE ProcessDone
    BY <2>1, ProcessDoneEffect, EmptyIsOK, EmptyHasNothing
  <2>2. CASE SameChain(q, q') \/ q' = q
    BY <2>2 DEF SameChain
  <2>. QED
    BY <2>1, <2>2, ReaderEffect
<1>3. wbuf # 0 => lock' = lock
  <2>1. CASE ProcessDone
    BY <2>1, ProcessDoneEffect
  <2>2. CASE lock' = lock \/ (lock' \notin Writers /\ lock \notin Writers)
    BY <2>2 DEF Shape
  <2>. QED
    BY <2>1, <2>2, ReaderEffect
<1>. QED
  BY <1>1, <1>2, <1>3, NumberedStays DEF Numbered

LEMMA ElsewhereNumbered ==
  ASSUME Shape, Messages, Numbered, Elsewhere
  PROVE  Numbered'
<1>1. UNCHANGED <<lock, wbuf, wmsg, msgs, completed>> /\ (q' = q \/ SameChain(q, q'))
  BY ElsewhereEffect
<1>2. msgs \in Nat /\ msgs' \in Nat /\ msgs <= msgs'
  BY <1>1, BWAssumption DEF Messages
<1>3. \A c \in ChunkIds : Pending(q'.mbuf[c]) = Pending(q.mbuf[c])
  BY <1>1 DEF SameChain
<1>. QED
  BY <1>1, <1>2, <1>3, NumberedStays DEF Numbered

LEMMA InitNumbered == Init => Numbered
<1>. SUFFICES ASSUME Init PROVE Numbered
  OBVIOUS
<1>1. completed = <<>> /\ wbuf = 0 /\ \A c \in ChunkIds : q.mbuf[c] = EmptyBuf
  BY DEF Init, NewQueue
<1>2. InOrder(<<>>) /\ Pending(EmptyBuf) = <<>>
  BY EmptyIsOK, EmptyHasNothing DEF InOrder
<1>3. 1 .. Len(completed) = {}
  BY <1>1
<1>. QED
  BY <1>1, <1>2, <1>3, NothingInNothing DEF Numbered, Held

LEMMA NumberedKept ==
  ASSUME Shape, Messages, Sending, Numbered, [Next]_vars
  PROVE  Numbered'
BY StepsSplit, RowStartNumbered, RowColsNumbered, RowEndNumbered, ReaderNumbered,
   ElsewhereNumbered

-----------------------------------------------------------------------------
(* The path.                                                               *)

\* What is new in t is in the writer's chunk, and newer than what others hold.
OnlyNewer(k, t) ==
  \A c \in ChunkIds : \A y \in Held(t, c) :
    \/ y \in Held(k, c)
    \/ c = k.writer /\ \A d \in ChunkIds : d # c => \A x \in Held(k, d) : x < y

\* Only the writer's chunk changes.
LEMMA PathStays ==
  ASSUME NEW k, NEW t, NEW from, NEW done, Chained(k, from, done),
         Allocated(k) \subseteq Allocated(t), t.next = k.next, t.writer = k.writer,
         \A c \in ChunkIds : c # k.writer => t.mbuf[c].msg = k.mbuf[c].msg,
         Allocated(k) \subseteq ChunkIds, OnlyNewer(k, t)
  PROVE  Chained(t, from, done)
<1>1. PICK n \in Nat : n > 0 /\ \E p \in [1 .. n -> Allocated(k)] : Path(k, from, done, n, p)
  BY DEF Chained
<1>2. PICK p \in [1 .. n -> Allocated(k)] : Path(k, from, done, n, p)
  BY <1>1
<1>3. p \in [1 .. n -> Allocated(t)] /\ n \in 1 .. n
  BY <1>1
<1>4. \A i \in 1 .. (n - 1) : i \in 1 .. n /\ i # n
  BY <1>1
<1>5. \A i \in 1 .. (n - 1) : p[i] # k.writer /\ p[i] \in ChunkIds
  BY <1>2, <1>3, <1>4 DEF Path
<1>6. ASSUME NEW i \in 1 .. n, NEW j \in 1 .. n, i < j,
             NEW x \in Held(t, p[i]), NEW y \in Held(t, p[j])
      PROVE  x < y
  <2>1. i \in 1 .. (n - 1) /\ i # j
    BY <1>1, <1>6
  <2>2. p[i] # k.writer /\ p[i] \in ChunkIds /\ p[j] \in ChunkIds /\ p[i] # p[j]
    BY <1>2, <1>5, <2>1 DEF Path
  <2>3. x \in Held(k, p[i])
    BY <1>6, <2>2 DEF OnlyNewer
  <2>4. y \in Held(k, p[j]) \/ \A d \in ChunkIds : d # p[j] => \A v \in Held(k, d) : v < y
    BY <1>6, <2>2 DEF OnlyNewer
  <2>. QED
    BY <1>2, <1>6, <2>2, <2>3, <2>4 DEF Path
<1>7. Path(t, from, done, n, p)
  BY <1>2, <1>3, <1>5, <1>6 DEF Path
<1>. QED
  BY <1>1, <1>3, <1>7 DEF Chained

\* The writer goes on to the empty chunk c.
LEMMA PathGrows ==
  ASSUME NEW k, NEW t, NEW from, Chained(k, from, FALSE), NEW c \in Allocated(t),
         Allocated(k) \subseteq Allocated(t), Allocated(k) \subseteq ChunkIds,
         t.writer = c, t.next[k.writer] = c,
         \A d \in Allocated(k) : d # k.writer => t.next[d] = k.next[d],
         \A d \in ChunkIds : t.mbuf[d].msg = k.mbuf[d].msg,
         k.mbuf[c].msg = 0, k.mbuf[k.writer].msg > 0, k.writer \in ChunkIds,
         \A d \in ChunkIds : Held(t, d) \subseteq Held(k, d), c \in ChunkIds, Held(t, c) = {}
  PROVE  Chained(t, from, FALSE)
<1>1. PICK n \in Nat : n > 0 /\ \E p \in [1 .. n -> Allocated(k)] : Path(k, from, FALSE, n, p)
  BY DEF Chained
<1>2. PICK p \in [1 .. n -> Allocated(k)] : Path(k, from, FALSE, n, p)
  BY <1>1
<1>. DEFINE r == [i \in 1 .. (n + 1) |-> IF i = n + 1 THEN c ELSE p[i]]
<1>3. /\ r \in [1 .. (n + 1) -> Allocated(t)] /\ r[n + 1] = c
      /\ \A i \in 1 .. n : r[i] = p[i] /\ i \in 1 .. (n + 1)
      /\ \A i \in 1 .. (n + 1) : i = n + 1 \/ i \in 1 .. n
      /\ n + 1 - 1 = n /\ n + 1 \in Nat /\ n + 1 > 0 /\ 1 \in 1 .. n /\ n \in 1 .. n
      /\ \A i \in 1 .. n : i # n + 1 /\ (i = n \/ i \in 1 .. (n - 1))
      /\ n + 1 \in 1 .. (n + 1)
  <2>1. \A i \in 1 .. (n + 1) : i = n + 1 \/ i \in 1 .. n
    BY <1>1
  <2>2. n + 1 - 1 = n /\ n + 1 \in Nat /\ n + 1 > 0 /\ 1 \in 1 .. n /\ n \in 1 .. n
        /\ n + 1 \in 1 .. (n + 1)
    BY <1>1
  <2>3. \A i \in 1 .. n : i # n + 1 /\ (i = n \/ i \in 1 .. (n - 1)) /\ i \in 1 .. (n + 1)
    BY <1>1
  <2>4. r[n + 1] = c /\ \A i \in 1 .. n : r[i] = p[i]
    BY <2>2, <2>3
  <2>5. r \in [1 .. (n + 1) -> Allocated(t)]
    BY <2>1, <2>3
  <2>. QED
    BY <2>1, <2>2, <2>3, <2>4, <2>5
<1>. HIDE DEF r
<1>4. \A i \in 1 .. n : k.mbuf[p[i]].msg > 0
  BY <1>2, <1>3 DEF Path
<1>5. \A i \in 1 .. n : p[i] # c /\ p[i] \in ChunkIds
  <2>1. ~(0 > 0)
    OBVIOUS
  <2>. QED
    BY <1>4, <2>1
<1>6. r[1] = from /\ r[n + 1] = t.writer
  BY <1>2, <1>3 DEF Path
<1>7. ASSUME NEW i \in 1 .. n PROVE t.next[r[i]] = r[i + 1]
  <2>1. CASE i = n
    BY <1>2, <1>3, <2>1 DEF Path
  <2>2. CASE i \in 1 .. (n - 1)
    <3>1. i + 1 \in 1 .. n /\ i # n
      BY <1>1, <2>2
    <3>2. p[i] # k.writer /\ k.next[p[i]] = p[i + 1]
      BY <1>2, <1>3, <2>2, <3>1 DEF Path
    <3>. QED
      BY <1>3, <3>1, <3>2
  <2>. QED
    BY <1>3, <2>1, <2>2
<1>8. ASSUME NEW i \in 1 .. (n + 1), NEW j \in 1 .. (n + 1), r[i] = r[j]
      PROVE  i = j
  <2>1. CASE i \in 1 .. n /\ j \in 1 .. n
    BY <1>2, <1>3, <1>8, <2>1 DEF Path
  <2>. QED
    BY <1>3, <1>5, <1>8, <2>1
<1>9. ASSUME NEW d \in ChunkIds, \A i \in 1 .. (n + 1) : r[i] # d
      PROVE  t.mbuf[d].msg = 0
  BY <1>2, <1>3, <1>9 DEF Path
<1>10. ASSUME NEW i \in 1 .. n PROVE t.mbuf[r[i]].msg > 0
  BY <1>3, <1>4, <1>5
<1>11. ASSUME NEW i \in 1 .. (n + 1), NEW j \in 1 .. (n + 1), i < j,
              NEW x \in Held(t, r[i]), NEW y \in Held(t, r[j])
       PROVE  x < y
  <2>1. i # n + 1 /\ j # n + 1
    BY <1>3, <1>11
  <2>2. i \in 1 .. n /\ j \in 1 .. n
    BY <1>3, <2>1
  <2>3. x \in Held(k, p[i]) /\ y \in Held(k, p[j])
    BY <1>3, <1>5, <1>11, <2>2
  <2>. QED
    BY <1>2, <1>11, <2>2, <2>3 DEF Path
<1>12. Path(t, from, FALSE, n + 1, r)
  BY <1>3, <1>6, <1>7, <1>8, <1>9, <1>10, <1>11 DEF Path
<1>. QED
  BY <1>3, <1>12 DEF Chained

\* The reader goes on from a chunk that it has emptied.
LEMMA PathShrinks ==
  ASSUME NEW k, NEW from, Chained(k, from, TRUE), from # k.writer, k.mbuf[from].msg = 0
  PROVE  Chained(k, k.next[from], FALSE)
<1>1. PICK n \in Nat : n > 0 /\ \E p \in [1 .. n -> Allocated(k)] : Path(k, from, TRUE, n, p)
  BY DEF Chained
<1>2. PICK p \in [1 .. n -> Allocated(k)] : Path(k, from, TRUE, n, p)
  BY <1>1
<1>3. n > 1
  BY <1>1, <1>2 DEF Path
<1>. DEFINE m == n - 1
            r == [i \in 1 .. m |-> p[i + 1]]
<1>4. m \in Nat /\ m > 0 /\ m + 1 = n /\ 1 \in 1 .. m /\ m \in 1 .. m
  BY <1>3
<1>. HIDE DEF m
<1>5. \A i \in 1 .. m : i + 1 \in 1 .. n /\ i \in 1 .. n /\ i + 1 # 1
  BY <1>4
<1>6. r \in [1 .. m -> Allocated(k)] /\ \A i \in 1 .. m : r[i] = p[i + 1]
  BY <1>5
<1>. HIDE DEF r
<1>7. r[1] = k.next[from] /\ r[m] = k.writer
  <2>1. k.next[p[1]] = p[1 + 1]
    BY <1>2, <1>4 DEF Path, m
  <2>. QED
    BY <1>2, <1>4, <1>6, <2>1 DEF Path
<1>8. ASSUME NEW i \in 1 .. (m - 1)
      PROVE  k.next[r[i]] = r[i + 1] /\ k.mbuf[r[i]].msg > 0
  <2>1. i + 1 \in 1 .. (n - 1) /\ i + 1 # 1 /\ i \in 1 .. m /\ i + 1 \in 1 .. m
    BY <1>4
  <2>2. k.next[p[i + 1]] = p[i + 1 + 1] /\ k.mbuf[p[i + 1]].msg > 0
    BY <1>2, <2>1 DEF Path
  <2>. QED
    BY <1>6, <2>1, <2>2
<1>9. ASSUME NEW i \in 1 .. m, NEW j \in 1 .. m, r[i] = r[j]
      PROVE  i = j
  <2>1. i + 1 = j + 1
    BY <1>2, <1>5, <1>6, <1>9 DEF Path
  <2>. QED
    BY <2>1
<1>10. ASSUME NEW c \in ChunkIds, \A i \in 1 .. m : r[i] # c
       PROVE  k.mbuf[c].msg = 0
  <2>1. CASE c = from
    BY <2>1
  <2>2. CASE c # from
    <3>. SUFFICES ASSUME NEW j \in 1 .. n PROVE p[j] # c
      BY <1>2 DEF Path
    <3>1. j = 1 \/ (j - 1 \in 1 .. m /\ j - 1 + 1 = j)
      BY <1>4
    <3>2. CASE j = 1
      BY <1>2, <2>2, <3>2 DEF Path
    <3>3. CASE j - 1 \in 1 .. m /\ j - 1 + 1 = j
      BY <1>6, <1>10, <3>3
    <3>. QED
      BY <3>1, <3>2, <3>3
  <2>. QED
    BY <2>1, <2>2
<1>11. ASSUME NEW i \in 1 .. m, NEW j \in 1 .. m, i < j,
              NEW x \in Held(k, r[i]), NEW y \in Held(k, r[j])
       PROVE  x < y
  <2>1. i + 1 < j + 1 /\ i + 1 \in 1 .. n /\ j + 1 \in 1 .. n
    BY <1>5, <1>11
  <2>. QED
    BY <1>2, <1>6, <1>11, <2>1 DEF Path
<1>12. Path(k, k.next[from], FALSE, m, r)
  BY <1>7, <1>8, <1>9, <1>10, <1>11 DEF Path
<1>. QED
  BY <1>4, <1>6, <1>12 DEF Chained

\* The reader empties its chunk.
LEMMA PathEmptied ==
  ASSUME NEW k, NEW t, NEW from \in ChunkIds, NEW done, Chained(k, from, done),
         Allocated(t) = Allocated(k), Allocated(k) \subseteq ChunkIds,
         t.next = k.next, t.writer = k.writer,
         \A c \in ChunkIds : t.mbuf[c].msg = IF c = from THEN 0 ELSE k.mbuf[c].msg,
         \A c \in ChunkIds : Held(t, c) \subseteq Held(k, c)
  PROVE  Chained(t, from, TRUE)
<1>1. PICK n \in Nat : n > 0 /\ \E p \in [1 .. n -> Allocated(k)] : Path(k, from, done, n, p)
  BY DEF Chained
<1>2. PICK p \in [1 .. n -> Allocated(k)] : Path(k, from, done, n, p)
  BY <1>1
<1>3. 1 \in 1 .. n /\ \A i \in 1 .. (n - 1) : i \in 1 .. n
  BY <1>1
<1>4. ASSUME NEW i \in 1 .. (n - 1), i # 1 PROVE t.mbuf[p[i]].msg > 0
  <2>1. p[i] # from /\ p[i] \in ChunkIds
    BY <1>2, <1>3, <1>4 DEF Path
  <2>. QED
    BY <1>2, <1>4, <2>1 DEF Path
<1>5. ASSUME NEW i \in 1 .. n, NEW j \in 1 .. n, i < j,
             NEW x \in Held(t, p[i]), NEW y \in Held(t, p[j])
      PROVE  x < y
  <2>1. x \in Held(k, p[i]) /\ y \in Held(k, p[j])
    BY <1>2, <1>5
  <2>. QED
    BY <1>2, <1>5, <2>1 DEF Path
<1>6. Path(t, from, TRUE, n, p)
  BY <1>2, <1>3, <1>4, <1>5 DEF Path
<1>. QED
  BY <1>1, <1>2, <1>6 DEF Chained

LEMMA PathWeakens ==
  ASSUME NEW k, NEW from, NEW done, Chained(k, from, FALSE)
  PROVE  Chained(k, from, done)
BY DEF Chained, Path

\* When the reader is in the writer's chunk there is no other.
LEMMA PathEnds ==
  ASSUME NEW k, NEW done, Chained(k, k.writer, done)
  PROVE  /\ Chained(k, k.writer, FALSE)
         /\ \A c \in ChunkIds : c # k.writer => k.mbuf[c].msg = 0
<1>1. PICK n \in Nat : n > 0 /\ \E p \in [1 .. n -> Allocated(k)] : Path(k, k.writer, done, n, p)
  BY DEF Chained
<1>2. PICK p \in [1 .. n -> Allocated(k)] : Path(k, k.writer, done, n, p)
  BY <1>1
<1>3. n = 1
  BY <1>1, <1>2 DEF Path
<1>4. Path(k, k.writer, FALSE, n, p)
  BY <1>2, <1>3 DEF Path
<1>. QED
  BY <1>1, <1>2, <1>3, <1>4 DEF Chained, Path

-----------------------------------------------------------------------------
(* The steps of the threads that write rows.                               *)

\* A chunk that is not empty has a message.
LEMMA SomeMessage ==
  ASSUME NEW b, BufferOK(b), NEW n \in Nat, FramedBuf(b, n), b.rd = 0, b.msg > 0
  PROVE  MessagesIn(Pending(b)) # {}
<1>1. PICK e \in Nat : b.msg = 3 * e /\ Framed(b.data, e, n)
  BY DEF FramedBuf
<1>2. 0 < e /\ 0 \in Nat /\ 3 * 0 + 1 = 1
  BY <1>1
<1>3. PICK m \in 1 .. n : b.data[1] = Unit(m, 1)
  BY <1>1, <1>2 DEF Framed
<1>4. 1 \in 1 .. (b.msg - b.rd) /\ b.rd + 1 = 1
  BY <1>1, <1>2
<1>5. m \in MessagesIn(Pending(b))
  BY <1>3, <1>4, UnitAnnounces
<1>. QED
  BY <1>5

\* bw_get_write_buf() goes on to an empty chunk, unless messages are lost.
LEMMA WriteChunkPath ==
  ASSUME NEW k, ChainOK(k), \A c \in ChunkIds : Closed(k, c),
         \A c \in ChunkIds : k.mbuf[c].rd = 0,
         NEW n \in Nat, \A c \in ChunkIds : FramedBuf(k.mbuf[c], n),
         LostBy(k) = {}, NEW from, Chained(k, from, FALSE)
  PROVE  Chained(WriteChunk(k), from, FALSE)
<1>. DEFINE t == WriteChunk(k)
            c == k.next[k.writer]
<1>0. /\ Allocated(k) \subseteq ChunkIds /\ k.unallocated \in Nat
      /\ k.writer \in Allocated(k) /\ c \in Allocated(k)
  <2>1. Allocated(k) \subseteq ChunkIds /\ k.unallocated \in Nat
    BY BWAssumption DEF ChainOK, Allocated, ChunkIds
  <2>. QED
    BY <2>1 DEF ChainOK
<1>1. CASE ~NeedsNext(k)
  BY <1>1 DEF WriteChunk
<1>2. ASSUME NeedsNext(k) PROVE k.mbuf[k.writer].msg > 0
  <2>1. Wr(k.mbuf[k.writer]) >= TargetSize /\ Wr(k.mbuf[k.writer]) = k.mbuf[k.writer].msg
    BY <1>0, <1>2 DEF NeedsNext, Closed
  <2>2. k.mbuf[k.writer].msg \in Nat
    BY <1>0 DEF ChainOK, BufferOK
  <2>. QED
    BY <2>1, <2>2, BWAssumption
<1>3. CASE NeedsNext(k) /\ NextIsEmpty(k)
  <2>1. t = CarryMessage(ReuseNext(k), k.writer)
    BY <1>3 DEF WriteChunk, getNextWriteChunk
  <2>2. k.mbuf[c].msg = 0
    BY <1>0, <1>3 DEF NextIsEmpty, Closed
  <2>3. Moves(k, t, c) /\ t.next = k.next
    BY <2>1, Reusing
  <2>. HIDE DEF t, c
  <2>4. \A d \in ChunkIds : t.mbuf[d].msg = k.mbuf[d].msg
    BY <2>2, <2>3, EmptyIsOK DEF Moves
  <2>5. t.writer = c /\ Allocated(k) \subseteq Allocated(t)
    BY <2>3 DEF Moves
  <2>6. t.next[k.writer] = c
    BY <2>3 DEF c
  <2>7. Held(t, c) = {} /\ \A d \in ChunkIds : Held(t, d) \subseteq Held(k, d)
    <3>1. c \in ChunkIds
      BY <1>0 DEF c
    <3>. QED
      BY <2>3, <3>1, EmptyIsOK, EmptyHasNothing, NothingInNothing DEF Moves, Held
  <2>8. Chained(t, from, FALSE)
    <3>1. c \in ChunkIds /\ c \in Allocated(t)
      BY <1>0, <2>5 DEF c
    <3>. QED
      BY <1>0, <1>2, <1>3, <2>2, <2>3, <2>4, <2>5, <2>6, <2>7, <3>1, PathGrows
  <2>. QED
    BY <2>8 DEF t
<1>4. CASE NeedsNext(k) /\ ~NextIsEmpty(k) /\ k.unallocated > 0
  <2>. DEFINE d == NChunks - k.unallocated + 1
  <2>1. t = CarryMessage(InsertChunk(k), k.writer)
    BY <1>4 DEF WriteChunk, getNextWriteChunk
  <2>2. /\ Moves(k, t, d) /\ d \in ChunkIds /\ t.mbuf = k.mbuf
        /\ t.next[k.writer] = d /\ d \in Allocated(t)
        /\ \A e \in Allocated(k) : e # k.writer => t.next[e] = k.next[e]
    BY <1>4, <2>1, Inserting
  <2>3. d \notin Allocated(k)
    BY BWAssumption DEF ChainOK, Allocated
  <2>4. k.mbuf[d].msg = 0
    BY <2>2, <2>3, EmptyIsOK DEF ChainOK
  <2>. HIDE DEF t, d
  <2>5. t.writer = d /\ Allocated(k) \subseteq Allocated(t)
    BY <2>2 DEF Moves
  <2>50. Held(t, d) = {} /\ \A e \in ChunkIds : Held(t, e) \subseteq Held(k, e)
    BY <2>2, EmptyIsOK, EmptyHasNothing, NothingInNothing DEF Moves, Held
  <2>6. Chained(t, from, FALSE)
    BY <1>0, <1>2, <1>4, <2>2, <2>4, <2>5, <2>50, PathGrows
  <2>. QED
    BY <2>6 DEF t
<1>5. CASE NeedsNext(k) /\ ~NextIsEmpty(k) /\ k.unallocated = 0
  <2>1. MessagesIn(Pending(k.mbuf[c])) = {}
    BY <1>5 DEF LostBy, ChainFull
  <2>2. BufferOK(k.mbuf[c]) /\ FramedBuf(k.mbuf[c], n) /\ k.mbuf[c].rd = 0
    BY <1>0 DEF ChainOK
  <2>3. k.mbuf[c].msg \in Nat /\ k.mbuf[c].msg # 0
    BY <1>0, <1>5, <2>2 DEF NextIsEmpty, Closed, BufferOK
  <2>. HIDE DEF c
  <2>4. k.mbuf[c].msg > 0
    BY <2>3
  <2>. QED
    BY ONLY <2>1, <2>2, <2>4, n \in Nat, SomeMessage
<1>6. k.unallocated > 0 \/ k.unallocated = 0
  BY <1>0
<1>. QED
  BY <1>1, <1>3, <1>4, <1>5, <1>6

\* The reader is not in a chunk while rows are written.
LEMMA RowsAlone ==
  ASSUME Shape, DrainInv, NEW w \in Writers, RowStart(w) \/ RowCols(w) \/ RowEnd(w)
  PROVE  /\ active /\ ~Emptied /\ rpc # "done" /\ retval # 1
         /\ UNCHANGED <<active, retval, chunk, allsent>>
         /\ rpc' = rpc \/ rpc' = "woken"
<1>1. active /\ (lock = w \/ lock = NoOne)
  BY DEF RowStart, RowCols, RowEnd, MayWrite, Shape, LockDiscipline
<1>2. rpc \notin {"return", "done"}
  BY <1>1, BWAssumption DEF Shape, LockDiscipline, Processing, DrainInv
<1>3. UNCHANGED <<active, retval, chunk, allsent>> /\ (rpc' = rpc \/ rpc' = "woken")
  BY DEF RowStart, RowCols, RowEnd, bw_unlock_buf, Signalled, senderVars
<1>. QED
  BY <1>1, <1>2, <1>3 DEF Emptied, DrainInv

\* What is left to show of a step that writes rows.
LEMMA RowsDrain ==
  ASSUME Shape, DrainInv, NEW w \in Writers, RowStart(w) \/ RowCols(w) \/ RowEnd(w),
         \A c \in ChunkIds : q'.mbuf[c].rd = 0,
         dropped' = {} => Chained(q', chunk, FALSE)
  PROVE  DrainInv'
<1>1. Emptied' = FALSE /\ rpc' # "done" /\ retval' # 1 /\ chunk' = chunk
  BY RowsAlone DEF Emptied
<1>2. dropped' = {} => Chained(q', chunk', Emptied')
  BY <1>1
<1>. QED
  BY <1>1, <1>2 DEF DrainInv, ChunkIds

LEMMA RowStartDrain ==
  ASSUME Shape, Messages, DrainInv, NEW w \in Writers, RowStart(w)
  PROVE  DrainInv'
<1>. DEFINE k == WriteChunk(q)
            b == k.mbuf[k.writer]
            u == Unit(msgs + 1, 1)
<1>1. /\ ChainOK(k)
      /\ \/ q' = [k EXCEPT !.mbuf[k.writer] = Extend(b, u)]
         \/ q' = [k EXCEPT !.mbuf[k.writer] = ResetWrite(b)]
      /\ BufferOK(b) /\ k.writer \in Allocated(k) /\ k.writer \in ChunkIds
      /\ u \in Units
  BY RowStartEffect
<1>2. ChainOK(q) /\ \A d \in ChunkIds : Closed(q, d)
  BY FreeMeansClosed, BWAssumption DEF Shape, RowStart
<1>3. \A c \in ChunkIds : k.mbuf[c].rd = 0
  <2>1. k = q \/ \E d \in ChunkIds : Moves(q, k, d)
    BY <1>2, WriteChunkMoves
  <2>2. CASE k = q
    BY <2>2 DEF DrainInv
  <2>3. ASSUME NEW d \in ChunkIds, Moves(q, k, d)
        PROVE  \A c \in ChunkIds : k.mbuf[c].rd = 0
    <3>. HIDE DEF k
    <3>. QED
      BY <2>3, EmptyIsOK DEF Moves, DrainInv
  <2>. QED
    BY <2>1, <2>2, <2>3
<1>4. dropped' = {} => Chained(k, chunk, FALSE)
  <2>. SUFFICES ASSUME dropped' = {} PROVE Chained(k, chunk, FALSE)
    OBVIOUS
  <2>1. LostBy(q) = {} /\ dropped = {}
    BY DEF RowStart
  <2>2. Chained(q, chunk, FALSE)
    <3>1. Emptied = FALSE
      BY RowsAlone DEF Emptied
    <3>. QED
      BY <2>1, <3>1 DEF DrainInv
  <2>3. msgs \in Nat /\ \A c \in ChunkIds : FramedBuf(q.mbuf[c], msgs)
    BY BWAssumption DEF Messages
  <2>4. \A c \in ChunkIds : q.mbuf[c].rd = 0
    BY DEF DrainInv
  <2>. QED
    BY <1>2, <2>1, <2>2, <2>3, <2>4, WriteChunkPath
<1>. HIDE DEF k, u
<1>5. /\ q'.next = k.next /\ q'.writer = k.writer /\ Allocated(q') = Allocated(k)
      /\ \A c \in ChunkIds : q'.mbuf[c].msg = k.mbuf[c].msg /\ q'.mbuf[c].rd = k.mbuf[c].rd
      /\ \A c \in ChunkIds : Pending(q'.mbuf[c]) = Pending(k.mbuf[c])
  <2>. DEFINE y == Extend(b, u)
              z == ResetWrite(b)
  <2>1. /\ BufferOK(y) /\ BufferOK(z) /\ y.msg = b.msg /\ z.msg = b.msg
        /\ y.rd = b.rd /\ z.rd = b.rd /\ Pending(y) = Pending(b) /\ Pending(z) = Pending(b)
    BY <1>1, ExtendKeeps, ResetKeeps
  <2>2. q' = [k EXCEPT !.mbuf[k.writer] = y] \/ q' = [k EXCEPT !.mbuf[k.writer] = z]
    BY <1>1
  <2>. HIDE DEF y, z
  <2>3. /\ q'.next = k.next /\ q'.writer = k.writer /\ Allocated(q') = Allocated(k)
        /\ Stores(k, q', k.writer, y) \/ Stores(k, q', k.writer, z)
    BY <1>1, <2>1, <2>2, PutBuffer
  <2>4. \A c \in ChunkIds : q'.mbuf[c].msg = k.mbuf[c].msg /\ q'.mbuf[c].rd = k.mbuf[c].rd
    BY <2>1, <2>3 DEF Stores
  <2>5. \A c \in ChunkIds : Pending(q'.mbuf[c]) = Pending(k.mbuf[c])
    BY <2>1, <2>3 DEF Stores
  <2>. QED
    BY <2>3, <2>4, <2>5
<1>6. Allocated(k) \subseteq ChunkIds
  BY <1>1, BWAssumption DEF ChainOK, Allocated, ChunkIds
<1>60. OnlyNewer(k, q')
  BY <1>5 DEF OnlyNewer, Held
<1>7. dropped' = {} => Chained(q', chunk, FALSE)
  BY <1>4, <1>5, <1>6, <1>60, PathStays
<1>. QED
  BY <1>3, <1>5, <1>7, RowsDrain

LEMMA RowColsDrain ==
  ASSUME Shape, Messages, DrainInv, NEW w \in Writers, RowCols(w)
  PROVE  DrainInv'
<1>. DEFINE b == q.mbuf[wbuf]
            y == Extend(b, Unit(wmsg[w], 2))
            z == ResetWrite(b)
<1>1. \/ q' = q
      \/ /\ wbuf \in Allocated(q) /\ wbuf \in ChunkIds /\ BufferOK(b)
         /\ Unit(wmsg[w], 2) \in Units
         /\ q' = [q EXCEPT !.mbuf[wbuf] = y] \/ q' = [q EXCEPT !.mbuf[wbuf] = z]
  BY RowColsEffect
<1>2. dropped' = dropped /\ Allocated(q) \subseteq ChunkIds
  BY BWAssumption DEF RowCols, historyVars, Shape, ChainOK, Allocated, ChunkIds
<1>3. /\ q'.next = q.next /\ q'.writer = q.writer /\ Allocated(q') = Allocated(q)
      /\ \A c \in ChunkIds : q'.mbuf[c].msg = q.mbuf[c].msg /\ q'.mbuf[c].rd = q.mbuf[c].rd
  <2>1. CASE q' = q
    BY <2>1 DEF Allocated
  <2>2. CASE /\ wbuf \in Allocated(q) /\ wbuf \in ChunkIds /\ BufferOK(b)
             /\ Unit(wmsg[w], 2) \in Units
             /\ q' = [q EXCEPT !.mbuf[wbuf] = y] \/ q' = [q EXCEPT !.mbuf[wbuf] = z]
    <3>1. /\ BufferOK(y) /\ BufferOK(z) /\ y.msg = b.msg /\ z.msg = b.msg
          /\ y.rd = b.rd /\ z.rd = b.rd
      BY <2>2, ExtendKeeps, ResetKeeps
    <3>. HIDE DEF y, z
    <3>2. /\ q'.next = q.next /\ q'.writer = q.writer /\ Allocated(q') = Allocated(q)
          /\ Stores(q, q', wbuf, y) \/ Stores(q, q', wbuf, z)
      BY <2>2, <3>1, PutBuffer DEF Shape
    <3>3. \A c \in ChunkIds : q'.mbuf[c].msg = q.mbuf[c].msg /\ q'.mbuf[c].rd = q.mbuf[c].rd
      BY <3>1, <3>2 DEF Stores
    <3>. QED
      BY <3>2, <3>3
  <2>. QED
    BY <1>1, <2>1, <2>2
<1>4. dropped' = {} => Chained(q', chunk, FALSE)
  <2>1. Emptied = FALSE
    BY RowsAlone DEF Emptied
  <2>2. dropped = {} => Chained(q, chunk, FALSE)
    BY <2>1 DEF DrainInv
  <2>3. OnlyNewer(q, q')
    BY RowColsPending DEF OnlyNewer, Held
  <2>. QED
    BY <1>2, <1>3, <2>2, <2>3, PathStays
<1>5. \A c \in ChunkIds : q'.mbuf[c].rd = 0
  BY <1>3 DEF DrainInv
<1>. QED
  BY <1>4, <1>5, RowsDrain

LEMMA RowEndDrain ==
  ASSUME Shape, Messages, Numbered, DrainInv, NEW w \in Writers, RowEnd(w)
  PROVE  DrainInv'
<1>. DEFINE b == q.mbuf[wbuf]
            m == wmsg[w]
<1>1. /\ wbuf \in ChunkIds /\ wbuf = q.writer /\ BufferOK(b)
      /\ m \in 1 .. msgs /\ Unit(m, 3) \in Units /\ Partial(b, m, "end")
      /\ Allocated(q') = Allocated(q)
      /\ \A d \in ChunkIds : d # wbuf => q'.mbuf[d] = q.mbuf[d]
      /\ \/ q'.mbuf[wbuf] = BeginWrite(Extend(b, Unit(m, 3)))
         \/ q'.mbuf[wbuf] = ResetWrite(b)
  BY RowEndEffect
<1>2. q'.next = q.next /\ q'.writer = q.writer /\ dropped' = dropped
  BY DEF RowEnd, Shape, ChainOK
<1>3. FramedBuf(b, msgs) /\ msgs \in Nat
  BY <1>1, BWAssumption DEF Messages
<1>4. q'.mbuf[wbuf].rd = b.rd
  BY <1>1, <1>3, FramedCommit, ResetKeeps
<1>5. \A c \in ChunkIds : q'.mbuf[c].rd = 0
  BY <1>1, <1>4 DEF DrainInv
<1>6. Allocated(q) \subseteq ChunkIds
  BY BWAssumption DEF Shape, ChainOK, Allocated, ChunkIds
<1>7. dropped' = {} => Chained(q', chunk, FALSE)
  <2>1. Emptied = FALSE
    BY RowsAlone DEF Emptied
  <2>2. dropped = {} => Chained(q, chunk, FALSE)
    BY <2>1 DEF DrainInv
  <2>3. OnlyNewer(q, q')
    <3>. SUFFICES ASSUME NEW c \in ChunkIds, NEW y \in Held(q', c), y \notin Held(q, c)
                  PROVE  /\ c = q.writer
                         /\ \A d \in ChunkIds : d # c => \A x \in Held(q, d) : x < y
      BY DEF OnlyNewer
    <3>1. c = q.writer /\ \A x \in Completed : x < y
      BY RowEndNumbered
    <3>. QED
      BY <3>1 DEF Numbered
  <2>. QED
    BY <1>1, <1>2, <1>6, <2>2, <2>3, PathStays
<1>. QED
  BY <1>5, <1>7, RowsDrain

-----------------------------------------------------------------------------
(* The other steps.                                                        *)

\* What is left to show of a step that leaves the messages and the chain.
LEMMA QueueStays ==
  ASSUME Shape, DrainInv, dropped' = dropped, q' = q \/ SameChain(q, q'),
         Emptied' => q.mbuf[chunk'].msg = 0,
         rpc' = "done" => ~active',
         retval' = 1 => rpc' = "done",
         dropped = {} => Chained(q, chunk', Emptied'),
         (retval' = 1 /\ dropped = {}) => \A c \in ChunkIds : q.mbuf[c].msg = 0
  PROVE  DrainInv'
<1>1. /\ q'.next = q.next /\ q'.writer = q.writer /\ Allocated(q') = Allocated(q)
      /\ q'.mbuf = q.mbuf
  BY DEF SameChain, Allocated
<1>2. Allocated(q) \subseteq ChunkIds
  BY BWAssumption DEF Shape, ChainOK, Allocated, ChunkIds
<1>20. OnlyNewer(q, q')
  BY <1>1 DEF OnlyNewer, Held
<1>3. dropped' = {} => Chained(q', chunk', Emptied')
  BY <1>1, <1>2, <1>20, PathStays
<1>. QED
  BY <1>1, <1>3 DEF DrainInv, ChunkIds

LEMMA ProcessDoneDrain ==
  ASSUME Shape, Messages, Sending, DrainInv, ProcessDone
  PROVE  DrainInv'
<1>1. /\ chunk \in ChunkIds /\ q'.mbuf[chunk] = EmptyBuf /\ Allocated(q') = Allocated(q)
      /\ \A d \in ChunkIds : d # chunk => q'.mbuf[d] = q.mbuf[d]
      /\ chunk' = chunk /\ rpc' = "return" /\ rpc = "send"
      /\ BufferOK(q.mbuf[chunk]) /\ sent = q.mbuf[chunk].msg - q.mbuf[chunk].rd
      /\ Wr(q.mbuf[chunk]) = q.mbuf[chunk].msg
  BY ProcessDoneEffect
<1>2. /\ q'.next = q.next /\ q'.writer = q.writer
      /\ UNCHANGED <<dropped, retval>>
  BY DEF ProcessDone, ReaderOnly, historyVars, Shape, ChainOK
<1>3. allsent' = 1
  <2>. DEFINE b == q.mbuf[chunk]
              s == ReadSkip(b, sent)
  <2>1. b.rd \in Nat /\ b.msg \in Nat /\ b.rd + sent = b.msg
    BY <1>1 DEF BufferOK
  <2>2. s.rd = b.rd + sent /\ s.data = b.data
    BY <1>1 DEF ReadSkip, BufferOK, Buffers
  <2>3. Wr(s) = s.rd
    BY <1>1, <2>1, <2>2 DEF Wr
  <2>4. allsent' = IF Wr(s) = s.rd THEN 1 ELSE 0
    BY DEF ProcessDone
  <2>. QED
    BY <2>3, <2>4
<1>4. Emptied' = TRUE
  <2>1. 1 > 0
    OBVIOUS
  <2>. QED
    BY <1>1, <1>3, <2>1 DEF Emptied
<1>5. \A c \in ChunkIds : q'.mbuf[c].msg = IF c = chunk THEN 0 ELSE q.mbuf[c].msg
  BY <1>1, EmptyIsOK
<1>6. \A c \in ChunkIds : q'.mbuf[c].rd = 0
  BY <1>1, EmptyIsOK DEF DrainInv
<1>7. Allocated(q) \subseteq ChunkIds
  BY BWAssumption DEF Shape, ChainOK, Allocated, ChunkIds
<1>8. dropped' = {} => Chained(q', chunk', Emptied')
  <2>. SUFFICES ASSUME dropped' = {} PROVE Chained(q', chunk, TRUE)
    BY <1>1, <1>4
  <2>1. Chained(q, chunk, Emptied)
    BY <1>2 DEF DrainInv
  <2>2. \A c \in ChunkIds : Held(q', c) \subseteq Held(q, c)
    BY <1>1, EmptyIsOK, EmptyHasNothing, NothingInNothing DEF Held
  <2>. QED
    BY <1>1, <1>2, <1>5, <1>7, <2>1, <2>2, PathEmptied
<1>9. retval' # 1
  BY <1>1, <1>2 DEF DrainInv
<1>. QED
  BY <1>1, <1>5, <1>6, <1>8, <1>9 DEF DrainInv, ChunkIds

LEMMA ReaderDrain ==
  ASSUME Shape, Messages, Sending, DrainInv, ReaderStep \/ SpuriousWakeup \/ TimePasses
  PROVE  DrainInv'
<1>1. CASE ProcessDone
  BY <1>1, ProcessDoneDrain
<1>2. ASSUME ~ProcessDone
      PROVE  active' = active /\ dropped' = dropped /\ (q' = q \/ SameChain(q, q'))
  BY <1>2, ReaderEffect
<1>3. CASE ReaderTest \/ ReaderWait \/ SpuriousWakeup \/ ReaderWoken
  <2>1. /\ UNCHANGED <<chunk, retval>> /\ rpc \notin {"return", "done"}
        /\ rpc' \notin {"return", "done"} /\ Emptied = FALSE /\ Emptied' = FALSE
        /\ ~ProcessDone
    BY <1>3 DEF ReaderTest, ReaderWait, SpuriousWakeup, ReaderWoken, Emptied, ProcessDone
  <2>. QED
    BY <1>2, <2>1, QueueStays DEF DrainInv
<1>4. CASE ReaderLoop
  <2>1. /\ UNCHANGED <<chunk, retval>> /\ rpc = "loop" /\ Emptied = FALSE /\ ~ProcessDone
        /\ rpc' = IF q.mbuf[chunk].msg > q.mbuf[chunk].rd THEN "enter" ELSE "return"
    BY <1>4 DEF ReaderLoop, Emptied, ProcessDone
  <2>2. chunk \in ChunkIds
    BY BWAssumption DEF Shape, ChainOK, Allocated, ChunkIds
  <2>3. q.mbuf[chunk].msg \in Nat /\ q.mbuf[chunk].rd = 0
    BY <2>2 DEF Shape, ChainOK, BufferOK, DrainInv
  <2>4. Emptied' => q.mbuf[chunk].msg = 0
    BY <2>1, <2>3 DEF Emptied
  <2>5. dropped = {} => Chained(q, chunk, Emptied')
    BY <2>1, PathWeakens DEF DrainInv
  <2>6. retval # 1 /\ rpc' # "done"
    BY <2>1 DEF DrainInv
  <2>. QED
    BY <1>2, <2>1, <2>4, <2>5, <2>6, QueueStays
<1>5. CASE ProcessEnter \/ (ProcessSend /\ ~ProcessDone)
  <2>1. /\ UNCHANGED <<chunk, retval>> /\ rpc \in {"enter", "send"} /\ Emptied = FALSE
        /\ ~ProcessDone
        /\ rpc' = rpc \/ rpc' = "send" \/ (rpc' = "return" /\ allsent' \in {-1, -2})
    BY <1>5 DEF ProcessEnter, ProcessSend, SendFailed, Emptied, ProcessDone
  <2>2. ~(-1 > 0) /\ ~(-2 > 0)
    OBVIOUS
  <2>3. Emptied' = FALSE /\ rpc' # "done"
    BY <2>1, <2>2 DEF Emptied
  <2>. QED
    BY <1>2, <2>1, <2>3, QueueStays DEF DrainInv
<1>6. CASE ReaderNext \/ DrainNext
  <2>0. /\ rpc = "return" /\ retval # 1 /\ ~ProcessDone
        /\ (Draining => ~active)
    BY <1>6 DEF ReaderNext, DrainNext, ProcessDone, DrainInv, Draining, Shape,
                LockDiscipline, Processing
  <2>00. Emptied' = FALSE /\ rpc' # "return"
    BY <1>6 DEF ReaderNext, DrainNext, Emptied
  <2>1. CASE chunk' = q.next[chunk] /\ allsent > 0 /\ chunk # q.writer /\ retval' = retval
             /\ rpc' # "done"
    <3>1. Emptied = TRUE
      BY <2>0, <2>1 DEF Emptied
    <3>2. q.mbuf[chunk].msg = 0 /\ (dropped = {} => Chained(q, chunk, TRUE))
      BY <3>1 DEF DrainInv
    <3>3. dropped = {} => Chained(q, chunk', FALSE)
      BY <2>1, <3>2, PathShrinks
    <3>. QED
      BY <1>2, <2>0, <2>00, <2>1, <3>3, QueueStays
  <2>2. CASE chunk' = chunk /\ (allsent > 0 => chunk = q.writer)
    <3>1. dropped = {} => Chained(q, chunk, FALSE)
      <4>1. CASE allsent > 0
        <5>1. dropped = {} => Chained(q, q.writer, Emptied)
          BY <2>2, <4>1 DEF DrainInv
        <5>. QED
          BY <2>2, <4>1, <5>1, PathEnds
      <4>2. CASE ~(allsent > 0)
        <5>1. Emptied = FALSE
          BY <4>2 DEF Emptied
        <5>. QED
          BY <5>1 DEF DrainInv
      <4>. QED
        BY <4>1, <4>2
    <3>2. rpc' = "done" => ~active
      BY <1>6, <2>0 DEF ReaderNext, DrainNext
    <3>3. retval' = 1 => rpc' = "done" /\ allsent > 0
      <4>1. ~(-2 = 1)
        OBVIOUS
      <4>. QED
        BY <1>6, <2>0, <4>1 DEF ReaderNext, DrainNext
    <3>4. (retval' = 1 /\ dropped = {}) => \A c \in ChunkIds : q.mbuf[c].msg = 0
      <4>. SUFFICES ASSUME retval' = 1, dropped = {}, NEW c \in ChunkIds
                    PROVE  q.mbuf[c].msg = 0
        OBVIOUS
      <4>1. allsent > 0 /\ chunk = q.writer
        BY <2>2, <3>3
      <4>2. Emptied
        BY <2>0, <4>1 DEF Emptied
      <4>3. CASE c = q.writer
        BY <4>1, <4>2, <4>3 DEF DrainInv
      <4>4. CASE c # q.writer
        <5>1. Chained(q, q.writer, FALSE)
          BY <3>1, <4>1
        <5>. QED
          BY <4>4, <5>1, PathEnds
      <4>. QED
        BY <4>3, <4>4
    <3>5. /\ dropped' = dropped /\ (q' = q \/ SameChain(q, q'))
          /\ rpc' = "done" => ~active'
      BY <1>2, <2>0, <3>2
    <3>6. dropped = {} => Chained(q, chunk', Emptied')
      BY <2>00, <2>2, <3>1
    <3>7. (Emptied' => q.mbuf[chunk'].msg = 0) /\ (retval' = 1 => rpc' = "done")
      BY <2>00, <3>3
    <3>. QED
      BY <3>4, <3>5, <3>6, <3>7, QueueStays
  <2>. QED
    <3>1. CASE ReaderNext
      BY <2>1, <2>2, <3>1 DEF ReaderNext, MovesOn
    <3>2. CASE DrainNext
      <4>1. CASE /\ allsent > 0 /\ chunk # q.writer
                 /\ chunk' = q.next[chunk] /\ rpc' = "enter" /\ UNCHANGED retval
        BY <2>1, <4>1
      <4>2. CASE /\ allsent = 0 \/ (allsent = -1 /\ ~cooling)
                 /\ rpc' = "enter" /\ UNCHANGED <<chunk, retval>>
        BY <2>2, <4>2
      <4>3. CASE /\ allsent = -2 \/ (allsent > 0 /\ chunk = q.writer)
                 /\ retval' = allsent /\ rpc' = "done" /\ UNCHANGED chunk
        BY <2>2, <4>3
      <4>. QED
        BY <3>2, <4>1, <4>2, <4>3 DEF DrainNext
    <3>. QED
      BY <1>6, <3>1, <3>2
<1>7. CASE TimePasses
  <2>1. /\ UNCHANGED <<chunk, retval, rpc, allsent>> /\ (Emptied' = Emptied)
    BY <1>7 DEF TimePasses, Emptied
  <2>2. active' = active /\ dropped' = dropped /\ q' = q
    BY <1>7 DEF TimePasses, queueVars, historyVars
  <2>. QED
    BY <2>1, <2>2, QueueStays DEF DrainInv
<1>8. \/ ReaderTest \/ ReaderWait \/ SpuriousWakeup \/ ReaderWoken \/ ReaderLoop
      \/ ProcessEnter \/ ProcessSend \/ ProcessDone \/ ReaderNext \/ DrainNext \/ TimePasses
  BY DEF ReaderStep
<1>. QED
  BY <1>1, <1>3, <1>4, <1>5, <1>6, <1>7, <1>8

LEMMA ElsewhereDrain ==
  ASSUME Shape, DrainInv, Elsewhere
  PROVE  DrainInv'
<1>1. /\ dropped' = dropped /\ chunk' = chunk /\ (q' = q \/ SameChain(q, q'))
      /\ rpc' = rpc \/ (rpc = "wait" /\ rpc' = "woken")
  BY ElsewhereEffect
<1>2. UNCHANGED <<allsent, retval>> /\ (~active => ~active')
  BY DEF Elsewhere, MainStep, PushMeta, Started, bw_close, Joined, DestroyMPs,
         TerminationHandler, RowEndNull, NlostRead, NlostReset, vars, queueVars, senderVars
<1>3. Emptied' = Emptied
  BY <1>1, <1>2 DEF Emptied
<1>. QED
  BY <1>1, <1>2, <1>3, QueueStays DEF DrainInv

LEMMA InitDrain == Init => DrainInv
<1>. SUFFICES ASSUME Init PROVE DrainInv
  OBVIOUS
<1>1. /\ q.writer = 1 /\ q.unallocated = NChunks - 1
      /\ \A c \in ChunkIds : q.mbuf[c] = EmptyBuf
  BY DEF Init, NewQueue
<1>2. chunk = 1 /\ rpc = "test" /\ retval = 0 /\ Emptied = FALSE
  BY DEF Init, Emptied
<1>3. 1 \in Allocated(q)
  BY <1>1, BWAssumption DEF Allocated
<1>4. Chained(q, chunk, Emptied)
  <2>. DEFINE p == [i \in 1 .. 1 |-> 1]
  <2>1. p \in [1 .. 1 -> Allocated(q)]
    BY <1>3
  <2>2. Path(q, 1, FALSE, 1, p)
    BY <1>1, EmptyIsOK DEF Path
  <2>. HIDE DEF p
  <2>3. \E r \in [1 .. 1 -> Allocated(q)] : Path(q, 1, FALSE, 1, r)
    BY <2>1, <2>2
  <2>4. 1 \in Nat /\ 1 > 0
    OBVIOUS
  <2>5. Chained(q, 1, FALSE)
    BY <2>3, <2>4 DEF Chained
  <2>. QED
    BY <1>2, <2>5
<1>. QED
  BY <1>1, <1>2, <1>4, EmptyIsOK DEF DrainInv

\* The three invariants together.
DrainOK == QueueInv /\ DrainInv /\ Numbered

LEMMA DrainHolds == Spec => []DrainOK
<1>1. Init => DrainInv /\ Numbered
  BY InitDrain, InitNumbered
<1>2. QueueInv /\ DrainInv /\ Numbered /\ [Next]_vars => DrainInv' /\ Numbered'
  BY StepsSplit, RowStartDrain, RowColsDrain, RowEndDrain, ReaderDrain, ElsewhereDrain,
     NumberedKept DEF QueueInv
<1>. QED
  BY <1>1, <1>2, QueueInvHolds, PTL DEF Spec, DrainOK

\* bw_close() logs "Buffered queue fully drained" when the reader thread
\* returns 1: by then the kernel has accepted every committed message in full,
\* unless a chunk was recycled.
THEOREM DrainedMeansSent == Spec => []DrainedUntilLoss
<1>1. DrainOK => DrainedUntilLoss
  <2>. SUFFICES ASSUME QueueInv, DrainInv, retval = 1, dropped = {}
                PROVE  Completed \subseteq SentMessages
    BY DEF DrainedUntilLoss, DrainOK
  <2>1. \A c \in ChunkIds : MessagesIn(Pending(q.mbuf[c])) = {}
    <3>. SUFFICES ASSUME NEW c \in ChunkIds PROVE MessagesIn(Pending(q.mbuf[c])) = {}
      OBVIOUS
    <3>1. BufferOK(q.mbuf[c]) /\ q.mbuf[c].rd = q.mbuf[c].msg
      BY DEF QueueInv, Shape, ChainOK, DrainInv
    <3>. QED
      BY <3>1, EmptyHasNothing, NothingInNothing
  <2>2. QueuedMessages = {}
    BY <2>1 DEF QueuedMessages
  <2>. QED
    BY <2>2 DEF QueueInv, NothingVanishes
<1>. QED
  BY <1>1, DrainHolds, PTL

=============================================================================
