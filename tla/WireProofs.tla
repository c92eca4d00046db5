----------------------------- MODULE WireProofs ------------------------------
(***************************************************************************)
(* What net_stream.c and file_stream.c have handed to the kernel: until    *)
(* the first loss lib/client/buffered_writer.c sends messages in the order *)
(* in which they were committed, connection after connection, whatever was *)
(* sent again after a failure; metadata comes first; connections are well  *)
(* framed.                                                                 *)
(***************************************************************************)
EXTENDS DrainProofs, NaturalsInduction, WellFoundedInduction

\* Part r of message m is at position i of connection c.
PartAt(z, m, r, c, i) ==
  c \in 1 .. Len(z) /\ i \in 1 .. Len(z[c]) /\ z[c][i] = Unit(m, r)

Starts(z, m, c, i) == PartAt(z, m, 1, c, i)

\* One position on the wire is before the other.
Before(c, i, d, j) == c < d \/ (c = d /\ i < j)

\* Only headers and parts of committed messages are sent.
OnlyCommitted ==
  \A c \in 1 .. Len(stream.wire) : \A i \in 1 .. Len(stream.wire[c]) :
    \/ IsHeader(stream.wire[c][i])
    \/ \E y \in Completed, r \in {1, 2, 3} : stream.wire[c][i] = Unit(y, r)

\* No part of a message is sent before an older message has started, and none
\* is sent in full before an older one is there in full.
WireInOrder ==
  /\ OnlyCommitted
  /\ dropped = {} =>
       \A x \in Completed : \A y \in Nat : x < y =>
         /\ \A r \in {1, 2, 3} : \A c, i \in Nat : PartAt(stream.wire, y, r, c, i) =>
              \E d, j \in Nat : Starts(stream.wire, x, d, j) /\ Before(d, j, c, i)
         /\ y \in SentMessages => x \in SentMessages

-----------------------------------------------------------------------------
(* What processChunk() sends.                                              *)

LEMMA ReadersChunk ==
  ASSUME DrainOK
  PROVE  /\ Completed \subseteq Nat
         /\ chunk \in ChunkIds /\ BufferOK(q.mbuf[chunk]) /\ q.mbuf[chunk].rd = 0
         /\ Held(q, chunk) \subseteq Completed
<1>1. Completed \subseteq Nat
  BY DEF DrainOK, QueueInv, Messages, Completed
<1>2. chunk \in ChunkIds
  BY BWAssumption DEF DrainOK, QueueInv, Shape, ChainOK, Allocated, ChunkIds
<1>. QED
  BY <1>1, <1>2 DEF DrainOK, QueueInv, Shape, ChainOK, DrainInv, Numbered

\* A message that is older than one of the reader's chunk is there as well, or
\* has been sent.
LEMMA OlderIsHere ==
  ASSUME DrainOK, dropped = {}, rpc = "send", NEW x \in Completed,
         NEW y \in Held(q, chunk), x < y
  PROVE  x \in SentMessages \/ x \in Held(q, chunk)
<1>. SUFFICES ASSUME x \notin SentMessages PROVE x \in Held(q, chunk)
  OBVIOUS
<1>1. PICK c \in ChunkIds : x \in Held(q, c)
  BY DEF DrainOK, QueueInv, NothingVanishes, QueuedMessages, Held
<1>2. Chained(q, chunk, FALSE)
  BY DEF DrainOK, DrainInv, Emptied
<1>3. PICK n \in Nat : n > 0 /\ \E p \in [1 .. n -> Allocated(q)] : Path(q, chunk, FALSE, n, p)
  BY <1>2 DEF Chained
<1>4. PICK p \in [1 .. n -> Allocated(q)] : Path(q, chunk, FALSE, n, p)
  BY <1>3
<1>5. q.mbuf[c].msg # 0
  <2>1. BufferOK(q.mbuf[c]) /\ q.mbuf[c].rd = 0
    BY DEF DrainOK, QueueInv, Shape, ChainOK, DrainInv
  <2>. QED
    BY <1>1, <2>1, EmptyHasNothing, NothingInNothing DEF Held
<1>6. PICK j \in 1 .. n : p[j] = c
  BY <1>4, <1>5 DEF Path
<1>7. 1 \in 1 .. n /\ p[1] = chunk
  BY <1>3, <1>4 DEF Path
<1>8. x \in Nat /\ y \in Nat
  BY ReadersChunk
<1>9. ~(1 < j)
  BY <1>1, <1>4, <1>6, <1>7, <1>8 DEF Path
<1>. QED
  BY <1>1, <1>6, <1>7, <1>9

\* Where the messages of the reader's chunk are: an older one is in front of a
\* newer one, in full.
LEMMA OlderIsInFront ==
  ASSUME DrainOK, NEW x \in Held(q, chunk), NEW y \in Nat, NEW r \in {1, 2, 3},
         NEW k \in 1 .. q.mbuf[chunk].msg, q.mbuf[chunk].data[k] = Unit(y, r), x < y
  PROVE  \E j \in Nat : 1 <= j /\ j + 2 < k /\ At(q.mbuf[chunk].data, j, x)
<1>. DEFINE b == q.mbuf[chunk]
            d == b.data
<1>1. BufferOK(b) /\ b.rd = 0 /\ FramedBuf(b, msgs) /\ msgs \in Nat /\ x \in Nat
      /\ InOrder(Pending(b)) /\ x \in MessagesIn(Pending(b))
  <2>1. chunk \in ChunkIds /\ BufferOK(b) /\ b.rd = 0 /\ x \in Nat
    BY ReadersChunk
  <2>2. FramedBuf(b, msgs) /\ msgs \in Nat
    BY <2>1, BWAssumption DEF DrainOK, QueueInv, Messages
  <2>3. InOrder(Pending(b)) /\ x \in MessagesIn(Pending(b))
    BY <2>1 DEF DrainOK, Numbered, Held
  <2>. QED
    BY <2>1, <2>2, <2>3
<1>2. PICK e \in Nat : b.msg = 3 * e /\ Framed(d, e, msgs)
  BY <1>1 DEF FramedBuf
<1>3. \A i \in 1 .. b.msg : i \in 1 .. Len(Pending(b)) /\ Pending(b)[i] = d[i]
  <2>1. /\ Len(Pending(b)) = b.msg - b.rd
        /\ \A i \in 1 .. (b.msg - b.rd) : Pending(b)[i] = b.data[b.rd + i]
    BY <1>1, PendingUnits
  <2>2. b.msg \in Nat /\ b.msg - b.rd = b.msg /\ \A i \in 1 .. b.msg : b.rd + i = i
    BY <1>1 DEF BufferOK
  <2>. QED
    BY <2>1, <2>2
<1>4. PICK j \in Nat : 3 * j + 3 <= b.msg /\ At(d, 3 * j + 1, x)
  BY <1>1, MessagePlace
<1>5. PICK l \in Nat : k = 3 * l + 1 \/ k = 3 * l + 2 \/ k = 3 * l + 3
  <2>1. k \in Nat /\ k > 0
    BY <1>1 DEF BufferOK
  <2>. QED
    BY <2>1, ThreeWays
<1>6. l < e
  BY <1>2, <1>5
<1>7. PICK m \in 1 .. msgs : /\ d[3 * l + 1] = Unit(m, 1) /\ d[3 * l + 2] = Unit(m, 2)
                             /\ d[3 * l + 3] = Unit(m, 3)
  BY <1>2, <1>6 DEF Framed
<1>8. m = y
  BY <1>5, <1>7, UnitsDiffer
<1>9. 3 * l + 1 \in 1 .. b.msg /\ 3 * j + 1 \in 1 .. b.msg
  BY <1>2, <1>4, <1>6
<1>10. ~(l <= j)
  <2>1. CASE l = j
    <3>1. Unit(x, 1) = Unit(y, 1)
      BY <1>4, <1>7, <1>8, <2>1 DEF At
    <3>2. x = y
      BY <3>1, UnitsDiffer
    <3>. QED
      BY <1>1, <3>2
  <2>2. CASE l < j
    <3>1. 3 * l + 1 < 3 * j + 1
      BY <2>2
    <3>2. Pending(b)[3 * l + 1] = Unit(y, 1) /\ Pending(b)[3 * j + 1] = Unit(x, 1)
      BY <1>3, <1>4, <1>7, <1>8, <1>9 DEF At
    <3>3. y < x
      BY <1>1, <1>3, <1>9, <3>1, <3>2 DEF InOrder
    <3>. QED
      BY <1>1, <3>3
  <2>. QED
    BY <2>1, <2>2
<1>11. 3 * j + 1 \in Nat /\ 1 <= 3 * j + 1 /\ (3 * j + 1) + 2 < k
  BY <1>5, <1>10
<1>. QED
  BY <1>4, <1>11

\* The reader's chunk holds parts of committed messages.
LEMMA ChunkUnits ==
  ASSUME DrainOK, NEW k \in 1 .. q.mbuf[chunk].msg
  PROVE  \E y \in Nat, r \in {1, 2, 3} : q.mbuf[chunk].data[k] = Unit(y, r)
<1>. DEFINE b == q.mbuf[chunk]
<1>1. BufferOK(b) /\ FramedBuf(b, msgs) /\ msgs \in Nat
  BY ReadersChunk, BWAssumption DEF DrainOK, QueueInv, Messages
<1>2. PICK e \in Nat : b.msg = 3 * e /\ Framed(b.data, e, msgs)
  BY <1>1 DEF FramedBuf
<1>3. PICK l \in Nat : k = 3 * l + 1 \/ k = 3 * l + 2 \/ k = 3 * l + 3
  <2>1. k \in Nat /\ k > 0
    BY <1>1 DEF BufferOK
  <2>. QED
    BY <2>1, ThreeWays
<1>4. l < e
  BY <1>2, <1>3
<1>5. PICK m \in 1 .. msgs : /\ b.data[3 * l + 1] = Unit(m, 1)
                             /\ b.data[3 * l + 2] = Unit(m, 2)
                             /\ b.data[3 * l + 3] = Unit(m, 3)
  BY <1>2, <1>4 DEF Framed
<1>6. m \in Nat
  BY <1>1, <1>5
<1>. QED
  BY <1>3, <1>5, <1>6

LEMMA ProcessSendWrites ==
  ASSUME Shape, Messages, Sending, ProcessSend
  PROVE  \E n \in Int : /\ AddsBehindHeader(stream.wire, stream'.wire, n)
                        /\ Announced(stream, Header(meta_buf), stream', n)
                        /\ n > 0 => /\ sent' = sent + n /\ UNCHANGED <<q, rpc, chunk>>
                                    /\ Connected(stream')
<1>. DEFINE b == q.mbuf[chunk]
            buf == SubSeq(b.data, b.rd + sent + 1, b.rd + size)
<1>1. /\ size = b.msg - b.rd /\ sent \in 0 .. size
  BY DEF Sending, ProcessSend
<1>2. BufferOK(b)
  BY BWAssumption DEF Shape, ChainOK, Allocated, ChunkIds
<1>3. /\ b.data \in Seq(Units) /\ b.rd + sent \in Nat /\ size - sent \in Nat
      /\ (b.rd + sent) + (size - sent) = b.rd + size
      /\ (b.rd + sent) + (size - sent) <= Len(b.data)
  <2>1. b.data \in Seq(Units) /\ b.rd \in Nat /\ b.msg \in Nat /\ b.rd <= b.msg
        /\ b.msg <= Len(b.data)
    BY <1>2 DEF BufferOK, Wr
  <2>2. Len(b.data) \in Nat
    BY <2>1
  <2>3. sent \in Nat /\ size \in Nat /\ sent <= size /\ b.rd + size = b.msg
    BY <1>1, <2>1
  <2>4. /\ b.rd + sent \in Nat /\ size - sent \in Nat
        /\ (b.rd + sent) + (size - sent) = b.rd + size
    BY <2>1, <2>3
  <2>. QED
    BY <2>1, <2>3, <2>4
<1>4. buf \in Seq(Units)
  BY <1>3, SubSeqOf
<1>5. PICK o \in outStream_write(stream, buf, Header(meta_buf)) :
        /\ stream' = o.stream
        /\ o.ret > 0 => sent' = sent + o.ret /\ UNCHANGED <<q, rpc>>
  BY DEF ProcessSend
<1>6. Writes(stream, buf, Header(meta_buf), o)
  BY <1>4, WriteEffect DEF Sending, Messages
<1>. QED
  BY <1>5, <1>6 DEF Writes, ProcessSend

\* What is new on the wire, but for headers, is at the end of the connection
\* that carries the beginning of the reader's chunk: its first s units, from
\* position o + 1.
Carries(z, o, s) ==
  LET w == z[Len(z)]
  IN  /\ o \in Nat /\ s \in 1 .. q.mbuf[chunk].msg /\ o + s = Len(w)
      /\ \A k \in 1 .. s : w[o + k] = q.mbuf[chunk].data[k]

LEMMA NewOnWire ==
  ASSUME DrainOK, ProcessSend,
         NEW c \in 1 .. Len(stream'.wire), NEW i \in 1 .. Len(stream'.wire[c]),
         c <= Len(stream.wire) => i > Len(stream.wire[c]), ~IsHeader(stream'.wire[c][i])
  PROVE  /\ c = Len(stream'.wire)
         /\ \E o, s \in Nat : Carries(stream'.wire, o, s) /\ i > o
<1>. DEFINE b == q.mbuf[chunk]
            z == stream'.wire
<1>0. BufferOK(b) /\ b.rd = 0 /\ Shape /\ Messages /\ Sending
  BY ReadersChunk DEF DrainOK, QueueInv
<1>1. Sending'
  BY <1>0, ProcessSendSending
<1>2. z \in Seq(Seq(Units)) /\ z[c] \in Seq(Units)
  BY <1>1 DEF Sending, StreamOK
<1>3. Len(z) \in Nat /\ Len(z[c]) \in Nat
  BY <1>2
<1>4. PICK n \in Int : /\ AddsBehindHeader(stream.wire, z, n)
                       /\ n > 0 => sent' = sent + n /\ UNCHANGED <<q, rpc, chunk>>
  BY <1>0, ProcessSendWrites
<1>5. c = Len(z) /\ i > Len(z[c]) - n
  BY <1>4 DEF AddsBehindHeader
<1>6. n > 0
  BY <1>3, <1>5
<1>7. /\ sent \in 0 .. size /\ size = b.msg /\ size \in Nat /\ sent' = sent + n
      /\ UNCHANGED <<q, rpc, chunk>> /\ rpc = "send"
  <2>1. b.msg \in Nat /\ b.msg - b.rd = b.msg
    BY <1>0 DEF BufferOK
  <2>2. rpc = "send"
    BY DEF ProcessSend
  <2>. QED
    BY <1>0, <1>4, <1>6, <2>1, <2>2 DEF Sending
<1>8. /\ sent' \in 0 .. b.msg /\ sent' > 0
      /\ EndsWith(stream', SubSeq(b.data, b.rd + 1, b.rd + sent'))
  <2>1. sent' > 0
    BY <1>6, <1>7
  <2>2. sent' \in 0 .. (b.msg - b.rd)
    BY <1>1, <1>7 DEF Sending
  <2>3. b.msg - b.rd = b.msg
    BY <1>0 DEF BufferOK
  <2>. QED
    BY <1>1, <1>7, <2>1, <2>2, <2>3 DEF Sending
<1>. DEFINE u == SubSeq(b.data, b.rd + 1, b.rd + sent')
            s == sent'
<1>9. s \in Nat /\ s \in 1 .. b.msg /\ n <= s
  BY <1>6, <1>7, <1>8
<1>10. u \in Seq(Units) /\ Len(u) = s /\ \A k \in 1 .. s : u[k] = b.data[k]
  <2>1. b.data \in Seq(Units) /\ b.rd + s <= Len(b.data) /\ b.rd \in Nat
        /\ \A k \in 1 .. s : b.rd + k = k
    BY <1>0, <1>9 DEF BufferOK, Wr
  <2>2. /\ u \in Seq(Units) /\ Len(u) = s
        /\ \A k \in 1 .. s : u[k] = b.data[b.rd + k]
    BY <1>9, <2>1, SubSeqOf
  <2>. QED
    BY <2>1, <2>2
<1>11. PICK w \in Seq(Units) : z[Len(z)] = w \o u
  BY <1>8 DEF EndsWith
<1>. HIDE DEF u, s, b
<1>. DEFINE o == Len(w)
<1>12. o \in Nat /\ Len(w \o u) = o + s
  <2>1. Len(w) \in Nat /\ Len(u) = s /\ w \in Seq(Units) /\ u \in Seq(Units)
    BY <1>10, <1>11
  <2>2. Len(w \o u) = Len(w) + Len(u)
    BY <2>1, ConcatProperties
  <2>. QED
    BY <2>1, <2>2
<1>13. \A k \in 1 .. s : (w \o u)[o + k] = b.data[k]
  <2>. SUFFICES ASSUME NEW k \in 1 .. s PROVE (w \o u)[o + k] = b.data[k]
    OBVIOUS
  <2>1. o + k \in 1 .. (Len(w) + Len(u)) /\ ~(o + k <= Len(w)) /\ o + k - Len(w) = k
    BY <1>9, <1>10, <1>12
  <2>2. (w \o u)[o + k] = u[k]
    BY <1>10, <2>1, ConcatProperties
  <2>. QED
    BY <1>10, <2>2
<1>. HIDE DEF o, z
<1>14. Carries(z, o, s)
  BY <1>9, <1>11, <1>12, <1>13 DEF Carries, b
<1>15. i > o
  <2>1. i > (o + s) - n
    BY <1>5, <1>11, <1>12
  <2>. QED
    BY <1>3, <1>9, <1>12, <2>1
<1>. QED
  BY <1>5, <1>9, <1>12, <1>14, <1>15 DEF z

\* A unit of the reader's chunk that is on the wire has those of all older
\* messages of the chunk before it.
LEMMA InFrontOnWire ==
  ASSUME DrainOK, NEW z, NEW o \in Nat, NEW s \in Nat, Carries(z, o, s),
         NEW i \in 1 .. Len(z[Len(z)]), i > o,
         NEW y \in Nat, NEW r \in {1, 2, 3}, z[Len(z)][i] = Unit(y, r)
  PROVE  /\ y \in Held(q, chunk)
         /\ \A x \in Held(q, chunk) : x < y =>
              \E j \in 1 .. (Len(z[Len(z)]) - 2) : j < i /\ At(z[Len(z)], j, x)
<1>. DEFINE b == q.mbuf[chunk]
            d == b.data
            w == z[Len(z)]
            k == i - o
<1>1. BufferOK(b) /\ b.rd = 0 /\ b.msg \in Nat
  BY ReadersChunk DEF BufferOK
<1>2. s \in 1 .. b.msg /\ o + s = Len(w) /\ \A l \in 1 .. s : w[o + l] = d[l]
  BY DEF Carries
<1>3. k \in 1 .. s /\ k \in 1 .. b.msg /\ o + k = i /\ b.rd + k = k /\ b.msg - b.rd = b.msg
  BY <1>1, <1>2
<1>4. d[k] = Unit(y, r)
  BY <1>2, <1>3
<1>. HIDE DEF k
<1>5. y \in Held(q, chunk)
  <2>1. k \in 1 .. (b.msg - b.rd) /\ b.data[b.rd + k] = Unit(y, r)
    BY <1>3, <1>4
  <2>. QED
    BY <1>1, <2>1, UnitAnnounces DEF Held
<1>6. ASSUME NEW x \in Held(q, chunk), x < y
      PROVE  \E j \in 1 .. (Len(w) - 2) : j < i /\ At(w, j, x)
  <2>1. PICK j \in Nat : 1 <= j /\ j + 2 < k /\ At(d, j, x)
    BY <1>3, <1>4, <1>6, OlderIsInFront
  <2>2. /\ j \in 1 .. s /\ j + 1 \in 1 .. s /\ j + 2 \in 1 .. s
        /\ o + j \in 1 .. (Len(w) - 2) /\ o + j < i
        /\ o + (j + 1) = (o + j) + 1 /\ o + (j + 2) = (o + j) + 2
    BY <1>1, <1>2, <1>3, <2>1
  <2>3. At(w, o + j, x)
    BY <1>2, <2>1, <2>2 DEF At
  <2>. QED
    BY <2>2, <2>3
<1>. QED
  BY <1>5, <1>6

\* What was sent is on the wire.
LEMMA SentHasStarted ==
  ASSUME Sending, NEW m \in SentMessages
  PROVE  m \in Nat /\ \E c, i \in Nat : Starts(stream.wire, m, c, i)
<1>1. m \in 1 .. MaxMsgs
  BY SentAt
<1>2. PICK c \in 1 .. Len(stream.wire) : \E i \in 1 .. (Len(stream.wire[c]) - 2) :
             At(stream.wire[c], i, m)
  BY SentAt
<1>3. PICK i \in 1 .. (Len(stream.wire[c]) - 2) : At(stream.wire[c], i, m)
  BY <1>2
<1>4. stream.wire[c] \in Seq(Units) /\ c \in Nat
  BY <1>2 DEF Sending, StreamOK
<1>5. Len(stream.wire[c]) \in Nat
  BY <1>4
<1>6. i \in 1 .. Len(stream.wire[c]) /\ i \in Nat
  BY <1>3, <1>5
<1>7. Starts(stream.wire, m, c, i)
  BY <1>2, <1>3, <1>6 DEF Starts, PartAt, At
<1>. QED
  <2>1. m \in Nat
    BY <1>1, BWAssumption
  <2>2. c \in Nat /\ i \in Nat
    BY <1>4, <1>6
  <2>. QED
    BY <1>7, <2>1, <2>2

\* Position i of connection c was not there before.
Fresh(a, c, i) == c <= Len(a) => i > Len(a[c])

\* What was on the wire is still there, before all that is new.
LEMMA OldBeforeNew ==
  ASSUME NEW a \in Seq(Seq(Units)), NEW z \in Seq(Seq(Units)), Grows(a, z),
         NEW m, NEW d \in Nat, NEW j \in Nat, Starts(a, m, d, j)
  PROVE  /\ Starts(z, m, d, j)
         /\ \A i \in Nat : Fresh(a, Len(z), i) => Before(d, j, Len(z), i)
<1>1. d \in 1 .. Len(a) /\ j \in 1 .. Len(a[d]) /\ a[d][j] = Unit(m, 1)
  BY DEF Starts, PartAt
<1>2. Len(a) \in Nat /\ Len(z) \in Nat /\ Len(a) <= Len(z) /\ d \in 1 .. Len(z)
  BY <1>1 DEF Grows
<1>3. a[d] \in Seq(Units) /\ z[d] \in Seq(Units)
  BY <1>1, <1>2
<1>4. Len(a[d]) \in Nat /\ Len(z[d]) \in Nat
  BY <1>3
<1>5. Len(a[d]) <= Len(z[d]) /\ z[d][j] = a[d][j]
  BY <1>1 DEF Grows
<1>6. j \in 1 .. Len(z[d])
  BY <1>1, <1>4, <1>5
<1>7. ASSUME NEW i \in Nat, Fresh(a, Len(z), i) PROVE Before(d, j, Len(z), i)
  <2>1. CASE d = Len(z)
    <3>1. i > Len(a[d])
      BY <1>1, <1>2, <1>7, <2>1 DEF Fresh
    <3>. QED
      BY <1>1, <1>4, <2>1, <3>1 DEF Before
  <2>2. CASE d # Len(z)
    BY <1>2, <2>2 DEF Before
  <2>. QED
    BY <2>1, <2>2
<1>. QED
  BY <1>1, <1>2, <1>5, <1>6, <1>7 DEF Starts, PartAt

LEMMA OldOrNew ==
  ASSUME NEW a \in Seq(Seq(Units)), NEW z \in Seq(Seq(Units)), Grows(a, z),
         NEW c \in 1 .. Len(z), NEW i \in 1 .. Len(z[c])
  PROVE  \/ c \in 1 .. Len(a) /\ i \in 1 .. Len(a[c]) /\ z[c][i] = a[c][i]
         \/ Fresh(a, c, i)
<1>. SUFFICES ASSUME ~Fresh(a, c, i)
              PROVE  c \in 1 .. Len(a) /\ i \in 1 .. Len(a[c]) /\ z[c][i] = a[c][i]
  OBVIOUS
<1>1. Len(a) \in Nat /\ c \in 1 .. Len(a) /\ ~(i > Len(a[c]))
  BY DEF Fresh
<1>2. a[c] \in Seq(Units) /\ z[c] \in Seq(Units)
  BY <1>1
<1>3. Len(a[c]) \in Nat /\ Len(z[c]) \in Nat
  BY <1>2
<1>4. i \in 1 .. Len(a[c])
  BY <1>1, <1>3
<1>5. z[c][i] = a[c][i]
  BY <1>1, <1>4 DEF Grows
<1>. QED
  BY <1>1, <1>4, <1>5

LEMMA SentAtNext ==
  ASSUME Sending', NEW m
  PROVE  m \in SentMessages' <=>
           /\ m \in 1 .. MaxMsgs
           /\ \E c \in 1 .. Len(stream'.wire) : \E i \in 1 .. (Len(stream'.wire[c]) - 2) :
                At(stream'.wire[c], i, m)
<1>. DEFINE z == stream'.wire
<1>1. ASSUME NEW c \in 1 .. Len(z), NEW i \in 1 .. (Len(z[c]) - 2)
      PROVE  (\A p \in 1 .. LastPart : z[c][i + p - 1] = Unit(m, p)) <=> At(z[c], i, m)
  <2>1. z[c] \in Seq(Units)
    BY DEF Sending, StreamOK
  <2>2. Len(z[c]) \in Nat
    BY <2>1
  <2>3. i + 1 - 1 = i /\ i + 2 - 1 = i + 1 /\ i + 3 - 1 = i + 2
    BY <2>2
  <2>4. \A p \in 1 .. 3 : p = 1 \/ p = 2 \/ p = 3
    OBVIOUS
  <2>. QED
    BY <2>3, <2>4 DEF At, LastPart
<1>. QED
  BY <1>1 DEF SentMessages

\* A write() keeps the order: what it adds is of the reader's chunk, and every
\* older message is before it there or was sent before.
LEMMA SendInOrder ==
  ASSUME DrainOK, WireInOrder, ProcessSend
  PROVE  WireInOrder'
<1>. DEFINE a == stream.wire
            z == stream'.wire
<1>1. Shape /\ Messages /\ Sending /\ Sending' /\ Grows(a, z)
  BY ProcessSendSending DEF DrainOK, QueueInv
<1>2. a \in Seq(Seq(Units)) /\ z \in Seq(Seq(Units))
  BY <1>1 DEF Sending, StreamOK
<1>3. UNCHANGED <<completed, dropped>> /\ Completed' = Completed /\ rpc = "send"
  BY DEF ProcessSend, ReaderOnly, historyVars, Completed
<1>4. ASSUME NEW y \in Nat, NEW c \in Nat, NEW i \in Nat, NEW r \in {1, 2, 3},
             c \in 1 .. Len(z), i \in 1 .. Len(z[c]), z[c][i] = Unit(y, r), Fresh(a, c, i)
      PROVE  /\ c = Len(z) /\ y \in Held(q, chunk)
             /\ \A x \in Held(q, chunk) : x < y =>
                  \E j \in 1 .. (Len(z[c]) - 2) : j < i /\ At(z[c], j, x)
  <2>1. ~IsHeader(z[c][i])
    BY <1>4 DEF IsHeader, Unit
  <2>2. c = Len(z) /\ \E o, s \in Nat : Carries(z, o, s) /\ i > o
    BY <1>4, <2>1, NewOnWire DEF Fresh
  <2>3. PICK o, s \in Nat : Carries(z, o, s) /\ i > o
    BY <2>2
  <2>. HIDE DEF z
  <2>. QED
    BY <1>4, <2>2, <2>3, InFrontOnWire
<1>. HIDE DEF a, z
<1>5. ASSUME NEW c \in 1 .. Len(z), NEW i \in 1 .. Len(z[c]), ~IsHeader(z[c][i])
      PROVE  \E y \in Completed, r \in {1, 2, 3} : z[c][i] = Unit(y, r)
  <2>1. CASE c \in 1 .. Len(a) /\ i \in 1 .. Len(a[c]) /\ z[c][i] = a[c][i]
    BY <1>5, <2>1 DEF WireInOrder, OnlyCommitted, a
  <2>2. CASE Fresh(a, c, i)
    <3>1. c = Len(z) /\ \E o, s \in Nat : Carries(z, o, s) /\ i > o
      BY <1>5, <2>2, NewOnWire DEF Fresh, a, z
    <3>2. PICK o, s \in Nat : Carries(z, o, s) /\ i > o
      BY <3>1
    <3>3. /\ s \in 1 .. q.mbuf[chunk].msg /\ o + s = Len(z[c])
          /\ \A k \in 1 .. s : z[c][o + k] = q.mbuf[chunk].data[k]
      BY <3>1, <3>2 DEF Carries
    <3>4. i - o \in 1 .. s /\ i - o \in 1 .. q.mbuf[chunk].msg /\ o + (i - o) = i
      <4>1. q.mbuf[chunk].msg \in Nat
        BY ReadersChunk DEF BufferOK
      <4>. QED
        BY <3>2, <3>3, <4>1
    <3>5. PICK y \in Nat, r \in {1, 2, 3} : z[c][i] = Unit(y, r)
      BY <3>3, <3>4, ChunkUnits, ZenonT(30)
    <3>6. y \in Held(q, chunk)
      <4>1. c \in Nat /\ i \in Nat
        OBVIOUS
      <4>. QED
        BY <1>4, <2>2, <3>5, <4>1
    <3>. QED
      BY <3>5, <3>6, ReadersChunk
  <2>. QED
    BY <1>1, <1>2, <2>1, <2>2, OldOrNew
<1>7. ASSUME dropped = {}, NEW x \in Completed, NEW y \in Nat, x < y
      PROVE  /\ \A r \in {1, 2, 3} : \A c, i \in Nat : PartAt(z, y, r, c, i) =>
                  \E d, j \in Nat : Starts(z, x, d, j) /\ Before(d, j, c, i)
             /\ y \in SentMessages' => x \in SentMessages'
  <2>1. \A r \in {1, 2, 3} : \A c, i \in Nat : PartAt(a, y, r, c, i) =>
          \E d, j \in Nat : Starts(a, x, d, j) /\ Before(d, j, c, i)
    BY <1>7 DEF WireInOrder, a
  <2>2. y \in SentMessages => x \in SentMessages
    BY <1>7 DEF WireInOrder
  <2>3. ASSUME NEW r \in {1, 2, 3}, NEW c \in Nat, NEW i \in Nat, PartAt(z, y, r, c, i)
        PROVE  \E d, j \in Nat : Starts(z, x, d, j) /\ Before(d, j, c, i)
    <3>0. c \in 1 .. Len(z) /\ i \in 1 .. Len(z[c]) /\ z[c][i] = Unit(y, r)
      BY <2>3 DEF PartAt
    <3>1. CASE PartAt(a, y, r, c, i)
      <4>1. PICK d, j \in Nat : Starts(a, x, d, j) /\ Before(d, j, c, i)
        BY <2>1, <3>1
      <4>2. Starts(z, x, d, j)
        BY <1>1, <1>2, <4>1, OldBeforeNew
      <4>. QED
        BY <4>1, <4>2
    <3>2. CASE Fresh(a, c, i)
      <4>1. c = Len(z) /\ y \in Held(q, chunk)
        BY <1>4, <3>0, <3>2
      <4>2. x \in SentMessages \/ x \in Held(q, chunk)
        BY <1>3, <1>7, <4>1, OlderIsHere
      <4>3. CASE x \in SentMessages
        <5>1. PICK d, j \in Nat : Starts(a, x, d, j)
          BY <1>1, <4>3, SentHasStarted DEF a
        <5>2. Starts(z, x, d, j) /\ Before(d, j, c, i)
          BY <1>1, <1>2, <3>2, <4>1, <5>1, OldBeforeNew
        <5>. QED
          BY <5>1, <5>2
      <4>4. CASE x \in Held(q, chunk)
        <5>1. PICK j \in 1 .. (Len(z[c]) - 2) : j < i /\ At(z[c], j, x)
          BY <1>4, <1>7, <3>0, <3>2, <4>4
        <5>2. c \in 1 .. Len(z) /\ z[c] \in Seq(Units)
          BY <1>2, <3>0
        <5>3. Len(z[c]) \in Nat
          BY <5>2
        <5>4. j \in Nat /\ j \in 1 .. Len(z[c])
          BY <5>1, <5>3
        <5>5. Starts(z, x, c, j) /\ Before(c, j, c, i)
          BY <5>1, <5>2, <5>4 DEF Starts, PartAt, At, Before
        <5>. QED
          BY <5>4, <5>5
      <4>. QED
        BY <4>2, <4>3, <4>4
    <3>3. PartAt(a, y, r, c, i) \/ Fresh(a, c, i)
      BY <1>1, <1>2, <3>0, OldOrNew DEF PartAt
    <3>. QED
      BY <3>1, <3>2, <3>3
  <2>4. ASSUME y \in SentMessages' PROVE x \in SentMessages'
    <3>1. SentMessages \subseteq SentMessages'
      BY <1>1, SentStays DEF a, z
    <3>2. \A m : m \in SentMessages' <=>
            /\ m \in 1 .. MaxMsgs
            /\ \E c \in 1 .. Len(z) : \E i \in 1 .. (Len(z[c]) - 2) : At(z[c], i, m)
      BY <1>1, SentAtNext DEF z
    <3>3. PICK c \in 1 .. Len(z) : \E i \in 1 .. (Len(z[c]) - 2) : At(z[c], i, y)
      BY <2>4, <3>2
    <3>4. PICK i \in 1 .. (Len(z[c]) - 2) : At(z[c], i, y)
      BY <3>3
    <3>5. z[c] \in Seq(Units)
      BY <1>2
    <3>6. Len(z[c]) \in Nat
      BY <3>5
    <3>7. i \in Nat /\ i + 2 \in 1 .. Len(z[c]) /\ z[c][i + 2] = Unit(y, 3) /\ c \in Nat
          /\ i + 2 \in Nat
      BY <3>4, <3>6 DEF At
    <3>8. CASE Fresh(a, c, i + 2)
      <4>1. /\ c = Len(z) /\ y \in Held(q, chunk)
            /\ \A v \in Held(q, chunk) : v < y =>
                 \E j \in 1 .. (Len(z[c]) - 2) : j < i + 2 /\ At(z[c], j, v)
        BY <1>4, <3>7, <3>8 DEF z
      <4>2. x \in SentMessages \/ x \in Held(q, chunk)
        BY <1>3, <1>7, <4>1, OlderIsHere
      <4>3. CASE x \in Held(q, chunk)
        <5>1. \E j \in 1 .. (Len(z[c]) - 2) : At(z[c], j, x)
          BY <1>7, <4>1, <4>3
        <5>2. x \in 1 .. MaxMsgs
          <6>1. x \in 1 .. msgs
            BY DEF DrainOK, Numbered, Completed
          <6>2. msgs \in 0 .. MaxMsgs
            BY DEF DrainOK, QueueInv, Messages
          <6>. QED
            BY <6>1, <6>2, BWAssumption
        <5>. QED
          BY <3>2, <5>1, <5>2
      <4>. QED
        BY <3>1, <4>2, <4>3
    <3>9. CASE ~Fresh(a, c, i + 2)
      <4>1. c \in 1 .. Len(a) /\ ~(i + 2 > Len(a[c]))
        BY <1>2, <3>7, <3>9 DEF Fresh
      <4>2. a[c] \in Seq(Units)
        BY <1>2, <4>1
      <4>3. Len(a[c]) \in Nat
        BY <4>2
      <4>4. /\ i \in 1 .. (Len(a[c]) - 2) /\ i \in 1 .. Len(a[c]) /\ i + 1 \in 1 .. Len(a[c])
            /\ i + 2 \in 1 .. Len(a[c])
        BY <3>4, <3>6, <4>1, <4>3
      <4>5. At(a[c], i, y)
        BY <1>1, <3>4, <4>1, <4>4 DEF Grows, At
      <4>6. y \in 1 .. MaxMsgs
        BY <2>4, <3>2
      <4>7. y \in SentMessages
        BY <1>1, <4>1, <4>4, <4>5, <4>6, SentAt DEF a
      <4>. QED
        BY <2>2, <3>1, <4>7
    <3>. QED
      BY <3>8, <3>9
  <2>. QED
    BY <2>3, <2>4
<1>8. OnlyCommitted'
  BY <1>3, <1>5 DEF OnlyCommitted, z
<1>. QED
  BY <1>3, <1>7, <1>8 DEF WireInOrder, z

-----------------------------------------------------------------------------
(* The other steps.                                                        *)

LEMMA WireStays ==
  ASSUME WireInOrder, stream'.wire = stream.wire, completed' = completed,
         dropped' = {} => dropped = {}
  PROVE  WireInOrder'
<1>1. Completed' = Completed /\ SentMessages' = SentMessages
  BY DEF Completed, SentMessages
<1>2. OnlyCommitted'
  BY <1>1 DEF WireInOrder, OnlyCommitted
<1>. QED
  BY <1>1, <1>2 DEF WireInOrder

\* A row that is committed is newer than all that was sent.
LEMMA RowEndInOrder ==
  ASSUME DrainOK, WireInOrder, NEW w \in Writers, RowEnd(w)
  PROVE  WireInOrder'
<1>. DEFINE m == wmsg[w]
<1>0. Shape /\ Messages /\ Sending /\ Numbered
  BY DEF DrainOK, QueueInv
<1>1. stream'.wire = stream.wire /\ dropped' = dropped /\ SentMessages' = SentMessages
  <2>1. stream'.wire = stream.wire
    BY <1>0, RowSending
  <2>2. dropped' = dropped
    BY DEF RowEnd
  <2>. QED
    BY <2>1, <2>2 DEF SentMessages
<1>2. completed' = completed \/ completed' = Append(completed, m)
  BY <1>0, RowEndEffect
<1>3. CASE completed' = completed
  BY <1>1, <1>3, WireStays
<1>4. CASE completed' = Append(completed, m)
  <2>1. lock = w /\ wbuf # 0 /\ m \in Nat
    <3>1. lock = w /\ m \in 1 .. msgs
      BY <1>0, RowEndEffect
    <3>2. wbuf # 0
      BY DEF RowEnd
    <3>. QED
      BY <3>1, <3>2
  <2>2. \A x \in Completed : x < m /\ x \in Nat
    BY <1>0, <2>1, ReadersChunk DEF Numbered, Completed
  <2>3. Completed \subseteq Completed' /\ Completed' \subseteq Completed \cup {m}
    <3>. DEFINE l == Len(completed)
    <3>1. completed \in Seq(Nat)
      BY <1>0 DEF Messages
    <3>2. /\ l \in Nat /\ Len(completed') = l + 1 /\ completed'[l + 1] = m
          /\ \A i \in 1 .. l : completed'[i] = completed[i]
      BY <1>4, <2>1, <3>1, AppendProperties
    <3>. HIDE DEF l
    <3>3. \A i \in 1 .. (l + 1) : i \in 1 .. l \/ i = l + 1
      BY <3>2
    <3>4. 1 .. l \subseteq 1 .. (l + 1)
      BY <3>2
    <3>. QED
      BY <3>2, <3>3, <3>4 DEF Completed, l
  <2>4. ASSUME NEW y \in Nat, NEW r \in {1, 2, 3}, NEW c \in Nat, NEW i \in Nat,
               PartAt(stream.wire, y, r, c, i)
        PROVE  y \in Completed
    <3>1. c \in 1 .. Len(stream.wire) /\ i \in 1 .. Len(stream.wire[c])
          /\ stream.wire[c][i] = Unit(y, r)
      BY <2>4 DEF PartAt
    <3>2. ~IsHeader(Unit(y, r))
      BY DEF IsHeader, Unit
    <3>3. PICK v \in Completed, s \in {1, 2, 3} : stream.wire[c][i] = Unit(v, s)
      BY <3>1, <3>2 DEF WireInOrder, OnlyCommitted
    <3>. QED
      BY <3>1, <3>3, UnitsDiffer
  <2>5. \A y \in SentMessages : y \in Completed
    BY <1>0, <2>4, SentHasStarted DEF Starts
  <2>6. ASSUME dropped = {}, NEW x \in Completed', NEW y \in Nat, x < y
        PROVE  /\ \A r \in {1, 2, 3} : \A c, i \in Nat : PartAt(stream.wire, y, r, c, i) =>
                    \E d, j \in Nat : Starts(stream.wire, x, d, j) /\ Before(d, j, c, i)
               /\ y \in SentMessages => x \in SentMessages
    <3>1. CASE x \in Completed
      BY <2>6, <3>1 DEF WireInOrder
    <3>2. CASE x = m
      <4>1. y \notin Completed
        BY <2>1, <2>2, <2>6, <3>2
      <4>. QED
        BY <2>4, <2>5, <4>1
    <3>. QED
      BY <2>3, <3>1, <3>2
  <2>7. OnlyCommitted'
    BY <1>1, <2>3 DEF WireInOrder, OnlyCommitted
  <2>. QED
    BY <1>1, <2>6, <2>7 DEF WireInOrder
<1>. QED
  BY <1>2, <1>3, <1>4

LEMMA InitInOrder == Init => WireInOrder
<1>. SUFFICES ASSUME Init PROVE WireInOrder
  OBVIOUS
<1>1. completed = <<>> /\ Sending
  BY InitSending DEF Init
<1>2. Completed = {}
  BY <1>1 DEF Completed
<1>3. PICK kind \in StreamKinds : stream = NewStream(kind, MaxLuck)
  BY DEF Init
<1>4. stream.wire = <<>> \/ stream.wire = << <<>> >>
  BY <1>3 DEF NewStream
<1>5. OnlyCommitted
  BY <1>4 DEF OnlyCommitted
<1>. QED
  BY <1>2, <1>5 DEF WireInOrder

LEMMA InOrderKept ==
  ASSUME DrainOK, WireInOrder, [Next]_vars
  PROVE  WireInOrder'
<1>0. Shape /\ Messages /\ Sending
  BY DEF DrainOK, QueueInv
<1>1. CASE Elsewhere
  BY <1>0, <1>1, ElsewhereEffect, ElsewhereSending, WireStays
<1>2. ASSUME NEW w \in Writers, RowStart(w) \/ RowCols(w) PROVE WireInOrder'
  <2>1. stream'.wire = stream.wire
    BY <1>0, <1>2, RowSending
  <2>2. completed' = completed /\ dropped \subseteq dropped'
    BY <1>2 DEF RowStart, RowCols, historyVars
  <2>. QED
    BY <2>1, <2>2, WireStays
<1>3. ASSUME NEW w \in Writers, RowEnd(w) PROVE WireInOrder'
  BY <1>3, RowEndInOrder
<1>4. CASE ReaderStep \/ SpuriousWakeup \/ TimePasses
  <2>1. UNCHANGED <<completed, dropped>> /\ (stream' = stream \/ SpuriousWakeup \/ ProcessSend)
    BY <1>0, <1>4, ReaderEffect DEF ProcessDone
  <2>2. CASE ProcessSend
    BY <2>2, SendInOrder
  <2>3. CASE stream' = stream \/ SpuriousWakeup
    <3>1. stream'.wire = stream.wire
      BY <1>0, <2>3, UnluckyEffect DEF SpuriousWakeup, Adversity, Sending
    <3>. QED
      BY <2>1, <3>1, WireStays
  <2>. QED
    BY <2>1, <2>2, <2>3
<1>. QED
  BY <1>1, <1>2, <1>3, <1>4, StepsSplit

-----------------------------------------------------------------------------
(* The first position of a message.                                        *)

LEMMA LeastNumber ==
  ASSUME NEW S \in SUBSET Nat, S # {}
  PROVE  \E n \in S : \A m \in S : n <= m
<1>1. IsWellFoundedOn(OpToRel(<, Nat), Nat)
  BY NatLessThanWellFounded
<1>2. PICK n \in S : \A m \in S : ~(<<m, n>> \in OpToRel(<, Nat))
  BY <1>1, WFMin
<1>3. \A m \in S : ~(m < n)
  BY <1>2 DEF OpToRel
<1>. QED
  BY <1>3

LEMMA LeastPlace ==
  ASSUME NEW S \in SUBSET (Nat \X Nat), S # {}
  PROVE  \E p \in S : \A o \in S : p[1] < o[1] \/ (p[1] = o[1] /\ p[2] <= o[2])
<1>. DEFINE C == { o[1] : o \in S }
<1>1. PICK c \in C : \A d \in C : c <= d
  <2>1. C \in SUBSET Nat /\ C # {}
    OBVIOUS
  <2>. QED
    BY <2>1, LeastNumber
<1>. DEFINE I == { o[2] : o \in { v \in S : v[1] = c } }
<1>2. PICK i \in I : \A j \in I : i <= j
  <2>1. I \in SUBSET Nat /\ I # {}
    BY <1>1
  <2>. QED
    BY <2>1, LeastNumber
<1>3. PICK p \in S : p[1] = c /\ p[2] = i
  BY <1>2
<1>4. ASSUME NEW o \in S PROVE p[1] < o[1] \/ (p[1] = o[1] /\ p[2] <= o[2])
  <2>1. o[1] \in Nat /\ c \in Nat /\ c <= o[1]
    BY <1>1
  <2>2. CASE o[1] = c
    BY <1>2, <1>3, <2>2
  <2>3. CASE o[1] # c
    BY <1>3, <2>1, <2>3
  <2>. QED
    BY <2>2, <2>3
<1>. QED
  BY <1>3, <1>4

LEMMA FirstIsFirst ==
  ASSUME Sending, NEW m \in SentMessages
  PROVE  LET a == FirstSent(m)
         IN  /\ a[1] \in Nat /\ a[2] \in Nat /\ Starts(stream.wire, m, a[1], a[2])
             /\ \A c, i \in Nat : Starts(stream.wire, m, c, i) =>
                  a[1] < c \/ (a[1] = c /\ a[2] <= i)
<1>. DEFINE z == stream.wire
            places == UNION { { <<c, i>> : i \in { j \in 1 .. Len(z[c]) : z[c][j] = Unit(m, 1) } } :
                              c \in 1 .. Len(z) }
            a == FirstSent(m)
<1>1. \A c, i \in Nat : <<c, i>> \in places <=> Starts(z, m, c, i)
  BY DEF Starts, PartAt
<1>2. places \in SUBSET (Nat \X Nat)
  <2>1. \A c \in 1 .. Len(z) : c \in Nat /\ Len(z[c]) \in Nat
    <3>1. \A c \in 1 .. Len(z) : z[c] \in Seq(Units)
      BY DEF Sending, StreamOK
    <3>. QED
      BY <3>1
  <2>. QED
    BY <2>1
<1>3. places # {}
  BY <1>1, SentHasStarted
<1>4. a = CHOOSE p \in places : \A o \in places :
                p[1] < o[1] \/ (p[1] = o[1] /\ p[2] <= o[2])
  BY DEF FirstSent
<1>. HIDE DEF places, a
<1>5. \E p \in places : \A o \in places : p[1] < o[1] \/ (p[1] = o[1] /\ p[2] <= o[2])
  BY <1>2, <1>3, LeastPlace
<1>6. a \in places /\ \A o \in places : a[1] < o[1] \/ (a[1] = o[1] /\ a[2] <= o[2])
  BY <1>4, <1>5
<1>7. a[1] \in Nat /\ a[2] \in Nat /\ a = <<a[1], a[2]>>
  BY <1>2, <1>6
<1>8. Starts(z, m, a[1], a[2])
  BY <1>1, <1>6, <1>7
<1>9. ASSUME NEW c \in Nat, NEW i \in Nat, Starts(z, m, c, i)
      PROVE  a[1] < c \/ (a[1] = c /\ a[2] <= i)
  <2>1. <<c, i>> \in places
    BY <1>1, <1>9
  <2>2. <<c, i>>[1] = c /\ <<c, i>>[2] = i
    OBVIOUS
  <2>. QED
    BY <1>6, <2>1, <2>2
<1>. QED
  BY <1>7, <1>8, <1>9 DEF a

LEMMA WireInOrderHolds == Spec => [](DrainOK /\ WireInOrder)
BY InitInOrder, InOrderKept, DrainHolds, PTL DEF Spec

-----------------------------------------------------------------------------
\* Until the first loss, messages leave in the order in which owt_row_end()
\* committed them, although a chunk is sent again, from its first message and
\* perhaps on a new connection, whenever outStream->write() fails: a message
\* that was sent is preceded by all that are older.
THEOREM FirstInFirstOut == Spec => []FifoUntilLoss
<1>1. DrainOK /\ WireInOrder => FifoUntilLoss
  <2>. SUFFICES ASSUME DrainOK, WireInOrder, dropped = {},
                       NEW i \in 1 .. Len(completed), NEW j \in 1 .. Len(completed), i < j,
                       completed[j] \in SentMessages
                PROVE  /\ completed[i] \in SentMessages
                       /\ LET a == FirstSent(completed[i])
                              b == FirstSent(completed[j])
                          IN  a[1] < b[1] \/ (a[1] = b[1] /\ a[2] < b[2])
    BY DEF FifoUntilLoss
  <2>. DEFINE x == completed[i]
              y == completed[j]
              a == FirstSent(x)
              b == FirstSent(y)
  <2>1. x < y /\ x \in Completed /\ y \in Completed /\ Sending
    BY DEF DrainOK, Numbered, Completed, QueueInv
  <2>2. x \in Nat /\ y \in Nat
    BY <2>1, ReadersChunk
  <2>3. x \in SentMessages /\ y \in SentMessages
    BY <2>1, <2>2 DEF WireInOrder
  <2>. HIDE DEF x, y
  <2>4. /\ a[1] \in Nat /\ a[2] \in Nat
        /\ \A c, k \in Nat : Starts(stream.wire, x, c, k) =>
             a[1] < c \/ (a[1] = c /\ a[2] <= k)
    BY <2>1, <2>3, FirstIsFirst
  <2>5. b[1] \in Nat /\ b[2] \in Nat /\ Starts(stream.wire, y, b[1], b[2])
    BY <2>1, <2>3, FirstIsFirst
  <2>. HIDE DEF a, b
  <2>6. PICK d, k \in Nat : Starts(stream.wire, x, d, k) /\ Before(d, k, b[1], b[2])
    BY <2>1, <2>2, <2>5 DEF WireInOrder, Starts
  <2>7. a[1] < d \/ (a[1] = d /\ a[2] <= k)
    BY <2>4, <2>6
  <2>8. a[1] < b[1] \/ (a[1] = b[1] /\ a[2] < b[2])
    BY <2>4, <2>5, <2>6, <2>7 DEF Before
  <2>. QED
    BY <2>3, <2>8 DEF a, b, x, y
<1>. QED
  BY <1>1, WireInOrderHolds, PTL

-----------------------------------------------------------------------------
(* Metadata is replayed.                                                   *)

\* A header before position i of connection c has told the server of x.
Told(z, c, i, x) ==
  \E e \in 1 .. Len(z[c]) :
    /\ e < i /\ IsHeader(z[c][e])
    /\ \E n \in 1 .. Len(z[c][e].body) : z[c][e].body[n] = x

\* meta_buf holds the metadata, and where a connection carries data, or may
\* without a new header, a header has replayed what earlier ones have carried.
MetadataKept ==
  /\ \A x \in metadata : x \in Nat /\ \E n \in 1 .. Len(meta_buf) : meta_buf[n] = x
  /\ \A c \in 1 .. Len(stream.wire) : \A i \in 1 .. Len(stream.wire[c]) :
       ~IsHeader(stream.wire[c][i]) =>
         \A x \in metadata : \A d, j \in Nat :
           Starts(stream.wire, x, d, j) /\ d < c => Told(stream.wire, c, i, x)
  /\ Connected(stream) =>
       LET l == Len(stream.wire)
       IN  \A x \in metadata : \A d, j \in Nat :
             Starts(stream.wire, x, d, j) /\ d < l =>
               Told(stream.wire, l, Len(stream.wire[l]) + 1, x)

LEMMA ToldStays ==
  ASSUME NEW a \in Seq(Seq(Units)), NEW z \in Seq(Seq(Units)), Grows(a, z),
         NEW c \in 1 .. Len(a), NEW i \in Nat, NEW x, Told(a, c, i, x), NEW k \in Nat,
         i <= k \/ Len(a[c]) < k
  PROVE  Told(z, c, k, x)
<1>1. PICK e \in 1 .. Len(a[c]) :
        /\ e < i /\ IsHeader(a[c][e])
        /\ \E n \in 1 .. Len(a[c][e].body) : a[c][e].body[n] = x
  BY DEF Told
<1>2. Len(a) \in Nat /\ Len(z) \in Nat /\ c \in 1 .. Len(z)
  BY DEF Grows
<1>3. a[c] \in Seq(Units) /\ z[c] \in Seq(Units)
  BY <1>2
<1>4. Len(a[c]) \in Nat /\ Len(z[c]) \in Nat
  BY <1>3
<1>5. Len(a[c]) <= Len(z[c]) /\ z[c][e] = a[c][e]
  BY <1>1 DEF Grows
<1>6. e \in 1 .. Len(z[c]) /\ e < k
  BY <1>1, <1>4, <1>5
<1>. QED
  BY <1>1, <1>5, <1>6 DEF Told

\* A message that has started on a connection that is not the last one was there
\* before the call of write().
LEMMA StartedBefore ==
  ASSUME DrainOK, ProcessSend, NEW x, NEW d \in Nat, NEW j \in Nat,
         Starts(stream'.wire, x, d, j), d < Len(stream'.wire)
  PROVE  Starts(stream.wire, x, d, j)
<1>. DEFINE a == stream.wire
            z == stream'.wire
<1>1. Grows(a, z) /\ Sending /\ Sending'
  BY ProcessSendSending DEF DrainOK, QueueInv
<1>2. a \in Seq(Seq(Units)) /\ z \in Seq(Seq(Units)) /\ Len(z) \in Nat
  BY <1>1 DEF Sending, StreamOK
<1>3. d \in 1 .. Len(z) /\ j \in 1 .. Len(z[d]) /\ z[d][j] = Unit(x, 1)
  BY DEF Starts, PartAt
<1>4. ~IsHeader(z[d][j])
  BY <1>3 DEF IsHeader, Unit
<1>5. ~Fresh(a, d, j)
  <2>1. Fresh(a, d, j) => d = Len(z)
    BY <1>3, <1>4, NewOnWire DEF Fresh
  <2>. QED
    BY <1>2, <2>1
<1>. HIDE DEF a, z
<1>6. d \in 1 .. Len(a) /\ j \in 1 .. Len(a[d]) /\ z[d][j] = a[d][j]
  BY <1>1, <1>2, <1>3, <1>5, OldOrNew
<1>. QED
  BY <1>3, <1>6 DEF Starts, PartAt, a

LEMMA SendKeepsMetadata ==
  ASSUME "other" \notin Faults, DrainOK, MetadataKept, ProcessSend
  PROVE  MetadataKept'
<1>. DEFINE a == stream.wire
            z == stream'.wire
            l == Len(z)
            hd == Header(meta_buf)
<1>1. Shape /\ Messages /\ Sending /\ Sending' /\ Grows(a, z)
  BY ProcessSendSending DEF DrainOK, QueueInv
<1>2. a \in Seq(Seq(Units)) /\ z \in Seq(Seq(Units)) /\ l \in Nat /\ Len(a) \in Nat
  BY <1>1 DEF Sending, StreamOK
<1>3. UNCHANGED <<metadata, meta_buf>>
  BY DEF ProcessSend, ReaderOnly, historyVars
<1>4. PICK n \in Int : /\ AddsBehindHeader(a, z, n) /\ Announced(stream, hd, stream', n)
                       /\ n > 0 => Connected(stream')
  BY <1>1, ProcessSendWrites
<1>5. ASSUME NEW x \in metadata, NEW e \in 1 .. Len(z[l]), z[l][e] = hd[1], NEW k \in Nat, e < k
      PROVE  Told(z, l, k, x)
  <2>1. PICK r \in 1 .. Len(meta_buf) : meta_buf[r] = x
    BY DEF MetadataKept
  <2>2. hd[1].body = meta_buf /\ IsHeader(hd[1])
    BY DEF Header, IsHeader
  <2>. QED
    BY <1>5, <2>1, <2>2 DEF Told
<1>6. ASSUME NEW x \in metadata, NEW d \in Nat, NEW j \in Nat, Starts(z, x, d, j), d < l
      PROVE  Starts(a, x, d, j)
  BY <1>6, StartedBefore
<1>7. /\ Connected(stream) => Len(a) = l /\ l \in 1 .. Len(a)
      /\ ~Connected(stream) /\ Connected(stream') =>
           \E e \in 1 .. Len(z[l]) : z[l][e] = hd[1] /\ (n > 0 => e <= Len(z[l]) - n)
      /\ Connected(stream') => l \in 1 .. Len(z)
  BY <1>2, <1>4 DEF Announced, Connected
<1>8. \A x \in metadata : \A d, j \in Nat :
        (Connected(stream) /\ Starts(a, x, d, j) /\ d < Len(a)) =>
          Told(a, Len(a), Len(a[Len(a)]) + 1, x)
  BY DEF MetadataKept
<1>9. \A c \in 1 .. Len(a) : \A i \in 1 .. Len(a[c]) : ~IsHeader(a[c][i]) =>
        \A x \in metadata : \A d, j \in Nat : Starts(a, x, d, j) /\ d < c => Told(a, c, i, x)
  BY DEF MetadataKept
<1>10. ASSUME NEW c \in 1 .. Len(z), NEW i \in 1 .. Len(z[c]), ~IsHeader(z[c][i]), Fresh(a, c, i)
       PROVE  c = l /\ i > Len(z[c]) - n
  BY <1>4, <1>10 DEF AddsBehindHeader, Fresh
<1>. HIDE DEF a, z, l, hd
<1>11. \A c \in 1 .. l : z[c] \in Seq(Units)
  BY <1>2 DEF l
<1>12. \A c \in 1 .. l : Len(z[c]) \in Nat
  BY <1>11
<1>13. \A c \in 1 .. Len(a) : a[c] \in Seq(Units)
  BY <1>2
<1>14. \A c \in 1 .. Len(a) : Len(a[c]) \in Nat
  BY <1>13
<1>15. ASSUME NEW c \in 1 .. l, NEW i \in 1 .. Len(z[c]), ~IsHeader(z[c][i]),
              NEW x \in metadata, NEW d \in Nat, NEW j \in Nat, Starts(z, x, d, j), d < c
       PROVE  Told(z, c, i, x)
  <2>0. i \in Nat /\ c \in Nat /\ c \in 1 .. Len(z) /\ d < l
    BY <1>2, <1>12, <1>15 DEF l
  <2>1. Starts(a, x, d, j)
    BY <1>6, <1>15, <2>0
  <2>2. CASE c \in 1 .. Len(a) /\ i \in 1 .. Len(a[c]) /\ z[c][i] = a[c][i]
    <3>1. Told(a, c, i, x)
      BY <1>9, <1>15, <2>1, <2>2
    <3>2. i <= i
      BY <2>0
    <3>. QED
      BY <1>1, <1>2, <2>0, <2>2, <3>1, <3>2, ToldStays
  <2>3. CASE Fresh(a, c, i)
    <3>1. c = l /\ i > Len(z[l]) - n /\ Len(z[l]) \in Nat
      BY <1>10, <1>12, <1>15, <2>0, <2>3
    <3>2. n > 0 /\ Connected(stream')
      BY <1>4, <1>15, <3>1
    <3>3. CASE Connected(stream)
      <4>1. Len(a) = c /\ c \in 1 .. Len(a) /\ Len(a[c]) \in Nat
        BY <1>7, <1>14, <3>1, <3>3
      <4>2. Told(a, c, Len(a[c]) + 1, x)
        BY <1>8, <1>15, <2>1, <3>3, <4>1
      <4>3. Len(a[c]) < i /\ Len(a[c]) + 1 \in Nat
        BY <2>0, <2>3, <4>1 DEF Fresh
      <4>. QED
        BY <1>1, <1>2, <2>0, <4>1, <4>2, <4>3, ToldStays
    <3>4. CASE ~Connected(stream)
      <4>1. PICK e \in 1 .. Len(z[l]) : z[l][e] = hd[1] /\ e <= Len(z[l]) - n
        BY <1>7, <3>2, <3>4
      <4>2. e < i
        BY <2>0, <3>1, <4>1
      <4>. QED
        BY <1>5, <2>0, <3>1, <4>1, <4>2
    <3>. QED
      BY <3>3, <3>4
  <2>. QED
    BY <1>1, <1>2, <1>15, <2>0, <2>2, <2>3, OldOrNew
<1>16. ASSUME Connected(stream'), NEW x \in metadata, NEW d \in Nat, NEW j \in Nat,
              Starts(z, x, d, j), d < l
       PROVE  Told(z, l, Len(z[l]) + 1, x)
  <2>1. Starts(a, x, d, j) /\ Len(z[l]) \in Nat /\ Len(z[l]) + 1 \in Nat
    BY <1>6, <1>7, <1>12, <1>16 DEF l
  <2>2. CASE Connected(stream)
    <3>1. Len(a) = l /\ l \in 1 .. Len(a) /\ Len(a[l]) \in Nat
      BY <1>7, <1>14, <2>2
    <3>2. Told(a, l, Len(a[l]) + 1, x)
      BY <1>8, <1>16, <2>1, <2>2, <3>1
    <3>3. Len(a[l]) < Len(z[l]) + 1 /\ Len(a[l]) + 1 \in Nat
      BY <1>1, <2>1, <3>1 DEF Grows
    <3>. QED
      BY <1>1, <1>2, <2>1, <3>1, <3>2, <3>3, ToldStays
  <2>3. CASE ~Connected(stream)
    <3>1. PICK e \in 1 .. Len(z[l]) : z[l][e] = hd[1]
      BY <1>7, <1>16, <2>3
    <3>2. e < Len(z[l]) + 1
      BY <2>1
    <3>. QED
      BY <1>5, <2>1, <3>1, <3>2
  <2>. QED
    BY <2>2, <2>3
<1>17. \A x \in metadata : x \in Nat /\ \E r \in 1 .. Len(meta_buf) : meta_buf[r] = x
  BY DEF MetadataKept
<1>. QED
  BY <1>3, <1>15, <1>16, <1>17 DEF MetadataKept, z, l

\* What is left to show of a step that sends nothing.
LEMMA MetadataStays ==
  ASSUME MetadataKept, stream'.wire = stream.wire, Connected(stream') => Connected(stream),
         \A x \in metadata' : \/ x \in metadata
                              \/ \A d, j \in Nat : ~Starts(stream.wire, x, d, j),
         \A x \in metadata' : x \in Nat /\ \E n \in 1 .. Len(meta_buf') : meta_buf'[n] = x
  PROVE  MetadataKept'
BY DEF MetadataKept

LEMMA AppendHolds ==
  ASSUME NEW s \in Seq(Nat), NEW v \in Nat, NEW t, t = Append(s, v)
  PROVE  /\ \E n \in 1 .. Len(t) : t[n] = v
         /\ \A x : (\E n \in 1 .. Len(s) : s[n] = x) => \E n \in 1 .. Len(t) : t[n] = x
<1>1. /\ Len(s) \in Nat /\ Len(t) = Len(s) + 1 /\ t[Len(s) + 1] = v
      /\ \A i \in 1 .. Len(s) : t[i] = s[i]
  BY AppendProperties
<1>2. Len(s) + 1 \in 1 .. Len(t) /\ 1 .. Len(s) \subseteq 1 .. Len(t)
  BY <1>1
<1>. QED
  BY <1>1, <1>2

LEMMA RowEndMetadata ==
  ASSUME DrainOK, WireInOrder, MetadataKept, NEW w \in Writers, RowEnd(w)
  PROVE  MetadataKept'
<1>. DEFINE m == wmsg[w]
<1>0. Shape /\ Messages /\ Sending
  BY DEF DrainOK, QueueInv
<1>1. stream'.wire = stream.wire
  BY <1>0, RowSending
<1>2. Connected(stream') => Connected(stream)
  <2>1. stream' = stream \/ stream' = Unlucky(stream)
    BY DEF RowEnd, Adversity
  <2>. QED
    BY <1>0, <2>1, UnluckyEffect DEF Connected, Sending, SameSetting
<1>3. lock = w /\ wbuf # 0 /\ m \in Nat /\ meta_buf \in Seq(Nat)
  <2>1. lock = w /\ m \in 1 .. msgs
    BY <1>0, RowEndEffect
  <2>2. wbuf # 0
    BY DEF RowEnd
  <2>. QED
    BY <1>0, <2>1, <2>2 DEF Messages
<1>4. \/ UNCHANGED <<metadata, meta_buf>>
      \/ metadata' = metadata /\ meta_buf' = Append(meta_buf, m)
      \/ metadata' = metadata \cup {m} /\ meta_buf' = Append(meta_buf, m)
  BY DEF RowEnd, IsSchema0
<1>5. \A x \in metadata : x \in Nat /\ \E n \in 1 .. Len(meta_buf) : meta_buf[n] = x
  BY DEF MetadataKept
<1>6. \A d, j \in Nat : ~Starts(stream.wire, m, d, j)
  <2>. SUFFICES ASSUME NEW d \in Nat, NEW j \in Nat, Starts(stream.wire, m, d, j) PROVE FALSE
    OBVIOUS
  <2>1. d \in 1 .. Len(stream.wire) /\ j \in 1 .. Len(stream.wire[d])
        /\ stream.wire[d][j] = Unit(m, 1)
    BY DEF Starts, PartAt
  <2>2. ~IsHeader(Unit(m, 1))
    BY DEF IsHeader, Unit
  <2>3. PICK y \in Completed, r \in {1, 2, 3} : stream.wire[d][j] = Unit(y, r)
    BY <2>1, <2>2 DEF WireInOrder, OnlyCommitted
  <2>4. m \in Completed
    BY <2>1, <2>3, UnitsDiffer
  <2>5. \A x \in Completed : x < m
    BY <1>3 DEF DrainOK, Numbered, Completed
  <2>6. m < m
    BY <2>4, <2>5
  <2>. QED
    BY <1>3, <2>6
<1>. HIDE DEF m
<1>7. \A x \in metadata' : \/ x \in metadata
                           \/ \A d, j \in Nat : ~Starts(stream.wire, x, d, j)
  BY <1>4, <1>6
<1>8. \A x \in metadata' : x \in Nat /\ \E n \in 1 .. Len(meta_buf') : meta_buf'[n] = x
  <2>1. CASE UNCHANGED <<metadata, meta_buf>>
    BY <1>5, <2>1
  <2>2. CASE meta_buf' = Append(meta_buf, m) /\ metadata' \subseteq metadata \cup {m}
    <3>1. /\ \E n \in 1 .. Len(meta_buf') : meta_buf'[n] = m
          /\ \A x : (\E n \in 1 .. Len(meta_buf) : meta_buf[n] = x) =>
               \E n \in 1 .. Len(meta_buf') : meta_buf'[n] = x
      BY <1>3, <2>2, AppendHolds
    <3>. QED
      BY <1>3, <1>5, <2>2, <3>1
  <2>. QED
    BY <1>4, <2>1, <2>2
<1>. QED
  BY <1>1, <1>2, <1>7, <1>8, MetadataStays

LEMMA InitMetadata == Init => MetadataKept
<1>. SUFFICES ASSUME Init PROVE MetadataKept
  OBVIOUS
<1>1. metadata = {}
  BY DEF Init
<1>. QED
  BY <1>1 DEF MetadataKept

LEMMA MetadataKeeps ==
  ASSUME "other" \notin Faults, DrainOK, WireInOrder, MetadataKept, [Next]_vars
  PROVE  MetadataKept'
<1>0. Shape /\ Messages /\ Sending /\ meta_buf \in Seq(Nat)
  BY DEF DrainOK, QueueInv, Messages
<1>1. \A x \in metadata : x \in Nat /\ \E n \in 1 .. Len(meta_buf) : meta_buf[n] = x
  BY DEF MetadataKept
<1>2. CASE Elsewhere
  <2>1. stream'.wire = stream.wire /\ (stream' = stream \/ Joined)
        /\ (meta_buf' = meta_buf \/ meta_buf' = Append(meta_buf, 0))
    BY <1>0, <1>2, ElsewhereEffect, ElsewhereSending
  <2>2. metadata' = metadata
    BY <1>2 DEF Elsewhere, MainStep, PushMeta, Started, bw_close, Joined, DestroyMPs,
                TerminationHandler, RowEndNull, NlostRead, NlostReset, vars, historyVars
  <2>3. Connected(stream') => Connected(stream)
    <3>1. Joined => stream' \in {stream, [stream EXCEPT !.socket = FALSE]}
      BY DEF Joined
    <3>2. StreamOK(stream)
      BY <1>0 DEF Sending
    <3>. QED
      BY <2>1, <3>1, <3>2 DEF Connected, StreamOK
  <2>4. 0 \in Nat
    OBVIOUS
  <2>5. \A x \in metadata' : x \in Nat /\ \E n \in 1 .. Len(meta_buf') : meta_buf'[n] = x
    BY <1>0, <1>1, <2>1, <2>2, <2>4, AppendHolds
  <2>. QED
    BY <2>1, <2>2, <2>3, <2>5, MetadataStays
<1>3. ASSUME NEW w \in Writers, RowStart(w) \/ RowCols(w) PROVE MetadataKept'
  <2>1. stream'.wire = stream.wire /\ (stream' = stream \/ stream' = Unlucky(stream))
    BY <1>0, <1>3, RowSending DEF RowStart, RowCols, Adversity
  <2>2. UNCHANGED <<metadata, meta_buf>>
    BY <1>3 DEF RowStart, RowCols, historyVars
  <2>3. Connected(stream') => Connected(stream)
    BY <1>0, <2>1, UnluckyEffect DEF Connected, Sending, SameSetting
  <2>. QED
    BY <1>1, <2>1, <2>2, <2>3, MetadataStays
<1>4. ASSUME NEW w \in Writers, RowEnd(w) PROVE MetadataKept'
  BY <1>4, RowEndMetadata
<1>5. CASE ReaderStep \/ SpuriousWakeup \/ TimePasses
  <2>1. meta_buf' = meta_buf /\ (stream' = stream \/ SpuriousWakeup \/ ProcessSend)
    BY <1>0, <1>5, ReaderEffect DEF ProcessDone
  <2>2. metadata' = metadata
    BY <1>5 DEF ReaderStep, ReaderTest, ReaderWait, SpuriousWakeup, ReaderWoken, ReaderLoop,
                ProcessEnter, ProcessSend, ProcessDone, ReaderNext, DrainNext, TimePasses,
                ReaderOnly, historyVars
  <2>3. CASE ProcessSend
    BY <2>3, SendKeepsMetadata
  <2>4. CASE stream' = stream \/ SpuriousWakeup
    <3>1. stream' = stream \/ stream' = Unlucky(stream)
      BY <2>4 DEF SpuriousWakeup, Adversity
    <3>2. stream'.wire = stream.wire /\ (Connected(stream') => Connected(stream))
      BY <1>0, <3>1, UnluckyEffect DEF Connected, Sending, SameSetting
    <3>. QED
      BY <1>1, <2>1, <2>2, <3>2, MetadataStays
  <2>. QED
    BY <2>1, <2>3, <2>4
<1>. QED
  BY <1>2, <1>3, <1>4, <1>5, StepsSplit

\* api.c: after a network error the initial headers, then "all schema0", then
\* the data.  As long as nothing was lost and no sendto() fails with an error
\* that net_stream.c takes for success (HeaderSent), a message is only sent
\* on a connection that has carried all metadata committed before it, however
\* often and wherever the connection was lost.
THEOREM MetadataComesFirst ==
  ASSUME "other" \notin Faults
  PROVE  Spec => []MetadataReplayed
<1>1. Init => MetadataKept
  BY InitMetadata
<1>2. DrainOK /\ WireInOrder /\ MetadataKept /\ [Next]_vars => MetadataKept'
  BY MetadataKeeps
<1>3. DrainOK /\ WireInOrder /\ MetadataKept => MetadataReplayed
  <2>. SUFFICES ASSUME DrainOK, WireInOrder, MetadataKept, dropped = {},
                       NEW c \in 1 .. Len(stream.wire), NEW i \in 1 .. Len(stream.wire[c]),
                       ~IsHeader(stream.wire[c][i]),
                       NEW k \in 1 .. Len(completed), completed[k] \in metadata,
                       NEW o \in (k + 1) .. Len(completed),
                       completed[o] = stream.wire[c][i].body[1]
                PROVE  \E j \in 1 .. (i - 1) :
                         \E n \in 1 .. Len(stream.wire[c][j].body) :
                           stream.wire[c][j].body[n] = completed[k]
    <3>. SUFFICES ASSUME DrainOK, WireInOrder, MetadataKept, dropped = {},
                         NEW c \in 1 .. Len(stream.wire), NEW i \in 1 .. Len(stream.wire[c]),
                         ~IsHeader(stream.wire[c][i])
                  PROVE  LET w == stream.wire[c]
                             before(m) == { completed[n] : n \in { k \in 1 .. Len(completed) :
                               \E o \in (k + 1) .. Len(completed) : completed[o] = m } }
                             known == UNION { { w[j].body[n] : n \in 1 .. Len(w[j].body) } :
                                              j \in 1 .. (i - 1) }
                         IN  (before(w[i].body[1]) \cap metadata) \subseteq known
      BY DEF MetadataReplayed, MetadataBeforeData
    <3>. DEFINE w == stream.wire[c]
                known == UNION { { w[j].body[n] : n \in 1 .. Len(w[j].body) } :
                                 j \in 1 .. (i - 1) }
    <3>1. ASSUME NEW k \in 1 .. Len(completed), completed[k] \in metadata,
                 NEW o \in (k + 1) .. Len(completed), completed[o] = w[i].body[1]
          PROVE  completed[k] \in known
      <4>1. PICK j \in 1 .. (i - 1) : \E n \in 1 .. Len(w[j].body) : w[j].body[n] = completed[k]
        BY <3>1
      <4>. QED
        BY <4>1
    <3>. HIDE DEF known, w
    <3>. QED
      BY <3>1 DEF known, w
  <2>. DEFINE z == stream.wire
              x == completed[k]
  <2>1. PICK y \in Completed, r \in {1, 2, 3} : z[c][i] = Unit(y, r)
    BY DEF WireInOrder, OnlyCommitted
  <2>2. completed[o] = y
    BY <2>1 DEF Unit
  <2>3. Len(completed) \in Nat /\ o \in 1 .. Len(completed) /\ k < o
    BY SMTT(30) DEF DrainOK, QueueInv, Messages
  <2>4. x < y /\ x \in Completed /\ x \in Nat /\ y \in Nat
    BY <2>2, <2>3, ReadersChunk DEF DrainOK, Numbered, Completed
  <2>5. z[c] \in Seq(Units)
    BY DEF DrainOK, QueueInv, Sending, StreamOK
  <2>6. c \in Nat /\ i \in Nat /\ Len(z[c]) \in Nat
    BY <2>5
  <2>7. PartAt(z, y, r, c, i)
    BY <2>1 DEF PartAt
  <2>8. PICK d, j \in Nat : Starts(z, x, d, j) /\ Before(d, j, c, i)
    BY <2>4, <2>6, <2>7 DEF WireInOrder
  <2>9. CASE d = c /\ j < i
    <3>1. j \in 1 .. (i - 1) /\ z[c][j].body = <<x>>
      BY <2>6, <2>8, <2>9 DEF Starts, PartAt, Unit
    <3>2. 1 \in 1 .. Len(<<x>>) /\ <<x>>[1] = x
      OBVIOUS
    <3>. QED
      BY <3>1, <3>2
  <2>10. CASE d < c
    <3>1. Told(z, c, i, x)
      BY <2>8, <2>10 DEF MetadataKept
    <3>2. PICK e \in 1 .. Len(z[c]) : e < i /\ \E n \in 1 .. Len(z[c][e].body) : z[c][e].body[n] = x
      BY <3>1 DEF Told
    <3>3. e \in 1 .. (i - 1)
      BY <2>6, <3>2
    <3>. QED
      BY <3>2, <3>3
  <2>. QED
    BY <2>8, <2>9, <2>10 DEF Before
<1>. QED
  BY <1>1, <1>2, <1>3, WireInOrderHolds, PTL DEF Spec

-----------------------------------------------------------------------------
(* Connections are well framed.                                            *)

\* The faults of sendto() after which the peer is gone, or none: then a message
\* is never repeated on the connection on which it was cut.
FaultsEndConnection == Faults \subseteq {"refused", "closed", "short"}

\* The kernel puts units behind what connection l has carried.
PutBehind(a, l, units) == [a EXCEPT ![l] = @ \o units]

\* Connecting and sending.
LEMMA AppendThenPut ==
  ASSUME NEW a \in Seq(Seq(Units)), NEW e \in Seq(Units), NEW units \in Seq(Units)
  PROVE  PutBehind(Append(a, e), Len(Append(a, e)), units) = Append(a, e \o units)
<1>. DEFINE b == Append(a, e)
            x == PutBehind(b, Len(b), units)
            y == Append(a, e \o units)
<1>1. /\ Len(a) \in Nat /\ b \in Seq(Seq(Units)) /\ Len(b) = Len(a) + 1 /\ b[Len(a) + 1] = e
      /\ \A i \in 1 .. Len(a) : b[i] = a[i]
  BY AppendProperties
<1>2. e \o units \in Seq(Units)
  OBVIOUS
<1>3. /\ y \in Seq(Seq(Units)) /\ Len(y) = Len(a) + 1 /\ y[Len(a) + 1] = e \o units
      /\ \A i \in 1 .. Len(a) : y[i] = a[i]
  BY <1>1, <1>2, AppendProperties
<1>4. DOMAIN b = 1 .. (Len(a) + 1) /\ DOMAIN y = 1 .. (Len(a) + 1)
  BY <1>1, <1>3
<1>. HIDE DEF b, y
<1>5. x = [i \in 1 .. (Len(a) + 1) |-> IF i = Len(a) + 1 THEN e \o units ELSE b[i]]
  BY <1>1, <1>4 DEF PutBehind
<1>6. \A i \in 1 .. (Len(a) + 1) : i = Len(a) + 1 \/ i \in 1 .. Len(a)
  BY <1>1
<1>7. y = [i \in 1 .. (Len(a) + 1) |-> y[i]]
  BY <1>3, <1>4
<1>8. \A i \in 1 .. (Len(a) + 1) : y[i] = IF i = Len(a) + 1 THEN e \o units ELSE b[i]
  BY <1>1, <1>3, <1>6
<1>9. x = y
  BY <1>5, <1>7, <1>8
<1>. QED
  BY <1>9 DEF b, y

\* One call of sendto() on a connection.
LEMMA SoundSendto ==
  ASSUME FaultsEndConnection, NEW s, StreamOK(s), s.kind = "net", ~s.disconnected,
         NEW buf \in Seq(Units), Len(buf) > 0, NEW short, NEW o \in sendto(s, buf, short)
  PROVE  /\ SameSetting(s, o.stream)
         /\ \/ o.ret = 0 /\ o.stream.wire = s.wire /\ o.stream.disconnected
            \/ /\ o.ret \in 1 .. Len(buf) /\ ~o.stream.disconnected
               /\ short \notin Faults => o.ret = Len(buf)
               /\ o.stream.wire = PutBehind(s.wire, Len(s.wire), SubSeq(buf, 1, o.ret))
<1>. DEFINE u == Unlucky(s)
            d == [u EXCEPT !.disconnected = TRUE]
<1>0. Len(buf) \in Nat /\ SubSeq(buf, 1, Len(buf)) = buf /\ Len(buf) \in 1 .. Len(buf)
  BY SubSeqFull, LenProperties
<1>1. /\ StreamOK(u) /\ SameSetting(s, u) /\ u.wire = s.wire /\ ~u.disconnected
      /\ SameSetting(s, s)
  BY UnluckyEffect DEF SameSetting
<1>2. SameSetting(s, d) /\ d.wire = s.wire /\ d.disconnected
  BY <1>1 DEF SameSetting, StreamOK
<1>3. \/ o = Outcome(Accepted(s, buf), Len(buf))
      \/ short \in Faults /\ \E n \in 1 .. (Len(buf) - 1) :
                               o = Outcome(Accepted(u, SubSeq(buf, 1, n)), n)
      \/ o = Outcome(d, 0)
  BY DEF sendto, If, FaultsEndConnection
<1>. HIDE DEF u, d
<1>4. ASSUME NEW t, StreamOK(t), SameSetting(s, t), t.wire = s.wire, ~t.disconnected,
             NEW n \in 1 .. Len(buf), short \notin Faults => n = Len(buf),
             o = Outcome(Accepted(t, SubSeq(buf, 1, n)), n)
      PROVE  /\ SameSetting(s, o.stream) /\ o.ret \in 1 .. Len(buf) /\ ~o.stream.disconnected
             /\ short \notin Faults => o.ret = Len(buf)
             /\ o.stream.wire = PutBehind(s.wire, Len(s.wire), SubSeq(buf, 1, o.ret))
  <2>1. o.stream = [t EXCEPT !.wire[Len(t.wire)] = @ \o SubSeq(buf, 1, n)] /\ o.ret = n
    BY <1>4 DEF Outcome, Accepted
  <2>2. /\ DOMAIN o.stream = DOMAIN t /\ o.stream.kind = t.kind /\ o.stream.socket = t.socket
        /\ o.stream.header_written = t.header_written /\ o.stream.disconnected = t.disconnected
        /\ o.stream.wire = [t.wire EXCEPT ![Len(t.wire)] = @ \o SubSeq(buf, 1, n)]
    BY <1>4, <2>1 DEF StreamOK
  <2>. QED
    BY <1>4, <2>1, <2>2 DEF SameSetting, PutBehind
<1>5. CASE o = Outcome(Accepted(s, buf), Len(buf))
  BY <1>0, <1>1, <1>4, <1>5
<1>6. ASSUME short \in Faults, NEW n \in 1 .. (Len(buf) - 1),
             o = Outcome(Accepted(u, SubSeq(buf, 1, n)), n)
      PROVE  /\ SameSetting(s, o.stream) /\ o.ret \in 1 .. Len(buf) /\ ~o.stream.disconnected
             /\ short \notin Faults => o.ret = Len(buf)
             /\ o.stream.wire = PutBehind(s.wire, Len(s.wire), SubSeq(buf, 1, o.ret))
  <2>1. n \in 1 .. Len(buf)
    BY <1>0
  <2>. QED
    BY <1>1, <1>4, <1>6, <2>1
<1>7. CASE o = Outcome(d, 0)
  BY <1>2, <1>7 DEF Outcome
<1>. QED
  BY <1>3, <1>5, <1>6, <1>7

\* One call of socket_sendto().
LEMMA SoundSocketSendto ==
  ASSUME FaultsEndConnection, NEW s, StreamOK(s), s.kind = "net",
         NEW buf \in Seq(Units), Len(buf) > 0, NEW short, NEW o \in socket_sendto(s, buf, short)
  PROVE  /\ SameSetting(s, o.stream)
         /\ \/ /\ o.ret = 0 /\ o.stream.disconnected
               /\ o.stream.wire = s.wire \/ (s.disconnected /\ o.stream.wire = Append(s.wire, <<>>))
            \/ /\ o.ret \in 1 .. Len(buf) /\ ~o.stream.disconnected
               /\ short \notin Faults => o.ret = Len(buf)
               /\ o.stream.wire = IF s.disconnected
                                    THEN Append(s.wire, SubSeq(buf, 1, o.ret))
                                    ELSE PutBehind(s.wire, Len(s.wire), SubSeq(buf, 1, o.ret))
<1>1. CASE ~s.disconnected
  BY <1>1, SoundSendto DEF socket_sendto
<1>2. CASE s.disconnected
  <2>. DEFINE t == s_connect(s)
  <2>1. StreamOK(t) /\ SameSetting(s, t) /\ ~t.disconnected /\ t.kind = "net"
    BY ConnectEffect DEF SameSetting
  <2>2. t.wire = Append(s.wire, <<>>)
    BY DEF s_connect, StreamOK
  <2>3. o = Outcome(Unlucky(s), 0) \/ o \in sendto(t, buf, short)
    BY <1>2 DEF socket_sendto, If
  <2>4. CASE o = Outcome(Unlucky(s), 0)
    BY <1>2, <2>4, UnluckyEffect DEF Outcome
  <2>. HIDE DEF t
  <2>5. CASE o \in sendto(t, buf, short)
    <3>1. /\ SameSetting(t, o.stream)
          /\ \/ o.ret = 0 /\ o.stream.wire = t.wire /\ o.stream.disconnected
             \/ /\ o.ret \in 1 .. Len(buf) /\ ~o.stream.disconnected
                /\ short \notin Faults => o.ret = Len(buf)
                /\ o.stream.wire = PutBehind(t.wire, Len(t.wire), SubSeq(buf, 1, o.ret))
      BY <2>1, <2>5, SoundSendto
    <3>2. SameSetting(s, o.stream)
      BY <2>1, <3>1 DEF SameSetting
    <3>3. CASE o.ret = 0 /\ o.stream.wire = t.wire /\ o.stream.disconnected
      BY <1>2, <2>2, <3>2, <3>3
    <3>4. CASE /\ o.ret \in 1 .. Len(buf) /\ ~o.stream.disconnected
               /\ short \notin Faults => o.ret = Len(buf)
               /\ o.stream.wire = PutBehind(t.wire, Len(t.wire), SubSeq(buf, 1, o.ret))
      <4>. DEFINE part == SubSeq(buf, 1, o.ret)
      <4>1. part \in Seq(Units) /\ <<>> \in Seq(Units) /\ s.wire \in Seq(Seq(Units))
        <5>1. 1 \in Int /\ o.ret \in Int /\ \A i \in 1 .. o.ret : buf[i] \in Units
          BY <3>4
        <5>. QED
          BY <3>4, <5>1, SubSeqProperties, EmptySeq DEF StreamOK
      <4>. HIDE DEF part
      <4>2. <<>> \o part = part
        BY <4>1, ConcatEmptySeq
      <4>3. PutBehind(t.wire, Len(t.wire), part) = Append(s.wire, <<>> \o part)
        BY <2>2, <4>1, AppendThenPut
      <4>4. o.stream.wire = Append(s.wire, part)
        BY <3>4, <4>2, <4>3 DEF part
      <4>. QED
        BY <1>2, <3>2, <3>4, <4>4 DEF part
    <3>. QED
      BY <3>1, <3>3, <3>4
  <2>. QED
    BY <2>3, <2>4, <2>5
<1>. QED
  BY <1>1, <1>2

\* A connection is only made to send the header first.
Ready(s) == s.socket /\ ~s.disconnected => s.header_written

\* One call of net_stream_write(): it fails and leaves no connection, on which
\* a header was sent or nothing; or it sends data behind a header or behind what
\* the connection has carried.
NetOutcome(s, buf, header, o) ==
  /\ o.stream.kind = "net" /\ Ready(o.stream)
  /\ \/ /\ o.ret = 0 /\ ~Connected(o.stream)
        /\ o.stream.wire \in {s.wire, Append(s.wire, <<>>), Append(s.wire, header)}
     \/ /\ o.ret \in 1 .. Len(buf) /\ Connected(o.stream)
        /\ o.stream.wire = IF Connected(s)
                             THEN PutBehind(s.wire, Len(s.wire), SubSeq(buf, 1, o.ret))
                             ELSE Append(s.wire, header \o SubSeq(buf, 1, o.ret))

LEMMA SoundNetWrite ==
  ASSUME FaultsEndConnection, NEW s0, StreamOK(s0), s0.kind = "net", Ready(s0),
         NEW buf \in Seq(Units), Len(buf) > 0, NEW header, HeaderOK(header),
         NEW o \in net_stream_write(s0, buf, header)
  PROVE  NetOutcome(s0, buf, header, o)
<1>. DEFINE s1 == IF s0.socket THEN s0 ELSE open_socket(s0)
            s == IF s1.disconnected THEN [s1 EXCEPT !.header_written = FALSE] ELSE s1
<1>1. StreamOK(s1) /\ s1.kind = "net" /\ s1.wire = s0.wire /\ s1.socket
      /\ (s0.socket => s1 = s0) /\ (~s0.socket => s1.disconnected)
  BY DEF open_socket, StreamOK
<1>. HIDE DEF s1
<1>2. StreamOK(s) /\ s.kind = "net" /\ s.wire = s0.wire /\ s.socket
      /\ (s.header_written => s = s0 /\ ~s0.disconnected)
      /\ (~s.header_written => s.disconnected /\ ~Connected(s0))
  <2>1. CASE s1.disconnected
    BY <1>1, <2>1 DEF StreamOK, Connected
  <2>2. CASE ~s1.disconnected
    BY <1>1, <2>2 DEF Ready
  <2>. QED
    BY <2>1, <2>2
<1>3. o \in IF s.header_written
            THEN socket_sendto(s, buf, "short")
            ELSE UNION { IF HeaderSent(h.ret, header)
                           THEN socket_sendto([h.stream EXCEPT !.header_written = TRUE],
                                              buf, "short")
                           ELSE {Outcome(h.stream, 0)} :
                         h \in socket_sendto(s, header, "shortheader") }
  BY DEF net_stream_write, s1
<1>. HIDE DEF s
<1>4. CASE s.header_written
  <2>1. s = s0 /\ ~s.disconnected /\ Connected(s0) /\ o \in socket_sendto(s, buf, "short")
    BY <1>2, <1>3, <1>4 DEF Connected, StreamOK
  <2>2. /\ SameSetting(s, o.stream)
        /\ \/ o.ret = 0 /\ o.stream.disconnected /\ o.stream.wire = s.wire
           \/ /\ o.ret \in 1 .. Len(buf) /\ ~o.stream.disconnected
              /\ o.stream.wire = PutBehind(s.wire, Len(s.wire), SubSeq(buf, 1, o.ret))
    BY <1>2, <2>1, SoundSocketSendto
  <2>3. StreamOK(o.stream)
    BY <1>2, <2>1, SocketSendtoEffect DEF Sends
  <2>. QED
    BY <1>4, <2>1, <2>2, <2>3 DEF NetOutcome, SameSetting, Connected, Ready, StreamOK
<1>5. CASE ~s.header_written
  <2>1. PICK h \in socket_sendto(s, header, "shortheader") :
          o \in IF HeaderSent(h.ret, header)
                  THEN socket_sendto([h.stream EXCEPT !.header_written = TRUE], buf, "short")
                  ELSE {Outcome(h.stream, 0)}
    BY <1>3, <1>5
  <2>2. Len(header) \in Nat /\ Len(header) > 0 /\ header \in Seq(Units)
    BY DEF HeaderOK
  <2>3. s.disconnected /\ ~Connected(s0) /\ "shortheader" \notin Faults
    BY <1>2, <1>5 DEF FaultsEndConnection
  <2>4. /\ SameSetting(s, h.stream)
        /\ \/ /\ h.ret = 0 /\ h.stream.disconnected
              /\ h.stream.wire \in {s.wire, Append(s.wire, <<>>)}
           \/ /\ h.ret = Len(header) /\ ~h.stream.disconnected
              /\ h.stream.wire = Append(s.wire, SubSeq(header, 1, Len(header)))
    <3>1. /\ SameSetting(s, h.stream)
          /\ \/ /\ h.ret = 0 /\ h.stream.disconnected
                /\ h.stream.wire = s.wire
                   \/ (s.disconnected /\ h.stream.wire = Append(s.wire, <<>>))
             \/ /\ h.ret \in 1 .. Len(header) /\ ~h.stream.disconnected
                /\ "shortheader" \notin Faults => h.ret = Len(header)
                /\ h.stream.wire = IF s.disconnected
                                     THEN Append(s.wire, SubSeq(header, 1, h.ret))
                                     ELSE PutBehind(s.wire, Len(s.wire), SubSeq(header, 1, h.ret))
      BY ONLY <1>2, <2>1, <2>2, FaultsEndConnection, SoundSocketSendto
    <3>. QED
      BY ONLY <2>3, <3>1
  <2>5. CASE h.ret = 0
    <3>1. o = Outcome(h.stream, 0)
      BY <2>1, <2>2, <2>5 DEF HeaderSent
    <3>. QED
      BY <1>2, <2>2, <2>3, <2>4, <2>5, <3>1 DEF NetOutcome, Outcome, SameSetting, Connected, Ready
  <2>6. CASE h.ret # 0
    <3>. DEFINE t == h.stream
                x == [t EXCEPT !.header_written = TRUE]
    <3>1. /\ h.ret = Len(header) /\ ~t.disconnected
          /\ t.wire = Append(s0.wire, header)
      BY <1>2, <2>2, <2>4, <2>6, SubSeqFull
    <3>2. StreamOK(t)
      BY <1>2, <2>1, <2>2, SocketSendtoEffect DEF Sends
    <3>3. /\ StreamOK(x) /\ x.kind = "net" /\ x.socket /\ x.header_written /\ ~x.disconnected
          /\ x.wire = Append(s0.wire, header)
      BY <1>2, <2>4, <3>1, <3>2 DEF StreamOK, SameSetting
    <3>4. o \in socket_sendto(x, buf, "short")
      BY <2>1, <3>1 DEF HeaderSent
    <3>. HIDE DEF x
    <3>5. /\ SameSetting(x, o.stream)
          /\ \/ o.ret = 0 /\ o.stream.disconnected /\ o.stream.wire = x.wire
             \/ /\ o.ret \in 1 .. Len(buf) /\ ~o.stream.disconnected
                /\ o.stream.wire = PutBehind(x.wire, Len(x.wire), SubSeq(buf, 1, o.ret))
      BY <3>3, <3>4, SoundSocketSendto
    <3>6. StreamOK(o.stream)
      BY <3>3, <3>4, SocketSendtoEffect DEF Sends
    <3>7. CASE o.ret = 0 /\ o.stream.disconnected /\ o.stream.wire = x.wire
      BY <3>3, <3>5, <3>7 DEF NetOutcome, SameSetting, Connected, Ready
    <3>8. CASE /\ o.ret \in 1 .. Len(buf) /\ ~o.stream.disconnected
               /\ o.stream.wire = PutBehind(x.wire, Len(x.wire), SubSeq(buf, 1, o.ret))
      <4>1. SubSeq(buf, 1, o.ret) \in Seq(Units) /\ s0.wire \in Seq(Seq(Units))
        <5>1. 1 \in Int /\ o.ret \in Int /\ \A i \in 1 .. o.ret : buf[i] \in Units
          BY <3>8
        <5>. QED
          BY <5>1, SubSeqProperties DEF StreamOK
      <4>2. o.stream.wire = Append(s0.wire, header \o SubSeq(buf, 1, o.ret))
        BY <2>2, <3>3, <3>8, <4>1, AppendThenPut
      <4>. QED
        BY <2>3, <3>3, <3>5, <3>6, <3>8, <4>2
           DEF NetOutcome, SameSetting, Connected, Ready, StreamOK
    <3>. QED
      BY <3>5, <3>7, <3>8
  <2>. QED
    BY <2>5, <2>6
<1>. QED
  BY <1>4, <1>5

\* Message j of the connection w, as far as w goes.
Message(w, j) ==
  \E m \in Nat : \A p \in 1 .. 3 : 3 * j + 2 + p <= Len(w) => w[3 * j + 2 + p] = Unit(m, p)

\* The connection w carries one header and then messages, the last one cut
\* anywhere.
FramedWire(w) ==
  \/ w = <<>>
  \/ /\ Len(w) >= 2 /\ w[1].part = -1 /\ w[2] = [w[1] EXCEPT !.part = -2]
     /\ \A j \in Nat : Message(w, j)

\* Sent from the reader's chunk since the last whole message.
InFlight == IF rpc = "send" THEN sent ELSE 0

\* Connections are framed, and the open one goes on with the reader's chunk
\* behind whole messages.
Framing ==
  stream.kind = "net" =>
    /\ Ready(stream)
    /\ \A c \in 1 .. Len(stream.wire) : FramedWire(stream.wire[c])
    /\ Connected(stream) =>
         \E a \in Nat : Len(stream.wire[Len(stream.wire)]) = 2 + 3 * a + InFlight

LEMMA HeaderFramed ==
  ASSUME NEW meta \in Seq(Nat)
  PROVE  /\ HeaderOK(Header(meta)) /\ FramedWire(Header(meta)) /\ Len(Header(meta)) = 2
<1>. DEFINE a == [body |-> meta, part |-> -1]
            z == [body |-> meta, part |-> -2]
            w == Header(meta)
<1>1. a \in Units /\ z \in Units /\ IsHeader(a) /\ IsHeader(z) /\ a.part = -1
      /\ z = [a EXCEPT !.part = -2]
  BY DEF Units, IsHeader
<1>2. w = <<a, z>>
  BY DEF Header
<1>. HIDE DEF a, z, w
<1>3. Len(w) = 2 /\ w[1] = a /\ w[2] = z /\ w \in Seq(Units)
  BY <1>1, <1>2
<1>4. HeaderOK(w)
  BY <1>1, <1>3 DEF HeaderOK
<1>5. ASSUME NEW j \in Nat PROVE Message(w, j)
  <2>1. \A p \in 1 .. 3 : ~(3 * j + 2 + p <= Len(w))
    BY <1>3
  <2>. QED
    BY <2>1 DEF Message
<1>6. FramedWire(w)
  BY <1>1, <1>3, <1>5 DEF FramedWire
<1>. QED
  BY <1>3, <1>4, <1>6 DEF w

\* More of the chunk whose units from 3 * r + 1 follow whole messages.
LEMMA FramedOn ==
  ASSUME NEW w \in Seq(Units), FramedWire(w), NEW a \in Nat, NEW k \in Nat,
         Len(w) = 2 + 3 * a + k,
         NEW z \in Seq(Units), Len(z) >= Len(w), \A i \in 1 .. Len(w) : z[i] = w[i],
         NEW d \in Seq(Units), NEW r \in Nat, NEW e \in Nat, NEW n \in Nat, Framed(d, e, n),
         NEW l \in Nat, 3 * r + l <= 3 * e, 3 * e <= Len(d),
         NEW v \in Seq(Units), z = v \o SubSeq(d, 3 * r + 1, 3 * r + l), Len(v) = 2 + 3 * a
  PROVE  FramedWire(z)
<1>. DEFINE u == SubSeq(d, 3 * r + 1, 3 * r + l)
<1>0. 3 * r \in Nat /\ Len(d) \in Nat /\ Len(w) \in Nat /\ Len(z) \in Nat
  OBVIOUS
<1>1. u \in Seq(Units) /\ Len(u) = l /\ \A i \in 1 .. l : u[i] = d[3 * r + i]
  <2>1. 3 * r + l <= Len(d)
    BY <1>0
  <2>. QED
    BY <1>0, <2>1, SubSeqOf
<1>. HIDE DEF u
<1>2. z = v \o u
  BY DEF u
<1>3. /\ Len(z) = 2 + 3 * a + l
      /\ \A i \in 1 .. l : z[2 + 3 * a + i] = u[i]
  <2>1. /\ Len(v \o u) = Len(v) + Len(u)
        /\ \A i \in 1 .. Len(u) : (v \o u)[Len(v) + i] = u[i]
    <3>1. \A i \in 1 .. (Len(v) + Len(u)) :
            (v \o u)[i] = IF i <= Len(v) THEN v[i] ELSE u[i - Len(v)]
      BY <1>1, ConcatProperties
    <3>2. Len(v) \in Nat /\ Len(u) \in Nat
      BY <1>1
    <3>3. ASSUME NEW i \in 1 .. Len(u)
          PROVE  /\ Len(v) + i \in 1 .. (Len(v) + Len(u)) /\ ~(Len(v) + i <= Len(v))
                 /\ (Len(v) + i) - Len(v) = i
      BY ONLY <3>2, <3>3
    <3>4. Len(v \o u) = Len(v) + Len(u)
      BY <1>1, ConcatProperties, ZenonT(30)
    <3>. QED
      BY ONLY <3>1, <3>3, <3>4
  <2>. QED
    BY <1>1, <1>2, <2>1
<1>4. /\ Len(w) >= 2 /\ w[1].part = -1 /\ w[2] = [w[1] EXCEPT !.part = -2]
      /\ \A j \in Nat : Message(w, j)
  <2>1. w # <<>>
    <3>1. Len(<<>>) = 0
      OBVIOUS
    <3>. QED
      BY <1>0, <3>1
  <2>. QED
    BY <2>1 DEF FramedWire
<1>5. Len(z) >= 2 /\ z[1] = w[1] /\ z[2] = w[2]
  <2>1. 1 \in 1 .. Len(w) /\ 2 \in 1 .. Len(w)
    BY ONLY <1>0, <1>4
  <2>2. Len(z) >= Len(w) /\ \A i \in 1 .. Len(w) : z[i] = w[i]
    OBVIOUS
  <2>3. Len(w) >= 2
    BY <1>4
  <2>4. Len(z) >= 2
    BY ONLY <1>0, <2>2, <2>3
  <2>5. z[1] = w[1] /\ z[2] = w[2]
    BY ONLY <2>1, <2>2, Zenon
  <2>. QED
    BY <2>4, <2>5
<1>6. ASSUME NEW j \in Nat PROVE Message(z, j)
  <2>1. CASE j < a
    <3>1. PICK m \in Nat : \A p \in 1 .. 3 : 3 * j + 2 + p <= Len(w) => w[3 * j + 2 + p] = Unit(m, p)
      BY <1>4 DEF Message
    <3>2. \A p \in 1 .. 3 : 3 * j + 2 + p <= Len(w) /\ 3 * j + 2 + p \in 1 .. Len(w)
      <4>1. PICK x : x = Len(w)
        OBVIOUS
      <4>2. x = 2 + 3 * a + k /\ x \in Nat /\ a \in Nat /\ k \in Nat /\ j \in Nat
        BY <4>1
      <4>3. \A p \in 1 .. 3 : 3 * j + 2 + p <= x /\ 3 * j + 2 + p \in 1 .. x
        BY ONLY <2>1, <4>2
      <4>. QED
        BY <4>1, <4>3
    <3>3. \A p \in 1 .. 3 : z[3 * j + 2 + p] = Unit(m, p)
      BY <3>1, <3>2
    <3>. QED
      BY <3>3 DEF Message
  <2>2. CASE ~(j < a) /\ 3 * j + 3 <= Len(z)
    <3>. DEFINE g == r + (j - a)
    <3>1. g \in Nat /\ g < e /\ j - a \in Nat
      BY <1>0, <1>3, <2>2
    <3>2. PICK m \in 1 .. n : /\ d[3 * g + 1] = Unit(m, 1)
                              /\ d[3 * g + 2] = Unit(m, 2)
                              /\ d[3 * g + 3] = Unit(m, 3)
      <4>. HIDE DEF g
      <4>. QED
        BY <3>1 DEF Framed
    <3>3. ASSUME NEW p \in 1 .. 3, 3 * j + 2 + p <= Len(z) PROVE z[3 * j + 2 + p] = Unit(m, p)
      <4>. DEFINE i == 3 * (j - a) + p
      <4>1. i \in 1 .. l /\ 2 + 3 * a + i = 3 * j + 2 + p /\ 3 * r + i = 3 * g + p
        BY <1>3, <2>2, <3>3
      <4>2. z[3 * j + 2 + p] = d[3 * g + p]
        <5>. HIDE DEF i, g
        <5>1. i \in 1 .. l
          BY <4>1
        <5>2. z[2 + 3 * a + i] = u[i] /\ u[i] = d[3 * r + i]
          BY ONLY <1>1, <1>3, <5>1
        <5>3. 2 + 3 * a + i = 3 * j + 2 + p /\ 3 * r + i = 3 * g + p
          BY <4>1
        <5>. QED
          BY ONLY <5>2, <5>3, Zenon
      <4>3. p = 1 \/ p = 2 \/ p = 3
        OBVIOUS
      <4>. HIDE DEF g
      <4>. QED
        BY <3>2, <4>2, <4>3
    <3>4. m \in Nat
      OBVIOUS
    <3>. QED
      BY <3>3, <3>4 DEF Message
  <2>3. CASE 3 * j + 3 > Len(z)
    <3>1. \A p \in 1 .. 3 : ~(3 * j + 2 + p <= Len(z))
      BY ONLY <1>0, <1>6, <2>3
    <3>. QED
      BY <3>1 DEF Message
  <2>. QED
    BY <1>0, <2>1, <2>2, <2>3
<1>. QED
  BY <1>4, <1>5, <1>6 DEF FramedWire

\* Another connection.
LEMMA AppendFramed ==
  ASSUME NEW a \in Seq(Seq(Units)), \A c \in 1 .. Len(a) : FramedWire(a[c]),
         NEW w \in Seq(Units), FramedWire(w), NEW z, z = Append(a, w)
  PROVE  Len(z) = Len(a) + 1 /\ z[Len(z)] = w /\ \A c \in 1 .. Len(z) : FramedWire(z[c])
<1>1. /\ Len(a) \in Nat /\ Len(z) = Len(a) + 1 /\ z[Len(a) + 1] = w
      /\ \A c \in 1 .. Len(a) : z[c] = a[c]
  BY AppendProperties
<1>2. \A c \in 1 .. Len(z) : c \in 1 .. Len(a) \/ c = Len(a) + 1
  BY <1>1
<1>. QED
  BY <1>1, <1>2

\* More on the current connection.
LEMMA PutLast ==
  ASSUME NEW a \in Seq(Seq(Units)), Len(a) > 0, NEW units \in Seq(Units),
         NEW z, z = PutBehind(a, Len(a), units)
  PROVE  /\ Len(z) = Len(a) /\ z[Len(z)] = a[Len(a)] \o units
         /\ \A c \in 1 .. Len(a) : z[c] = a[c] \/ z[c] = a[Len(a)] \o units
<1>. DEFINE last == a[Len(a)] \o units
<1>1. Len(a) \in Nat /\ Len(a) \in 1 .. Len(a) /\ a[Len(a)] \in Seq(Units)
  OBVIOUS
<1>2. last \in Seq(Units)
  BY <1>1
<1>3. z = [a EXCEPT ![Len(a)] = last]
  BY DEF PutBehind
<1>. HIDE DEF last
<1>4. /\ Len(z) = Len(a)
      /\ \A c \in 1 .. Len(a) : z[c] = IF c = Len(a) THEN last ELSE a[c]
  BY <1>1, <1>2, <1>3, ExceptSeq
<1>5. z[Len(z)] = last
  BY <1>1, <1>4
<1>. QED
  BY <1>4, <1>5 DEF last

LEMMA PutFramed ==
  ASSUME NEW a \in Seq(Seq(Units)), Len(a) > 0, \A c \in 1 .. Len(a) : FramedWire(a[c]),
         NEW units \in Seq(Units), NEW z, z = PutBehind(a, Len(a), units),
         FramedWire(a[Len(a)] \o units)
  PROVE  \A c \in 1 .. Len(z) : FramedWire(z[c])
<1>1. Len(z) = Len(a) /\ \A c \in 1 .. Len(a) : z[c] = a[c] \/ z[c] = a[Len(a)] \o units
  BY PutLast
<1>. QED
  BY <1>1

\* The chunk b holds l units to send, and connection z ends with them.
EndsWithChunk(z, b, l) ==
  /\ BufferOK(b) /\ \E n \in Nat : FramedBuf(b, n)
  /\ b.rd + l <= b.msg
  /\ \E v \in Seq(Units) : z = v \o SubSeq(b.data, b.rd + 1, b.rd + l)

\* The connection w has carried k units behind whole messages.
Carried(w, a, k) ==
  w \in Seq(Units) /\ FramedWire(w) /\ a \in Nat /\ k \in Nat /\ Len(w) = 2 + 3 * a + k

\* What processChunk() adds to a connection that has carried w.
LEMMA ChunkFramed ==
  ASSUME NEW w, NEW a, NEW k, Carried(w, a, k),
         NEW l \in Nat, l >= k, NEW units \in Seq(Units), Len(units) = l - k,
         NEW b, EndsWithChunk(w \o units, b, l)
  PROVE  FramedWire(w \o units) /\ Len(w \o units) = 2 + 3 * a + l
<1>. DEFINE z == w \o units
            d == b.data
            s == SubSeq(d, b.rd + 1, b.rd + l)
<1>01. /\ w \in Seq(Units) /\ FramedWire(w) /\ a \in Nat /\ k \in Nat
       /\ Len(w) = 2 + 3 * a + k
  BY DEF Carried
<1>02. BufferOK(b) /\ b.rd + l <= b.msg
  BY DEF EndsWithChunk
<1>03. PICK n \in Nat : FramedBuf(b, n)
  BY DEF EndsWithChunk
<1>04. PICK v \in Seq(Units) : w \o units = v \o s
  BY DEF EndsWithChunk
<1>1. PICK r, e \in Nat : b.rd = 3 * r /\ b.msg = 3 * e /\ Framed(d, e, n)
  BY <1>03 DEF FramedBuf
<1>2. d \in Seq(Units) /\ b.rd \in Nat /\ b.msg \in Nat /\ b.msg <= Len(d) /\ Len(d) \in Nat
  <2>1. d \in Seq(Units) /\ b.rd \in Nat /\ b.msg \in Nat /\ b.msg <= Len(d)
    BY ONLY <1>02 DEF BufferOK, Wr
  <2>. QED
    BY ONLY <2>1
<1>3. s \in Seq(Units) /\ Len(s) = l
  <2>1. b.rd + l <= Len(d) /\ l \in Nat
    BY ONLY <1>02, <1>2, l \in Nat
  <2>. HIDE DEF d
  <2>. QED
    BY ONLY <1>2, <2>1, SubSeqOf DEF s
<1>4. /\ z \in Seq(Units) /\ Len(z) = Len(w) + Len(units)
      /\ \A i \in 1 .. Len(w) : z[i] = w[i]
  <2>1. /\ z \in Seq(Units) /\ Len(z) = Len(w) + Len(units)
        /\ \A i \in 1 .. (Len(w) + Len(units)) :
             z[i] = IF i <= Len(w) THEN w[i] ELSE units[i - Len(w)]
    BY <1>01, ConcatProperties
  <2>2. Len(w) \in Nat /\ Len(units) \in Nat
    BY <1>01
  <2>. HIDE DEF z
  <2>. QED
    BY <2>1, <2>2
<1>. HIDE DEF s, z
<1>5. z = v \o s
  BY <1>04 DEF s, z
<1>6. Len(z) = Len(v) + l /\ Len(v) \in Nat
  <2>1. v \in Seq(Units) /\ s \in Seq(Units)
    BY <1>3, <1>04
  <2>2. Len(v \o s) = Len(v) + Len(s)
    BY ONLY <2>1
  <2>3. Len(v) \in Nat
    BY ONLY <2>1
  <2>. QED
    BY ONLY <1>3, <1>5, <2>2, <2>3
<1>7. Len(z) = 2 + 3 * a + l
  BY <1>01, <1>4
<1>8. Len(v) = 2 + 3 * a /\ Len(z) >= Len(w)
  BY <1>01, <1>6, <1>7
<1>9. 3 * r + l <= 3 * e /\ 3 * e <= Len(d) /\ z = v \o SubSeq(d, 3 * r + 1, 3 * r + l)
  BY <1>02, <1>1, <1>2, <1>5 DEF s
<1>10. FramedWire(z)
  <2>. HIDE DEF d
  <2>. QED
    BY <1>01, <1>03, <1>04, <1>1, <1>2, <1>4, <1>8, <1>9, FramedOn
<1>. QED
  BY <1>7, <1>10 DEF z

\* A file stays a file.
LEMMA FileWriteKind ==
  ASSUME NEW s, StreamOK(s), s.kind = "file", NEW buf, NEW header,
         NEW o \in file_stream_write(s, buf, header)
  PROVE  o.stream.kind = "file"
<1>. DEFINE File(t) == DOMAIN t = DOMAIN s /\ t.kind = "file"
<1>1. ASSUME NEW t, File(t), NEW data, NEW h \in fwrite(t, data, "short")
      PROVE  File(h.stream)
  <2>1. \/ h = Outcome(Accepted(t, data), Len(data))
        \/ \E n \in 0 .. (Len(data) - 1) : h = Outcome(Accepted(Unlucky(t), SubSeq(data, 1, n)), n)
    BY <1>1 DEF fwrite, If
  <2>2. File(Unlucky(t))
    BY <1>1 DEF Unlucky, StreamOK
  <2>3. ASSUME NEW x, File(x), NEW units PROVE File(Accepted(x, units))
    BY <2>3 DEF Accepted, StreamOK
  <2>. HIDE DEF File
  <2>. QED
    BY <1>1, <2>1, <2>2, <2>3 DEF Outcome
<1>2. ASSUME NEW t, File(t) PROVE File([t EXCEPT !.header_written = TRUE])
  BY <1>2 DEF StreamOK
<1>3. File(s)
  OBVIOUS
<1>4. File(o.stream)
  <2>. HIDE DEF File
  <2>. QED
    <3>1. CASE s.header_written
      BY <1>1, <1>3, <3>1 DEF file_stream_write
    <3>2. CASE ~s.header_written
      <4>1. PICK h \in fwrite(s, header, "short") :
              o \in IF h.ret < Len(header)
                      THEN {Outcome(h.stream, 0)}
                      ELSE fwrite([h.stream EXCEPT !.header_written = TRUE], buf, "short")
        BY <3>2 DEF file_stream_write
      <4>2. File(h.stream)
        BY <1>1, <1>3, <4>1
      <4>3. File([h.stream EXCEPT !.header_written = TRUE])
        BY <1>2, <4>2
      <4>. QED
        BY <1>1, <4>1, <4>2, <4>3 DEF Outcome
    <3>. QED
      BY <3>1, <3>2
<1>. QED
  BY <1>4

\* processChunk() sends.
LEMMA SendFraming ==
  ASSUME FaultsEndConnection, DrainOK, Framing, ProcessSend
  PROVE  Framing'
<1>. DEFINE b == q.mbuf[chunk]
            buf == SubSeq(b.data, b.rd + sent + 1, b.rd + size)
            header == Header(meta_buf)
            a == stream.wire
            z == stream'.wire
<1>1. Shape /\ Messages /\ Sending /\ meta_buf \in Seq(Nat) /\ msgs \in Nat
  <2>1. Shape /\ Messages /\ Sending
    BY DEF DrainOK, QueueInv
  <2>2. MaxMsgs \in Nat
    BY BWAssumption
  <2>. QED
    BY <2>1, <2>2 DEF Messages
<1>2. /\ StreamOK(stream) /\ rpc = "send" /\ size > sent
      /\ size = b.msg - b.rd /\ sent \in 0 .. size
      /\ sent > 0 => Connected(stream)
  BY <1>1 DEF Sending, ProcessSend
<1>3. BufferOK(b) /\ FramedBuf(b, msgs)
  <2>1. chunk \in ChunkIds
    BY <1>1, BWAssumption DEF Shape, ChainOK, Allocated, ChunkIds
  <2>. QED
    BY <1>1, <2>1 DEF Shape, ChainOK, Messages
<1>4. /\ b.data \in Seq(Units) /\ b.rd \in Nat /\ sent \in Nat /\ size \in Nat
      /\ b.rd + size = b.msg /\ b.msg <= Len(b.data) /\ Len(b.data) \in Nat
  <2>1. b.data \in Seq(Units) /\ b.rd \in Nat /\ b.msg \in Nat /\ b.rd <= b.msg
        /\ b.msg <= Len(b.data)
    BY <1>3 DEF BufferOK, Wr
  <2>2. Len(b.data) \in Nat
    BY <2>1
  <2>. QED
    BY <1>2, <2>1, <2>2
<1>5. buf \in Seq(Units) /\ Len(buf) = size - sent
  <2>1. /\ b.rd + sent \in Nat /\ size - sent \in Nat
        /\ (b.rd + sent) + (size - sent) = b.rd + size
        /\ (b.rd + sent) + (size - sent) <= Len(b.data)
    <3>1. b.rd + sent \in Nat /\ size - sent \in Nat
      BY ONLY <1>2, <1>4
    <3>2. (b.rd + sent) + (size - sent) = b.rd + size
      BY ONLY <1>2, <1>4, SMTT(30)
    <3>. QED
      BY ONLY <1>4, <3>1, <3>2
  <2>2. /\ SubSeq(b.data, (b.rd + sent) + 1, (b.rd + sent) + (size - sent)) \in Seq(Units)
        /\ Len(SubSeq(b.data, (b.rd + sent) + 1, (b.rd + sent) + (size - sent))) = size - sent
    BY <1>4, <2>1, SubSeqOf
  <2>. QED
    BY <2>1, <2>2
<1>6. PICK o \in outStream_write(stream, buf, header) :
        /\ stream' = o.stream
        /\ IF o.ret > 0 THEN sent' = sent + o.ret /\ UNCHANGED <<q, rpc>> ELSE SendFailed
  BY DEF ProcessSend
<1>7. chunk' = chunk
  BY DEF ProcessSend
<1>8. Sending'
  BY <1>1, ProcessSendSending
<1>. HIDE DEF buf
<1>9. CASE stream.kind # "net"
  <2>1. stream.kind = "file" /\ o \in file_stream_write(stream, buf, header)
    BY <1>2, <1>6, <1>9 DEF outStream_write, StreamOK
  <2>2. stream'.kind = "file"
    BY <1>2, <1>6, <2>1, FileWriteKind
  <2>. QED
    BY <2>2 DEF Framing
<1>10. CASE stream.kind = "net"
  <2>1. Ready(stream) /\ \A c \in 1 .. Len(a) : FramedWire(a[c])
    BY <1>10 DEF Framing
  <2>2. HeaderOK(header) /\ FramedWire(header) /\ Len(header) = 2
    BY <1>1, HeaderFramed
  <2>3. o \in net_stream_write(stream, buf, header) /\ Len(buf) > 0
    BY <1>2, <1>4, <1>5, <1>6, <1>10 DEF outStream_write
  <2>. HIDE DEF header
  <2>4. NetOutcome(stream, buf, header, o)
    BY <1>2, <1>5, <1>10, <2>1, <2>2, <2>3, SoundNetWrite
  <2>5. a \in Seq(Seq(Units)) /\ header \in Seq(Units) /\ stream'.kind = "net" /\ Ready(stream')
    BY <1>2, <1>6, <2>2, <2>4 DEF StreamOK, HeaderOK, NetOutcome
  <2>6. CASE /\ o.ret = 0 /\ ~Connected(stream')
             /\ z \in {a, Append(a, <<>>), Append(a, header)}
    <3>1. <<>> \in Seq(Units) /\ FramedWire(<<>>)
      BY EmptySeq DEF FramedWire
    <3>2. \A c \in 1 .. Len(z) : FramedWire(z[c])
      BY <2>1, <2>2, <2>5, <2>6, <3>1, AppendFramed
    <3>. QED
      BY <2>5, <2>6, <3>2 DEF Framing
  <2>7. CASE /\ o.ret \in 1 .. Len(buf) /\ Connected(stream')
             /\ z = IF Connected(stream) THEN PutBehind(a, Len(a), SubSeq(buf, 1, o.ret))
                                         ELSE Append(a, header \o SubSeq(buf, 1, o.ret))
    <3>. DEFINE units == SubSeq(buf, 1, o.ret)
                l == sent + o.ret
    <3>1. o.ret \in Nat /\ o.ret > 0 /\ o.ret <= size - sent
      BY <1>2, <1>4, <1>5, <2>7
    <3>2. sent' = l /\ q' = q /\ rpc' = "send" /\ l \in Nat /\ l >= sent /\ l - sent = o.ret
          /\ b.rd + l <= b.msg /\ l > 0
      <4>1. sent' = l /\ q' = q /\ rpc' = "send"
        BY <1>2, <1>6, <3>1
      <4>2. /\ l \in Nat /\ l >= sent /\ l - sent = o.ret /\ l > 0
            /\ b.rd + l <= b.msg
        BY ONLY <1>2, <1>4, <3>1
      <4>. QED
        BY <4>1, <4>2
    <3>3. units \in Seq(Units) /\ Len(units) = o.ret
      <4>1. 0 \in Nat /\ 0 + o.ret <= Len(buf) /\ 0 + 1 = 1 /\ 0 + o.ret = o.ret
        BY <2>7, <3>1
      <4>2. SubSeq(buf, 0 + 1, 0 + o.ret) \in Seq(Units) /\ Len(SubSeq(buf, 0 + 1, 0 + o.ret)) = o.ret
        BY <1>5, <3>1, <4>1, SubSeqOf
      <4>. QED
        BY <4>1, <4>2
    <3>4. PICK v \in Seq(Units) : z[Len(z)] = v \o SubSeq(b.data, b.rd + 1, b.rd + l)
      BY <1>7, <1>8, <3>2 DEF Sending, EndsWith
    <3>. HIDE DEF units, l
    <3>5. ASSUME NEW w \in Seq(Units), FramedWire(w), NEW k \in Nat, Len(w) = 2 + 3 * k + sent,
                 z[Len(z)] = w \o units
          PROVE  FramedWire(w \o units) /\ Len(w \o units) = 2 + 3 * k + l
      <4>1. EndsWithChunk(w \o units, b, l)
        BY <1>1, <1>3, <3>2, <3>4, <3>5 DEF EndsWithChunk
      <4>2. Carried(w, k, sent)
        BY <1>4, <3>5 DEF Carried
      <4>3. l \in Nat /\ l >= sent /\ units \in Seq(Units) /\ Len(units) = l - sent
        BY <3>2, <3>3
      <4>. HIDE DEF b
      <4>. QED
        BY ONLY <4>1, <4>2, <4>3, ChunkFramed
    <3>6. ASSUME \A c \in 1 .. Len(z) : FramedWire(z[c]),
                 NEW k \in Nat, Len(z[Len(z)]) = 2 + 3 * k + l
          PROVE  Framing'
      BY <2>5, <3>2, <3>6 DEF Framing, InFlight
    <3>7. CASE Connected(stream)
      <4>. DEFINE w == a[Len(a)]
      <4>1. z = PutBehind(a, Len(a), units) /\ Len(a) > 0
        BY <2>7, <3>7 DEF units, Connected
      <4>2. w \in Seq(Units) /\ FramedWire(w) /\ Len(a) \in 1 .. Len(a)
        BY <2>1, <2>5, <4>1
      <4>3. PICK k \in Nat : Len(w) = 2 + 3 * k + sent
        BY <1>2, <1>10, <3>7 DEF Framing, InFlight
      <4>4. z[Len(z)] = w \o units
        BY <2>5, <3>3, <4>1, <4>2, PutLast
      <4>. HIDE DEF w
      <4>5. FramedWire(w \o units) /\ Len(w \o units) = 2 + 3 * k + l
        BY <3>5, <4>2, <4>3, <4>4
      <4>6. \A c \in 1 .. Len(z) : FramedWire(z[c])
        BY <2>1, <2>5, <3>3, <4>1, <4>5, PutFramed DEF w
      <4>. QED
        BY <3>6, <4>4, <4>5, <4>6
    <3>8. CASE ~Connected(stream)
      <4>1. z = Append(a, header \o units) /\ sent = 0
        <5>1. sent = 0
          BY <1>2, <1>4, <3>8
        <5>2. z = Append(a, header \o units)
          BY <2>7, <3>8 DEF units
        <5>. QED
          BY <5>1, <5>2
      <4>2. header \o units \in Seq(Units)
        BY <2>5, <3>3
      <4>3. z[Len(z)] = header \o units
        BY <2>5, <4>1, <4>2
      <4>4. Len(header) = 2 + 3 * 0 + sent /\ 0 \in Nat
        BY <2>2, <4>1
      <4>5. FramedWire(header \o units) /\ Len(header \o units) = 2 + 3 * 0 + l
        BY <2>2, <2>5, <3>5, <4>3, <4>4
      <4>6. \A c \in 1 .. Len(z) : FramedWire(z[c])
        BY <2>1, <2>5, <4>1, <4>2, <4>5, AppendFramed
      <4>. QED
        BY <3>6, <4>3, <4>4, <4>5, <4>6
    <3>. QED
      BY <3>7, <3>8
  <2>. QED
    BY <1>6, <2>4, <2>6, <2>7 DEF NetOutcome
<1>. QED
  BY <1>9, <1>10

\* Nothing is sent, and at most whole messages are done with.
LEMMA FramingStays ==
  ASSUME Framing, sent \in Nat \/ rpc # "send",
         stream'.wire = stream.wire, stream'.kind = stream.kind,
         stream.kind = "net" /\ Ready(stream) => Ready(stream'),
         Connected(stream') => Connected(stream),
         \E j \in Nat : InFlight = 3 * j + InFlight', InFlight' \in Nat
  PROVE  Framing'
<1>. SUFFICES ASSUME stream.kind = "net"
              PROVE  /\ Ready(stream')
                     /\ \A c \in 1 .. Len(stream.wire) : FramedWire(stream.wire[c])
                     /\ Connected(stream') =>
                          \E a \in Nat :
                            Len(stream.wire[Len(stream.wire)]) = 2 + 3 * a + InFlight'
  BY DEF Framing
<1>1. /\ Ready(stream) /\ \A c \in 1 .. Len(stream.wire) : FramedWire(stream.wire[c])
      /\ Connected(stream) =>
           \E a \in Nat : Len(stream.wire[Len(stream.wire)]) = 2 + 3 * a + InFlight
  BY DEF Framing
<1>2. ASSUME Connected(stream')
      PROVE  \E a \in Nat : Len(stream.wire[Len(stream.wire)]) = 2 + 3 * a + InFlight'
  <2>1. PICK a \in Nat : Len(stream.wire[Len(stream.wire)]) = 2 + 3 * a + InFlight
    BY <1>1, <1>2
  <2>2. PICK j \in Nat : InFlight = 3 * j + InFlight'
    OBVIOUS
  <2>3. InFlight' \in Nat /\ a + j \in Nat
    OBVIOUS
  <2>4. 2 + 3 * a + InFlight = 2 + 3 * (a + j) + InFlight'
    BY ONLY <2>2, <2>3, a \in Nat, j \in Nat
  <2>. QED
    BY ONLY <2>1, <2>3, <2>4
<1>. QED
  BY <1>1, <1>2

LEMMA InitFraming == Init => Framing
<1>. SUFFICES ASSUME Init, stream.kind = "net" PROVE Framing
  BY DEF Framing
<1>1. PICK kind \in StreamKinds : stream = NewStream(kind, MaxLuck)
  BY DEF Init
<1>2. stream.kind = kind /\ stream.socket = (kind = "file")
      /\ stream.wire = (IF kind = "file" THEN << <<>> >> ELSE <<>>)
  BY <1>1 DEF NewStream
<1>3. stream.wire = <<>> /\ ~stream.socket
  BY <1>2
<1>. QED
  BY <1>3 DEF Framing, Ready, Connected

LEMMA FramingKept ==
  ASSUME FaultsEndConnection, DrainOK, Framing, [Next]_vars
  PROVE  Framing'
<1>0. Shape /\ Messages /\ Sending /\ StreamOK(stream)
  BY DEF DrainOK, QueueInv, Sending
<1>1. /\ sent \in Nat \/ rpc # "send"
      /\ InFlight \in Nat
  <2>1. rpc = "send" => sent \in 0 .. size /\ size \in Nat
    <3>1. BufferOK(q.mbuf[chunk])
      BY <1>0, BWAssumption DEF Shape, ChainOK, Allocated, ChunkIds
    <3>. QED
      BY <1>0, <3>1 DEF Sending, BufferOK
  <2>. QED
    BY <2>1 DEF InFlight
<1>2. ASSUME NEW n \in Nat PROVE \E j \in Nat : n = 3 * j + n
  <2>1. 0 \in Nat /\ n = 3 * 0 + n
    OBVIOUS
  <2>. QED
    BY <2>1
<1>3. ASSUME stream' = stream \/ stream' = Unlucky(stream), InFlight' = InFlight
      PROVE  Framing'
  <2>1. /\ stream'.wire = stream.wire /\ SameSetting(stream, stream')
        /\ stream'.disconnected = stream.disconnected
    BY <1>0, <1>3, UnluckyEffect DEF SameSetting
  <2>2. /\ stream'.kind = stream.kind /\ (Ready(stream) => Ready(stream'))
        /\ Connected(stream') => Connected(stream)
    BY <2>1 DEF SameSetting, Ready, Connected
  <2>. QED
    BY <1>1, <1>2, <1>3, <2>1, <2>2, FramingStays
<1>4. CASE Elsewhere
  <2>1. /\ UNCHANGED sent /\ (rpc' = rpc \/ (rpc = "wait" /\ rpc' = "woken"))
        /\ stream' = stream \/ Joined
    BY <1>0, <1>4, ElsewhereEffect
  <2>2. InFlight' = InFlight
    BY <2>1 DEF InFlight
  <2>3. CASE stream' = stream
    BY <1>3, <2>2, <2>3
  <2>4. CASE Joined
    <3>1. stream' \in {stream, [stream EXCEPT !.socket = FALSE]}
      BY <2>4 DEF Joined
    <3>2. /\ stream'.wire = stream.wire /\ stream'.kind = stream.kind
          /\ (Ready(stream) => Ready(stream')) \/ stream.kind # "net"
          /\ Connected(stream') => Connected(stream)
      BY <1>0, <3>1 DEF StreamOK, Ready, Connected
    <3>. QED
      BY <1>1, <1>2, <2>2, <3>2, FramingStays
  <2>. QED
    BY <2>1, <2>3, <2>4
<1>5. ASSUME NEW w \in Writers, RowStart(w) \/ RowCols(w) \/ RowEnd(w)
      PROVE  Framing'
  <2>1. /\ stream' = stream \/ stream' = Unlucky(stream)
        /\ UNCHANGED sent /\ (rpc' = rpc \/ (rpc = "wait" /\ rpc' = "woken"))
    BY <1>5 DEF RowStart, RowCols, RowEnd, Adversity, senderVars, bw_unlock_buf, Signalled
  <2>2. InFlight' = InFlight
    BY <2>1 DEF InFlight
  <2>. QED
    BY <1>3, <2>1, <2>2
<1>6. CASE ProcessSend
  BY <1>6, SendFraming
<1>7. CASE ProcessDone
  <2>1. rpc = "send" /\ rpc' = "return" /\ size = sent /\ stream' = stream
    BY <1>7 DEF ProcessDone
  <2>. DEFINE b == q.mbuf[chunk]
  <2>2. BufferOK(b) /\ FramedBuf(b, msgs) /\ size = b.msg - b.rd
    <3>1. chunk \in ChunkIds
      BY <1>0, BWAssumption DEF Shape, ChainOK, Allocated, ChunkIds
    <3>. QED
      BY <1>0, <2>1, <3>1 DEF Shape, ChainOK, Messages, Sending
  <2>3. PICK r, e \in Nat : b.rd = 3 * r /\ b.msg = 3 * e
    BY <2>2 DEF FramedBuf
  <2>4. b.rd <= b.msg
    BY <2>2 DEF BufferOK
  <2>. HIDE DEF b
  <2>5. e - r \in Nat /\ size = 3 * (e - r)
    BY ONLY <2>2, <2>3, <2>4
  <2>6. InFlight' = 0 /\ InFlight = 3 * (e - r) + InFlight'
    BY <2>1, <2>5 DEF InFlight
  <2>7. \E j \in Nat : InFlight = 3 * j + InFlight'
    BY <2>5, <2>6
  <2>. QED
    BY <1>1, <2>1, <2>6, <2>7, FramingStays
<1>8. CASE ProcessEnter
  <2>1. stream' = stream /\ rpc = "enter" /\ (rpc' = "return" \/ (rpc' = "send" /\ sent' = 0))
    BY <1>8 DEF ProcessEnter
  <2>2. InFlight' = InFlight
    BY <2>1 DEF InFlight
  <2>. QED
    BY <1>3, <2>1, <2>2
<1>9. CASE \/ ReaderTest \/ ReaderWait \/ ReaderWoken \/ ReaderLoop \/ ReaderNext \/ DrainNext
           \/ SpuriousWakeup
  <2>1. /\ stream' = stream \/ stream' = Unlucky(stream)
        /\ rpc # "send" /\ rpc' # "send"
    BY <1>9 DEF ReaderTest, ReaderWait, ReaderWoken, ReaderLoop, ReaderNext, DrainNext,
                SpuriousWakeup, Adversity
  <2>2. InFlight' = InFlight
    BY <2>1 DEF InFlight
  <2>. QED
    BY <1>3, <2>1, <2>2
<1>10. CASE TimePasses
  <2>1. stream' = stream /\ rpc' = rpc /\ sent' = sent
    BY <1>10 DEF TimePasses
  <2>. QED
    BY <1>3, <2>1 DEF InFlight
<1>. QED
  BY <1>4, <1>5, <1>6, <1>7, <1>8, <1>9, <1>10, StepsSplit DEF ReaderStep

\* Whole messages and a rest, by division.
LEMMA DivideThree ==
  ASSUME NEW k \in Nat
  PROVE  \E j \in Nat : /\ k - (k % 3) = 3 * j /\ k % 3 \in 0 .. 2
                        /\ k = 3 * j + (k % 3)
<1>. DEFINE j == k \div 3
<1>1. j \in Nat /\ k = 3 * j + (k % 3) /\ (k % 3) \in 0 .. 2
  OBVIOUS
<1>. HIDE DEF j
<1>2. k - (k % 3) = 3 * j
  BY <1>1
<1>. QED
  BY <1>1, <1>2

LEMMA RestOfThree ==
  ASSUME NEW i \in Nat, i > 0
  PROVE  \E j \in Nat, p \in 1 .. 3 : i = 3 * j + p /\ ((i - 1) % 3) + 1 = p
<1>1. i - 1 \in Nat
  OBVIOUS
<1>2. PICK j \in Nat : (i - 1) % 3 \in 0 .. 2 /\ i - 1 = 3 * j + ((i - 1) % 3)
  BY <1>1, DivideThree
<1>. DEFINE p == ((i - 1) % 3) + 1
<1>3. p \in 1 .. 3 /\ i = 3 * j + p
  BY <1>2
<1>. QED
  BY <1>3

LEMMA FramedIsFrames ==
  ASSUME NEW w \in Seq(Units), FramedWire(w)
  PROVE  Frames(w)
<1>1. CASE w = <<>>
  BY <1>1 DEF Frames
<1>2. CASE w # <<>>
  <2>. DEFINE data == SubSeq(w, 3, Len(w))
              N == Len(data)
              whole == N - (N % LastPart)
              s == SubSeq(data, 1, whole)
  <2>1. /\ Len(w) \in Nat /\ Len(w) >= 2 /\ w[1].part = -1 /\ w[2] = [w[1] EXCEPT !.part = -2]
        /\ \A j \in Nat : Message(w, j)
    BY <1>2 DEF FramedWire
  <2>2. data \in Seq(Units) /\ N \in Nat /\ N = Len(w) - 2 /\ \A i \in 1 .. N : data[i] = w[2 + i]
    <3>1. 2 \in Nat /\ Len(w) - 2 \in Nat /\ 2 + (Len(w) - 2) <= Len(w) /\ 2 + (Len(w) - 2) = Len(w)
          /\ 2 + 1 = 3
      BY <2>1
    <3>2. /\ SubSeq(w, 2 + 1, 2 + (Len(w) - 2)) \in Seq(Units)
          /\ Len(SubSeq(w, 2 + 1, 2 + (Len(w) - 2))) = Len(w) - 2
          /\ \A i \in 1 .. (Len(w) - 2) : SubSeq(w, 2 + 1, 2 + (Len(w) - 2))[i] = w[2 + i]
      BY <3>1, SubSeqOf
    <3>. QED
      BY <3>1, <3>2
  <2>. HIDE DEF data
  <2>3. PICK g \in Nat : whole = 3 * g /\ N % LastPart \in 0 .. 2 /\ N = 3 * g + (N % LastPart)
    BY <2>2, DivideThree DEF LastPart
  <2>4. whole \in Nat /\ whole <= N /\ N <= 3 * g + 2
    BY <2>2, <2>3
  <2>5. s \in Seq(Units) /\ Len(s) = whole /\ \A i \in 1 .. whole : s[i] = data[i]
    <3>1. 0 \in Nat /\ 0 + whole <= Len(data) /\ 0 + 1 = 1 /\ 0 + whole = whole
      BY <2>4
    <3>. HIDE DEF whole
    <3>2. /\ SubSeq(data, 0 + 1, 0 + whole) \in Seq(Units)
          /\ Len(SubSeq(data, 0 + 1, 0 + whole)) = whole
          /\ \A i \in 1 .. whole : SubSeq(data, 0 + 1, 0 + whole)[i] = data[0 + i]
      BY <2>2, <2>4, <3>1, SubSeqOf
    <3>. QED
      BY <3>1, <3>2
  <2>. HIDE DEF N, whole, s
  <2>6. ASSUME NEW j \in Nat
        PROVE  \E m \in Nat : \A p \in 1 .. 3 : 3 * j + p <= N => data[3 * j + p] = Unit(m, p)
    <3>1. PICK m \in Nat : \A p \in 1 .. 3 : 3 * j + 2 + p <= Len(w) => w[3 * j + 2 + p] = Unit(m, p)
      BY <2>1 DEF Message
    <3>2. ASSUME NEW p \in 1 .. 3, 3 * j + p <= N PROVE data[3 * j + p] = Unit(m, p)
      <4>1. /\ 3 * j + p \in 1 .. N /\ 3 * j + 2 + p <= Len(w)
            /\ 2 + (3 * j + p) = 3 * j + 2 + p
        BY <2>1, <2>2, <3>2
      <4>. QED
        BY <2>2, <3>1, <4>1
    <3>. QED
      BY <3>2
  <2>7. Len(s) % LastPart = 0
    <3>1. (3 * g) % 3 = 0
      OBVIOUS
    <3>. QED
      BY <2>3, <2>5, <3>1 DEF LastPart
  <2>8. ASSUME NEW i \in 1 .. Len(s)
        PROVE  /\ s[i].part = ((i - 1) % LastPart) + 1
               /\ s[i].part > 1 => s[i].body = s[i - 1].body
    <3>0. i \in 1 .. whole
      BY <2>5
    <3>1. PICK j \in Nat, p \in 1 .. 3 : i = 3 * j + p /\ ((i - 1) % 3) + 1 = p
      <4>1. i \in Nat /\ i > 0
        BY ONLY <2>4, <3>0
      <4>. QED
        BY ONLY <4>1, RestOfThree
    <3>2. PICK m \in Nat : \A k \in 1 .. 3 : 3 * j + k <= N => data[3 * j + k] = Unit(m, k)
      BY <2>6
    <3>3. s[i] = Unit(m, p)
      <4>1. 3 * j + p <= N
        BY ONLY <2>2, <2>4, <3>0, <3>1
      <4>2. data[3 * j + p] = Unit(m, p)
        BY <3>2, <4>1
      <4>. QED
        BY ONLY <2>5, <3>0, <3>1, <4>2
    <3>4. ASSUME p > 1 PROVE s[i - 1] = Unit(m, p - 1)
      <4>1. p - 1 \in 1 .. 3 /\ i - 1 = 3 * j + (p - 1) /\ i - 1 \in 1 .. whole /\ i - 1 <= N
        BY <2>2, <2>4, <3>0, <3>1, <3>4
      <4>. QED
        BY <2>5, <3>2, <4>1
    <3>. QED
      BY <3>1, <3>3, <3>4 DEF Unit, LastPart
  <2>9. ASSUME NEW i \in (whole + 1) .. N
        PROVE  data[i] = Unit(data[whole + 1].body[1], i - whole)
    <3>1. PICK m \in Nat : \A p \in 1 .. 3 : 3 * g + p <= N => data[3 * g + p] = Unit(m, p)
      BY <2>6
    <3>. DEFINE p == i - whole
    <3>2. p \in 1 .. 3 /\ i = 3 * g + p /\ 3 * g + p <= N /\ 3 * g + 1 <= N /\ whole + 1 = 3 * g + 1
      BY <2>2, <2>3, <2>4
    <3>. HIDE DEF p
    <3>3. data[i] = Unit(m, p) /\ data[whole + 1] = Unit(m, 1)
      BY <3>1, <3>2
    <3>4. data[whole + 1].body[1] = m
      BY <3>3 DEF Unit
    <3>. QED
      BY <3>3, <3>4 DEF p
  <2>10. WholeMessages(s)
    BY <2>7, <2>8 DEF WholeMessages
  <2>11. /\ WholeMessages(SubSeq(data, 1, N - (N % LastPart)))
         /\ \A i \in ((N - (N % LastPart)) + 1) .. N :
              data[i] = Unit(data[(N - (N % LastPart)) + 1].body[1], i - (N - (N % LastPart)))
    BY <2>9, <2>10 DEF s, whole
  <2>. QED
    BY <2>1, <2>11 DEF Frames, data, N
<1>. QED
  BY <1>1, <1>2

\* What a server can make of a connection: as long as a fault of the network
\* ends the connection on which it happens, each connection of net_stream.c
\* carries one header and then whole messages, of which only the last may be
\* cut, through partial sends, failures and reconnections.
THEOREM ConnectionsAreFramed ==
  ASSUME FaultsEndConnection
  PROVE  Spec => []WellFramed
<1>1. Init => Framing
  BY InitFraming
<1>2. DrainOK /\ Framing /\ [Next]_vars => Framing'
  BY FramingKept
<1>3. DrainOK /\ Framing => WellFramed
  <2>. SUFFICES ASSUME DrainOK, Framing, stream.kind = "net", NEW c \in 1 .. Len(stream.wire)
                PROVE  Frames(stream.wire[c])
    BY DEF WellFramed
  <2>1. FramedWire(stream.wire[c])
    BY DEF Framing
  <2>2. stream.wire[c] \in Seq(Units)
    BY DEF DrainOK, QueueInv, Sending, StreamOK
  <2>. QED
    BY <2>1, <2>2, FramedIsFrames
<1>. QED
  BY <1>1, <1>2, <1>3, DrainHolds, PTL DEF Spec

=============================================================================
