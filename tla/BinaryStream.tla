---------------------------- MODULE BinaryStream -----------------------------
(***************************************************************************)
(* A client that writes samples in the binary protocol                     *)
(* (lib/client/bin_writer.c), a connection that hands its bytes over in    *)
(* pieces of any size, and one of the two programs that read them: the     *)
(* server (process_bin_message() in server/client_handler.c), which        *)
(* decodes the samples, or the proxy (proxy_message_loop() in              *)
(* proxy_server/receiver.c), which stores the messages undecoded.          *)
(*                                                                         *)
(* The header lines and the metadata of stream 0 are Server's and Proxy's  *)
(* business; here the headers are over and the streams are known.          *)
(***************************************************************************)
EXTENDS Marshal

CONSTANTS
  Rows,        \* samples the application measures: stream, time and values
  nfields,     \* the streams whose table the server found, and their columns
  MaxRows,     \* bound on the samples of a behaviour
  Cuts,        \* sizes of the pieces recv() returns, 0 for all there is
  Readers      \* who reads: a subset of {"server", "proxy"}

VARIABLES
  msgtype,     \* of the writer: the header it starts the next message with
  sent,        \* the samples sent, each with the bytes of its message
  wire,        \* bytes on their way
  reader, pc,  \* who reads; "idle", "processing" a callback, "error"
  b, rd, msg,  \* the reader's MBuffer: contents, rdptr and msgptr
  rows,        \* what the server decoded, and where it found it
  stored       \* what the proxy queued

writer == <<msgtype, sent>>
mbuf == <<b, rd, msg>>
vars == <<msgtype, sent, wire, reader, pc, b, rd, msg, rows, stored>>

Init ==
  /\ msgtype = OMB_DATA_P
  /\ sent = <<>> /\ wire = <<>>
  /\ reader \in Readers /\ pc = "idle"
  /\ b = <<>> /\ rd = 0 /\ msg = 0
  /\ rows = <<>> /\ stored = <<>>

-----------------------------------------------------------------------------
(* The client.  The columns of a sample come in one part per filter.       *)

owb_row_start(stream, seqno, now) ==
  marshal_measurements(marshal_init(msgtype), stream, seqno, now)

owb_row_cols(buf, values) == marshal_values(buf, values)

\* Once a message has had to be long, all of them are.
owb_row_end(out) ==
  /\ msgtype' = IF marshal_get_msgtype(out) = OMB_LDATA_P
                  THEN OMB_LDATA_P ELSE msgtype
  /\ wire' = wire \o SubSeq(out.mem, 1, out.len)

SendRow(row, moved) ==
  /\ Len(sent) < MaxRows
  /\ \E buf \in {FoldLeft(owb_row_cols,
                          owb_row_start(row.stream, Len(sent) + 1, row.ts),
                          row.cols)} :
     \E out \in {marshal_finalize(buf, moved)} :
       /\ moved => out # marshal_finalize(buf, FALSE)
       /\ owb_row_end(out)
       /\ sent' = Append(sent, [row |-> row, moved |-> moved,
                             bytes |-> SubSeq(out.mem, 1, out.len)])
  /\ UNCHANGED <<reader, pc, mbuf, rows, stored>>

-----------------------------------------------------------------------------
(* client_callback(): the bytes are appended, then messages are processed  *)
(* until process_bin_message() returns 0, and what was consumed goes.      *)

Recv(n) ==
  LET len == IF n = 0 \/ n > Len(wire) THEN Len(wire) ELSE n
  IN /\ pc = "idle" /\ wire # <<>>
     /\ b' = b \o SubSeq(wire, 1, len)
     /\ wire' = SubSeq(wire, len + 1, Len(wire))
     /\ pc' = "processing"
     /\ UNCHANGED <<writer, reader, rd, msg, rows, stored>>

\* mbuf_repack_message(): from msgptr on, rdptr keeps its place.
Repack(r, m) ==
  /\ b' = SubSeq(b, m + 1, Len(b))
  /\ rd' = r - m
  /\ msg' = 0

Returns(r, m) ==
  /\ pc' = "idle"
  /\ Repack(r, m)
  /\ UNCHANGED <<writer, wire, reader, rows, stored>>

\* bin_find_sync(): no message starts in what is left.
NothingFound ==
  /\ reader = "server" /\ pc = "processing"
  /\ find_sync(b, rd) = -1 /\ Left(b, rd) >= 2
  /\ Returns(rd, msg)

\* Otherwise the read pointer is at the next message, or at the last byte.
Start == IF find_sync(b, rd) = -1 THEN rd ELSE find_sync(b, rd)

Processing ==
  /\ reader = "server" /\ pc = "processing"
  /\ find_sync(b, rd) # -1 \/ Left(b, rd) < 2

\* unmarshal_init() wants more, or does not take it for a message; in the
\* latter case too the rest of the buffer waits for the next callback.
NoMessageYet(h, at) == h.res # 1 /\ Returns(h.p, at)

Continues(r, m) ==
  /\ rd' = r /\ msg' = m
  /\ UNCHANGED <<writer, wire, reader, pc, b, stored>>

UnknownStream(h, at) ==
  /\ h.res = 1 /\ h.stream \notin DOMAIN nfields
  /\ Continues(h.p, at)
  /\ UNCHANGED rows

\* process_bin_data_message() returns early: its message is not consumed and
\* the next one is looked for from where reading stopped, mostly in its body.
Discard(h, u, at) ==
  /\ u.n # nfields[h.stream]
  /\ Continues(u.p, IF u.n \in -100..-1 THEN u.p ELSE at)
  /\ UNCHANGED rows

\* Where message i begins in all that was sent, and where the byte after the
\* first p of the buffer is.
StartOf(i) == FoldLeft(LAMBDA n, s : n + Len(s.bytes), 0, SubSeq(sent, 1, i - 1))
Offset(p) == StartOf(Len(sent) + 1) - Len(wire) - Len(b) + p

Insert(h, u, at) ==
  /\ u.n = nfields[h.stream]
  /\ rows' = Append(rows, [stream |-> h.stream, seqno |-> h.seqno,
                           ts |-> h.ts, values |-> u.vals, at |-> Offset(at)])
  /\ Continues(u.p, u.p)

process_bin_message ==
  /\ Processing
  /\ \E at \in {Start} : \E h \in {unmarshal_init(b, at)} :
       \/ NoMessageYet(h, at)
       \/ UnknownStream(h, at)
       \/ /\ h.res = 1 /\ h.stream \in DOMAIN nfields
          /\ \E u \in {unmarshal_values(b, h, nfields[h.stream])} :
               Discard(h, u, at) \/ Insert(h, u, at)

-----------------------------------------------------------------------------
(* The proxy: bin_read_msg_start() says how long the message at the start  *)
(* of the buffer is (0 for "not there yet", -1 for an error), and one      *)
(* message is stored per callback.  The results of reading the length are  *)
(* not looked at: with its bytes missing, the length is whatever the       *)
(* variable held.                                                          *)

\* Variant: the header of a long message is taken to be a short one's.
ReadShortHeader(garbage) ==
  LET at == find_sync(b, rd)
      h == HeaderSize(b[at + 3])
      length == ntoh(Bytes(b, at + 3, h - 3))
  IN IF at = -1 THEN -1
     ELSE IF Left(b, at) < h \/ Left(b, at + h) < length THEN 0
     ELSE length + PACKET_HEADER_SIZE

bin_read_msg_start(garbage) ==
  LET at == find_sync(b, rd)
      type == b[at + 3]
      h == HeaderSize(type)
      whole == Left(b, at) >= h
      length == IF whole THEN ntoh(Bytes(b, at + 3, h - 3)) ELSE garbage
      rest == IF whole THEN Left(b, at + h) ELSE Left(b, at + 3)
  IN IF at = -1 THEN -1
     ELSE IF Left(b, at) < 3 THEN 0
     ELSE IF type \notin {OMB_DATA_P, OMB_LDATA_P} THEN -1
     ELSE IF rest < length THEN 0
     ELSE length + h

\* store_received_message() copies as many bytes as it is told; those past
\* the end of what was received are marked -1.
StoredBytes(at, n) ==
  [i \in 1..n |-> IF at + i <= Len(b) THEN b[at + i] ELSE -1]

ProxyMessage(garbage) ==
  /\ reader = "proxy" /\ pc = "processing"
  /\ \E at \in {Start}, n \in {bin_read_msg_start(garbage)} :
       \/ n = -1 /\ pc' = "error" /\ UNCHANGED <<mbuf, stored>>
       \/ n = 0 /\ pc' = "idle" /\ Repack(at, at) /\ UNCHANGED stored
       \/ /\ n > 0 /\ pc' = "idle"
          /\ \E end \in {IF at + n <= Len(b) THEN at + n ELSE at} :
               Repack(end, end)
          /\ stored' = Append(stored, StoredBytes(at, n))
  /\ UNCHANGED <<writer, wire, reader, rows>>

\* What an uninitialised length may hold: little, or a lot.
Garbage == {0, Radix^W16}

-----------------------------------------------------------------------------

Next ==
  \/ \E row \in Rows, moved \in BOOLEAN : SendRow(row, moved)
  \/ \E n \in Cuts : Recv(n)
  \/ NothingFound \/ process_bin_message
  \/ \E g \in Garbage : ProxyMessage(g)

Spec == Init /\ [][Next]_vars

-----------------------------------------------------------------------------
(* What a value is worth after the journey.                                *)

Carried(val) ==
  CASE val.t = "long" ->
         [t |-> "int32", v |-> <<IF val.v[1] > INT_MAX THEN INT_MAX
                                 ELSE IF val.v[1] < INT_MIN THEN INT_MIN
                                 ELSE val.v[1]>>]
    [] val.t = "string" /\ val.v = NullString -> [val EXCEPT !.v = <<>>]
    [] val.t = "string" /\ Len(val.v) > Radix - 2 ->
         [val EXCEPT !.v = SubSeq(@, 1, Radix - 2)]
    [] val.t = "double" /\ val.v # <<>> ->
         IF val.v[2] \notin (-(Radix \div 2))..(Radix \div 2 - 1)
           THEN [val EXCEPT !.v = <<>>]
           ELSE [val EXCEPT !.v[1] =
                   CHOOSE m \in 1-(2^Mant)..(2^Mant-1) :
                     /\ m % 2^(Mant - BIG_L) = 0
                     /\ m * @ >= 0 /\ Magnitude(m) <= Magnitude(@)
                     /\ Magnitude(@) - Magnitude(m) < 2^(Mant - BIG_L)]
    [] OTHER -> val

CarriedRow(i) ==
  LET row == sent[i].row
      vals == FlattenSeq(row.cols)
  IN [stream |-> row.stream, seqno |-> i,
      ts |-> Carried([t |-> "double", v |-> row.ts]).v,
      values |-> [k \in 1..Len(vals) |-> Carried(vals[k])],
      at |-> StartOf(i)]

Columns(i) == Len(FlattenSeq(sent[i].row.cols))

\* A NULL blob among the values.
Abandoned(s) == SelectInSeq(FlattenSeq(s.row.cols), IsNullBlob) # 0

Insertable(i) ==
  /\ sent[i].row.stream \in DOMAIN nfields
  /\ nfields[sent[i].row.stream] = Columns(i)
  /\ ~sent[i].moved /\ ~Abandoned(sent[i])

\* A discarded message that leads the search for the next one astray: it has
\* a synchronisation byte in its body, or more values than fit, for which too
\* much is skipped.
Spoils(i) ==
  /\ ~Insertable(i)
  /\ \/ \E k \in 3..Len(sent[i].bytes) : sent[i].bytes[k] = SYNC_BYTE
     \/ /\ sent[i].row.stream \in DOMAIN nfields
        /\ Columns(i) > nfields[sent[i].row.stream]

\* However the bytes are cut up, whatever is discarded on the way and even if
\* the writer's buffer moved under it, a sample that the server inserts is one
\* that was measured, with the values that the protocol can carry (a long
\* clamped to 32 bits, a string cut, a mantissa shortened), each at most once
\* and in the order in which they were measured.  There is one exception: a
\* discarded message is not skipped but searched for the next one, so bytes
\* inside a message are taken for a sample if it, or one before it, was
\* discarded and has synchronisation bytes in its body or too many values.
DecodedWasSent ==
  /\ \A k \in 1..Len(rows) : \E i \in 1..Len(sent) :
       \/ rows[k] = CarriedRow(i)
       \/ /\ StartOf(i) < rows[k].at /\ rows[k].at < StartOf(i + 1)
          /\ \E j \in 1..i : Spoils(j)
  /\ \A j, k \in 1..Len(rows) : j < k => rows[j].at < rows[k].at

\* When every byte has been received and processed, every sample whose table
\* exists and whose values are as many as its columns has been inserted, short
\* or long, in one piece or in many; the only ones missing are those whose
\* message was abandoned for a NULL blob or written to where the buffer had
\* been, and those behind a discarded message that spoils the search.
NothingLost ==
  reader = "server" /\ pc = "idle" /\ wire = <<>> =>
    \A i \in 1..Len(sent) :
      \/ ~Insertable(i)
      \/ \E j \in 1..(i - 1) : Spoils(j)
      \/ \E k \in 1..Len(rows) : rows[k].at = StartOf(i)

Messages == SelectSeq(sent, LAMBDA s : s.bytes # <<>>)

Damaged(j) ==
  \/ Messages[j].moved \/ Abandoned(Messages[j])
  \/ \E i \in 1..Len(stored[j]) : stored[j][i] = -1

\* The proxy stores what the client sent, message by message and byte by byte,
\* up to a message that was abandoned half-way, or whose length was written to
\* where the buffer had been or looked at before it was there.
ProxyStoresSent ==
  \A k \in 1..Len(stored) :
    (\A j \in 1..k : ~Damaged(j)) => stored[k] = Messages[k].bytes

=============================================================================
