----------------------------- MODULE OutStream ------------------------------
(***************************************************************************)
(* Output streams: what one call of OmlOutStream.write() may do.           *)
(*                                                                         *)
(* net_stream.c writes to a TCP server through the OComm socket of         *)
(* socket.c, (re)connecting and sending the header when needed;            *)
(* file_stream.c writes to a file.  Both are called by a single thread, so *)
(* a call is a function from the stream's state to the set of its possible *)
(* outcomes; the environment (kernel, network, disk) makes the choice.     *)
(*                                                                         *)
(* A stream is a record                                                    *)
(*   kind            "net" or "file"                                        *)
(*   socket          OmlNetOutStream.socket # NULL                         *)
(*   disconnected    SocketInt.is_disconnected                             *)
(*   header_written  the header was sent on this connection, or so we think*)
(*   wire            for each connection, what the kernel accepted         *)
(*   luck            bound: adverse events that may still happen           *)
(* Bytes are abstracted to units: a message or a header is a few units.    *)
(***************************************************************************)
EXTENDS Integers, Sequences

CONSTANTS
  StreamKinds,  \* a subset of {"net", "file"}
  Faults        \* adverse events that may happen:
                \*   "refused"    no connection can be made
                \*   "closed"     the peer closed: recv() = 0, EPIPE, ECONNRESET
                \*   "interrupted" sendto() fails with EINTR
                \*   "other"      sendto() fails with another error
                \*   "short"      part of the data is accepted
                \*   "shortheader" a connection accepts part of the header

ASSUME StreamAssumption ==
  /\ StreamKinds \subseteq {"net", "file"}
  /\ Faults \subseteq {"refused", "closed", "interrupted", "other",
                       "short", "shortheader"}

Outcome(s, n) == [stream |-> s, ret |-> n]

\* The set of outcomes S, if the adverse event f may happen.
If(s, f, S) == IF f \in Faults /\ s.luck > 0 THEN S ELSE {}

Unlucky(s) == [s EXCEPT !.luck = @ - 1]

\* The kernel accepts units for the current connection.
Accepted(s, units) == [s EXCEPT !.wire[Len(s.wire)] = @ \o units]

-----------------------------------------------------------------------------
(* socket.c                                                                *)

s_connect(s) == [s EXCEPT !.disconnected = FALSE, !.wire = Append(@, <<>>)]

\* sendto() on a connected socket and how socket_sendto() treats its errors.
\* "short" is the event that stands for a partial send of this buffer.
sendto(s, buf, short) ==
  {Outcome(Accepted(s, buf), Len(buf))}
  \cup If(s, short, { Outcome(Accepted(Unlucky(s), SubSeq(buf, 1, n)), n) :
                      n \in 1 .. (Len(buf) - 1) })
  \cup If(s, "closed", {Outcome([Unlucky(s) EXCEPT !.disconnected = TRUE], 0)})
  \cup If(s, "interrupted", {Outcome(Unlucky(s), 0)})
  \cup If(s, "other", {Outcome(Unlucky(s), -1)})

\* A disconnected socket reconnects on its own; a connected one first checks,
\* with recv(), that the peer is still there (same outcome as EPIPE).
socket_sendto(s, buf, short) ==
  IF s.disconnected
    THEN If(s, "refused", {Outcome(Unlucky(s), 0)})
         \cup sendto(s_connect(s), buf, short)
    ELSE sendto(s, buf, short)

-----------------------------------------------------------------------------
(* net_stream.c                                                            *)

\* The first call creates the socket, which starts out disconnected.
open_socket(s) ==
  [s EXCEPT !.socket = TRUE, !.disconnected = TRUE, !.header_written = FALSE]

\* The result of sending the header is compared as a size_t, so that -1 is
\* larger than any length.
HeaderSent(n, header) == n = -1 \/ n >= Len(header)

\* Variant: the header is only sent on the first connection.
HeaderOnce(s0, buf, header) ==
  LET s == IF s0.socket THEN s0 ELSE open_socket(s0)
  IN  IF s.header_written
        THEN socket_sendto(s, buf, "short")
        ELSE UNION { IF HeaderSent(h.ret, header)
                       THEN socket_sendto([h.stream EXCEPT !.header_written = TRUE],
                                          buf, "short")
                       ELSE {Outcome(h.stream, 0)} :
                     h \in socket_sendto(s, header, "shortheader") }

net_stream_write(s0, buf, header) ==
  LET s1 == IF s0.socket THEN s0 ELSE open_socket(s0)
      s  == IF s1.disconnected THEN [s1 EXCEPT !.header_written = FALSE] ELSE s1
  IN  IF s.header_written
        THEN socket_sendto(s, buf, "short")
        ELSE UNION { IF HeaderSent(h.ret, header)
                       THEN socket_sendto([h.stream EXCEPT !.header_written = TRUE],
                                          buf, "short")
                       ELSE {Outcome(h.stream, 0)} :
                     h \in socket_sendto(s, header, "shortheader") }

-----------------------------------------------------------------------------
(* file_stream.c: fwrite() may store only a part, when the disk is full.   *)

fwrite(s, buf, short) ==
  {Outcome(Accepted(s, buf), Len(buf))}
  \cup If(s, short, { Outcome(Accepted(Unlucky(s), SubSeq(buf, 1, n)), n) :
                      n \in 0 .. (Len(buf) - 1) })

file_stream_write(s, buf, header) ==
  IF s.header_written
    THEN fwrite(s, buf, "short")
    ELSE UNION { IF h.ret < Len(header)
                   THEN {Outcome(h.stream, 0)}
                   ELSE fwrite([h.stream EXCEPT !.header_written = TRUE],
                               buf, "short") :
                 h \in fwrite(s, header, "short") }

-----------------------------------------------------------------------------
\* A stream as net_stream_new() or file_stream_new() leaves it.
NewStream(kind, luck) ==
  [kind |-> kind,
   socket |-> kind = "file", disconnected |-> kind = "net",
   header_written |-> FALSE,
   wire |-> IF kind = "file" THEN << <<>> >> ELSE <<>>,
   luck |-> luck]

outStream_write(s, buf, header) ==
  IF s.kind = "net" THEN net_stream_write(s, buf, header)
                    ELSE file_stream_write(s, buf, header)
=============================================================================
