------------------------------- MODULE Marshal -------------------------------
(***************************************************************************)
(* The binary protocol of OML: how lib/shared/marshal.c lays values and    *)
(* messages out as bytes, and how it reads them back.                      *)
(*                                                                         *)
(* The layout is the code's, field by field, but a byte has Radix values   *)
(* instead of 256 and the 16, 32 and 64 bit integers are W16, W32 and W64  *)
(* bytes wide, so that every limit (the 254 characters of a string, the    *)
(* 65535 bytes of a short message, the range of a 32 bit integer, the      *)
(* 8 bit exponent) is within the reach of small messages.                  *)
(***************************************************************************)
EXTENDS Integers, Sequences, FiniteSets, SequencesExt

CONSTANTS
  Radix,           \* values of a byte (256)
  W16, W32, W64,   \* bytes in a uint16_t, a uint32_t and a uint64_t (2, 4, 8)
  SYNC_BYTE,       \* 0xAA: is not the code of a type
  Mant,            \* bits in the mantissa of a double (53)
  BIG_L            \* bits of the mantissa that are sent (30)

ASSUME WireAssumption ==
  /\ Radix \in Nat /\ Radix > 16 /\ Radix % 2 = 0
  /\ W16 \in Nat \ {0} /\ W32 \in Nat /\ W64 \in Nat
  /\ W16 < W32 /\ W32 < W64
  /\ SYNC_BYTE \in 16..(Radix - 1)
  /\ Mant \in Nat /\ BIG_L \in 1..Mant
  /\ 2^(BIG_L + 1) <= Radix^W32

-----------------------------------------------------------------------------
(* Codes on the wire, and the types of values.  A value is a record with   *)
(* its type t and v, a sequence of integers: one integer for the integer   *)
(* types, GUIDs and booleans; <<m, e>> for the double (m / 2^Mant) * 2^e,  *)
(* <<>> for NaN; the characters of a string, the bytes of a blob, the      *)
(* elements of a vector.                                                   *)

LONG_T == 1
DOUBLE_T == 2
DOUBLE_NAN == 3
STRING_T == 4
BLOB_T == 9
BOOL_FALSE_T == 11
BOOL_TRUE_T == 12
VECTOR_T == 13
BOOL_T == 14

OMB_DATA_P == 1
OMB_LDATA_P == 2

PACKET_HEADER_SIZE == 3 + W16
STRING_T_MAX_SIZE == Radix - 2

oml_type_map ==
  [long |-> LONG_T, int32 |-> 5, uint32 |-> 6, int64 |-> 7, uint64 |-> 8,
   guid |-> 10]

oml_size_map ==
  [long |-> W32, int32 |-> W32, uint32 |-> W32, int64 |-> W64,
   uint64 |-> W64, guid |-> W64]

\* A double in a vector travels as its 64 bits.
vector_protocol_map ==
  [vint32 |-> 5, vuint32 |-> 6, vint64 |-> 7, vuint64 |-> 8, vbool |-> BOOL_T,
   vdouble |-> 15]

VectorSize ==
  [vint32 |-> W32, vuint32 |-> W32, vint64 |-> W64, vuint64 |-> W64,
   vbool |-> 1, vdouble |-> W64]

\* A LONG_T is read as an int32: only the reader forgets the long type.
protocol_type_map ==
  [c \in {LONG_T, 5, 6, 7, 8, 10} |->
     IF c = LONG_T THEN "int32"
     ELSE CHOOSE t \in DOMAIN oml_type_map : oml_type_map[t] = c]

protocol_size_map ==
  [c \in DOMAIN protocol_type_map |-> oml_size_map[protocol_type_map[c]]]

vector_type_map ==
  [c \in {vector_protocol_map[t] : t \in DOMAIN vector_protocol_map} |->
     CHOOSE t \in DOMAIN vector_protocol_map : vector_protocol_map[t] = c]

-----------------------------------------------------------------------------
(* Integers in network byte order.                                         *)

hton(n, w) == [i \in 1..w |-> (n \div Radix^(w - i)) % Radix]

ntoh(s) == FoldLeft(LAMBDA n, d : n * Radix + d, 0, s)

AsSigned(n, w) == IF 2 * n >= Radix^w THEN n - Radix^w ELSE n

INT_MAX == (Radix^W32 \div 2) - 1
INT_MIN == -(Radix^W32 \div 2)

\* Variant: the conversion to 32 bits, without the comparison.
LongWraps(n) == AsSigned(n % Radix^W32, W32)

oml_value_clamp_long(n) ==
  IF n > INT_MAX THEN INT_MAX ELSE IF n < INT_MIN THEN INT_MIN ELSE n

-----------------------------------------------------------------------------
(* Doubles: frexp() and ldexp() on <<m, e>> with 2^(Mant-1) <= |m| < 2^Mant *)

Magnitude(n) == IF n < 0 THEN -n ELSE n

\* (int32_t)(mant * (1 << BIG_L)): the conversion drops the low bits.
SentMantissa(m) ==
  LET q == Magnitude(m) \div 2^(Mant - BIG_L) IN IF m < 0 THEN -q ELSE q

ExponentFits(e) == e = AsSigned(e % Radix, 1)

\* ldexp(hmant / (1 << BIG_L), e), normalised as the hardware does.
ldexp(hmant, e) ==
  IF hmant = 0 THEN <<0, 0>>
  ELSE LET k == CHOOSE k \in -Mant..Mant :
                  LET m == Magnitude(hmant) * 2^(Mant - BIG_L)
                  IN IF k >= 0 THEN m * 2^k \in 2^(Mant - 1)..(2^Mant - 1)
                     ELSE m \div 2^(-k) \in 2^(Mant - 1)..(2^Mant - 1)
           w == hmant * 2^(Mant - BIG_L)
       IN <<IF k >= 0 THEN w * 2^k ELSE w \div 2^(-k), e - k>>

marshal_double(v) ==
  IF v = <<>> \/ ~ExponentFits(v[2])
    THEN <<DOUBLE_NAN>> \o hton(0, W32 + 1)
    ELSE <<DOUBLE_T>> \o hton(SentMantissa(v[1]) % Radix^W32, W32)
                      \o <<v[2] % Radix>>

-----------------------------------------------------------------------------
(* marshal_value(): the bytes of one value.                                *)

NullString == <<-1>>
NullBlob == <<-1>>

marshal_integer(t, n) ==
  <<oml_type_map[t]>> \o
  hton((IF t = "long" THEN oml_value_clamp_long(n) ELSE n)
         % Radix^oml_size_map[t],
       oml_size_map[t])

\* A NULL string is sent empty, one that is too long is cut.
marshal_string(s) ==
  LET str == IF s = NullString THEN <<>> ELSE s
      len == IF Len(str) > STRING_T_MAX_SIZE THEN STRING_T_MAX_SIZE
             ELSE Len(str)
  IN <<STRING_T, len>> \o SubSeq(str, 1, len)

\* There are no bytes to copy for a NULL blob, and that is an error: see
\* marshal_values() for what becomes of the message.
marshal_blob(s) ==
  <<BLOB_T>> \o IF s = NullBlob THEN hton(0, W32) ELSE hton(Len(s), W32) \o s

marshal_bool(b) == IF b = 0 THEN <<BOOL_FALSE_T>> ELSE <<BOOL_TRUE_T>>

marshal_vector(t, elts) ==
  <<VECTOR_T, vector_protocol_map[t]>> \o hton(Len(elts), W16) \o
  FlattenSeq([i \in 1..Len(elts) |->
    IF t = "vbool" THEN marshal_bool(elts[i])
    ELSE hton(elts[i] % Radix^VectorSize[t], VectorSize[t])])

marshal_value(val) ==
  CASE val.t \in DOMAIN oml_type_map -> marshal_integer(val.t, val.v[1])
    [] val.t = "double" -> marshal_double(val.v)
    [] val.t = "string" -> marshal_string(val.v)
    [] val.t = "blob" -> marshal_blob(val.v)
    [] val.t = "bool" -> marshal_bool(val.v[1])
    [] val.t \in DOMAIN vector_protocol_map -> marshal_vector(val.t, val.v)

-----------------------------------------------------------------------------
(* Messages.  The header is written first, with no length; the count of    *)
(* values is a byte that every call of marshal_values() adds to.  m.len    *)
(* bytes of the message are written; m.mem also has what the memory after  *)
(* them holds, once the message has been abandoned.                        *)

mbuf_write(m, s) ==
  [mem |-> SubSeq(m.mem, 1, m.len) \o s
             \o SubSeq(m.mem, m.len + Len(s) + 1, Len(m.mem)),
   len |-> m.len + Len(s)]

mbuf_reset_write(m) == [m EXCEPT !.len = 0]

HeaderSize(type) ==
  PACKET_HEADER_SIZE + (IF type = OMB_LDATA_P THEN W32 - W16 ELSE 0)

marshal_init(type) ==
  mbuf_write([mem |-> <<>>, len |-> 0],
             <<SYNC_BYTE, SYNC_BYTE, type>> \o hton(0, HeaderSize(type) - 3))

marshal_get_msgtype(m) == m.mem[3]

marshal_measurements(m, stream, seqno, now) ==
  mbuf_write(m, <<0, stream % Radix>>
                  \o marshal_value([t |-> "int32", v |-> <<seqno>>])
                  \o marshal_value([t |-> "double", v |-> now]))

IsNullBlob(val) == val.t = "blob" /\ val.v = NullBlob

\* A NULL blob abandons the message: what comes after it is written to where
\* the message began, over its header, which still tells where the count is.
marshal_values(m, values) ==
  LET written(vals) == mbuf_write(m, FlattenSeq([i \in 1..Len(vals) |->
                                                  marshal_value(vals[i])]))
      bad == SelectInSeq(values, IsNullBlob)
      out == written(values)
      cnt == HeaderSize(marshal_get_msgtype(out)) + 1
  IN IF bad # 0 THEN mbuf_reset_write(written(SubSeq(values, 1, bad)))
     ELSE IF marshal_get_msgtype(out) \notin {OMB_DATA_P, OMB_LDATA_P} THEN out
     ELSE [out EXCEPT !.mem[cnt] = (@ + Len(values)) % Radix]

\* The length goes into the header; what has become of the header of an
\* abandoned message decides whether it has a length, and where.
SetLength(m) ==
  LET h == HeaderSize(marshal_get_msgtype(m))
      length == hton((m.len - h) % Radix^(h - 3), h - 3)
  IN IF marshal_get_msgtype(m) \notin {OMB_DATA_P, OMB_LDATA_P} THEN m
     ELSE [m EXCEPT !.mem = [i \in DOMAIN @ |->
                               IF i \in 4..h THEN length[i - 3] ELSE @[i]]]

\* A short message that has become too long is moved up to make room for the
\* longer length field.  The padding is written through the buffer, which may
\* move it: everything after that goes to where the buffer was, so the message
\* keeps its old header, with a length of 0, and gains the padding.
marshal_finalize(m, moved) ==
  LET promote == /\ marshal_get_msgtype(m) = OMB_DATA_P
                 /\ m.len > Radix^W16 - 1
      padded == mbuf_write(m, hton(0, W32 - W16))
      body == SubSeq(m.mem, PACKET_HEADER_SIZE + 1, m.len)
  IN IF ~promote THEN SetLength(m)
     ELSE IF moved THEN padded
     ELSE SetLength([padded EXCEPT !.mem =
            <<SYNC_BYTE, SYNC_BYTE, OMB_LDATA_P>> \o hton(0, W32) \o body])

-----------------------------------------------------------------------------
(* Reading.  b is what the buffer holds, p the number of bytes read so     *)
(* far; a read that finds too few bytes leaves p where it is.              *)

Left(b, p) == Len(b) - p
Bytes(b, p, n) == SubSeq(b, p + 1, p + n)

NoValue == [t |-> "unknown", v |-> <<>>]
Failed(p) == [ok |-> FALSE, p |-> p, val |-> NoValue]
Got(p, t, v) == [ok |-> TRUE, p |-> p, val |-> [t |-> t, v |-> v]]

Numeral(t, s) ==
  IF t \in {"int32", "int64", "vint32", "vint64"}
    THEN AsSigned(ntoh(s), Len(s)) ELSE ntoh(s)

unmarshal_integer(b, p, c) ==
  LET t == protocol_type_map[c]
      n == protocol_size_map[c]
  IN IF Left(b, p) < n THEN Failed(p)
     ELSE Got(p + n, t, <<Numeral(t, Bytes(b, p, n))>>)

\* What follows the code of a NaN is skipped if it is there.
unmarshal_double(b, p, c) ==
  LET all == Left(b, p) >= W32 + 1
  IN CASE c = DOUBLE_NAN -> Got(IF all THEN p + W32 + 1 ELSE p, "double", <<>>)
       [] c = DOUBLE_T /\ all ->
            Got(p + W32 + 1, "double",
                ldexp(AsSigned(ntoh(Bytes(b, p, W32)), W32),
                      AsSigned(b[p + W32 + 1], 1)))
       [] OTHER -> Failed(p)

unmarshal_string(b, p) ==
  IF Left(b, p) = 0 THEN Failed(p)
  ELSE LET len == b[p + 1]
       IN IF Left(b, p + 1) < len THEN Failed(p + 1)
          ELSE Got(p + 1 + len, "string", Bytes(b, p + 1, len))

unmarshal_blob(b, p) ==
  IF Left(b, p) < W32 THEN Failed(p)
  ELSE LET len == ntoh(Bytes(b, p, W32))
       IN IF Left(b, p + W32) < len THEN Failed(p + W32)
          ELSE Got(p + W32 + len, "blob", Bytes(b, p + W32, len))

\* A vector of a type that does not exist counts as read, with no value.
unmarshal_vector(b, p) ==
  IF Left(b, p) = 0 THEN Failed(p)
  ELSE IF Left(b, p + 1) < W16 THEN Failed(p + 1)
  ELSE LET c == b[p + 1]
           n == ntoh(Bytes(b, p + 1, W16))
           q == p + 1 + W16
       IN IF c \notin DOMAIN vector_type_map
            THEN [ok |-> TRUE, p |-> q, val |-> NoValue]
          ELSE LET t == vector_type_map[c]
                   w == VectorSize[t]
               IN IF Left(b, q) < n * w THEN Failed(q)
                  ELSE Got(q + n * w, t, [i \in 1..n |->
                         IF t = "vbool"
                           THEN IF b[q + i] = BOOL_TRUE_T THEN 1 ELSE 0
                           ELSE Numeral(t, Bytes(b, q + (i - 1) * w, w))])

\* As a function of the place to read at.
unmarshal_value(b) ==
  [p \in 0..Len(b) |->
     IF Left(b, p) = 0 THEN Failed(p)
     ELSE LET c == b[p + 1]
              q == p + 1
          IN CASE c \in DOMAIN protocol_type_map -> unmarshal_integer(b, q, c)
               [] c \in {DOUBLE_T, DOUBLE_NAN} -> unmarshal_double(b, q, c)
               [] c = STRING_T -> unmarshal_string(b, q)
               [] c = BLOB_T -> unmarshal_blob(b, q)
               [] c \in {BOOL_FALSE_T, BOOL_TRUE_T} ->
                    Got(q, "bool", <<IF c = BOOL_TRUE_T THEN 1 ELSE 0>>)
               [] c = VECTOR_T -> unmarshal_vector(b, q)
               [] OTHER -> Failed(q)]

\* The wrong type is an error too, but its bytes have been read.
unmarshal_typed_value(b, t) ==
  [p \in 0..Len(b) |->
     [unmarshal_value(b)[p] EXCEPT !.ok = @ /\ unmarshal_value(b)[p].val.t = t]]

-----------------------------------------------------------------------------
(* unmarshal_init(): res is 1 for a header, -1 when bytes are missing, 0   *)
(* for what is no message.                                                 *)

NoHeader(res, p) ==
  [res |-> res, p |-> p, length |-> 0, values |-> 0, stream |-> 0,
   seqno |-> 0, ts |-> <<>>]

\* Count, stream, sequence number and time; an error leaves the buffer where
\* it was found.
unmarshal_stream(b, p, length) ==
  LET sq == unmarshal_typed_value(b, "int32")[p + 2]
      ts == unmarshal_typed_value(b, "double")[sq.p]
  IN IF ~sq.ok THEN NoHeader(0, sq.p)
     ELSE IF ~ts.ok THEN NoHeader(0, ts.p)
     ELSE [res |-> 1, p |-> ts.p, length |-> length, values |-> b[p + 1],
           stream |-> b[p + 2], seqno |-> sq.val.v[1], ts |-> ts.val.v]

\* Variant: the body is read without waiting for all of it.
UnmarshalEager(b, p) ==
  LET type == b[p + 3]
      h == HeaderSize(type)
  IN IF Left(b, p) < 3 THEN NoHeader(-1, p)
     ELSE IF type \notin {OMB_DATA_P, OMB_LDATA_P} THEN NoHeader(0, p + 3)
     ELSE IF Left(b, p) < h + 2 THEN NoHeader(-1, p)
     ELSE unmarshal_stream(b, p + h, ntoh(Bytes(b, p + 3, h - 3)))

unmarshal_init(b, p) ==
  IF Left(b, p) < 3 THEN NoHeader(-1, p)
  ELSE LET synced == b[p + 1] = SYNC_BYTE /\ b[p + 2] = SYNC_BYTE
           type == b[p + 3]
           h == HeaderSize(type)
       IN IF ~synced \/ type \notin {OMB_DATA_P, OMB_LDATA_P}
            THEN NoHeader(0, p + 3)
          ELSE IF Left(b, p) < h THEN NoHeader(-1, p)
          ELSE LET n == ntoh(Bytes(b, p + 3, h - 3))
                   length == IF type = OMB_LDATA_P THEN AsSigned(n, W32) ELSE n
               IN IF Left(b, p + h) < length \/ Left(b, p + h) < 2
                    THEN NoHeader(-1, p)
                    ELSE unmarshal_stream(b, p + h, length)

\* unmarshal_values(): n is the number of values read, or what the code
\* returns for an error; a message with too many values is skipped, by its
\* whole length counted from the end of its header.
unmarshal_values(b, hdr, max) ==
  LET skip == hdr.length + PACKET_HEADER_SIZE
      step(r, i) ==
        IF ~r.ok THEN r
        ELSE LET x == unmarshal_value(b)[r.p]
             IN [ok |-> x.ok, p |-> x.p, vals |-> Append(r.vals, x.val)]
      all == FoldLeft(step, [ok |-> TRUE, p |-> hdr.p, vals |-> <<>>],
                      [i \in 1..hdr.values |-> i])
  IN CASE hdr.values = 0 -> [n |-> -102, p |-> hdr.p, vals |-> <<>>]
       [] hdr.values > max ->
            [n |-> max - hdr.values, vals |-> <<>>,
             p |-> IF skip < 0 \/ Left(b, hdr.p) < skip THEN hdr.p ELSE hdr.p + skip]
       [] OTHER -> [n |-> IF all.ok THEN hdr.values ELSE -101, p |-> all.p,
                    vals |-> all.vals]

-----------------------------------------------------------------------------
(* Finding the next message: the first two synchronisation bytes in a row  *)
(* from p on, or -1.                                                       *)

find_sync(b, p) ==
  LET at == {i \in p..(Len(b) - 2) :
               b[i + 1] = SYNC_BYTE /\ b[i + 2] = SYNC_BYTE}
  IN IF at = {} THEN -1 ELSE CHOOSE i \in at : \A j \in at : i <= j
=============================================================================
