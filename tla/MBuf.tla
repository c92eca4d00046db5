-------------------------------- MODULE MBuf --------------------------------
(***************************************************************************)
(* The growable byte buffer of lib/shared/mbuf.c.                          *)
(*                                                                         *)
(* A buffer has three pointers into one block of memory (here: offsets     *)
(* from its base) and keeps the amounts that can be derived from them in   *)
(* fields of their own, which every operation has to keep in step:         *)
(*                                                                         *)
(*      base            rdptr               wrptr           base + length  *)
(*       |----- read -----|---- to be read ----|------- free -------|      *)
(*                        |<-- rd_remaining -->|<-- wr_remaining -->|      *)
(*       |<------------- fill ---------------->|                           *)
(*                                                                         *)
(* msgptr marks a message.  Two kinds of clients use it in opposite ways:  *)
(*   reader side  msgptr <= rdptr: start of the message being parsed;      *)
(*   writer side  rdptr <= msgptr: start of the message being written.     *)
(* "side" says which client this buffer has.  It calls only the operations  *)
(* of its side; the writer side never reads past msgptr, because           *)
(* processChunk() only sends msgptr - rdptr bytes.                         *)
(*                                                                         *)
(* Memory past wrptr is never read, so "data" is the memory up to wrptr.   *)
(***************************************************************************)
EXTENDS Integers, Sequences

CONSTANTS
  Byte,          \* the values of a byte other than the terminating NUL
  InitLength,    \* buffer_length given to mbuf_create2
  MinResize,     \* min_resize given to mbuf_create2
  MaxLength,     \* bound: realloc() fails beyond it
  MaxWrite       \* bound: longest write of one call

ASSUME MBufAssumption ==
  /\ InitLength \in Nat \ {0}
  /\ MinResize \in Nat \ {0}
  /\ MaxLength \in Nat
  /\ MaxWrite \in Nat
  /\ 0 \notin Byte

VARIABLES
  side,                                      \* "reader" or "writer"
  length, fill, wr_remaining, rd_remaining,  \* the size fields
  rdptr, wrptr, msgptr,                      \* the pointers, from base
  data,                                      \* memory in base .. wrptr
  ret                                        \* result of the last call

sizes == <<length, fill, wr_remaining, rd_remaining>>
pointers == <<rdptr, wrptr, msgptr>>
vars == <<side, sizes, pointers, data, ret>>

NUL == 0

Writes == UNION { [1 .. n -> Byte] : n \in 0 .. MaxWrite }

mbuf_create2 ==
  /\ length = InitLength
  /\ fill = 0
  /\ wr_remaining = InitLength
  /\ rd_remaining = 0
  /\ rdptr = 0 /\ wrptr = 0 /\ msgptr = 0
  /\ data = <<>>
  /\ ret = 0

Init == mbuf_create2 /\ side \in {"reader", "writer"}

-----------------------------------------------------------------------------
(* Growing.                                                                *)

\* The length mbuf_check_resize asks for when "bytes" do not fit: at least
\* MinResize more than the missing amount rounded down.
GrownLength(bytes) ==
  LET missing == bytes - wr_remaining
  IN  length + MinResize * ((missing \div MinResize) + 1)

\* mbuf_check_resize followed by mbuf_resize succeeds with this length.
mbuf_check_resize(bytes, len) ==
  IF wr_remaining < bytes
    THEN len = GrownLength(bytes) /\ len <= MaxLength
    ELSE len = length

\* realloc() may refuse any growth.
CannotGrow(bytes) == wr_remaining < bytes

\* Advance the write pointer over s in a block of size len.
Written(s, len) ==
  /\ length' = len
  /\ data' = data \o s
  /\ wrptr' = wrptr + Len(s)
  /\ fill' = fill + Len(s)
  /\ wr_remaining' = (len - fill) - Len(s)
  /\ rd_remaining' = rd_remaining + Len(s)
  /\ UNCHANGED <<rdptr, msgptr>>

Failed == ret' = -1 /\ UNCHANGED <<sizes, pointers, data>>

-----------------------------------------------------------------------------
(* Operations of both sides.                                               *)

mbuf_write(s) ==
  \/ /\ \E len \in length .. MaxLength :
          mbuf_check_resize(Len(s), len) /\ Written(s, len)
     /\ ret' = 0
  \/ CannotGrow(Len(s)) /\ Failed

\* Read, or skip: the read pointer advances when there are enough bytes.
mbuf_read(n) ==
  IF rd_remaining < n
    THEN Failed
    ELSE /\ rdptr' = rdptr + n
         /\ rd_remaining' = rd_remaining - n
         /\ ret' = 0
         /\ UNCHANGED <<length, fill, wr_remaining, wrptr, msgptr, data>>

mbuf_clear2 ==
  /\ rdptr' = 0 /\ wrptr' = 0 /\ msgptr' = 0
  /\ fill' = 0
  /\ wr_remaining' = length
  /\ rd_remaining' = 0
  /\ data' = <<>>
  /\ ret' = 0
  /\ UNCHANGED length

\* Variant: the message that is being written becomes a complete one.
RepackCommits ==
  LET msg_size == wrptr - msgptr
  IN  /\ data' = SubSeq(data, msgptr + 1, wrptr)
      /\ fill' = msg_size
      /\ wr_remaining' = length - msg_size
      /\ rd_remaining' = msg_size
      /\ wrptr' = msg_size
      /\ msgptr' = IF side = "writer" THEN msg_size ELSE 0
      /\ rdptr' = 0
      /\ ret' = 0
      /\ UNCHANGED length

\* The message, down to the base; the read pointer goes to its first byte.
mbuf_repack_message2 ==
  LET msg_size == wrptr - msgptr
  IN  /\ data' = SubSeq(data, msgptr + 1, wrptr)
      /\ fill' = msg_size
      /\ wr_remaining' = length - msg_size
      /\ rd_remaining' = msg_size
      /\ wrptr' = msg_size
      /\ msgptr' = 0 /\ rdptr' = 0
      /\ ret' = 0
      /\ UNCHANGED length

-----------------------------------------------------------------------------
(* Operations of the writer side.                                          *)

\* vsnprintf stores at most wr_remaining - 1 characters and a NUL, and
\* returns the length of the whole string; the length is then compared with
\* wr_remaining.  A string that fits exactly therefore loses its last
\* character to the NUL.  After a resize there is always room for the NUL.
Printed(s) ==
  IF Len(s) = wr_remaining /\ s # <<>>
    THEN [s EXCEPT ![Len(s)] = NUL]
    ELSE s

mbuf_print(s) ==
  \/ /\ \E len \in length .. MaxLength :
          mbuf_check_resize(Len(s), len) /\ Written(Printed(s), len)
     /\ ret' = 0
  \/ CannotGrow(Len(s)) /\ Failed

mbuf_begin_write ==
  /\ msgptr' = wrptr
  /\ ret' = 0
  /\ UNCHANGED <<sizes, rdptr, wrptr, data>>

mbuf_reset_write ==
  IF rdptr > msgptr
    THEN Failed
    ELSE LET msglen == wrptr - msgptr
         IN  /\ fill' = fill - msglen
             /\ wr_remaining' = wr_remaining + msglen
             /\ rd_remaining' = rd_remaining - msglen
             /\ wrptr' = msgptr
             /\ data' = SubSeq(data, 1, msgptr)
             /\ ret' = 0
             /\ UNCHANGED <<length, rdptr, msgptr>>

-----------------------------------------------------------------------------
(* Operations of the reader side.                                          *)

\* mbuf_begin_read; also mbuf_consume_message, which refuses when a message
\* is being written.
mbuf_consume_message ==
  IF msgptr > rdptr
    THEN Failed
    ELSE /\ msgptr' = rdptr
         /\ ret' = 0
         /\ UNCHANGED <<sizes, rdptr, wrptr, data>>

\* Variant: the bytes that can be read again are not counted.
ResetReadKeepsCount ==
  IF msgptr > rdptr
    THEN Failed
    ELSE /\ rdptr' = msgptr
         /\ ret' = 0
         /\ UNCHANGED <<sizes, wrptr, msgptr, data>>

mbuf_reset_read ==
  IF msgptr > rdptr
    THEN Failed
    ELSE /\ rdptr' = msgptr
         /\ rd_remaining' = wrptr - msgptr
         /\ ret' = 0
         /\ UNCHANGED <<length, fill, wr_remaining, wrptr, msgptr, data>>

\* The unread bytes, down to the base.
mbuf_repack ==
  /\ data' = SubSeq(data, rdptr + 1, rdptr + rd_remaining)
  /\ fill' = rd_remaining
  /\ wr_remaining' = length - rd_remaining
  /\ wrptr' = rd_remaining
  /\ msgptr' = 0 /\ rdptr' = 0
  /\ ret' = 0
  /\ UNCHANGED <<length, rd_remaining>>

\* Variant: the pointers move without the bytes.
RepackWithoutMove ==
  LET msg_remaining == wrptr - msgptr
  IN  /\ data' = SubSeq(data, 1, msg_remaining)
      /\ fill' = msg_remaining
      /\ wr_remaining' = length - msg_remaining
      /\ wrptr' = msg_remaining
      /\ msgptr' = 0
      /\ rdptr' = msg_remaining - rd_remaining
      /\ ret' = 0
      /\ UNCHANGED <<length, rd_remaining>>

\* The message, down to the base; the read pointer keeps its place in it.
mbuf_repack_message ==
  LET msg_remaining == wrptr - msgptr
  IN  /\ data' = SubSeq(data, msgptr + 1, wrptr)
      /\ fill' = msg_remaining
      /\ wr_remaining' = length - msg_remaining
      /\ wrptr' = msg_remaining
      /\ msgptr' = 0
      /\ rdptr' = msg_remaining - rd_remaining
      /\ ret' = 0
      /\ UNCHANGED <<length, rd_remaining>>

-----------------------------------------------------------------------------
ReaderNext ==
  \/ \E s \in Writes : mbuf_write(s)
  \/ \E n \in 0 .. (rd_remaining + 1) : mbuf_read(n)
  \/ mbuf_consume_message
  \/ mbuf_reset_read
  \/ mbuf_repack
  \/ mbuf_repack_message
  \/ mbuf_repack_message2
  \/ mbuf_clear2

WriterNext ==
  \/ \E s \in Writes : mbuf_write(s)
  \/ \E s \in Writes : mbuf_print(s)
  \/ mbuf_begin_write
  \/ mbuf_reset_write
  \/ \E n \in 0 .. (msgptr - rdptr) : mbuf_read(n)
  \/ mbuf_repack_message2
  \/ wrptr = rdptr /\ mbuf_clear2

Next ==
  /\ UNCHANGED side
  /\ (side = "reader" /\ ReaderNext) \/ (side = "writer" /\ WriterNext)

Spec == Init /\ [][Next]_vars

-----------------------------------------------------------------------------
(* Properties.                                                             *)

TypeOK ==
  /\ length \in Nat /\ fill \in Nat
  /\ wr_remaining \in Nat /\ rd_remaining \in Nat
  /\ rdptr \in Nat /\ wrptr \in Nat /\ msgptr \in Nat
  /\ data \in Seq(Byte \cup {NUL})
  /\ ret \in {0, -1} /\ side \in {"reader", "writer"}

\* The assertions of mbuf_check_invariant(), which every operation of mbuf.c
\* evaluates on entry and on return: the redundant size fields agree with
\* the pointers, and no pointer leaves the allocated block.
mbuf_check_invariant ==
  /\ wr_remaining <= length
  /\ fill <= length
  /\ fill + wr_remaining = length
  /\ wrptr >= rdptr
  /\ wrptr = fill
  /\ rd_remaining = wrptr - rdptr
  /\ msgptr <= rdptr \/ msgptr <= wrptr

\* What mbuf_check_invariant() leaves to the clients: each side keeps msgptr
\* on its own side of rdptr.  Without it, mbuf_repack_message() moves rdptr
\* before the base and the server parses from the wrong byte.
Sides ==
  /\ side = "reader" => msgptr <= rdptr
  /\ side = "writer" => rdptr <= msgptr /\ msgptr <= wrptr

\* The inductive invariant behind the above.
Inv == TypeOK /\ mbuf_check_invariant /\ Sides /\ Len(data) = wrptr

\* The reader side keeps the promise of ReadBuffer: growing and repacking are
\* invisible, and an incomplete message can be read again from its start
\* (mbuf_reset_read, mbuf_repack_message after a partial receive).
Reads == INSTANCE ReadBuffer WITH
  held <- IF side = "reader" THEN SubSeq(data, msgptr + 1, rdptr) ELSE <<>>,
  unread <- IF side = "reader" THEN SubSeq(data, rdptr + 1, wrptr) ELSE <<>>

ReaderRefinement == Reads!Spec

\* The writer side keeps the promise of WriteBuffer: only whole messages
\* become visible to the sending thread, in order, and abandoning or dropping
\* touches nothing else (mbuf_begin_write, mbuf_reset_write,
\* mbuf_repack_message2).
Sends == INSTANCE WriteBuffer WITH
  pending <- IF side = "writer" THEN SubSeq(data, rdptr + 1, msgptr) ELSE <<>>,
  current <- IF side = "writer" THEN SubSeq(data, msgptr + 1, wrptr) ELSE <<>>

WriterRefinement == Sends!Spec
=============================================================================
