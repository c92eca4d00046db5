----------------------------- MODULE MBufProofs -----------------------------
(***************************************************************************)
(* Proofs about the byte buffer of lib/shared/mbuf.c for every initial     *)
(* length, growth step, memory limit and byte alphabet.                    *)
(***************************************************************************)
EXTENDS MBuf, SequenceTheorems, TLAPS

\* A caller's string is a sequence of bytes.
LEMMA WritesAreStrings ==
  ASSUME NEW s \in Writes
  PROVE  s \in Seq(Byte) /\ Len(s) \in Nat
<1>1. PICK n \in 0 .. MaxWrite : s \in [1 .. n -> Byte]
  BY DEF Writes
<1>2. n \in Nat
  BY <1>1, MBufAssumption
<1>. QED
  BY <1>1, <1>2

\* What mbuf_print stores has the length of the string it was given.
LEMMA PrintedKeepsLength ==
  ASSUME NEW s \in Seq(Byte)
  PROVE  Printed(s) \in Seq(Byte \cup {NUL}) /\ Len(Printed(s)) = Len(s)
BY DEF Printed, NUL

\* Growing never shrinks the block and makes room for the bytes asked for.
LEMMA GrowthFits ==
  ASSUME Inv, NEW n \in Nat, NEW len \in length .. MaxLength,
         mbuf_check_resize(n, len)
  PROVE  len \in Nat /\ len >= length /\ len - fill >= n
<1>1. CASE wr_remaining < n
  <2>. DEFINE missing == n - wr_remaining
  <2>1. missing \in Nat /\ missing > 0
    BY <1>1 DEF Inv, TypeOK
  <2>2. MinResize * ((missing \div MinResize) + 1) > missing
    <3>1. missing = MinResize * (missing \div MinResize) + (missing % MinResize)
          /\ missing % MinResize < MinResize
      BY <2>1, MBufAssumption
    <3>2. missing \div MinResize \in Nat
      BY <2>1, MBufAssumption
    <3>. HIDE DEF missing
    <3>. QED
      BY <2>1, <3>1, <3>2, MBufAssumption
  <2>3. len = length + MinResize * ((missing \div MinResize) + 1)
    BY <1>1 DEF mbuf_check_resize, GrownLength
  <2>4. missing \div MinResize \in Nat
    BY <2>1, MBufAssumption
  <2>. DEFINE inc == MinResize * ((missing \div MinResize) + 1)
  <2>5. inc \in Nat
    BY <2>4, MBufAssumption
  <2>6. inc > missing /\ len = length + inc
    BY <2>2, <2>3
  <2>. HIDE DEF inc
  <2>. QED
    BY <2>5, <2>6 DEF Inv, TypeOK, mbuf_check_invariant
<1>2. CASE ~(wr_remaining < n)
  BY <1>2 DEF mbuf_check_resize, Inv, TypeOK, mbuf_check_invariant
<1>. QED
  BY <1>1, <1>2

\* Appending a string in a block with room for it keeps the invariant.
LEMMA AppendKeepsInv ==
  ASSUME Inv, side' = side, NEW s \in Seq(Byte \cup {NUL}),
         NEW len \in Nat, len >= length, len - fill >= Len(s),
         Written(s, len), ret' = 0
  PROVE  Inv'
<1>1. Len(s) \in Nat
  OBVIOUS
<1>2. TypeOK'
  BY <1>1 DEF Inv, TypeOK, Written, mbuf_check_invariant
<1>3. mbuf_check_invariant'
  BY <1>1 DEF Inv, TypeOK, Written, mbuf_check_invariant
<1>4. Sides'
  BY <1>1, MBufAssumption DEF Inv, TypeOK, Written, mbuf_check_invariant, Sides
<1>5. (Len(data) = wrptr)'
  BY <1>1, ConcatProperties DEF Inv, TypeOK, Written
<1>. QED
  BY <1>2, <1>3, <1>4, <1>5 DEF Inv

\* A call that fails leaves the buffer as it was.
LEMMA FailureKeepsInv == Inv /\ side' = side /\ Failed => Inv'
BY DEF Inv, TypeOK, mbuf_check_invariant, Sides, Failed, sizes, pointers

LEMMA WriteKeepsInv ==
  ASSUME Inv, side' = side, NEW s \in Writes, mbuf_write(s)
  PROVE  Inv'
<1>1. s \in Seq(Byte) /\ Len(s) \in Nat
  BY WritesAreStrings
<1>2. s \in Seq(Byte \cup {NUL})
  BY <1>1
<1>3. CASE CannotGrow(Len(s)) /\ Failed
  BY <1>3, FailureKeepsInv
<1>4. CASE \E len \in length .. MaxLength :
             mbuf_check_resize(Len(s), len) /\ Written(s, len) /\ ret' = 0
  <2>1. PICK len \in length .. MaxLength :
          mbuf_check_resize(Len(s), len) /\ Written(s, len) /\ ret' = 0
    BY <1>4
  <2>2. len \in Nat /\ len >= length /\ len - fill >= Len(s)
    BY <1>1, <2>1, GrowthFits
  <2>. QED
    BY <1>2, <2>1, <2>2, AppendKeepsInv
<1>. QED
  BY <1>3, <1>4 DEF mbuf_write

LEMMA PrintKeepsInv ==
  ASSUME Inv, side' = side, NEW s \in Writes, mbuf_print(s)
  PROVE  Inv'
<1>1. s \in Seq(Byte) /\ Len(s) \in Nat
  BY WritesAreStrings
<1>2. Printed(s) \in Seq(Byte \cup {NUL}) /\ Len(Printed(s)) = Len(s)
  BY <1>1, PrintedKeepsLength
<1>3. CASE CannotGrow(Len(s)) /\ Failed
  BY <1>3, FailureKeepsInv
<1>4. CASE \E len \in length .. MaxLength :
             mbuf_check_resize(Len(s), len) /\ Written(Printed(s), len) /\ ret' = 0
  <2>1. PICK len \in length .. MaxLength :
          mbuf_check_resize(Len(s), len) /\ Written(Printed(s), len) /\ ret' = 0
    BY <1>4
  <2>2. len \in Nat /\ len >= length /\ len - fill >= Len(s)
    BY <1>1, <2>1, GrowthFits
  <2>. QED
    BY <1>2, <2>1, <2>2, AppendKeepsInv
<1>. QED
  BY <1>3, <1>4 DEF mbuf_print

\* Reading keeps the invariant; on the writer side provided that it stops at
\* the message under construction.
LEMMA ReadKeepsInv ==
  ASSUME Inv, side' = side, NEW n \in Nat, mbuf_read(n),
         side = "writer" => n <= msgptr - rdptr
  PROVE  Inv'
<1>1. CASE rd_remaining < n
  BY <1>1, FailureKeepsInv DEF mbuf_read
<1>2. CASE ~(rd_remaining < n)
  BY <1>2, MBufAssumption
     DEF mbuf_read, Inv, TypeOK, mbuf_check_invariant, Sides
<1>. QED
  BY <1>1, <1>2

LEMMA ClearKeepsInv == Inv /\ side' = side /\ mbuf_clear2 => Inv'
BY DEF Inv, TypeOK, mbuf_check_invariant, Sides, mbuf_clear2

LEMMA RepackMessage2KeepsInv == Inv /\ side' = side /\ mbuf_repack_message2 => Inv'
BY MBufAssumption
   DEF Inv, TypeOK, mbuf_check_invariant, Sides, mbuf_repack_message2

-----------------------------------------------------------------------------
LEMMA ReaderKeepsInv ==
  ASSUME Inv, side' = side, side = "reader", ReaderNext
  PROVE  Inv'
<1>1. CASE \E s \in Writes : mbuf_write(s)
  BY <1>1, WriteKeepsInv
<1>2. CASE \E n \in 0 .. (rd_remaining + 1) : mbuf_read(n)
  BY <1>2, ReadKeepsInv DEF Inv, TypeOK
<1>3. CASE mbuf_consume_message
  BY <1>3, FailureKeepsInv
     DEF mbuf_consume_message, Inv, TypeOK, mbuf_check_invariant, Sides, sizes
<1>4. CASE mbuf_reset_read
  BY <1>4, FailureKeepsInv
     DEF mbuf_reset_read, Inv, TypeOK, mbuf_check_invariant, Sides
<1>5. CASE mbuf_repack
  BY <1>5 DEF mbuf_repack, Inv, TypeOK, mbuf_check_invariant, Sides
<1>6. CASE mbuf_repack_message
  BY <1>6 DEF mbuf_repack_message, Inv, TypeOK, mbuf_check_invariant, Sides
<1>7. CASE mbuf_repack_message2
  BY <1>7, RepackMessage2KeepsInv
<1>8. CASE mbuf_clear2
  BY <1>8, ClearKeepsInv
<1>. QED
  BY <1>1, <1>2, <1>3, <1>4, <1>5, <1>6, <1>7, <1>8 DEF ReaderNext

LEMMA WriterKeepsInv ==
  ASSUME Inv, side' = side, side = "writer", WriterNext
  PROVE  Inv'
<1>1. CASE \E s \in Writes : mbuf_write(s)
  BY <1>1, WriteKeepsInv
<1>2. CASE \E s \in Writes : mbuf_print(s)
  BY <1>2, PrintKeepsInv
<1>3. CASE mbuf_begin_write
  BY <1>3 DEF mbuf_begin_write, Inv, TypeOK, mbuf_check_invariant, Sides, sizes
<1>4. CASE mbuf_reset_write
  <2>1. rdptr <= msgptr /\ msgptr <= Len(data) /\ msgptr \in Nat
    BY DEF Inv, TypeOK, Sides
  <2>2. /\ SubSeq(data, 1, msgptr) \in Seq(Byte \cup {NUL})
        /\ Len(SubSeq(data, 1, msgptr)) = msgptr
    BY <2>1, SubSeqProperties DEF Inv, TypeOK
  <2>3. data' = SubSeq(data, 1, msgptr)
    BY <1>4, <2>1 DEF mbuf_reset_write, Inv, TypeOK
  <2>. QED
    BY <1>4, <2>1, <2>2, <2>3
       DEF mbuf_reset_write, Inv, TypeOK, mbuf_check_invariant, Sides
<1>5. CASE \E n \in 0 .. (msgptr - rdptr) : mbuf_read(n)
  BY <1>5, ReadKeepsInv DEF Inv, TypeOK
<1>6. CASE mbuf_repack_message2
  BY <1>6, RepackMessage2KeepsInv
<1>7. CASE mbuf_clear2
  BY <1>7, ClearKeepsInv
<1>. QED
  BY <1>1, <1>2, <1>3, <1>4, <1>5, <1>6, <1>7 DEF WriterNext

\* No sequence of calls that respects the client's side makes an assertion of
\* mbuf_check_invariant() fail, for any buffer size and growth step, whether
\* or not realloc() succeeds.
THEOREM MBufSafe == Spec => []Inv
<1>1. Init => Inv
  BY MBufAssumption
     DEF Init, mbuf_create2, Inv, TypeOK, mbuf_check_invariant, Sides
<1>2. Inv /\ [Next]_vars => Inv'
  <2>. SUFFICES ASSUME Inv, [Next]_vars PROVE Inv'
    OBVIOUS
  <2>1. CASE side' = side /\ side = "reader" /\ ReaderNext
    BY <2>1, ReaderKeepsInv
  <2>2. CASE side' = side /\ side = "writer" /\ WriterNext
    BY <2>2, WriterKeepsInv
  <2>3. CASE UNCHANGED vars
    BY <2>3 DEF vars, sizes, pointers, Inv, TypeOK, mbuf_check_invariant, Sides
  <2>. QED
    BY <2>1, <2>2, <2>3 DEF Next
<1>. QED
  BY <1>1, <1>2, PTL DEF Spec

-----------------------------------------------------------------------------
(* Refinement.  Facts about pieces of a sequence, then one lemma per        *)
(* operation: what it does to the two pieces that a side looks at.          *)

\* A piece of the front is not affected by what is appended.
LEMMA FrontOfConcat ==
  ASSUME NEW S, NEW s \in Seq(S), NEW t \in Seq(S),
         NEW m \in 0 .. Len(s), NEW n \in m .. Len(s)
  PROVE  SubSeq(s \o t, m + 1, n) = SubSeq(s, m + 1, n)
<1>1. CASE m = n
  BY <1>1, SubSeqEmpty
<1>2. CASE m < n
  BY <1>2, SubSeqOfConcat1
<1>. QED
  BY <1>1, <1>2

\* A piece of a piece.
LEMMA PieceOfPiece ==
  ASSUME NEW S, NEW s \in Seq(S), NEW a \in 0 .. Len(s), NEW b \in a .. Len(s),
         NEW c \in a .. b, NEW d \in c .. b
  PROVE  SubSeq(SubSeq(s, a + 1, b), (c - a) + 1, d - a) = SubSeq(s, c + 1, d)
<1>1. CASE c = d
  BY <1>1, SubSeqEmpty
<1>2. CASE c < d
  <2>1. a + 1 \in 1 .. Len(s) /\ b \in 1 .. Len(s)
    BY <1>2
  <2>2. (c - a) + 1 \in 1 .. (b - (a + 1) + 1) /\ d - a \in 1 .. (b - (a + 1) + 1)
    BY <1>2
  <2>3. SubSeq(SubSeq(s, a + 1, b), (c - a) + 1, d - a)
          = SubSeq(s, (a + 1) + ((c - a) + 1) - 1, (a + 1) + (d - a) - 1)
    BY <2>1, <2>2, SubSeqOfSubSeq
  <2>4. (a + 1) + ((c - a) + 1) - 1 = c + 1 /\ (a + 1) + (d - a) - 1 = d
    OBVIOUS
  <2>. QED
    BY <2>3, <2>4
<1>. QED
  BY <1>1, <1>2

\* The first bytes of a piece.
LEMMA FrontOfPiece ==
  ASSUME NEW S, NEW s \in Seq(S), NEW a \in 0 .. Len(s), NEW b \in a .. Len(s),
         NEW d \in a .. b
  PROVE  SubSeq(SubSeq(s, a + 1, b), 1, d - a) = SubSeq(s, a + 1, d)
<1>1. a \in a .. b /\ d \in a .. b /\ (a - a) + 1 = 1
  OBVIOUS
<1>2. SubSeq(SubSeq(s, a + 1, b), (a - a) + 1, d - a) = SubSeq(s, a + 1, d)
  BY <1>1, PieceOfPiece
<1>. QED
  BY <1>1, <1>2

\* Two adjacent pieces.
LEMMA AdjacentPieces ==
  ASSUME NEW S, NEW s \in Seq(S), NEW a \in 0 .. Len(s), NEW b \in a .. Len(s),
         NEW c \in b .. Len(s)
  PROVE  SubSeq(s, a + 1, b) \o SubSeq(s, b + 1, c) = SubSeq(s, a + 1, c)
<1>1. a + 1 \in 1 .. Len(s) + 1 /\ b \in (a + 1) - 1 .. Len(s) /\ c \in b .. Len(s)
  OBVIOUS
<1>. QED
  BY <1>1, ConcatAdjacentSubSeq

\* The length of a piece.
LEMMA PieceLength ==
  ASSUME NEW S, NEW s \in Seq(S), NEW a \in 0 .. Len(s), NEW b \in a .. Len(s)
  PROVE  SubSeq(s, a + 1, b) \in Seq(S) /\ Len(SubSeq(s, a + 1, b)) = b - a
<1>1. \A i \in a + 1 .. b : s[i] \in S
  BY ElementOfSeq
<1>2. Len(SubSeq(s, a + 1, b)) = IF a + 1 <= b THEN b - (a + 1) + 1 ELSE 0
  BY <1>1, SubSeqProperties
<1>. QED
  BY <1>1, <1>2, SubSeqProperties

\* The pieces that the two sides of a buffer look at.
Piece(from, to) == SubSeq(data, from + 1, to)

\* Where the pointers of each side lie in the data.
LEMMA PointersInData ==
  ASSUME Inv
  PROVE  /\ data \in Seq(Byte \cup {NUL}) /\ Len(data) = wrptr
         /\ wrptr \in Nat /\ rdptr \in 0 .. wrptr
         /\ rd_remaining = wrptr - rdptr
         /\ side = "reader" => msgptr \in 0 .. rdptr
         /\ side = "writer" => msgptr \in rdptr .. wrptr
BY DEF Inv, TypeOK, mbuf_check_invariant, Sides

\* Appending leaves every piece alone and extends the last one.
LEMMA AppendExtends ==
  ASSUME Inv, NEW s \in Seq(Byte \cup {NUL}), NEW len, Written(s, len),
         NEW a \in 0 .. wrptr
  PROVE  /\ \A b \in a .. wrptr : SubSeq(data', a + 1, b) = SubSeq(data, a + 1, b)
         /\ Len(SubSeq(data, a + 1, wrptr)) <= Len(SubSeq(data', a + 1, wrptr'))
         /\ SubSeq(SubSeq(data', a + 1, wrptr'), 1, Len(SubSeq(data, a + 1, wrptr)))
              = SubSeq(data, a + 1, wrptr)
<1>. DEFINE S == Byte \cup {NUL}
<1>1. /\ data \in Seq(S) /\ Len(data) = wrptr /\ wrptr \in Nat
  BY PointersInData
<1>2. data' = data \o s /\ wrptr' = wrptr + Len(s) /\ Len(s) \in Nat
  BY DEF Written
<1>3. data' \in Seq(S) /\ Len(data') = wrptr'
  BY <1>1, <1>2, ConcatProperties
<1>4. \A b \in a .. wrptr : SubSeq(data', a + 1, b) = SubSeq(data, a + 1, b)
  <2>. HIDE DEF S
  <2>. QED
    BY <1>1, <1>2, FrontOfConcat
<1>5. Len(SubSeq(data, a + 1, wrptr)) = wrptr - a
  <2>. HIDE DEF S
  <2>. QED
    BY <1>1, PieceLength
<1>6. a \in 0 .. Len(data') /\ wrptr' \in a .. Len(data') /\ wrptr \in a .. wrptr'
  BY <1>1, <1>2, <1>3
<1>7. Len(SubSeq(data', a + 1, wrptr')) = wrptr' - a
  <2>. HIDE DEF S
  <2>. QED
    BY <1>3, <1>6, PieceLength
<1>8. SubSeq(SubSeq(data', a + 1, wrptr'), 1, wrptr - a) = SubSeq(data', a + 1, wrptr)
  <2>. HIDE DEF S
  <2>. QED
    BY <1>3, <1>6, FrontOfPiece
<1>9. SubSeq(data', a + 1, wrptr) = SubSeq(data, a + 1, wrptr)
  BY <1>1, <1>4
<1>. QED
  BY <1>1, <1>2, <1>4, <1>5, <1>7, <1>8, <1>9

\* A call that fails, or one that moves nothing, shows nothing to either side.
LEMMA FailureIsInvisible ==
  ASSUME side' = side, Failed
  PROVE  UNCHANGED Reads!vars /\ UNCHANGED Sends!vars
BY DEF Failed, sizes, pointers, Reads!vars, Sends!vars

\* Writing, whether or not the buffer grows, is receiving for a parser.
LEMMA AppendIsReceive ==
  ASSUME Inv, side' = side, side = "reader", NEW s \in Seq(Byte \cup {NUL}),
         NEW len, Written(s, len)
  PROVE  Reads!Receive
<1>1. msgptr \in 0 .. wrptr /\ rdptr \in msgptr .. wrptr /\ rdptr \in 0 .. wrptr
  BY PointersInData
<1>2. rdptr' = rdptr /\ msgptr' = msgptr
  BY DEF Written
<1>3. Piece(msgptr, rdptr)' = Piece(msgptr, rdptr)
  <2>1. SubSeq(data', msgptr + 1, rdptr) = SubSeq(data, msgptr + 1, rdptr)
    BY <1>1, AppendExtends
  <2>. QED
    BY <1>2, <2>1 DEF Piece
<1>4. /\ Len(Piece(rdptr, wrptr)) <= Len(Piece(rdptr, wrptr)')
      /\ SubSeq(Piece(rdptr, wrptr)', 1, Len(Piece(rdptr, wrptr))) = Piece(rdptr, wrptr)
  <2>1. /\ Len(SubSeq(data, rdptr + 1, wrptr)) <= Len(SubSeq(data', rdptr + 1, wrptr'))
        /\ SubSeq(SubSeq(data', rdptr + 1, wrptr'), 1, Len(SubSeq(data, rdptr + 1, wrptr)))
             = SubSeq(data, rdptr + 1, wrptr)
    BY <1>1, AppendExtends DEF Piece
  <2>. QED
    BY <1>2, <2>1 DEF Piece
<1>. QED
  BY <1>2, <1>3, <1>4 DEF Reads!Receive, Piece

\* Reading is taking the first unread bytes.
LEMMA ReadIsTake ==
  ASSUME Inv, side' = side, side = "reader", NEW n \in Nat, n <= rd_remaining,
         mbuf_read(n)
  PROVE  \E k \in 0 .. Len(Piece(rdptr, wrptr)) : Reads!Take(k)
<1>. DEFINE S == Byte \cup {NUL}
<1>1. /\ data \in Seq(S) /\ Len(data) = wrptr /\ wrptr \in Nat
      /\ msgptr \in 0 .. wrptr /\ rdptr \in msgptr .. wrptr
      /\ rdptr \in 0 .. wrptr /\ rd_remaining = wrptr - rdptr
  BY PointersInData
<1>2. /\ data' = data /\ wrptr' = wrptr /\ msgptr' = msgptr /\ rdptr' = rdptr + n
  BY <1>1 DEF mbuf_read, Inv, TypeOK
<1>3. rdptr + n \in rdptr .. wrptr
  BY <1>1
<1>. HIDE DEF S
<1>4. Len(Piece(rdptr, wrptr)) = wrptr - rdptr
  BY <1>1, PieceLength DEF Piece
<1>5. SubSeq(Piece(rdptr, wrptr), 1, n) = Piece(rdptr, rdptr + n)
  <2>1. SubSeq(SubSeq(data, rdptr + 1, wrptr), 1, (rdptr + n) - rdptr)
          = SubSeq(data, rdptr + 1, rdptr + n)
    BY <1>1, <1>3, FrontOfPiece
  <2>2. (rdptr + n) - rdptr = n
    BY <1>1
  <2>. QED
    BY <2>1, <2>2 DEF Piece
<1>6. SubSeq(Piece(rdptr, wrptr), n + 1, wrptr - rdptr) = Piece(rdptr + n, wrptr)
  <2>1. SubSeq(SubSeq(data, rdptr + 1, wrptr), ((rdptr + n) - rdptr) + 1, wrptr - rdptr)
          = SubSeq(data, (rdptr + n) + 1, wrptr)
    <3>1. wrptr \in rdptr + n .. wrptr
      BY <1>1, <1>3
    <3>. QED
      BY <1>1, <1>3, <3>1, PieceOfPiece
  <2>2. (rdptr + n) - rdptr = n
    BY <1>1
  <2>. QED
    BY <2>1, <2>2 DEF Piece
<1>7. Piece(msgptr, rdptr) \o Piece(rdptr, rdptr + n) = Piece(msgptr, rdptr + n)
  <2>1. rdptr + n \in rdptr .. Len(data)
    BY <1>1, <1>3
  <2>. QED
    BY <1>1, <2>1, AdjacentPieces DEF Piece
<1>8. Reads!Take(n)
  <2>1. n <= Len(Piece(rdptr, wrptr))
    BY <1>1, <1>4
  <2>2. Piece(msgptr, rdptr)' = Piece(msgptr, rdptr) \o SubSeq(Piece(rdptr, wrptr), 1, n)
    BY <1>2, <1>5, <1>7 DEF Piece
  <2>3. Piece(rdptr, wrptr)'
          = SubSeq(Piece(rdptr, wrptr), n + 1, Len(Piece(rdptr, wrptr)))
    BY <1>2, <1>4, <1>6 DEF Piece
  <2>. QED
    BY <2>1, <2>2, <2>3 DEF Reads!Take, Piece
<1>9. n \in 0 .. Len(Piece(rdptr, wrptr))
  BY <1>1, <1>4
<1>. QED
  BY <1>8, <1>9

\* The parser sees a call that moves the bytes of a message to the base as
\* going back to the message's first byte, or not at all.
LEMMA RepackShowsMessage ==
  ASSUME Inv, NEW k \in 0 .. wrptr, data' = Piece(k, wrptr), wrptr' = wrptr - k
  PROVE  /\ \A b \in k .. wrptr :
              /\ SubSeq(data', 1, b - k) = Piece(k, b)
              /\ SubSeq(data', (b - k) + 1, wrptr') = Piece(b, wrptr)
         /\ SubSeq(data', 1, wrptr') = Piece(k, wrptr)
<1>. DEFINE S == Byte \cup {NUL}
<1>1. /\ data \in Seq(S) /\ Len(data) = wrptr /\ wrptr \in Nat
  BY PointersInData
<1>. HIDE DEF S
<1>2. ASSUME NEW b \in k .. wrptr
      PROVE  SubSeq(data', 1, b - k) = Piece(k, b)
  BY <1>1, FrontOfPiece DEF Piece
<1>3. ASSUME NEW b \in k .. wrptr
      PROVE  SubSeq(data', (b - k) + 1, wrptr') = Piece(b, wrptr)
  <2>1. wrptr \in b .. wrptr
    BY <1>1
  <2>. QED
    BY <1>1, <2>1, PieceOfPiece DEF Piece
<1>4. wrptr \in k .. wrptr
  BY <1>1
<1>. QED
  BY <1>2, <1>3, <1>4

\* Each operation of a reader is one of the parser's steps, or invisible.
LEMMA ReaderStep ==
  ASSUME Inv, side' = side, side = "reader", ReaderNext
  PROVE  [Reads!Next]_(Reads!vars)
<1>. DEFINE S == Byte \cup {NUL}
<1>0. /\ data \in Seq(S) /\ Len(data) = wrptr /\ wrptr \in Nat
      /\ msgptr \in 0 .. wrptr /\ rdptr \in msgptr .. wrptr
      /\ rdptr \in 0 .. wrptr /\ rd_remaining = wrptr - rdptr
  BY PointersInData
<1>. HIDE DEF S
<1>a. Piece(msgptr, rdptr) \o Piece(rdptr, wrptr) = Piece(msgptr, wrptr)
  BY <1>0, AdjacentPieces DEF Piece
<1>1. CASE \E s \in Writes : mbuf_write(s)
  <2>1. PICK s \in Writes : mbuf_write(s)
    BY <1>1
  <2>2. s \in Seq(Byte \cup {NUL})
    BY WritesAreStrings
  <2>3. CASE Failed
    BY <2>3, FailureIsInvisible
  <2>4. CASE \E len \in length .. MaxLength : Written(s, len)
    BY <2>2, <2>4, AppendIsReceive DEF Reads!Next
  <2>. QED
    BY <2>1, <2>3, <2>4 DEF mbuf_write
<1>2. CASE \E n \in 0 .. (rd_remaining + 1) : mbuf_read(n)
  <2>1. PICK n \in 0 .. (rd_remaining + 1) : mbuf_read(n)
    BY <1>2
  <2>2. n \in Nat /\ rd_remaining \in Nat
    BY <1>0
  <2>3. CASE rd_remaining < n
    BY <2>1, <2>3, FailureIsInvisible DEF mbuf_read
  <2>4. CASE n <= rd_remaining
    <3>1. PICK k \in 0 .. Len(Piece(rdptr, wrptr)) : Reads!Take(k)
      BY <2>1, <2>2, <2>4, ReadIsTake
    <3>. QED
      BY <3>1 DEF Reads!Next, Piece
  <2>. QED
    BY <2>2, <2>3, <2>4
<1>3. CASE mbuf_consume_message
  <2>1. /\ data' = data /\ wrptr' = wrptr /\ rdptr' = rdptr /\ msgptr' = rdptr
    BY <1>0, <1>3 DEF mbuf_consume_message
  <2>2. SubSeq(data, rdptr + 1, rdptr) = <<>>
    BY <1>0, SubSeqEmpty
  <2>3. Reads!Consume
    BY <2>1, <2>2 DEF Reads!Consume
  <2>. QED
    BY <2>3 DEF Reads!Next
<1>4. CASE mbuf_reset_read
  <2>1. /\ data' = data /\ wrptr' = wrptr /\ msgptr' = msgptr /\ rdptr' = msgptr
    BY <1>0, <1>4 DEF mbuf_reset_read
  <2>2. SubSeq(data, msgptr + 1, msgptr) = <<>>
    BY <1>0, SubSeqEmpty
  <2>3. Reads!Rewind
    BY <1>a, <2>1, <2>2 DEF Reads!Rewind, Piece
  <2>. QED
    BY <2>3 DEF Reads!Next
<1>5. CASE mbuf_repack
  <2>1. /\ data' = Piece(rdptr, wrptr) /\ wrptr' = wrptr - rdptr
        /\ msgptr' = 0 /\ rdptr' = 0
    BY <1>0, <1>5 DEF mbuf_repack, Piece
  <2>2. SubSeq(data', msgptr' + 1, rdptr') = <<>>
    BY <2>1, SubSeqEmpty
  <2>3. SubSeq(data', rdptr' + 1, wrptr') = Piece(rdptr, wrptr)
    <3>1. SubSeq(data', 1, wrptr') = Piece(rdptr, wrptr)
      BY <1>0, <2>1, RepackShowsMessage
    <3>. QED
      BY <2>1, <3>1
  <2>4. Reads!Consume
    BY <2>2, <2>3 DEF Reads!Consume, Piece
  <2>. QED
    BY <2>4 DEF Reads!Next
<1>6. CASE mbuf_repack_message
  <2>1. /\ data' = Piece(msgptr, wrptr) /\ wrptr' = wrptr - msgptr
        /\ msgptr' = 0 /\ rdptr' = rdptr - msgptr
    BY <1>0, <1>6 DEF mbuf_repack_message, Piece
  <2>2. /\ SubSeq(data', 1, rdptr - msgptr) = Piece(msgptr, rdptr)
        /\ SubSeq(data', (rdptr - msgptr) + 1, wrptr') = Piece(rdptr, wrptr)
    BY <1>0, <2>1, RepackShowsMessage
  <2>3. msgptr' + 1 = 1 /\ rdptr' + 1 = (rdptr - msgptr) + 1
    BY <2>1
  <2>4. UNCHANGED <<Piece(msgptr, rdptr), Piece(rdptr, wrptr)>>
    BY <2>1, <2>2, <2>3 DEF Piece
  <2>. QED
    BY <2>4 DEF Reads!vars, Piece
<1>7. CASE mbuf_repack_message2
  <2>1. /\ data' = Piece(msgptr, wrptr) /\ wrptr' = wrptr - msgptr
        /\ msgptr' = 0 /\ rdptr' = 0
    BY <1>0, <1>7 DEF mbuf_repack_message2, Piece
  <2>2. SubSeq(data', msgptr' + 1, rdptr') = <<>>
    BY <2>1, SubSeqEmpty
  <2>3. SubSeq(data', rdptr' + 1, wrptr') = Piece(msgptr, wrptr)
    <3>1. SubSeq(data', 1, wrptr') = Piece(msgptr, wrptr)
      BY <1>0, <2>1, RepackShowsMessage
    <3>. QED
      BY <2>1, <3>1
  <2>4. Reads!Rewind
    BY <1>a, <2>2, <2>3 DEF Reads!Rewind, Piece
  <2>. QED
    BY <2>4 DEF Reads!Next
<1>8. CASE mbuf_clear2
  <2>1. SubSeq(<<>>, 1, 0) = <<>>
    BY SubSeqEmpty
  <2>2. Reads!Discard
    BY <1>8, <2>1 DEF mbuf_clear2, Reads!Discard
  <2>. QED
    BY <2>2 DEF Reads!Next
<1>. QED
  BY <1>1, <1>2, <1>3, <1>4, <1>5, <1>6, <1>7, <1>8 DEF ReaderNext

\* Adding a field, whether or not the buffer grows, extends the message under
\* construction and leaves the complete ones alone.
LEMMA AppendIsExtend ==
  ASSUME Inv, side' = side, side = "writer", NEW s \in Seq(Byte \cup {NUL}),
         NEW len, Written(s, len)
  PROVE  Sends!Extend
<1>1. rdptr \in 0 .. wrptr /\ msgptr \in rdptr .. wrptr /\ msgptr \in 0 .. wrptr
  BY PointersInData
<1>2. rdptr' = rdptr /\ msgptr' = msgptr
  BY DEF Written
<1>3. Piece(rdptr, msgptr)' = Piece(rdptr, msgptr)
  <2>1. SubSeq(data', rdptr + 1, msgptr) = SubSeq(data, rdptr + 1, msgptr)
    BY <1>1, AppendExtends
  <2>. QED
    BY <1>2, <2>1 DEF Piece
<1>4. /\ Len(Piece(msgptr, wrptr)) <= Len(Piece(msgptr, wrptr)')
      /\ SubSeq(Piece(msgptr, wrptr)', 1, Len(Piece(msgptr, wrptr))) = Piece(msgptr, wrptr)
  <2>1. /\ Len(SubSeq(data, msgptr + 1, wrptr)) <= Len(SubSeq(data', msgptr + 1, wrptr'))
        /\ SubSeq(SubSeq(data', msgptr + 1, wrptr'), 1, Len(SubSeq(data, msgptr + 1, wrptr)))
             = SubSeq(data, msgptr + 1, wrptr)
    BY <1>1, AppendExtends
  <2>. QED
    BY <1>2, <2>1 DEF Piece
<1>. QED
  BY <1>2, <1>3, <1>4 DEF Sends!Extend, Piece

\* What processChunk() takes are the first bytes of the complete messages.
LEMMA ReadIsSent ==
  ASSUME Inv, side' = side, side = "writer", NEW n \in 0 .. (msgptr - rdptr),
         mbuf_read(n)
  PROVE  \E k \in 0 .. Len(Piece(rdptr, msgptr)) : Sends!Take(k)
<1>. DEFINE S == Byte \cup {NUL}
<1>1. /\ data \in Seq(S) /\ Len(data) = wrptr /\ wrptr \in Nat
      /\ rdptr \in 0 .. wrptr /\ msgptr \in rdptr .. wrptr
      /\ rd_remaining = wrptr - rdptr
  BY PointersInData
<1>2. /\ data' = data /\ wrptr' = wrptr /\ msgptr' = msgptr /\ rdptr' = rdptr + n
  BY <1>1 DEF mbuf_read, Inv, TypeOK
<1>3. rdptr + n \in rdptr .. msgptr /\ n \in Nat
  BY <1>1
<1>. HIDE DEF S
<1>4. Len(Piece(rdptr, msgptr)) = msgptr - rdptr
  BY <1>1, PieceLength DEF Piece
<1>5. SubSeq(Piece(rdptr, msgptr), n + 1, msgptr - rdptr) = Piece(rdptr + n, msgptr)
  <2>1. SubSeq(SubSeq(data, rdptr + 1, msgptr), ((rdptr + n) - rdptr) + 1, msgptr - rdptr)
          = SubSeq(data, (rdptr + n) + 1, msgptr)
    <3>1. msgptr \in rdptr + n .. msgptr
      BY <1>1, <1>3
    <3>. QED
      BY <1>1, <1>3, <3>1, PieceOfPiece
  <2>2. (rdptr + n) - rdptr = n
    BY <1>1, <1>3
  <2>. QED
    BY <2>1, <2>2 DEF Piece
<1>6. Sends!Take(n)
  <2>1. n <= Len(Piece(rdptr, msgptr))
    BY <1>1, <1>4
  <2>2. Piece(rdptr, msgptr)'
          = SubSeq(Piece(rdptr, msgptr), n + 1, Len(Piece(rdptr, msgptr)))
    BY <1>2, <1>4, <1>5 DEF Piece
  <2>3. Piece(msgptr, wrptr)' = Piece(msgptr, wrptr)
    BY <1>2 DEF Piece
  <2>. QED
    BY <2>1, <2>2, <2>3 DEF Sends!Take, Piece
<1>7. n \in 0 .. Len(Piece(rdptr, msgptr))
  BY <1>1, <1>4
<1>. QED
  BY <1>6, <1>7

\* Each operation of a writer is one of the abstract queue's steps, or
\* invisible.
LEMMA WriterStep ==
  ASSUME Inv, side' = side, side = "writer", WriterNext
  PROVE  [Sends!Next]_(Sends!vars)
<1>. DEFINE S == Byte \cup {NUL}
<1>0. /\ data \in Seq(S) /\ Len(data) = wrptr /\ wrptr \in Nat
      /\ rdptr \in 0 .. wrptr /\ msgptr \in rdptr .. wrptr /\ msgptr \in 0 .. wrptr
      /\ rd_remaining = wrptr - rdptr
  BY PointersInData
<1>. HIDE DEF S
<1>1. CASE \E s \in Writes : mbuf_write(s)
  <2>1. PICK s \in Writes : mbuf_write(s)
    BY <1>1
  <2>2. s \in Seq(Byte \cup {NUL})
    BY WritesAreStrings
  <2>3. CASE Failed
    BY <2>3, FailureIsInvisible
  <2>4. CASE \E len \in length .. MaxLength : Written(s, len)
    BY <2>2, <2>4, AppendIsExtend DEF Sends!Next
  <2>. QED
    BY <2>1, <2>3, <2>4 DEF mbuf_write
<1>2. CASE \E s \in Writes : mbuf_print(s)
  <2>1. PICK s \in Writes : mbuf_print(s)
    BY <1>2
  <2>2. Printed(s) \in Seq(Byte \cup {NUL})
    BY WritesAreStrings, PrintedKeepsLength
  <2>3. CASE Failed
    BY <2>3, FailureIsInvisible
  <2>4. CASE \E len \in length .. MaxLength : Written(Printed(s), len)
    BY <2>2, <2>4, AppendIsExtend DEF Sends!Next
  <2>. QED
    BY <2>1, <2>3, <2>4 DEF mbuf_print
<1>3. CASE mbuf_begin_write
  <2>1. data' = data /\ wrptr' = wrptr /\ rdptr' = rdptr /\ msgptr' = wrptr
    BY <1>3 DEF mbuf_begin_write
  <2>2. Piece(rdptr, msgptr) \o Piece(msgptr, wrptr) = Piece(rdptr, wrptr)
    BY <1>0, AdjacentPieces DEF Piece
  <2>3. SubSeq(data, wrptr + 1, wrptr) = <<>>
    BY <1>0, SubSeqEmpty
  <2>4. Sends!Commit
    BY <2>1, <2>2, <2>3 DEF Sends!Commit, Piece
  <2>. QED
    BY <2>4 DEF Sends!Next
<1>4. CASE mbuf_reset_write
  <2>1. /\ data' = SubSeq(data, 1, msgptr) /\ wrptr' = msgptr
        /\ rdptr' = rdptr /\ msgptr' = msgptr
    BY <1>0, <1>4 DEF mbuf_reset_write
  <2>2. SubSeq(data', msgptr' + 1, wrptr') = <<>>
    BY <1>0, <2>1, SubSeqEmpty
  <2>3. SubSeq(data', rdptr' + 1, msgptr') = Piece(rdptr, msgptr)
    <3>1. 0 \in 0 .. Len(data) /\ msgptr \in 0 .. Len(data)
          /\ rdptr \in 0 .. msgptr /\ msgptr \in rdptr .. msgptr
      BY <1>0
    <3>2. SubSeq(SubSeq(data, 0 + 1, msgptr), (rdptr - 0) + 1, msgptr - 0)
            = SubSeq(data, rdptr + 1, msgptr)
      BY <1>0, <3>1, PieceOfPiece
    <3>3. 0 + 1 = 1 /\ rdptr - 0 = rdptr /\ msgptr - 0 = msgptr
      BY <1>0
    <3>. QED
      BY <2>1, <3>2, <3>3 DEF Piece
  <2>4. Sends!Abandon
    BY <2>2, <2>3 DEF Sends!Abandon, Piece
  <2>. QED
    BY <2>4 DEF Sends!Next
<1>5. CASE \E n \in 0 .. (msgptr - rdptr) : mbuf_read(n)
  <2>1. PICK k \in 0 .. Len(Piece(rdptr, msgptr)) : Sends!Take(k)
    BY <1>5, ReadIsSent
  <2>. QED
    BY <2>1 DEF Sends!Next, Piece
<1>6. CASE mbuf_repack_message2
  <2>1. /\ data' = Piece(msgptr, wrptr) /\ wrptr' = wrptr - msgptr
        /\ msgptr' = 0 /\ rdptr' = 0
    BY <1>0, <1>6 DEF mbuf_repack_message2, Piece
  <2>2. SubSeq(data', rdptr' + 1, msgptr') = <<>>
    BY <2>1, SubSeqEmpty
  <2>3. SubSeq(data', msgptr' + 1, wrptr') = Piece(msgptr, wrptr)
    <3>1. SubSeq(data', 1, wrptr') = Piece(msgptr, wrptr)
      BY <1>0, <2>1, RepackShowsMessage
    <3>. QED
      BY <2>1, <3>1
  <2>4. Sends!Drop
    BY <2>2, <2>3 DEF Sends!Drop, Piece
  <2>. QED
    BY <2>4 DEF Sends!Next
<1>7. CASE wrptr = rdptr /\ mbuf_clear2
  <2>1. msgptr = wrptr /\ rdptr = wrptr
    BY <1>0, <1>7
  <2>2. Piece(rdptr, msgptr) = <<>> /\ Piece(msgptr, wrptr) = <<>>
    BY <1>0, <2>1, SubSeqEmpty DEF Piece
  <2>3. SubSeq(data', rdptr' + 1, msgptr') = <<>> /\ SubSeq(data', msgptr' + 1, wrptr') = <<>>
    BY <1>7, SubSeqEmpty DEF mbuf_clear2
  <2>4. Sends!Drop
    BY <2>2, <2>3 DEF Sends!Drop, Piece
  <2>. QED
    BY <2>4 DEF Sends!Next
<1>. QED
  BY <1>1, <1>2, <1>3, <1>4, <1>5, <1>6, <1>7 DEF WriterNext

\* To the parser (client_handler.c, proxy/receiver.c) an MBuffer is the read
\* buffer of ReadBuffer, for every size and growth step: no sequence of calls
\* loses, repeats or reorders a byte of a message that is being parsed, and
\* mbuf_reset_read() and mbuf_repack_message2() always find its first byte.
THEOREM ReaderRefines == Spec => ReaderRefinement
<1>1. Init => Reads!Init
  BY SubSeqEmpty DEF Init, mbuf_create2, Reads!Init
<1>2. Inv /\ [Next]_vars => [Reads!Next]_(Reads!vars)
  <2>. SUFFICES ASSUME Inv, [Next]_vars
                PROVE  [Reads!Next]_(Reads!vars)
    OBVIOUS
  <2>1. CASE side' = side /\ side = "reader" /\ ReaderNext
    BY <2>1, ReaderStep
  <2>2. CASE side' = side /\ side = "writer"
    BY <2>2 DEF Reads!vars
  <2>3. CASE UNCHANGED vars
    BY <2>3 DEF vars, sizes, pointers, Reads!vars
  <2>. QED
    BY <2>1, <2>2, <2>3 DEF Next
<1>. QED
  BY <1>1, <1>2, MBufSafe, PTL DEF Spec, ReaderRefinement, Reads!Spec

\* To the measurement writers and the sending thread an MBuffer is the queue
\* of WriteBuffer, for every size and growth step: what is taken is always a
\* front of the complete messages in the order they were completed, and
\* abandoning a message or dropping the queue touches nothing else.
THEOREM WriterRefines == Spec => WriterRefinement
<1>1. Init => Sends!Init
  BY SubSeqEmpty DEF Init, mbuf_create2, Sends!Init
<1>2. Inv /\ [Next]_vars => [Sends!Next]_(Sends!vars)
  <2>. SUFFICES ASSUME Inv, [Next]_vars
                PROVE  [Sends!Next]_(Sends!vars)
    OBVIOUS
  <2>1. CASE side' = side /\ side = "writer" /\ WriterNext
    BY <2>1, WriterStep
  <2>2. CASE side' = side /\ side = "reader"
    BY <2>2 DEF Sends!vars
  <2>3. CASE UNCHANGED vars
    BY <2>3 DEF vars, sizes, pointers, Sends!vars
  <2>. QED
    BY <2>1, <2>2, <2>3 DEF Next
<1>. QED
  BY <1>1, <1>2, MBufSafe, PTL DEF Spec, WriterRefinement, Sends!Spec
=============================================================================
