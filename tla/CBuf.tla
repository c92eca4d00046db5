-------------------------------- MODULE CBuf --------------------------------
(***************************************************************************)
(* The page store of the proxy: lib/shared/cbuf.c.                         *)
(*                                                                         *)
(* A CBuffer is a circular list of pages of one size.  Data is written to  *)
(* the tail page; when that is full the next page is used if it is empty,  *)
(* and a new one is inserted otherwise.  A reader holds cursors, which are *)
(* a page and an index into it; consuming up to the fill of a page empties *)
(* the page.                                                               *)
(*                                                                         *)
(* A buffer is a record [pages, tail]; a page is [empty, fill, next, buf], *)
(* buf being memory that emptying does not erase.  The read positions kept *)
(* in the buffer itself serve cbuf_read_cursor(), which the proxy does not *)
(* call, and are left out.  Writes and cursor movements are by the unit.   *)
(***************************************************************************)
EXTENDS Integers, Sequences

CONSTANTS
  PageSize,     \* page_size
  SizeMod,      \* 2^w: differences are of type size_t
  Stray         \* what lies in memory that nobody has written

ASSUME CBufAssumption ==
  /\ PageSize \in Nat \ {0}
  /\ SizeMod \in Nat /\ SizeMod > 4 * PageSize

Page(next) ==
  [empty |-> TRUE, fill |-> 0, next |-> next, buf |-> [i \in 1 .. PageSize |-> Stray]]

cbuf_create == [pages |-> << Page(1) >>, tail |-> 1]

\* The new page follows the tail and becomes the tail.
cbuf_add_page(b) ==
  LET n == Len(b.pages) + 1
  IN  [pages |-> Append([b.pages EXCEPT ![b.tail].next = n], Page(b.pages[b.tail].next)),
       tail |-> n]

\* The tail page is full and there is more to write.
\* Variant: the next page is used although it is still to be read.
ReuseAnyPage(b) ==
  IF b.pages[b.tail].next # b.tail THEN [b EXCEPT !.tail = b.pages[b.tail].next]
                                   ELSE cbuf_add_page(b)
NextPage(b) ==
  LET next == b.pages[b.tail].next
  IN  IF b.pages[next].empty THEN [b EXCEPT !.tail = next] ELSE cbuf_add_page(b)

Put(b0, unit) ==
  LET b == IF b0.pages[b0.tail].fill = PageSize THEN NextPage(b0) ELSE b0
      at == b.pages[b.tail].fill + 1
  IN  [b EXCEPT !.pages[b.tail] =
         [@ EXCEPT !.empty = FALSE, !.fill = at, !.buf[at] = unit]]

cbuf_write(b, units) ==
  LET written[n \in 0 .. Len(units)] ==
        IF n = 0 THEN b ELSE Put(written[n - 1], units[n])
  IN  written[Len(units)]

cbuf_write_cursor(b) == [page |-> b.tail, index |-> b.pages[b.tail].fill]

cbuf_cursor_page_remaining(b, cur) ==
  (b.pages[cur.page].fill - cur.index) % SizeMod

\* n units of memory from the cursor on; a page ends after PageSize units.
Memory(b, cur, n) ==
  [i \in 1 .. n |->
     IF cur.index + i <= PageSize THEN b.pages[cur.page].buf[cur.index + i] ELSE Stray]

-----------------------------------------------------------------------------
AtEnd(b, cur) == cur.index = b.pages[cur.page].fill
NextStart(b, cur) == [page |-> b.pages[cur.page].next, index |-> 0]
Beyond(cur) == [cur EXCEPT !.index = @ + 1]

\* The loop body runs at least once: a cursor at the end of a page moves on
\* even if n = 0.
cbuf_advance_cursor(b, cur, n) ==
  LET skip(c) == IF AtEnd(b, c) THEN NextStart(b, c) ELSE c
      moved[k \in 0 .. n] == IF k = 0 THEN skip(cur) ELSE skip(Beyond(moved[k - 1]))
  IN  moved[n]

\* The same, emptying the pages that are left behind.
Emptied(b, p) == [b EXCEPT !.pages[p].empty = TRUE, !.pages[p].fill = 0]

cbuf_consume_cursor(b0, cur0, n) ==
  LET skip(s) == IF AtEnd(s.b, s.cur)
                 THEN [b |-> Emptied(s.b, s.cur.page), cur |-> NextStart(s.b, s.cur)]
                 ELSE s
      moved[k \in 0 .. n] ==
        IF k = 0 THEN skip([b |-> b0, cur |-> cur0])
        ELSE skip([moved[k - 1] EXCEPT !.cur = Beyond(@)])
  IN  moved[n].b
=============================================================================
