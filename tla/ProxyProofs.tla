---------------------------- MODULE ProxyProofs -----------------------------
(***************************************************************************)
(* The proxy, for any clients, messages, page sizes and disturbances: what *)
(* is queued can be read back, and every downstream connection replays it. *)
(*                                                                         *)
(* The invariant is about one client at a time and speaks of what is not   *)
(* in the state with existential quantifiers: the units stored so far      *)
(* (all), where each message ends in them (off), where in the pages each   *)
(* unit was put (place), and how many messages were out whole when each    *)
(* connection ended (taken).                                               *)
(***************************************************************************)
EXTENDS Proxy, SequenceTheorems, WellFoundedInduction, TLAPS

Data == (Nat \X Nat) \cup {Stray}
Pages == [empty : BOOLEAN, fill : 0 .. PageSize, next : Nat, buf : [1 .. PageSize -> Data]]
Buffers == [pages : Seq(Pages), tail : Nat]
Cursors == [page : Nat, index : Nat]

\* The pages are a closed list, and exactly the pages without data are empty.
Paged(b) ==
  /\ b \in Buffers /\ b.tail \in 1 .. Len(b.pages)
  /\ \A p \in 1 .. Len(b.pages) :
       /\ b.pages[p].next \in 1 .. Len(b.pages)
       /\ b.pages[p].empty <=> b.pages[p].fill = 0

Fill(b, cur) == b.pages[cur.page].fill
Unit(b, cur) == b.pages[cur.page].buf[cur.index + 1]
\* The cursor behind one unit.
Behind(b, cur) ==
  IF cur.index + 1 = Fill(b, cur) THEN NextStart(b, cur) ELSE Beyond(cur)

\* Units lo + 1, lo + 2, ... of what was stored are in the pages, at these
\* places: one behind the other, up to the fill of the tail, and nothing else.
Touched(place, lo, p) == \E j \in lo + 1 .. Len(place) : place[j].page = p
Spread(b, place, lo) ==
  /\ place \in Seq(Cursors) /\ lo \in 0 .. Len(place)
  /\ \A j \in lo + 1 .. Len(place) :
       place[j].page \in 1 .. Len(b.pages) /\ place[j].index < Fill(b, place[j])
  /\ \A j, k \in lo + 1 .. Len(place) :
       j < k /\ place[j].page = place[k].page => place[j].index < place[k].index
  /\ \A j \in lo + 1 .. Len(place) - 1 : place[j + 1] = Behind(b, place[j])
  /\ \A p \in 1 .. Len(b.pages) :
       /\ ~Touched(place, lo, p) => b.pages[p].fill = 0
       /\ p # b.tail => b.pages[p].fill \in {0, PageSize}
Laid(b, place, lo) ==
  /\ Spread(b, place, lo)
  /\ lo < Len(place) =>
       place[Len(place)] = [page |-> b.tail, index |-> b.pages[b.tail].fill - 1]

\* Where the messages st end among the units all.
Offsets(st, off, all) ==
  /\ st \in Seq(Messages) /\ off \in [0 .. Len(st) -> Nat] /\ off[0] = 0
  /\ \A n \in 1 .. Len(st) : off[n] = off[n - 1] + st[n].len
  /\ all \in Seq(Nat \X Nat) /\ Len(all) = off[Len(st)]
  /\ \A n \in 1 .. Len(st) : \A t \in 1 .. st[n].len : all[off[n - 1] + t] = <<st[n].id, t>>

\* Messages that have left the queue.
Gone(k, st) == Len(st) - Len(k.messages)

\* The queue is the end of what was stored, and the pages hold it.
Stock(k, st, off, all, place) ==
  /\ Len(k.messages) <= Len(st)
  /\ Paged(k.cbuf) /\ Laid(k.cbuf, place, off[Gone(k, st)])
  /\ Len(place) = Len(all)
  /\ \A j \in off[Gone(k, st)] + 1 .. Len(all) : Unit(k.cbuf, place[j]) = all[j]
  /\ \A i \in 1 .. Len(k.messages) :
       k.messages[i] = [msg |-> st[Gone(k, st) + i],
                        cursor |-> place[off[Gone(k, st) + i - 1] + 1]]

Busy(s) == s.pc \in {"send", "sent"}
\* Position of the sender in what was stored, inside a message.
Reached(k, s, st, off) == off[Gone(k, st) + 1] - s.length
Underway(k, s, st, off, place) ==
  /\ k.messages # <<>> /\ s.connected
  /\ s.length \in 1 .. st[Gone(k, st) + 1].len
  /\ s.to_write \in 1 .. s.length
  /\ \A t \in 1 .. s.to_write :
       place[Reached(k, s, st, off) + t] = [page |-> s.cursor.page, index |-> s.cursor.index + t - 1]
  /\ s.pc = "sent" => s.result \in {-1} \cup 1 .. s.to_write

\* What connection w carries behind its headers, and up to where.
Carried(w) == IF w = <<>> THEN 0 ELSE Len(w) - 1
UpTo(w, off, taken, n) == off[taken[n - 1]] + Carried(w[n])
Replay(w, st, off, all, taken) ==
  /\ w \in Seq(Seq(Data)) /\ taken \in [0 .. Len(w) -> 0 .. Len(st)] /\ taken[0] = 0
  /\ \A n \in 1 .. Len(w) :
       /\ w[n] # <<>> => Headed(w[n])
       /\ \A t \in 1 .. Carried(w[n]) : w[n][t + 1] = all[off[taken[n - 1]] + t]
       /\ off[taken[n]] <= UpTo(w, off, taken, n) /\ UpTo(w, off, taken, n) <= Len(all)
       /\ taken[n] < Len(st) => UpTo(w, off, taken, n) < off[taken[n] + 1]

\* The headers of connection w were cut: it is not used any more.
Cut(w) == w # <<>> /\ w[1] = CutHeaders

\* What the sender is about to do agrees with what is on the wire.
InStep(k, s, st, w, off, taken) ==
  /\ taken[Len(w)] = IF s.pc = "sent" /\ s.result = s.length THEN Gone(k, st) + 1 ELSE Gone(k, st)
  /\ s.pc = "connect" => ~s.connected
  /\ s.connected =>
       /\ w # <<>> /\ (w[Len(w)] = <<>> <=> s.pc = "relock") /\ ~Cut(w[Len(w)])
       /\ UpTo(w, off, taken, Len(w)) =
            IF ~Busy(s) THEN off[Gone(k, st)]
            ELSE Reached(k, s, st, off) + (IF s.pc = "sent" /\ s.result # -1 THEN s.result ELSE 0)

Client(k) ==
  /\ DOMAIN k = {"state", "headers", "mbuf", "messages", "cbuf", "next"}
  /\ k.messages \in Seq([msg : Messages, cursor : Cursors])
Sender(s) ==
  /\ DOMAIN s = {"pc", "connected", "cursor", "length", "to_write", "result", "prev"}
  /\ s.connected \in BOOLEAN /\ s.cursor \in Cursors /\ s.length \in Int /\ s.result \in Int

View(k, s, st, w, off, all, place, taken) ==
  /\ Client(k) /\ Sender(s)
  /\ Offsets(st, off, all)
  /\ Stock(k, st, off, all, place)
  /\ Busy(s) => Underway(k, s, st, off, place)
  /\ Replay(w, st, off, all, taken)
  /\ InStep(k, s, st, w, off, taken)

-----------------------------------------------------------------------------
(* Induction, as a fact about sets of numbers.                             *)

\* Every set of numbers has a least element.
LEMMA Least ==
  ASSUME NEW T, T \subseteq Nat, T # {}
  PROVE  \E m \in T : \A k \in T : m <= k
<1> DEFINE R == OpToRel(<, Nat)
<1>1. IsWellFoundedOn(R, Nat)
  BY NatLessThanWellFounded
<1>2. \A x, y \in Nat : <<x, y>> \in R <=> x < y
  BY DEF OpToRel
<1> HIDE DEF R
<1>3. PICK x \in T : \A y \in T : ~(<<y, x>> \in R)
  BY <1>1, WFMin
<1>4. \A y \in T : x \in Nat /\ y \in Nat /\ ~(y < x)
  BY <1>2, <1>3
<1>5. \A y \in T : x <= y
  BY <1>4
<1>6. QED
  BY <1>5

\* Induction: a set with 0 and every successor has all numbers.
LEMMA Induction ==
  ASSUME NEW T, 0 \in T, \A n \in Nat : n \in T => n + 1 \in T
  PROVE  Nat \subseteq T
<1>1. SUFFICES ASSUME NEW n \in Nat, n \notin T PROVE FALSE
  OBVIOUS
<1> DEFINE U == Nat \ T
<1>2. PICK m \in U : \A k \in U : m <= k
  <2>1. U \subseteq Nat /\ U # {}
    BY <1>1
  <2> HIDE DEF U
  <2>2. QED
    BY <2>1, Least
<1>3. m \in Nat /\ m \notin T /\ m # 0
  OBVIOUS
<1>4. m - 1 \in Nat /\ m - 1 < m /\ (m - 1) + 1 = m
  BY <1>3
<1>5. m - 1 \in T
  BY <1>2, <1>4
<1>6. QED
  BY <1>3, <1>4, <1>5

-----------------------------------------------------------------------------
(* Writing to the pages.                                                   *)

\* There is room in the tail page, behind the last unit.
Ready(b, place, lo) ==
  /\ Spread(b, place, lo)
  /\ b.pages[b.tail].fill < PageSize
  /\ lo < Len(place) =>
       \/ place[Len(place)] = [page |-> b.tail, index |-> b.pages[b.tail].fill - 1]
       \/ /\ place[Len(place)].page # b.tail /\ b.pages[b.tail].fill = 0
          /\ Behind(b, place[Len(place)]) = [page |-> b.tail, index |-> 0]

\* The end of Put().
Filled(b, unit) ==
  LET at == b.pages[b.tail].fill + 1
  IN  [b EXCEPT !.pages[b.tail] =
         [@ EXCEPT !.empty = FALSE, !.fill = at, !.buf[at] = unit]]

\* m differs from b in its tail page, which has one more unit.
OneMore(b, m, unit) ==
  /\ m \in Buffers /\ m.tail = b.tail /\ Len(m.pages) = Len(b.pages)
  /\ \A p \in 1 .. Len(b.pages) : p # b.tail => m.pages[p] = b.pages[p]
  /\ m.pages[b.tail].empty = FALSE
  /\ m.pages[b.tail].fill = b.pages[b.tail].fill + 1
  /\ m.pages[b.tail].next = b.pages[b.tail].next
  /\ m.pages[b.tail].buf = [b.pages[b.tail].buf EXCEPT ![b.pages[b.tail].fill + 1] = unit]

LEMMA FilledIsOneMore ==
  ASSUME NEW b, Paged(b), b.pages[b.tail].fill < PageSize, NEW unit \in Data,
         NEW m, m = Filled(b, unit)
  PROVE  OneMore(b, m, unit)
<1> DEFINE t == b.tail
           q == b.pages[t]
           at == q.fill + 1
           r == [q EXCEPT !.empty = FALSE, !.fill = at, !.buf[at] = unit]
<1>1. b \in Buffers /\ b.pages \in Seq(Pages) /\ t \in 1 .. Len(b.pages) /\ PageSize \in Nat
  BY CBufAssumption DEF Paged, Buffers
<1>2. q \in Pages /\ q.fill \in 0 .. PageSize
  <2>1. q \in Pages
    BY <1>1, ElementOfSeq
  <2>2. QED
    BY <2>1 DEF Pages
<1>3. at \in 1 .. PageSize
  BY <1>1, <1>2
<1>4. r \in Pages /\ r.empty = FALSE /\ r.fill = at /\ r.next = q.next
      /\ r.buf = [q.buf EXCEPT ![at] = unit]
  <2>1. r = [q EXCEPT !.empty = FALSE, !.fill = at, !.buf[at] = unit]
    OBVIOUS
  <2> HIDE DEF q, at, r
  <2>2. at \in 0 .. PageSize
    BY <1>1, <1>3
  <2>3. q.buf \in [1 .. PageSize -> Data]
    BY <1>2 DEF Pages
  <2>4. [q.buf EXCEPT ![at] = unit] \in [1 .. PageSize -> Data]
    BY <1>3, <2>3
  <2>5. QED
    BY <1>2, <2>1, <2>2, <2>4 DEF Pages
<1>5. m = [b EXCEPT !.pages = [@ EXCEPT ![t] = r]]
  BY DEF Filled
<1>6. [b.pages EXCEPT ![t] = r] \in Seq(Pages) /\ Len([b.pages EXCEPT ![t] = r]) = Len(b.pages)
      /\ \A p \in 1 .. Len(b.pages) :
           [b.pages EXCEPT ![t] = r][p] = IF p = t THEN r ELSE b.pages[p]
  <2> HIDE DEF t, r
  <2>1. QED
    BY <1>1, <1>4, ExceptSeq
<1>7. m \in Buffers /\ m.tail = t /\ m.pages = [b.pages EXCEPT ![t] = r]
  <2> HIDE DEF r, q
  <2>1. QED
    BY <1>1, <1>5, <1>6 DEF Buffers
<1>8. QED
  <2> HIDE DEF r
  <2>1. QED
    BY <1>1, <1>4, <1>6, <1>7 DEF OneMore

\* One unit more in a page that has room.
LEMMA FilledKeeps ==
  ASSUME NEW b, Paged(b), NEW place, NEW lo, Ready(b, place, lo), NEW unit \in Data,
         NEW m, OneMore(b, m, unit),
         NEW at, at = [page |-> b.tail, index |-> b.pages[b.tail].fill]
  PROVE  /\ Paged(m) /\ Laid(m, Append(place, at), lo)
         /\ Unit(m, at) = unit
         /\ \A j \in lo + 1 .. Len(place) : Unit(m, place[j]) = Unit(b, place[j])
<1> DEFINE t == b.tail
           f == b.pages[t].fill
           n == Len(place)
           new == Append(place, at)
<1>1. /\ b \in Buffers /\ b.pages \in Seq(Pages) /\ Len(b.pages) \in Nat
      /\ t \in 1 .. Len(b.pages) /\ PageSize \in Nat
      /\ place \in Seq(Cursors) /\ n \in Nat /\ lo \in 0 .. n
  BY CBufAssumption, LenProperties DEF Paged, Ready, Spread, Buffers
<1>2. \A p \in 1 .. Len(b.pages) :
        /\ b.pages[p] \in Pages /\ b.pages[p].fill \in 0 .. PageSize
        /\ b.pages[p].next \in 1 .. Len(b.pages)
        /\ b.pages[p].empty <=> b.pages[p].fill = 0
  <2>1. \A p \in 1 .. Len(b.pages) : b.pages[p] \in Pages
    BY <1>1, ElementOfSeq
  <2>2. QED
    BY <2>1 DEF Paged, Pages
<1>3. f \in Nat /\ f < PageSize /\ f + 1 \in 1 .. PageSize
  BY <1>1, <1>2, SMTT(30) DEF Ready
<1>4. at \in Cursors /\ at.page = t /\ at.index = f
  BY <1>1, <1>3 DEF Cursors
<1>5. /\ new \in Seq(Cursors) /\ Len(new) = n + 1 /\ new[n + 1] = at
      /\ \A j \in 1 .. n : new[j] = place[j]
  <2> HIDE DEF n
  <2>1. n = Len(place)
    BY DEF n
  <2>2. QED
    BY <1>1, <1>4, <2>1, AppendProperties
<1>6. /\ m.tail = t /\ Len(m.pages) = Len(b.pages) /\ m.pages[t].fill = f + 1
      /\ \A p \in 1 .. Len(b.pages) : m.pages[p].next = b.pages[p].next
      /\ \A p \in 1 .. Len(b.pages) : p # t => m.pages[p] = b.pages[p]
  BY <1>1 DEF OneMore
<1> HIDE DEF t, f, n, new
<1>7. Paged(m)
  <2>1. m \in Buffers /\ m.tail \in 1 .. Len(m.pages)
    BY <1>1, <1>6 DEF OneMore
  <2>2. ASSUME NEW p \in 1 .. Len(m.pages)
        PROVE  m.pages[p].next \in 1 .. Len(m.pages) /\ (m.pages[p].empty <=> m.pages[p].fill = 0)
    <3>1. p \in 1 .. Len(b.pages) /\ m.pages[p].next \in 1 .. Len(m.pages)
      BY <1>2, <1>6
    <3>2. CASE p = t
      <4>1. m.pages[t].empty = FALSE /\ m.pages[t].fill # 0
        BY <1>3, <1>6 DEF OneMore, t
      <4>2. QED
        BY <3>1, <3>2, <4>1
    <3>3. CASE p # t
      BY <1>2, <1>6, <3>1, <3>3
    <3>4. QED
      BY <3>2, <3>3
  <2>3. QED
    BY <2>1, <2>2 DEF Paged
<1>8. \A j \in lo + 1 .. n :
        /\ j \in 1 .. n /\ place[j].page \in 1 .. Len(b.pages) /\ place[j].index \in Nat
        /\ place[j].index < b.pages[place[j].page].fill
  <2>1. \A j \in 1 .. n : place[j] \in Cursors
    BY <1>1, ElementOfSeq DEF n
  <2>2. QED
    BY <1>1, <2>1 DEF Ready, Spread, Fill, Cursors, n
<1>9. \A j \in lo + 1 .. Len(new) : j = n + 1 \/ j \in lo + 1 .. n
  BY <1>1, <1>5
<1>10. \A j \in lo + 1 .. Len(new) :
         new[j].page \in 1 .. Len(m.pages) /\ new[j].index < Fill(m, new[j])
  <2>1. TAKE j \in lo + 1 .. Len(new)
  <2>2. CASE j = n + 1
    BY <1>1, <1>3, <1>4, <1>5, <1>6, <2>2 DEF Fill
  <2>3. CASE j \in lo + 1 .. n
    <3>1. new[j] = place[j] /\ place[j].page \in 1 .. Len(b.pages)
      BY <1>5, <1>8, <2>3
    <3>2. CASE place[j].page = t
      BY <1>3, <1>6, <1>8, <2>3, <3>1, <3>2, SMTT(30) DEF Fill, f
    <3>3. CASE place[j].page # t
      BY <1>6, <1>8, <2>3, <3>1, <3>3 DEF Fill
    <3>4. QED
      BY <3>2, <3>3
  <2>4. QED
    BY <1>9, <2>2, <2>3
<1>11. \A j, k \in lo + 1 .. Len(new) :
         j < k /\ new[j].page = new[k].page => new[j].index < new[k].index
  <2>1. SUFFICES ASSUME NEW j \in lo + 1 .. Len(new), NEW k \in lo + 1 .. Len(new),
                        j < k, new[j].page = new[k].page
                 PROVE  new[j].index < new[k].index
    OBVIOUS
  <2>2. j \in lo + 1 .. n
    BY <1>1, <1>5, <2>1
  <2>3. CASE k = n + 1
    BY <1>3, <1>4, <1>5, <1>8, <2>1, <2>2, <2>3 DEF f
  <2>4. CASE k \in lo + 1 .. n
    <3>1. new[j] = place[j] /\ new[k] = place[k]
      BY <1>5, <1>8, <2>2, <2>4
    <3>2. QED
      BY <2>1, <2>2, <2>4, <3>1 DEF Ready, Spread, n
  <2>5. QED
    BY <1>9, <2>3, <2>4
<1>12. \A j \in lo + 1 .. Len(new) - 1 : new[j + 1] = Behind(m, new[j])
  <2>1. TAKE j \in lo + 1 .. Len(new) - 1
  <2>2. j \in lo + 1 .. n /\ new[j] = place[j] /\ j \in 1 .. n
    BY <1>1, <1>5, <1>8, <2>1
  <2>3. CASE j = n
    <3>1. new[j + 1] = at /\ lo < n
      BY <1>1, <1>5, <2>2, <2>3
    <3>2. CASE place[n] = [page |-> t, index |-> f - 1]
      <4>1. Behind(m, place[n]) = Beyond(place[n])
        BY <1>3, <1>6, <3>2 DEF Behind, Fill
      <4>2. Beyond(place[n]) = [page |-> t, index |-> f]
        BY <1>3, <3>2 DEF Beyond
      <4>3. QED
        BY <2>2, <2>3, <3>1, <4>1, <4>2 DEF t, f
    <3>3. CASE /\ place[n].page # t /\ f = 0 /\ Behind(b, place[n]) = [page |-> t, index |-> 0]
      <4>1. Behind(m, place[n]) = Behind(b, place[n])
        BY <1>6, <1>8, <2>2, <2>3, <3>3 DEF Behind, Fill, NextStart
      <4>2. QED
        BY <2>2, <2>3, <3>1, <3>3, <4>1 DEF t, f
    <3>4. QED
      BY <3>1, <3>2, <3>3 DEF Ready, n, t, f
  <2>4. CASE j # n
    <3>1. j \in lo + 1 .. n - 1 /\ j + 1 \in lo + 1 .. n /\ new[j + 1] = place[j + 1]
      BY <1>1, <1>5, <2>2, <2>4
    <3>2. place[j + 1] = Behind(b, place[j])
      BY <3>1 DEF Ready, Spread, n
    <3>3. CASE place[j].page # t
      <4>1. Behind(m, place[j]) = Behind(b, place[j])
        BY <1>6, <1>8, <2>2, <3>3 DEF Behind, Fill, NextStart
      <4>2. QED
        BY <2>2, <3>1, <3>2, <4>1
    <3>4. CASE place[j].page = t
      <4>1. place[j].index \in Nat /\ place[j].index < f /\ b.pages[t].fill = f
        BY <1>8, <2>2, <3>4 DEF f
      <4>2. place[j].index + 1 # f
        <5>1. SUFFICES ASSUME place[j].index + 1 = f PROVE FALSE
          OBVIOUS
        <5>2. n \in lo + 1 .. n /\ lo < n /\ j < n
          BY <1>1, <2>2, <2>4
        <5>3. f # 0
          BY <1>3, <4>1
        <5>4. place[n].page = t /\ place[n].index = f - 1
          BY <5>2, <5>3 DEF Ready, n, t, f
        <5>5. place[j].index < place[n].index
          BY <2>2, <3>4, <5>2, <5>4 DEF Ready, Spread, n
        <5>6. QED
          BY <1>3, <4>1, <5>1, <5>4, <5>5
      <4>3. Behind(b, place[j]) = Beyond(place[j])
        BY <3>4, <4>1, <4>2 DEF Behind, Fill
      <4>4. Behind(m, place[j]) = Beyond(place[j])
        BY <1>3, <1>6, <3>4, <4>1 DEF Behind, Fill
      <4>5. QED
        BY <2>2, <3>1, <3>2, <4>3, <4>4
    <3>5. QED
      BY <3>3, <3>4
  <2>5. QED
    BY <2>3, <2>4
<1>13. new[Len(new)] = [page |-> m.tail, index |-> m.pages[m.tail].fill - 1]
  BY <1>3, <1>5, <1>6 DEF t, f
<1>14. \A p \in 1 .. Len(m.pages) :
         /\ ~Touched(new, lo, p) => m.pages[p].fill = 0
         /\ p # m.tail => m.pages[p].fill \in {0, PageSize}
  <2>1. TAKE p \in 1 .. Len(m.pages)
  <2>2. CASE p = t
    <3>1. n + 1 \in lo + 1 .. Len(new) /\ new[n + 1].page = p
      BY <1>1, <1>4, <1>5, <2>2
    <3>2. Touched(new, lo, p)
      BY <3>1 DEF Touched
    <3>3. QED
      BY <1>6, <2>2, <3>2
  <2>3. CASE p # t
    <3>1. Touched(place, lo, p) => Touched(new, lo, p)
      <4>1. HAVE Touched(place, lo, p)
      <4>2. PICK j \in lo + 1 .. n : place[j].page = p
        BY <4>1 DEF Touched, n
      <4>3. j \in lo + 1 .. Len(new) /\ new[j].page = p
        BY <1>1, <1>5, <1>8, <4>2
      <4>4. QED
        BY <4>3 DEF Touched
    <3>2. p \in 1 .. Len(b.pages) /\ m.pages[p] = b.pages[p]
      BY <1>6, <2>1, <2>3
    <3>3. QED
      BY <1>6, <2>3, <3>1, <3>2 DEF Ready, Spread, t
  <2>4. QED
    BY <2>2, <2>3
<1>15. lo \in 0 .. Len(new)
  BY <1>1, <1>5
<1>16. Laid(m, new, lo)
  BY <1>5, <1>10, <1>11, <1>12, <1>13, <1>14, <1>15 DEF Laid, Spread
<1>17. Unit(m, at) = unit
  <2>1. m.pages[t].buf = [b.pages[t].buf EXCEPT ![f + 1] = unit]
    BY DEF OneMore, t, f
  <2>2. b.pages[t].buf \in [1 .. PageSize -> Data]
    BY <1>1, <1>2 DEF Pages
  <2>3. QED
    BY <1>3, <1>4, <2>1, <2>2 DEF Unit
<1>18. \A j \in lo + 1 .. Len(place) : Unit(m, place[j]) = Unit(b, place[j])
  <2>1. TAKE j \in lo + 1 .. Len(place)
  <2>2. place[j].page \in 1 .. Len(b.pages) /\ place[j].index \in Nat
        /\ place[j].index < b.pages[place[j].page].fill
    BY <1>8, <2>1 DEF n
  <2>3. CASE place[j].page = t
    <3>1. m.pages[t].buf = [b.pages[t].buf EXCEPT ![f + 1] = unit]
      BY DEF OneMore, t, f
    <3>2. b.pages[t].buf \in [1 .. PageSize -> Data]
      BY <1>1, <1>2 DEF Pages
    <3>3. place[j].index + 1 \in 1 .. PageSize /\ place[j].index + 1 # f + 1
      <4>1. PICK i : i = place[j].index
        OBVIOUS
      <4>2. i \in Nat /\ i < f
        BY ONLY <2>2, <2>3, <4>1 DEF f
      <4>3. f \in Nat /\ f < PageSize /\ PageSize \in Nat
        BY <1>1, <1>3
      <4>4. QED
        BY ONLY <4>1, <4>2, <4>3
    <3>4. QED
      BY <2>3, <3>1, <3>2, <3>3 DEF Unit
  <2>4. CASE place[j].page # t
    BY <1>6, <2>2, <2>4 DEF Unit
  <2>5. QED
    BY <2>3, <2>4
<1>19. QED
  BY <1>7, <1>16, <1>17, <1>18 DEF new

\* m is b with a new page, which follows the tail and is the tail.
Extended(b, m) ==
  LET n == Len(b.pages) + 1
  IN  /\ m \in Buffers /\ m.tail = n /\ Len(m.pages) = n
      /\ \A p \in 1 .. Len(b.pages) :
           /\ m.pages[p].fill = b.pages[p].fill /\ m.pages[p].buf = b.pages[p].buf
           /\ m.pages[p].empty = b.pages[p].empty
           /\ m.pages[p].next = IF p = b.tail THEN n ELSE b.pages[p].next
      /\ m.pages[n].fill = 0 /\ m.pages[n].empty = TRUE /\ m.pages[n].next = b.pages[b.tail].next

LEMMA AddedIsExtended ==
  ASSUME NEW b, Paged(b), NEW m, m = cbuf_add_page(b)
  PROVE  Extended(b, m)
<1> DEFINE t == b.tail
           q == b.pages[t]
           n == Len(b.pages) + 1
           r == [q EXCEPT !.next = n]
           old == [b.pages EXCEPT ![t] = r]
           new == Page(q.next)
<1>1. b \in Buffers /\ b.pages \in Seq(Pages) /\ t \in 1 .. Len(b.pages) /\ PageSize \in Nat
      /\ Len(b.pages) \in Nat
  BY CBufAssumption, LenProperties DEF Paged, Buffers
<1>2. q \in Pages
  BY <1>1, ElementOfSeq
<1>3. r \in Pages /\ r.next = n /\ r.fill = q.fill /\ r.empty = q.empty /\ r.buf = q.buf
  <2>1. n \in Nat
    BY <1>1
  <2> HIDE DEF q, n
  <2>2. r \in Pages
    BY ONLY <1>2, <2>1 DEF Pages
  <2>3. r.next = n /\ r.fill = q.fill /\ r.empty = q.empty /\ r.buf = q.buf
    BY ONLY <1>2 DEF Pages
  <2>4. QED
    BY <2>2, <2>3
<1>4. new \in Pages /\ new.fill = 0 /\ new.empty = TRUE /\ new.next = q.next
  <2>1. q.next \in Nat
    BY <1>2 DEF Pages
  <2>2. [i \in 1 .. PageSize |-> Stray] \in [1 .. PageSize -> Data]
    BY DEF Data
  <2>3. 0 \in 0 .. PageSize
    BY <1>1
  <2> HIDE DEF q
  <2>4. QED
    BY <2>1, <2>2, <2>3 DEF Page, Pages
<1>5. old \in Seq(Pages) /\ Len(old) = Len(b.pages)
      /\ \A p \in 1 .. Len(b.pages) : old[p] = IF p = t THEN r ELSE b.pages[p]
  <2> HIDE DEF t, r
  <2>1. QED
    BY <1>1, <1>3, ExceptSeq
<1>6. m = [pages |-> Append(old, new), tail |-> n]
  BY DEF cbuf_add_page
<1> HIDE DEF old, new, r
<1>7. Append(old, new) \in Seq(Pages) /\ Len(Append(old, new)) = n /\ Append(old, new)[n] = new
      /\ \A p \in 1 .. Len(b.pages) : Append(old, new)[p] = old[p]
  BY <1>1, <1>4, <1>5, AppendProperties
<1>8. m \in Buffers /\ m.pages = Append(old, new) /\ m.tail = n
  BY <1>1, <1>6, <1>7 DEF Buffers
<1>9. QED
  BY <1>1, <1>3, <1>4, <1>5, <1>7, <1>8 DEF Extended

\* A full tail gives way to an empty page, used before or new.
LEMMA NextPageIsReady ==
  ASSUME NEW b, Paged(b), NEW place, NEW lo, Laid(b, place, lo),
         b.pages[b.tail].fill = PageSize, NEW m, m = NextPage(b)
  PROVE  /\ Paged(m) /\ Ready(m, place, lo)
         /\ \A j \in lo + 1 .. Len(place) : Unit(m, place[j]) = Unit(b, place[j])
<1> DEFINE t == b.tail
           n == Len(place)
           next == b.pages[t].next
<1>1. /\ b \in Buffers /\ b.pages \in Seq(Pages) /\ Len(b.pages) \in Nat
      /\ t \in 1 .. Len(b.pages) /\ PageSize \in Nat \ {0}
      /\ place \in Seq(Cursors) /\ n \in Nat /\ lo \in 0 .. n
      /\ b.pages[t].fill = PageSize
  BY CBufAssumption, LenProperties DEF Paged, Laid, Spread, Buffers
<1>2. \A p \in 1 .. Len(b.pages) :
        /\ b.pages[p].fill \in 0 .. PageSize
        /\ b.pages[p].next \in 1 .. Len(b.pages)
        /\ b.pages[p].empty <=> b.pages[p].fill = 0
  <2>1. \A p \in 1 .. Len(b.pages) : b.pages[p] \in Pages
    BY <1>1, ElementOfSeq
  <2>2. QED
    BY <2>1 DEF Paged, Pages
<1>3. \A j \in lo + 1 .. n :
        /\ place[j].page \in 1 .. Len(b.pages) /\ place[j].index \in Nat
        /\ place[j].index < b.pages[place[j].page].fill
  <2>1. \A j \in 1 .. n : place[j] \in Cursors
    BY <1>1, ElementOfSeq
  <2>2. \A j \in lo + 1 .. n : j \in 1 .. n
    BY <1>1
  <2>3. QED
    BY <2>1, <2>2 DEF Laid, Spread, Fill, Cursors
<1>4. lo < n => place[n].page = t /\ place[n].index + 1 = PageSize
  BY <1>1 DEF Laid
<1>5. \A p \in 1 .. Len(b.pages) : b.pages[p].fill \in {0, PageSize}
  BY <1>1 DEF Laid, Spread
<1> HIDE DEF t, n, next
<1>6. CASE b.pages[next].empty
  <2>1. m = [b EXCEPT !.tail = next]
    BY <1>6 DEF NextPage, next, t
  <2>2. next \in 1 .. Len(b.pages) /\ b.pages[next].fill = 0 /\ next # t
    BY <1>1, <1>2, <1>6 DEF next
  <2>3. m.pages = b.pages /\ m.tail = next /\ m \in Buffers
    BY <1>1, <2>1, <2>2 DEF Buffers
  <2>4. Paged(m)
    BY <1>2, <2>2, <2>3 DEF Paged
  <2>5. \A j : Behind(m, place[j]) = Behind(b, place[j]) /\ Fill(m, place[j]) = Fill(b, place[j])
               /\ Unit(m, place[j]) = Unit(b, place[j])
    BY <2>3 DEF Behind, Fill, Unit, NextStart
  <2>6. Spread(m, place, lo)
    BY <1>5, <2>3, <2>5 DEF Laid, Spread
  <2>7. lo < n => Behind(b, place[n]) = [page |-> next, index |-> 0]
    BY <1>1, <1>4 DEF Behind, Fill, NextStart, next
  <2>8. Ready(m, place, lo)
    BY <1>1, <1>4, <2>2, <2>3, <2>5, <2>6, <2>7 DEF Ready, n
  <2>9. QED
    BY <2>4, <2>5, <2>8
<1>7. CASE ~b.pages[next].empty
  <2> DEFINE new == Len(b.pages) + 1
  <2>1. Extended(b, m)
    BY <1>7, AddedIsExtended DEF NextPage, next, t
  <2>2. /\ m \in Buffers /\ m.tail = new /\ Len(m.pages) = new
        /\ \A p \in 1 .. Len(b.pages) :
             /\ m.pages[p].fill = b.pages[p].fill /\ m.pages[p].buf = b.pages[p].buf
             /\ m.pages[p].empty = b.pages[p].empty
             /\ m.pages[p].next = IF p = t THEN new ELSE b.pages[p].next
        /\ m.pages[new].fill = 0 /\ m.pages[new].empty = TRUE /\ m.pages[new].next = next
    BY <2>1 DEF Extended, t, next
  <2>3. new \in Nat /\ next \in 1 .. new /\ new \in 1 .. new
        /\ \A p \in 1 .. new : p = new \/ p \in 1 .. Len(b.pages)
    BY <1>1, <1>2 DEF next
  <2> HIDE DEF new
  <2>4. Paged(m)
    <3>1. ASSUME NEW p \in 1 .. new
          PROVE  m.pages[p].next \in 1 .. new /\ (m.pages[p].empty <=> m.pages[p].fill = 0)
      <4>1. CASE p = new
        BY <2>2, <2>3, <4>1
      <4>2. CASE p \in 1 .. Len(b.pages)
        <5>1. b.pages[p].next \in 1 .. new
          BY <1>1, <1>2, <4>2 DEF new
        <5>2. QED
          BY <1>2, <2>2, <2>3, <4>2, <5>1, SMTT(30)
      <4>3. QED
        BY <2>3, <4>1, <4>2
    <3>2. QED
      BY <2>2, <2>3, <3>1 DEF Paged
  <2>5. \A j \in lo + 1 .. n : Fill(m, place[j]) = Fill(b, place[j])
               /\ Unit(m, place[j]) = Unit(b, place[j])
               /\ place[j].page \in 1 .. Len(m.pages)
    <3>1. \A p \in 1 .. Len(b.pages) : p \in 1 .. new
      BY <1>1 DEF new
    <3>2. QED
      BY <1>3, <2>2, <3>1 DEF Fill, Unit
  <2>6. \A j \in lo + 1 .. n - 1 : place[j + 1] = Behind(m, place[j])
    <3>1. TAKE j \in lo + 1 .. n - 1
    <3>2. j \in lo + 1 .. n /\ n \in lo + 1 .. n /\ j < n /\ lo < n
      BY <1>1, <3>1
    <3>3. place[j + 1] = Behind(b, place[j])
      BY <3>1 DEF Laid, Spread, n
    <3>4. CASE place[j].page # t
      BY <1>3, <2>2, <2>5, <3>2, <3>3, <3>4 DEF Behind, NextStart
    <3>5. CASE place[j].page = t
      <4>1. place[j].index < place[n].index
        BY <1>4, <3>2, <3>5 DEF Laid, Spread, n
      <4>2. place[j].index + 1 # Fill(b, place[j])
        <5>1. Fill(b, place[j]) = PageSize
          BY <1>1, <3>5 DEF Fill
        <5>2. place[j].index \in Nat /\ place[n].index \in Nat /\ place[n].index + 1 = PageSize
          BY <1>3, <1>4, <3>2
        <5>3. QED
          BY <4>1, <5>1, <5>2
      <4>3. QED
        BY <2>5, <3>2, <3>3, <4>2 DEF Behind
    <3>6. QED
      BY <3>4, <3>5
  <2>7. \A p \in 1 .. Len(m.pages) :
          /\ ~Touched(place, lo, p) => m.pages[p].fill = 0
          /\ p # m.tail => m.pages[p].fill \in {0, PageSize}
    <3>1. TAKE p \in 1 .. Len(m.pages)
    <3>2. CASE p = new
      BY <2>2, <3>2
    <3>3. CASE p \in 1 .. Len(b.pages)
      BY <1>5, <2>2, <3>3 DEF Laid, Spread
    <3>4. QED
      BY <2>2, <2>3, <3>2, <3>3
  <2>8. Spread(m, place, lo)
    BY <1>1, <2>5, <2>6, <2>7 DEF Laid, Spread, n
  <2>9. lo < n => Behind(m, place[n]) = [page |-> new, index |-> 0] /\ place[n].page # new
    <3>1. HAVE lo < n
    <3>2. place[n].page = t /\ place[n].index + 1 = PageSize
      BY <1>4, <3>1
    <3>3. m.pages[t].fill = PageSize /\ m.pages[t].next = new /\ t # new
      BY <1>1, <2>2 DEF new
    <3>4. QED
      BY <3>2, <3>3 DEF Behind, Fill, NextStart
  <2>10. Ready(m, place, lo)
    BY <1>1, <2>2, <2>8, <2>9 DEF Ready, n
  <2>11. QED
    BY <2>4, <2>5, <2>10 DEF n
<1>8. QED
  BY <1>6, <1>7

\* Where the next unit goes.
Slot(b) ==
  LET m == IF b.pages[b.tail].fill = PageSize THEN NextPage(b) ELSE b
  IN  [page |-> m.tail, index |-> m.pages[m.tail].fill]

\* One unit more.
LEMMA PutKeeps ==
  ASSUME NEW b, Paged(b), NEW place, NEW lo, Laid(b, place, lo), NEW unit \in Data,
         NEW m, m = Put(b, unit)
  PROVE  /\ Paged(m) /\ Laid(m, Append(place, Slot(b)), lo) /\ Slot(b) \in Cursors
         /\ Unit(m, Slot(b)) = unit
         /\ \A j \in lo + 1 .. Len(place) : Unit(m, place[j]) = Unit(b, place[j])
<1> DEFINE full == b.pages[b.tail].fill = PageSize
<1>1. PICK r : r = IF full THEN NextPage(b) ELSE b
  OBVIOUS
<1>2. Paged(r) /\ Ready(r, place, lo)
      /\ \A j \in lo + 1 .. Len(place) : Unit(r, place[j]) = Unit(b, place[j])
  <2>1. CASE full
    BY <1>1, <2>1, NextPageIsReady
  <2>2. CASE ~full
    <3>1. b.pages[b.tail] \in Pages
      BY ElementOfSeq DEF Paged, Buffers
    <3>2. b.pages[b.tail].fill < PageSize
      BY <2>2, <3>1, CBufAssumption DEF Pages
    <3>3. QED
      BY <1>1, <2>2, <3>2 DEF Laid, Ready
  <2>3. QED
    BY <2>1, <2>2
<1>3. m = Filled(r, unit)
  BY <1>1 DEF Put, Filled
<1>4. OneMore(r, m, unit)
  BY <1>2, <1>3, FilledIsOneMore DEF Ready
<1>5. PICK at : at = [page |-> r.tail, index |-> r.pages[r.tail].fill]
  OBVIOUS
<1>6. Slot(b) = at
  BY <1>1, <1>5 DEF Slot
<1>7. /\ Paged(m) /\ Laid(m, Append(place, at), lo) /\ Unit(m, at) = unit
      /\ \A j \in lo + 1 .. Len(place) : Unit(m, place[j]) = Unit(r, place[j])
  BY <1>2, <1>4, <1>5, FilledKeeps
<1>8. at \in Cursors
  <2>1. r.pages[r.tail] \in Pages /\ r.tail \in Nat
    BY <1>2, ElementOfSeq DEF Paged, Buffers
  <2>2. QED
    BY <1>5, <2>1 DEF Pages, Cursors
<1>9. QED
  BY <1>2, <1>6, <1>7, <1>8

\* g is the buffer with the first 0, 1 .. n of the units.
Writing(b, units, n, g) ==
  g = [k \in 0 .. n |-> IF k = 0 THEN b ELSE Put(g[k - 1], units[k])]

LEMMA WritingExists ==
  ASSUME NEW b, NEW units
  PROVE  \A n \in Nat : \E g : Writing(b, units, n, g)
<1> DEFINE T == {n \in Nat : \E g : Writing(b, units, n, g)}
<1>1. 0 \in T
  <2> DEFINE g == [k \in 0 .. 0 |-> b]
  <2>1. Writing(b, units, 0, g)
    BY DEF Writing
  <2>2. QED
    BY <2>1
<1>2. ASSUME NEW n \in Nat, n \in T PROVE n + 1 \in T
  <2>1. PICK g : Writing(b, units, n, g)
    BY <1>2
  <2> DEFINE h == [k \in 0 .. n + 1 |-> IF k = n + 1 THEN Put(g[n], units[k]) ELSE g[k]]
  <2>2. \A k \in 0 .. n + 1 : h[k] = IF k = 0 THEN b ELSE Put(h[k - 1], units[k])
    <3>1. TAKE k \in 0 .. n + 1
    <3>2. CASE k = n + 1
      <4>1. h[k] = Put(g[n], units[k]) /\ k # 0 /\ k - 1 = n /\ h[n] = g[n]
        BY <3>2
      <4>2. QED
        BY <4>1
    <3>3. CASE k # n + 1
      <4>1. k \in 0 .. n /\ h[k] = g[k]
        BY <3>3
      <4>2. k # 0 => h[k - 1] = g[k - 1]
        BY <4>1
      <4>3. QED
        BY <2>1, <4>1, <4>2 DEF Writing
    <3>4. QED
      BY <3>2, <3>3
  <2>3. Writing(b, units, n + 1, h)
    BY <2>2 DEF Writing
  <2>4. QED
    BY <2>3
<1>3. QED
  <2> HIDE DEF T
  <2>1. Nat \subseteq T
    BY <1>1, <1>2, Induction
  <2>2. QED
    BY <2>1 DEF T

LEMMA WriteIsWriting ==
  ASSUME NEW b, NEW units, Len(units) \in Nat
  PROVE  \E g : Writing(b, units, Len(units), g) /\ cbuf_write(b, units) = g[Len(units)]
<1>1. PICK g : Writing(b, units, Len(units), g)
  BY WritingExists
<1> DEFINE h == CHOOSE x : Writing(b, units, Len(units), x)
<1>2. Writing(b, units, Len(units), h)
  BY <1>1
<1>3. cbuf_write(b, units) = h[Len(units)]
  BY DEF cbuf_write, Writing
<1>4. QED
  BY <1>2, <1>3

\* m has the first n units behind what b has; new are the places.
Grown(b, place, lo, units, n, m, new) ==
  /\ Paged(m) /\ Laid(m, new, lo) /\ Len(new) = Len(place) + n
  /\ \A j \in 1 .. Len(place) : new[j] = place[j]
  /\ \A j \in lo + 1 .. Len(place) : Unit(m, place[j]) = Unit(b, place[j])
  /\ \A t \in 1 .. n : Unit(m, new[Len(place) + t]) = units[t]
  /\ n > 0 => new[Len(place) + 1] = Slot(b)

LEMMA GrownByOne ==
  ASSUME NEW b, NEW place, NEW lo, NEW units, NEW n \in Nat, NEW m, NEW new,
         Len(place) \in Nat, lo \in 0 .. Len(place), Grown(b, place, lo, units, n, m, new),
         n = 0 => m = b, units[n + 1] \in Data
  PROVE  \E more : Grown(b, place, lo, units, n + 1, Put(m, units[n + 1]), more)
<1> DEFINE p == Len(place)
           unit == units[n + 1]
           at == Slot(m)
           more == Append(new, at)
<1>1. Paged(m) /\ Laid(m, new, lo) /\ Len(new) = p + n /\ new \in Seq(Cursors)
  BY DEF Grown, Laid, Spread
<1>2. PICK r : r = Put(m, unit)
  OBVIOUS
<1>3. /\ Paged(r) /\ Laid(r, more, lo) /\ at \in Cursors /\ Unit(r, at) = unit
      /\ \A j \in lo + 1 .. Len(new) : Unit(r, new[j]) = Unit(m, new[j])
  BY <1>1, <1>2, PutKeeps
<1>4. Len(more) = p + n + 1 /\ more[p + n + 1] = at /\ \A j \in 1 .. p + n : more[j] = new[j]
  <2> HIDE DEF at
  <2>1. QED
    BY <1>1, <1>3, AppendProperties
<1> HIDE DEF more, at, unit
<1>5. \A j \in 1 .. p : more[j] = place[j]
  BY <1>4 DEF Grown
<1>6. \A j \in lo + 1 .. p : Unit(r, place[j]) = Unit(b, place[j])
  <2>1. TAKE j \in lo + 1 .. p
  <2>2. j \in 1 .. p /\ j \in lo + 1 .. Len(new)
    BY <1>1
  <2>3. new[j] = place[j] /\ Unit(m, place[j]) = Unit(b, place[j])
    BY <2>2 DEF Grown
  <2>4. QED
    BY <1>3, <2>2, <2>3
<1>7. \A t \in 1 .. n + 1 : Unit(r, more[p + t]) = units[t]
  <2>1. TAKE t \in 1 .. n + 1
  <2>2. CASE t = n + 1
    BY <1>3, <1>4, <2>2 DEF unit
  <2>3. CASE t \in 1 .. n
    <3>1. p + t \in lo + 1 .. Len(new) /\ p + t \in 1 .. p + n
      BY <1>1, <2>3
    <3>2. Unit(m, new[p + t]) = units[t]
      BY <2>3 DEF Grown
    <3>3. QED
      BY <1>3, <1>4, <3>1, <3>2
  <2>4. QED
    BY <2>2, <2>3
<1>8. more[p + 1] = Slot(b)
  <2>1. CASE n = 0
    BY <1>4, <2>1 DEF at
  <2>2. CASE n # 0
    <3>1. p + 1 \in 1 .. p + n /\ n > 0
      BY <2>2
    <3>2. QED
      BY <1>4, <3>1 DEF Grown
  <2>3. QED
    BY <2>1, <2>2
<1>9. Grown(b, place, lo, units, n + 1, r, more)
  BY <1>3, <1>4, <1>5, <1>6, <1>7, <1>8 DEF Grown
<1>10. QED
  BY <1>2, <1>9 DEF unit

\* cbuf_write() puts the units behind one another and leaves the others alone.
LEMMA WriteKeeps ==
  ASSUME NEW b, Paged(b), NEW place, NEW lo, Laid(b, place, lo), NEW units \in Seq(Data),
         NEW m, m = cbuf_write(b, units)
  PROVE  \E new : Grown(b, place, lo, units, Len(units), m, new)
<1>1. Len(units) \in Nat /\ Len(place) \in Nat /\ lo \in 0 .. Len(place)
      /\ \A k \in 1 .. Len(units) : units[k] \in Data
  BY LenProperties, ElementOfSeq DEF Laid, Spread
<1>2. PICK g : Writing(b, units, Len(units), g) /\ m = g[Len(units)]
  BY <1>1, WriteIsWriting
<1> DEFINE T == {n \in Nat : n <= Len(units) => \E new : Grown(b, place, lo, units, n, g[n], new)}
<1>3. 0 \in T
  <2>1. g[0] = b
    BY <1>1, <1>2 DEF Writing
  <2>2. Grown(b, place, lo, units, 0, b, place)
    BY <1>1 DEF Grown
  <2>3. QED
    BY <2>1, <2>2
<1>4. ASSUME NEW n \in Nat, n \in T PROVE n + 1 \in T
  <2>1. SUFFICES ASSUME n + 1 <= Len(units)
                 PROVE  \E new : Grown(b, place, lo, units, n + 1, g[n + 1], new)
    OBVIOUS
  <2>2. PICK new : Grown(b, place, lo, units, n, g[n], new)
    BY <1>1, <1>4, <2>1
  <2>3. n + 1 \in 0 .. Len(units) /\ n + 1 # 0 /\ (n + 1) - 1 = n /\ units[n + 1] \in Data
        /\ n \in 0 .. Len(units)
    BY <1>1, <2>1
  <2>4. g[n + 1] = Put(g[n], units[n + 1])
    BY <1>2, <2>3 DEF Writing
  <2>5. n = 0 => g[n] = b
    BY <1>2, <2>3 DEF Writing
  <2>6. QED
    BY <1>1, <2>2, <2>3, <2>4, <2>5, GrownByOne
<1>5. QED
  <2> HIDE DEF T
  <2>1. Len(units) \in T
    BY <1>1, <1>3, <1>4, Induction
  <2>2. QED
    BY <1>1, <1>2, <2>1 DEF T

-----------------------------------------------------------------------------
(* Moving a cursor, and emptying what it leaves behind.                    *)

Skip(b, cur) == IF AtEnd(b, cur) THEN NextStart(b, cur) ELSE cur
\* g are the positions behind 0, 1 .. n units.
Moving(b, cur, n, g) ==
  g = [k \in 0 .. n |-> IF k = 0 THEN Skip(b, cur) ELSE Skip(b, Beyond(g[k - 1]))]

LEMMA MovingExists ==
  ASSUME NEW b, NEW cur
  PROVE  \A n \in Nat : \E g : Moving(b, cur, n, g)
<1> DEFINE T == {n \in Nat : \E g : Moving(b, cur, n, g)}
<1>1. 0 \in T
  <2> DEFINE g == [k \in 0 .. 0 |-> Skip(b, cur)]
  <2>1. Moving(b, cur, 0, g)
    BY DEF Moving
  <2>2. QED
    BY <2>1
<1>2. ASSUME NEW n \in Nat, n \in T PROVE n + 1 \in T
  <2>1. PICK g : Moving(b, cur, n, g)
    BY <1>2
  <2> DEFINE h == [k \in 0 .. n + 1 |-> IF k = n + 1 THEN Skip(b, Beyond(g[n])) ELSE g[k]]
  <2>2. \A k \in 0 .. n + 1 : h[k] = IF k = 0 THEN Skip(b, cur) ELSE Skip(b, Beyond(h[k - 1]))
    <3>1. TAKE k \in 0 .. n + 1
    <3>2. CASE k = n + 1
      <4>1. h[k] = Skip(b, Beyond(g[n])) /\ k # 0 /\ k - 1 = n /\ h[n] = g[n]
        BY <3>2
      <4>2. QED
        BY <4>1
    <3>3. CASE k # n + 1
      <4>1. k \in 0 .. n /\ h[k] = g[k]
        BY <3>3
      <4>2. k # 0 => h[k - 1] = g[k - 1]
        BY <4>1
      <4>3. QED
        BY <2>1, <4>1, <4>2 DEF Moving
    <3>4. QED
      BY <3>2, <3>3
  <2>3. Moving(b, cur, n + 1, h)
    BY <2>2 DEF Moving
  <2>4. QED
    BY <2>3
<1>3. QED
  <2> HIDE DEF T
  <2>1. Nat \subseteq T
    BY <1>1, <1>2, Induction
  <2>2. QED
    BY <2>1 DEF T

LEMMA AdvanceIsMoving ==
  ASSUME NEW b, NEW cur, NEW n \in Nat
  PROVE  \E g : Moving(b, cur, n, g) /\ cbuf_advance_cursor(b, cur, n) = g[n]
<1>1. PICK g : Moving(b, cur, n, g)
  BY MovingExists
<1> DEFINE h == CHOOSE x : Moving(b, cur, n, x)
<1>2. Moving(b, cur, n, h)
  BY <1>1
<1>3. cbuf_advance_cursor(b, cur, n) = h[n]
  BY DEF cbuf_advance_cursor, Moving, Skip
<1>4. QED
  BY <1>2, <1>3

LEMMA SkipIsBehind ==
  ASSUME NEW b, NEW cur \in Cursors
  PROVE  Skip(b, Beyond(cur)) = Behind(b, cur)
<1>1. Beyond(cur).page = cur.page /\ Beyond(cur).index = cur.index + 1
  BY DEF Beyond, Cursors
<1>2. QED
  BY <1>1 DEF Skip, Behind, AtEnd, Fill, NextStart

\* What is known of the units that are in the pages.
LEMMA PlaceFacts ==
  ASSUME NEW b, Paged(b), NEW place, NEW lo, Laid(b, place, lo)
  PROVE  /\ Len(place) \in Nat /\ lo \in 0 .. Len(place)
         /\ \A p \in 1 .. Len(b.pages) :
              b.pages[p].fill \in 0 .. PageSize /\ b.pages[p].next \in 1 .. Len(b.pages)
         /\ \A j \in lo + 1 .. Len(place) :
              /\ place[j] \in Cursors /\ place[j].page \in 1 .. Len(b.pages)
              /\ place[j].index \in 0 .. PageSize - 1
              /\ place[j].index < b.pages[place[j].page].fill
              /\ ~AtEnd(b, place[j])
<1>1. /\ b \in Buffers /\ b.pages \in Seq(Pages) /\ PageSize \in Nat
      /\ place \in Seq(Cursors) /\ Len(place) \in Nat /\ lo \in 0 .. Len(place)
  BY CBufAssumption, LenProperties DEF Paged, Laid, Spread, Buffers
<1>2. \A p \in 1 .. Len(b.pages) : b.pages[p] \in Pages
  BY <1>1, ElementOfSeq
<1>3. \A j \in 1 .. Len(place) : place[j] \in Cursors
  BY <1>1, ElementOfSeq
<1>4. \A p \in 1 .. Len(b.pages) :
        b.pages[p].fill \in 0 .. PageSize /\ b.pages[p].next \in 1 .. Len(b.pages)
  BY <1>2 DEF Pages, Paged
<1>5. ASSUME NEW j \in lo + 1 .. Len(place)
      PROVE  /\ place[j] \in Cursors /\ place[j].page \in 1 .. Len(b.pages)
             /\ place[j].index \in 0 .. PageSize - 1
             /\ place[j].index < b.pages[place[j].page].fill
             /\ ~AtEnd(b, place[j])
  <2>1. place[j] \in Cursors
    BY <1>1, <1>3
  <2>2. place[j].page \in 1 .. Len(b.pages) /\ place[j].index < b.pages[place[j].page].fill
    BY DEF Laid, Spread, Fill
  <2>3. place[j].index \in Nat
    BY <2>1 DEF Cursors
  <2>4. b.pages[place[j].page].fill \in 0 .. PageSize
    BY <1>4, <2>2
  <2>5. QED
    BY <1>1, <2>1, <2>2, <2>3, <2>4 DEF AtEnd
<1>6. QED
  BY <1>1, <1>4, <1>5

\* cbuf_advance_cursor() goes from unit to unit.
LEMMA AdvanceFollows ==
  ASSUME NEW b, Paged(b), NEW place, NEW lo, Laid(b, place, lo),
         NEW j \in lo + 1 .. Len(place), NEW n \in Nat, j + n <= Len(place) + 1
  PROVE  /\ cbuf_advance_cursor(b, place[j], n) \in Cursors
         /\ j + n <= Len(place) => cbuf_advance_cursor(b, place[j], n) = place[j + n]
<1>0. Len(place) \in Nat /\ lo \in Nat /\ j \in Nat
  BY PlaceFacts
<1>1. PICK g : Moving(b, place[j], n, g) /\ cbuf_advance_cursor(b, place[j], n) = g[n]
  BY AdvanceIsMoving
<1> DEFINE T == {k \in Nat : k <= n /\ j + k <= Len(place) => g[k] = place[j + k]}
<1>2. 0 \in T
  <2>1. g[0] = Skip(b, place[j])
    BY <1>1 DEF Moving
  <2>2. ~AtEnd(b, place[j])
    BY PlaceFacts
  <2>3. QED
    BY <1>0, <2>1, <2>2 DEF Skip
<1>3. ASSUME NEW k \in Nat, k + 1 <= n, j + k <= Len(place), g[k] = place[j + k]
      PROVE  g[k + 1] = Behind(b, place[j + k]) /\ place[j + k] \in Cursors
             /\ j + k \in lo + 1 .. Len(place)
  <2>1. k + 1 \in 0 .. n /\ k + 1 # 0 /\ (k + 1) - 1 = k
    BY <1>3
  <2>2. g[k + 1] = Skip(b, Beyond(g[k]))
    BY <1>1, <2>1 DEF Moving
  <2>3. j + k \in lo + 1 .. Len(place)
    BY <1>0, <1>3
  <2>4. place[j + k] \in Cursors
    BY <2>3, PlaceFacts
  <2>5. QED
    BY <1>3, <2>2, <2>3, <2>4, SkipIsBehind
<1>4. ASSUME NEW k \in Nat, k \in T PROVE k + 1 \in T
  <2>1. SUFFICES ASSUME k + 1 <= n, j + (k + 1) <= Len(place) PROVE g[k + 1] = place[j + (k + 1)]
    OBVIOUS
  <2>2. g[k] = place[j + k]
    BY <1>0, <1>4, <2>1
  <2>3. g[k + 1] = Behind(b, place[j + k])
    BY <1>0, <1>3, <2>1, <2>2
  <2>4. j + k \in lo + 1 .. Len(place) - 1 /\ (j + k) + 1 = j + (k + 1)
    BY <1>0, <2>1
  <2>5. place[(j + k) + 1] = Behind(b, place[j + k])
    BY <2>4 DEF Laid, Spread
  <2>6. QED
    BY <2>3, <2>4, <2>5
<1>5. \A k \in Nat : k <= n /\ j + k <= Len(place) => g[k] = place[j + k]
  <2> HIDE DEF T
  <2>1. Nat \subseteq T
    BY <1>2, <1>4, Induction
  <2>2. QED
    BY <2>1 DEF T
<1>6. CASE j + n <= Len(place)
  <2>1. g[n] = place[j + n] /\ j + n \in lo + 1 .. Len(place)
    BY <1>0, <1>5, <1>6
  <2>2. QED
    BY <1>1, <2>1, PlaceFacts
<1>7. CASE j + n = Len(place) + 1
  <2>1. n - 1 \in Nat /\ (n - 1) + 1 = n /\ j + (n - 1) = Len(place) /\ n - 1 <= n
    BY <1>0, <1>7
  <2>2. g[n - 1] = place[j + (n - 1)]
    BY <1>5, <2>1
  <2>3. g[n] = Behind(b, place[j + (n - 1)]) /\ place[j + (n - 1)] \in Cursors
        /\ j + (n - 1) \in lo + 1 .. Len(place)
    BY <1>3, <2>1, <2>2
  <2>4. PICK cur : cur = place[j + (n - 1)]
    OBVIOUS
  <2>5. cur.page \in 1 .. Len(b.pages) /\ cur \in Cursors
    BY <2>3, <2>4, PlaceFacts
  <2>6. b.pages[cur.page].next \in Nat
    BY <2>5, PlaceFacts
  <2>7. NextStart(b, cur) \in Cursors /\ Beyond(cur) \in Cursors
    BY <2>5, <2>6 DEF NextStart, Beyond, Cursors
  <2>8. g[n] \in Cursors
    BY <2>3, <2>4, <2>7 DEF Behind
  <2>9. QED
    BY <1>0, <1>1, <1>7, <2>8
<1>8. QED
  BY <1>0, <1>6, <1>7

\* A buffer with a cursor.
Drop(s) ==
  IF AtEnd(s.b, s.cur) THEN [b |-> Emptied(s.b, s.cur.page), cur |-> NextStart(s.b, s.cur)]
                       ELSE s
Draining(b, cur, n, g) ==
  g = [k \in 0 .. n |-> IF k = 0 THEN Drop([b |-> b, cur |-> cur])
                        ELSE Drop([g[k - 1] EXCEPT !.cur = Beyond(@)])]

LEMMA DrainingExists ==
  ASSUME NEW b, NEW cur
  PROVE  \A n \in Nat : \E g : Draining(b, cur, n, g)
<1> DEFINE T == {n \in Nat : \E g : Draining(b, cur, n, g)}
<1>1. 0 \in T
  <2> DEFINE g == [k \in 0 .. 0 |-> Drop([b |-> b, cur |-> cur])]
  <2>1. Draining(b, cur, 0, g)
    BY DEF Draining
  <2>2. QED
    BY <2>1
<1>2. ASSUME NEW n \in Nat, n \in T PROVE n + 1 \in T
  <2>1. PICK g : Draining(b, cur, n, g)
    BY <1>2
  <2> DEFINE h == [k \in 0 .. n + 1 |->
                     IF k = n + 1 THEN Drop([g[n] EXCEPT !.cur = Beyond(@)]) ELSE g[k]]
  <2>2. \A k \in 0 .. n + 1 : h[k] = IF k = 0 THEN Drop([b |-> b, cur |-> cur])
                                     ELSE Drop([h[k - 1] EXCEPT !.cur = Beyond(@)])
    <3>1. TAKE k \in 0 .. n + 1
    <3>2. CASE k = n + 1
      <4>1. h[k] = Drop([g[n] EXCEPT !.cur = Beyond(@)]) /\ k # 0 /\ k - 1 = n /\ h[n] = g[n]
        BY <3>2
      <4>2. QED
        BY <4>1
    <3>3. CASE k # n + 1
      <4>1. k \in 0 .. n /\ h[k] = g[k]
        BY <3>3
      <4>2. k # 0 => h[k - 1] = g[k - 1]
        BY <4>1
      <4>3. g[k] = IF k = 0 THEN Drop([b |-> b, cur |-> cur])
                   ELSE Drop([g[k - 1] EXCEPT !.cur = Beyond(@)])
        BY <2>1, <4>1 DEF Draining
      <4> HIDE DEF h
      <4>4. QED
        BY <4>1, <4>2, <4>3
    <3>4. QED
      BY <3>2, <3>3
  <2>3. Draining(b, cur, n + 1, h)
    BY <2>2 DEF Draining
  <2>4. QED
    BY <2>3
<1>3. QED
  <2> HIDE DEF T
  <2>1. Nat \subseteq T
    BY <1>1, <1>2, Induction
  <2>2. QED
    BY <2>1 DEF T

LEMMA ConsumeIsDraining ==
  ASSUME NEW b, NEW cur, NEW n \in Nat
  PROVE  \E g : Draining(b, cur, n, g) /\ cbuf_consume_cursor(b, cur, n) = g[n].b
<1>1. PICK g : Draining(b, cur, n, g)
  BY DrainingExists
<1> DEFINE h == CHOOSE x : Draining(b, cur, n, x)
<1>2. Draining(b, cur, n, h)
  BY <1>1
<1>3. cbuf_consume_cursor(b, cur, n) = h[n].b
  BY DEF cbuf_consume_cursor, Draining, Drop
<1>4. QED
  BY <1>2, <1>3

\* m is b without the contents of page p.
Without(b, p, m) ==
  /\ m \in Buffers /\ m.tail = b.tail /\ Len(m.pages) = Len(b.pages)
  /\ \A q \in 1 .. Len(b.pages) :
       /\ q # p => m.pages[q] = b.pages[q]
       /\ m.pages[q].next = b.pages[q].next /\ m.pages[q].buf = b.pages[q].buf
  /\ m.pages[p].empty = TRUE /\ m.pages[p].fill = 0

LEMMA EmptiedIsWithout ==
  ASSUME NEW b, Paged(b), NEW p \in 1 .. Len(b.pages), NEW m, m = Emptied(b, p)
  PROVE  Without(b, p, m)
<1> DEFINE q == b.pages[p]
           r == [q EXCEPT !.empty = TRUE, !.fill = 0]
<1>1. b \in Buffers /\ b.pages \in Seq(Pages) /\ PageSize \in Nat
  BY CBufAssumption DEF Paged, Buffers
<1>2. q \in Pages
  BY <1>1, ElementOfSeq
<1>3. r \in Pages /\ r.empty = TRUE /\ r.fill = 0 /\ r.next = q.next /\ r.buf = q.buf
  <2>1. 0 \in 0 .. PageSize
    BY <1>1
  <2> HIDE DEF q
  <2>2. QED
    BY <1>2, <2>1 DEF Pages
<1>4. [b.pages EXCEPT ![p] = r] \in Seq(Pages) /\ Len([b.pages EXCEPT ![p] = r]) = Len(b.pages)
      /\ \A k \in 1 .. Len(b.pages) :
           [b.pages EXCEPT ![p] = r][k] = IF k = p THEN r ELSE b.pages[k]
  <2> HIDE DEF r
  <2>1. QED
    BY <1>1, <1>3, ExceptSeq
<1>5. m = [b EXCEPT !.pages = [@ EXCEPT ![p] = r]]
  BY DEF Emptied
<1>6. m \in Buffers /\ m.tail = b.tail /\ m.pages = [b.pages EXCEPT ![p] = r]
  <2> HIDE DEF r
  <2>1. QED
    BY <1>1, <1>4, <1>5 DEF Buffers
<1>7. QED
  <2> HIDE DEF r
  <2>1. QED
    BY <1>3, <1>4, <1>6 DEF Without

\* What is left when unit lo + 1 has been consumed.
Drained(b, place, lo, s) ==
  /\ DOMAIN s = {"b", "cur"} /\ Paged(s.b) /\ Laid(s.b, place, lo)
  /\ lo < Len(place) => s.cur = place[lo + 1]
  /\ \A j \in lo + 1 .. Len(place) : Unit(s.b, place[j]) = Unit(b, place[j])

\* The buffer without its first unit.
Shortened(b, place, lo, m) ==
  /\ Paged(m) /\ Laid(m, place, lo + 1)
  /\ \A j \in lo + 2 .. Len(place) : Unit(m, place[j]) = Unit(b, place[j])

\* The last unit of a page empties it.
LEMMA PageIsLeft ==
  ASSUME NEW b, Paged(b), NEW place, NEW lo, Laid(b, place, lo), lo < Len(place),
         place[lo + 1].index + 1 = b.pages[place[lo + 1].page].fill,
         NEW m, Without(b, place[lo + 1].page, m)
  PROVE  Shortened(b, place, lo, m)
<1> DEFINE n == Len(place)
           p == place[lo + 1].page
<1>1. /\ n \in Nat /\ lo \in 0 .. n /\ lo \in Nat /\ lo + 1 \in 0 .. n
      /\ \A q \in 1 .. Len(b.pages) :
           b.pages[q].fill \in 0 .. PageSize /\ b.pages[q].next \in 1 .. Len(b.pages)
      /\ \A j \in lo + 1 .. n :
           /\ place[j] \in Cursors /\ place[j].page \in 1 .. Len(b.pages)
           /\ place[j].index \in 0 .. PageSize - 1
           /\ place[j].index < b.pages[place[j].page].fill
  BY PlaceFacts
<1>2. lo + 1 \in lo + 1 .. n /\ \A j \in (lo + 1) + 1 .. n : j \in lo + 1 .. n /\ lo + 1 < j
  BY <1>1
<1>3. p \in 1 .. Len(b.pages) /\ place \in Seq(Cursors)
  BY <1>1, <1>2 DEF Laid, Spread
<1>4. \A j \in (lo + 1) + 1 .. n : place[j].page # p
  <2>1. SUFFICES ASSUME NEW j \in (lo + 1) + 1 .. n, place[j].page = p PROVE FALSE
    OBVIOUS
  <2>2. place[lo + 1].index < place[j].index
    BY <1>2, <2>1 DEF Laid, Spread
  <2>3. place[j].index < b.pages[p].fill
    BY <1>1, <1>2, <2>1
  <2>4. place[j].index \in Int /\ place[lo + 1].index \in Int
    BY <1>1, <1>2
  <2>5. QED
    BY <2>2, <2>3, <2>4
<1> HIDE DEF n, p
<1>5. /\ m \in Buffers /\ m.tail = b.tail /\ Len(m.pages) = Len(b.pages)
      /\ \A q \in 1 .. Len(b.pages) :
           /\ q # p => m.pages[q] = b.pages[q]
           /\ m.pages[q].next = b.pages[q].next /\ m.pages[q].buf = b.pages[q].buf
      /\ m.pages[p].empty = TRUE /\ m.pages[p].fill = 0
  BY DEF Without, p
<1>6. Paged(m)
  <2>1. ASSUME NEW q \in 1 .. Len(m.pages)
        PROVE  m.pages[q].next \in 1 .. Len(m.pages) /\ (m.pages[q].empty <=> m.pages[q].fill = 0)
    <3>1. m.pages[q].next \in 1 .. Len(m.pages)
      BY <1>1, <1>5
    <3>2. CASE q = p
      BY <1>5, <3>1, <3>2
    <3>3. CASE q # p
      BY <1>5, <3>1, <3>3 DEF Paged
    <3>4. QED
      BY <3>2, <3>3
  <2>2. m.tail \in 1 .. Len(m.pages)
    BY <1>5 DEF Paged
  <2>3. QED
    BY <1>5, <2>1, <2>2 DEF Paged
<1>7. \A j \in (lo + 1) + 1 .. n :
        /\ place[j].page \in 1 .. Len(m.pages) /\ m.pages[place[j].page] = b.pages[place[j].page]
        /\ place[j].index < Fill(m, place[j])
        /\ Behind(m, place[j]) = Behind(b, place[j])
        /\ Unit(m, place[j]) = Unit(b, place[j])
  <2>1. TAKE j \in (lo + 1) + 1 .. n
  <2>2. place[j].page \in 1 .. Len(b.pages) /\ place[j].index < b.pages[place[j].page].fill
    BY <1>1, <1>2
  <2>3. m.pages[place[j].page] = b.pages[place[j].page]
    BY <1>4, <1>5, <2>2
  <2>4. QED
    BY <1>5, <2>2, <2>3 DEF Fill, Behind, Unit, NextStart
<1>8. \A j, k \in (lo + 1) + 1 .. n :
        j < k /\ place[j].page = place[k].page => place[j].index < place[k].index
  BY <1>2 DEF Laid, Spread, n
<1>9. \A j \in (lo + 1) + 1 .. n - 1 : place[j + 1] = Behind(m, place[j])
  <2>1. TAKE j \in (lo + 1) + 1 .. n - 1
  <2>2. j \in (lo + 1) + 1 .. n /\ j \in lo + 1 .. n - 1
    BY <1>1
  <2>3. place[j + 1] = Behind(b, place[j])
    BY <2>2 DEF Laid, Spread, n
  <2>4. QED
    BY <1>7, <2>2, <2>3
<1>10. lo + 1 < n => place[n] = [page |-> m.tail, index |-> m.pages[m.tail].fill - 1]
  <2>1. HAVE lo + 1 < n
  <2>2. n \in (lo + 1) + 1 .. n /\ lo < n
    BY <1>1, <2>1
  <2>3. place[n] = [page |-> b.tail, index |-> b.pages[b.tail].fill - 1]
    BY <2>2 DEF Laid, n
  <2>4. place[n].page = b.tail
    BY <2>3
  <2>5. m.pages[b.tail] = b.pages[b.tail]
    BY <1>7, <2>2, <2>4
  <2>6. QED
    BY <1>5, <2>3, <2>5
<1>11. \A q \in 1 .. Len(m.pages) :
         /\ ~Touched(place, lo + 1, q) => m.pages[q].fill = 0
         /\ q # m.tail => m.pages[q].fill \in {0, PageSize}
  <2>1. TAKE q \in 1 .. Len(m.pages)
  <2>2. CASE q = p
    BY <1>5, <2>2
  <2>3. CASE q # p
    <3>1. Touched(place, lo, q) => Touched(place, lo + 1, q)
      <4>1. HAVE Touched(place, lo, q)
      <4>2. PICK j \in lo + 1 .. n : place[j].page = q
        BY <4>1 DEF Touched, n
      <4>3. j # lo + 1
        BY <2>3, <4>2 DEF p
      <4>4. j \in (lo + 1) + 1 .. n
        BY <1>1, <4>2, <4>3
      <4>5. QED
        BY <4>2, <4>4 DEF Touched, n
    <3>2. q \in 1 .. Len(b.pages) /\ m.pages[q] = b.pages[q]
      BY <1>5, <2>3
    <3>3. QED
      BY <1>5, <3>1, <3>2 DEF Laid, Spread
  <2>4. QED
    BY <2>2, <2>3
<1>12. Laid(m, place, lo + 1)
  <2>1. Spread(m, place, lo + 1)
    BY <1>1, <1>3, <1>7, <1>8, <1>9, <1>11 DEF Spread, n
  <2>2. QED
    BY <1>10, <2>1 DEF Laid, n
<1>13. (lo + 1) + 1 = lo + 2
  BY <1>1
<1>14. QED
  BY <1>6, <1>7, <1>12, <1>13 DEF Shortened, n

\* A unit inside its page only moves the beginning.
LEMMA PageStays ==
  ASSUME NEW b, Paged(b), NEW place, NEW lo, Laid(b, place, lo), lo < Len(place),
         place[lo + 1].index + 1 # b.pages[place[lo + 1].page].fill
  PROVE  Laid(b, place, lo + 1) /\ lo + 1 < Len(place)
<1> DEFINE n == Len(place)
<1>1. /\ n \in Nat /\ lo \in 0 .. n /\ lo \in Nat /\ lo + 1 \in 0 .. n
      /\ \A q \in 1 .. Len(b.pages) : b.pages[q].fill \in 0 .. PageSize
      /\ \A j \in lo + 1 .. n :
           place[j] \in Cursors /\ place[j].page \in 1 .. Len(b.pages)
  BY PlaceFacts
<1>2. lo + 1 \in lo + 1 .. n /\ \A j \in (lo + 1) + 1 .. n : j \in lo + 1 .. n
  BY <1>1
<1>3. lo + 1 # n
  <2>1. SUFFICES ASSUME lo + 1 = n PROVE FALSE
    OBVIOUS
  <2>2. place[lo + 1] = [page |-> b.tail, index |-> b.pages[b.tail].fill - 1]
    BY <2>1 DEF Laid
  <2>3. b.tail \in 1 .. Len(b.pages)
    BY DEF Paged
  <2>4. b.pages[b.tail].fill \in Int
    BY <1>1, <2>3
  <2>5. QED
    BY <2>2, <2>4
<1>4. lo + 1 < n /\ lo + 1 \in lo + 1 .. n - 1 /\ (lo + 1) + 1 \in (lo + 1) + 1 .. n
  BY <1>1, <1>3
<1>5. place[(lo + 1) + 1] = Behind(b, place[lo + 1])
  BY <1>4 DEF Laid, Spread
<1>6. place[(lo + 1) + 1].page = place[lo + 1].page
  <2>1. place[lo + 1] \in Cursors
    BY <1>1, <1>2
  <2>2. QED
    BY <1>5, <2>1 DEF Behind, Fill, Beyond, Cursors
<1>7. \A q : Touched(place, lo, q) => Touched(place, lo + 1, q)
  <2>1. TAKE q
  <2>2. HAVE Touched(place, lo, q)
  <2>3. PICK j \in lo + 1 .. n : place[j].page = q
    BY <2>2 DEF Touched
  <2>4. CASE j = lo + 1
    BY <1>4, <1>6, <2>3, <2>4 DEF Touched
  <2>5. CASE j # lo + 1
    <3>1. j \in (lo + 1) + 1 .. n
      BY <1>1, <2>3, <2>5
    <3>2. QED
      BY <2>3, <3>1 DEF Touched
  <2>6. QED
    BY <2>4, <2>5
<1>8. \A j \in (lo + 1) + 1 .. n - 1 : j \in lo + 1 .. n - 1
  BY <1>1
<1>9. Spread(b, place, lo + 1)
  <2>1. /\ place \in Seq(Cursors)
        /\ \A j \in lo + 1 .. n :
             place[j].page \in 1 .. Len(b.pages) /\ place[j].index < Fill(b, place[j])
        /\ \A j, k \in lo + 1 .. n :
             j < k /\ place[j].page = place[k].page => place[j].index < place[k].index
        /\ \A j \in lo + 1 .. n - 1 : place[j + 1] = Behind(b, place[j])
        /\ \A p \in 1 .. Len(b.pages) :
             /\ ~Touched(place, lo, p) => b.pages[p].fill = 0
             /\ p # b.tail => b.pages[p].fill \in {0, PageSize}
    BY DEF Laid, Spread
  <2> HIDE DEF n
  <2>2. n = Len(place)
    BY DEF n
  <2>3. QED
    BY <1>1, <1>2, <1>7, <1>8, <2>1, <2>2 DEF Spread
<1>10. QED
  BY <1>1, <1>4, <1>9 DEF Laid

LEMMA DrainedByOne ==
  ASSUME NEW b, NEW place, NEW lo, NEW s, Drained(b, place, lo, s), lo < Len(place),
         NEW r, r = Drop([s EXCEPT !.cur = Beyond(@)])
  PROVE  Drained(b, place, lo + 1, r)
<1> DEFINE d == s.b
           cur == place[lo + 1]
           v == [s EXCEPT !.cur = Beyond(@)]
<1>1. Paged(d) /\ Laid(d, place, lo) /\ s.cur = cur /\ DOMAIN s = {"b", "cur"}
  BY DEF Drained
<1>2. /\ Len(place) \in Nat /\ lo \in Nat /\ lo + 1 \in lo + 1 .. Len(place)
      /\ cur \in Cursors /\ cur.page \in 1 .. Len(d.pages)
  <2>1. Len(place) \in Nat /\ lo \in 0 .. Len(place)
    BY <1>1, PlaceFacts
  <2>2. lo + 1 \in lo + 1 .. Len(place) /\ lo \in Nat
    BY <2>1
  <2>3. QED
    BY <1>1, <2>1, <2>2, PlaceFacts
<1>3. v.b = d /\ v.cur = Beyond(cur) /\ DOMAIN v = {"b", "cur"}
  BY <1>1
<1>4. Beyond(cur).page = cur.page /\ Beyond(cur).index = cur.index + 1
  BY <1>2 DEF Beyond, Cursors
<1>5. AtEnd(v.b, v.cur) <=> cur.index + 1 = d.pages[cur.page].fill
  BY <1>3, <1>4 DEF AtEnd
<1>6. \A j \in (lo + 1) + 1 .. Len(place) : j \in lo + 1 .. Len(place) /\ j \in lo + 2 .. Len(place)
  BY <1>2
<1>7. lo + 1 < Len(place) => place[(lo + 1) + 1] = Behind(d, cur)
  <2>1. HAVE lo + 1 < Len(place)
  <2>2. lo + 1 \in lo + 1 .. Len(place) - 1
    BY <1>2, <2>1
  <2>3. QED
    BY <1>1, <2>2 DEF Laid, Spread
<1> HIDE DEF v, d, cur
<1>8. CASE cur.index + 1 = d.pages[cur.page].fill
  <2>1. PICK m : m = Emptied(d, cur.page)
    OBVIOUS
  <2>2. r = [b |-> m, cur |-> NextStart(d, Beyond(cur))]
    BY <1>3, <1>4, <1>5, <1>8, <2>1 DEF Drop, v
  <2>3. Without(d, cur.page, m)
    BY <1>1, <1>2, <2>1, EmptiedIsWithout
  <2>4. /\ Paged(m) /\ Laid(m, place, lo + 1)
        /\ \A j \in lo + 2 .. Len(place) : Unit(m, place[j]) = Unit(d, place[j])
    <3>1. cur = place[lo + 1]
      BY DEF cur
    <3>2. place[lo + 1].index + 1 = d.pages[place[lo + 1].page].fill
          /\ Without(d, place[lo + 1].page, m)
      BY <1>8, <2>3, <3>1
    <3>3. Shortened(d, place, lo, m)
      BY ONLY <1>1, <3>2, lo < Len(place), PageIsLeft
    <3>4. QED
      BY <3>3 DEF Shortened
  <2>5. lo + 1 < Len(place) => r.cur = place[(lo + 1) + 1]
    BY <1>4, <1>7, <1>8, <2>2 DEF Behind, Fill, NextStart
  <2>6. \A j \in (lo + 1) + 1 .. Len(place) : Unit(r.b, place[j]) = Unit(b, place[j])
    BY <1>6, <2>2, <2>4 DEF Drained, d
  <2>7. r.b = m /\ DOMAIN r = {"b", "cur"}
    BY <2>2
  <2>8. QED
    BY <2>4, <2>5, <2>6, <2>7 DEF Drained
<1>9. CASE cur.index + 1 # d.pages[cur.page].fill
  <2>1. r = v
    BY <1>5, <1>9 DEF Drop, v
  <2>2. Laid(d, place, lo + 1) /\ lo + 1 < Len(place)
    BY <1>1, <1>9, PageStays DEF cur
  <2>3. r.cur = place[(lo + 1) + 1]
    BY <1>3, <1>7, <1>9, <2>1, <2>2 DEF Behind, Fill
  <2>4. \A j \in (lo + 1) + 1 .. Len(place) : Unit(d, place[j]) = Unit(b, place[j])
    BY <1>6 DEF Drained, d
  <2>5. QED
    BY <1>1, <1>3, <2>1, <2>2, <2>3, <2>4 DEF Drained
<1>10. QED
  BY <1>8, <1>9

\* cbuf_consume_cursor() takes the first n units away and leaves the others.
LEMMA ConsumeKeeps ==
  ASSUME NEW b, Paged(b), NEW place, NEW lo, Laid(b, place, lo), lo < Len(place),
         NEW n \in Nat, lo + n <= Len(place), NEW m, m = cbuf_consume_cursor(b, place[lo + 1], n)
  PROVE  /\ Paged(m) /\ Laid(m, place, lo + n)
         /\ \A j \in lo + n + 1 .. Len(place) : Unit(m, place[j]) = Unit(b, place[j])
<1>1. Len(place) \in Nat /\ lo \in Nat
  BY PlaceFacts
<1>2. PICK g : Draining(b, place[lo + 1], n, g) /\ m = g[n].b
  BY ConsumeIsDraining
<1> DEFINE T == {k \in Nat : k <= n => Drained(b, place, lo + k, g[k])}
<1>3. 0 \in T
  <2>1. g[0] = Drop([b |-> b, cur |-> place[lo + 1]])
    BY <1>2 DEF Draining
  <2>2. ~AtEnd(b, place[lo + 1])
    <3>1. lo + 1 \in lo + 1 .. Len(place)
      BY <1>1
    <3>2. QED
      BY <3>1, PlaceFacts
  <2>3. g[0] = [b |-> b, cur |-> place[lo + 1]]
    BY <2>1, <2>2 DEF Drop
  <2>4. Drained(b, place, lo, g[0])
    BY <2>3 DEF Drained
  <2>5. QED
    BY <1>1, <2>4
<1>4. ASSUME NEW k \in Nat, k \in T PROVE k + 1 \in T
  <2>1. SUFFICES ASSUME k + 1 <= n PROVE Drained(b, place, lo + (k + 1), g[k + 1])
    OBVIOUS
  <2>2. Drained(b, place, lo + k, g[k])
    BY <1>4, <2>1
  <2>3. k + 1 \in 0 .. n /\ k + 1 # 0 /\ (k + 1) - 1 = k
    BY <2>1
  <2>4. g[k + 1] = Drop([g[k] EXCEPT !.cur = Beyond(@)])
    BY <1>2, <2>3 DEF Draining
  <2>5. lo + k < Len(place) /\ (lo + k) + 1 = lo + (k + 1)
    BY <1>1, <2>1
  <2>6. Drained(b, place, (lo + k) + 1, g[k + 1])
    BY <2>2, <2>4, <2>5, DrainedByOne
  <2>7. QED
    BY <2>5, <2>6
<1>5. Drained(b, place, lo + n, g[n])
  <2> HIDE DEF T
  <2>1. n \in T
    BY <1>3, <1>4, Induction
  <2>2. QED
    BY <2>1 DEF T
<1>6. QED
  BY <1>2, <1>5 DEF Drained

-----------------------------------------------------------------------------
(* The queue of a client, its sender and what it has put on the wire.      *)

\* No message is empty, so their ends are in order.
LEMMA OffsetsGrow ==
  ASSUME NEW st, NEW off, NEW all, Offsets(st, off, all)
  PROVE  /\ Len(st) \in Nat /\ Len(all) \in Nat /\ Len(all) = off[Len(st)]
         /\ \A n \in 0 .. Len(st) : off[n] \in 0 .. Len(all)
         /\ \A n \in 1 .. Len(st) : st[n] \in Messages /\ st[n].len \in Nat \ {0}
                                    /\ off[n] = off[n - 1] + st[n].len
         /\ \A m, n \in 0 .. Len(st) : m < n => off[m] < off[n]
<1>1. /\ Len(st) \in Nat /\ Len(all) \in Nat /\ Len(all) = off[Len(st)]
      /\ \A n \in 0 .. Len(st) : off[n] \in Nat
  BY LenProperties DEF Offsets
<1>2. \A n \in 1 .. Len(st) : st[n] \in Messages /\ st[n].len \in Nat \ {0}
                              /\ off[n] = off[n - 1] + st[n].len
  <2>1. \A n \in 1 .. Len(st) : st[n] \in Messages
    BY ElementOfSeq DEF Offsets
  <2>2. QED
    BY <2>1 DEF Messages, Offsets
<1> DEFINE T == {k \in Nat : \A m \in 0 .. Len(st) : m + k <= Len(st) => off[m] <= off[m + k]}
<1>3. 0 \in T
  BY <1>1
<1>4. ASSUME NEW k \in Nat, k \in T PROVE k + 1 \in T
  <2>1. SUFFICES ASSUME NEW m \in 0 .. Len(st), m + (k + 1) <= Len(st)
                 PROVE  off[m] <= off[m + (k + 1)]
    OBVIOUS
  <2>2. off[m] <= off[m + k]
    BY <1>1, <1>4, <2>1
  <2>3. m + (k + 1) \in 1 .. Len(st) /\ (m + (k + 1)) - 1 = m + k /\ m + k \in 0 .. Len(st)
    BY <1>1, <2>1
  <2>4. off[m + (k + 1)] = off[m + k] + st[m + (k + 1)].len /\ st[m + (k + 1)].len \in Nat
    BY <1>2, <2>3
  <2>5. off[m] \in Nat /\ off[m + k] \in Nat
    BY <1>1, <2>3
  <2>6. QED
    BY <2>2, <2>4, <2>5
<1>5. \A m, n \in 0 .. Len(st) : m <= n => off[m] <= off[n]
  <2> HIDE DEF T
  <2>1. Nat \subseteq T
    BY <1>3, <1>4, Induction
  <2>2. SUFFICES ASSUME NEW m \in 0 .. Len(st), NEW n \in 0 .. Len(st), m <= n
                 PROVE  off[m] <= off[n]
    OBVIOUS
  <2>3. n - m \in Nat /\ m + (n - m) = n
    BY <1>1, <2>2
  <2>4. n - m \in T
    BY <2>1, <2>3
  <2>5. m + (n - m) <= Len(st)
    BY <1>1, <2>3
  <2>6. off[m] <= off[m + (n - m)]
    BY <2>4, <2>5 DEF T
  <2>7. QED
    BY <2>3, <2>6
<1>6. \A m, n \in 0 .. Len(st) : m < n => off[m] < off[n]
  <2>1. SUFFICES ASSUME NEW m \in 0 .. Len(st), NEW n \in 0 .. Len(st), m < n
                 PROVE  off[m] < off[n]
    OBVIOUS
  <2>2. n \in 1 .. Len(st) /\ n - 1 \in 0 .. Len(st) /\ m <= n - 1
    BY <1>1, <2>1
  <2>3. off[m] <= off[n - 1] /\ off[n] = off[n - 1] + st[n].len /\ st[n].len \in Nat \ {0}
    BY <1>2, <1>5, <2>2
  <2>4. off[m] \in Nat /\ off[n - 1] \in Nat
    BY <1>1, <2>2
  <2>5. QED
    BY <2>3, <2>4
<1>7. \A n \in 0 .. Len(st) : off[n] \in 0 .. Len(all)
  <2>1. TAKE n \in 0 .. Len(st)
  <2>2. Len(st) \in 0 .. Len(st) /\ n <= Len(st)
    BY <1>1
  <2>3. off[n] <= off[Len(st)]
    BY <1>5, <2>2
  <2>4. QED
    BY <1>1, <2>3
<1>8. QED
  BY <1>1, <1>2, <1>6, <1>7

\* The numbers in a view, d messages having left the queue.
Numbers(k, st, w, off, all, place, d) ==
  /\ d = Gone(k, st)
  /\ Len(st) \in Nat /\ Len(k.messages) \in Nat /\ Len(w) \in Nat /\ Len(all) \in Nat
  /\ d \in 0 .. Len(st) /\ Len(st) = d + Len(k.messages)
  /\ off[d] \in 0 .. Len(all) /\ off[Len(st)] = Len(all) /\ Len(place) = Len(all)
  /\ k.messages # <<>> =>
       /\ Len(k.messages) # 0 /\ d + 1 \in 1 .. Len(st) /\ off[d + 1] \in 0 .. Len(all)
       /\ off[d + 1] = off[d] + st[d + 1].len /\ st[d + 1].len \in Nat \ {0}
       /\ st[d + 1] \in Messages
       /\ Head(k.messages) = [msg |-> st[d + 1], cursor |-> place[off[d] + 1]]
  /\ k.messages = <<>> => d = Len(st)

LEMMA ViewNumbers ==
  ASSUME NEW k, NEW s, NEW st, NEW w, NEW off, NEW all, NEW place, NEW taken,
         View(k, s, st, w, off, all, place, taken)
  PROVE  Numbers(k, st, w, off, all, place, Gone(k, st))
<1>0. PICK d : d = Gone(k, st)
  OBVIOUS
<1>1. Offsets(st, off, all) /\ Stock(k, st, off, all, place) /\ Client(k) /\ w \in Seq(Seq(Data))
  BY DEF View, Replay
<1>2. Len(st) \in Nat /\ Len(all) \in Nat /\ Len(all) = off[Len(st)]
      /\ Len(k.messages) \in Nat /\ Len(w) \in Nat
  BY <1>1, OffsetsGrow, LenProperties DEF Client
<1>3. d \in 0 .. Len(st) /\ Len(st) = d + Len(k.messages) /\ Len(place) = Len(all)
  BY <1>0, <1>1, <1>2 DEF Stock, Gone
<1>4. off[d] \in 0 .. Len(all)
  BY <1>1, <1>3, OffsetsGrow
<1>5. ASSUME k.messages # <<>>
      PROVE  /\ Len(k.messages) # 0 /\ d + 1 \in 1 .. Len(st) /\ off[d + 1] \in 0 .. Len(all)
             /\ off[d + 1] = off[d] + st[d + 1].len /\ st[d + 1].len \in Nat \ {0}
             /\ st[d + 1] \in Messages
             /\ Head(k.messages) = [msg |-> st[d + 1], cursor |-> place[off[d] + 1]]
  <2>1. Len(k.messages) # 0
    BY <1>1, <1>5, EmptySeq DEF Client
  <2>2. d + 1 \in 1 .. Len(st) /\ d + 1 \in 0 .. Len(st) /\ (d + 1) - 1 = d /\ 1 \in 1 .. Len(k.messages)
    BY <1>2, <1>3, <2>1
  <2>3. off[d + 1] \in 0 .. Len(all)
    BY <1>1, <2>2, OffsetsGrow
  <2>4. off[d + 1] = off[(d + 1) - 1] + st[d + 1].len /\ st[d + 1].len \in Nat \ {0}
        /\ st[d + 1] \in Messages
    BY <1>1, <2>2, OffsetsGrow
  <2>5. k.messages[1] = [msg |-> st[d + 1], cursor |-> place[off[(d + 1) - 1] + 1]]
    BY <1>0, <1>1, <2>2 DEF Stock
  <2>6. Head(k.messages) = k.messages[1]
    BY <1>1, <2>1 DEF Client
  <2>7. QED
    BY <2>1, <2>2, <2>3, <2>4, <2>5, <2>6
<1>6. k.messages = <<>> => d = Len(st)
  BY <1>2, <1>3
<1>7. Numbers(k, st, w, off, all, place, d)
  BY <1>0, <1>2, <1>3, <1>4, <1>5, <1>6 DEF Numbers
<1>8. QED
  BY <1>0, <1>7

\* What happens to the rest of the client.
LEMMA SameQueue ==
  ASSUME NEW k, NEW s, NEW st, NEW w, NEW off, NEW all, NEW place, NEW taken,
         View(k, s, st, w, off, all, place, taken), NEW n,
         DOMAIN n = DOMAIN k, n.messages = k.messages, n.cbuf = k.cbuf
  PROVE  View(n, s, st, w, off, all, place, taken)
<1>1. Gone(n, st) = Gone(k, st) /\ Client(n)
  BY DEF Gone, View, Client
<1>2. Stock(n, st, off, all, place) /\ (Busy(s) => Underway(n, s, st, off, place))
  BY <1>1 DEF View, Stock, Underway, Reached
<1>3. InStep(n, s, st, w, off, taken)
  BY <1>1 DEF View, InStep, Reached
<1>4. QED
  BY <1>1, <1>2, <1>3 DEF View

\* A sender between two messages.
LEMMA CalmSender ==
  ASSUME NEW k, NEW s, NEW st, NEW w, NEW off, NEW all, NEW place, NEW taken,
         View(k, s, st, w, off, all, place, taken), NEW n, Sender(n),
         ~Busy(s) \/ (s.pc = "sent" /\ s.result = -1),
         n.pc \notin {"send", "sent"}, n.pc = "connect" => ~n.connected,
         n.connected => s.connected /\ ~Busy(s) /\ s.pc # "relock" /\ n.pc # "relock"
  PROVE  View(k, n, st, w, off, all, place, taken)
<1>1. ~Busy(n)
  BY DEF Busy
<1>2. taken[Len(w)] = Gone(k, st)
  <2>1. s.pc = "sent" => s.length # -1
    <3>1. HAVE s.pc = "sent"
    <3>2. s.length \in 1 .. st[Gone(k, st) + 1].len
      BY <3>1 DEF View, Busy, Underway
    <3>3. QED
      BY <3>2
  <2>2. QED
    BY <2>1 DEF View, InStep, Busy
<1>3. InStep(k, n, st, w, off, taken)
  BY <1>1, <1>2 DEF View, InStep, Busy
<1>4. QED
  BY <1>1, <1>3 DEF View

\* A sender that is about to send from its cursor on.
Poised(k, s, st, w, off, all, place, taken) ==
  /\ Client(k) /\ Sender(s)
  /\ Offsets(st, off, all) /\ Stock(k, st, off, all, place) /\ Replay(w, st, off, all, taken)
  /\ k.messages # <<>> /\ s.connected
  /\ s.length \in 1 .. st[Gone(k, st) + 1].len
  /\ s.cursor = place[Reached(k, s, st, off) + 1]
  /\ taken[Len(w)] = Gone(k, st) /\ w # <<>> /\ w[Len(w)] # <<>> /\ ~Cut(w[Len(w)])
  /\ UpTo(w, off, taken, Len(w)) = Reached(k, s, st, off)

LEMMA ModSmall ==
  ASSUME NEW x \in Nat, NEW m \in Nat, x < m
  PROVE  x % m = x
OBVIOUS

\* n units in a row in one page, from unit i on.
InOnePage(place, i, n) ==
  \A t \in 1 .. n :
    place[i + t - 1] = [page |-> place[i].page, index |-> place[i].index + t - 1]

\* From place i on the next units are in the page up to its fill.
LEMMA SamePage ==
  ASSUME NEW b, Paged(b), NEW place, NEW lo, Laid(b, place, lo),
         NEW i \in lo + 1 .. Len(place), NEW n \in Nat,
         i + n <= Len(place) + 1, place[i].index + n <= Fill(b, place[i])
  PROVE  InOnePage(place, i, n)
<1> DEFINE cur == place[i]
           T == {k \in Nat : k < n => place[i + k] = [page |-> cur.page, index |-> cur.index + k]}
<1>1. Len(place) \in Nat /\ lo \in Nat /\ i \in Nat /\ cur \in Cursors /\ cur.index \in Nat
      /\ b.pages[cur.page].fill \in Nat
  <2>1. cur \in Cursors /\ cur.page \in 1 .. Len(b.pages) /\ Len(place) \in Nat /\ lo \in Nat
    BY PlaceFacts
  <2>2. b.pages[cur.page].fill \in Nat
    BY <2>1, PlaceFacts
  <2>3. QED
    BY <2>1, <2>2 DEF Cursors
<1>2. 0 \in T
  <2>1. cur = [page |-> cur.page, index |-> cur.index]
    BY <1>1 DEF Cursors
  <2>2. QED
    BY <1>1, <2>1
<1>3. ASSUME NEW k \in Nat, k \in T PROVE k + 1 \in T
  <2>1. SUFFICES ASSUME k + 1 < n
                 PROVE  place[i + (k + 1)] = [page |-> cur.page, index |-> cur.index + (k + 1)]
    OBVIOUS
  <2>2. place[i + k] = [page |-> cur.page, index |-> cur.index + k]
    BY <1>3, <2>1
  <2>3. i + k \in lo + 1 .. Len(place) - 1 /\ (i + k) + 1 = i + (k + 1)
    BY <1>1, <2>1
  <2>4. place[(i + k) + 1] = Behind(b, place[i + k])
    BY <2>3 DEF Laid, Spread
  <2>5. (cur.index + k) + 1 # b.pages[cur.page].fill
    BY <1>1, <2>1 DEF Fill
  <2>6. Behind(b, place[i + k]) = [page |-> cur.page, index |-> (cur.index + k) + 1]
    BY <2>2, <2>5 DEF Behind, Fill, Beyond
  <2>7. (cur.index + k) + 1 = cur.index + (k + 1)
    BY <1>1
  <2>8. QED
    BY <2>3, <2>4, <2>6, <2>7
<1>4. \A k \in Nat : k < n => place[i + k] = [page |-> cur.page, index |-> cur.index + k]
  <2> HIDE DEF T
  <2>1. Nat \subseteq T
    BY <1>2, <1>3, Induction
  <2>2. QED
    BY <2>1 DEF T
<1>5. \A t \in 1 .. n : place[i + t - 1] = [page |-> cur.page, index |-> cur.index + t - 1]
  <2>1. TAKE t \in 1 .. n
  <2>2. t - 1 \in Nat /\ t - 1 < n /\ i + (t - 1) = i + t - 1 /\ cur.index + (t - 1) = cur.index + t - 1
    BY <1>1
  <2>3. place[i + (t - 1)] = [page |-> cur.page, index |-> cur.index + (t - 1)]
    BY <1>4, <2>2
  <2>4. QED
    BY <2>2, <2>3
<1>6. QED
  BY <1>5 DEF InOnePage

\* The amount that the sender passes to send() is in one page.
LEMMA ToWriteKeeps ==
  ASSUME NEW k, NEW s, NEW st, NEW w, NEW off, NEW all, NEW place, NEW taken,
         Poised(k, s, st, w, off, all, place, taken), NEW n, n = ToWrite(k, s)
  PROVE  View(k, n, st, w, off, all, place, taken)
<1> DEFINE d == Gone(k, st)
           b == k.cbuf
           R == Reached(k, s, st, off)
           cur == s.cursor
           rest == b.pages[cur.page].fill - cur.index
<1>1. /\ Client(k) /\ Sender(s) /\ Offsets(st, off, all) /\ Stock(k, st, off, all, place)
      /\ Replay(w, st, off, all, taken) /\ k.messages # <<>> /\ s.connected
      /\ s.length \in 1 .. st[d + 1].len /\ cur = place[R + 1]
      /\ taken[Len(w)] = d /\ w # <<>> /\ w[Len(w)] # <<>> /\ ~Cut(w[Len(w)])
      /\ UpTo(w, off, taken, Len(w)) = R
  BY DEF Poised
<1>2. /\ Len(st) \in Nat /\ Len(k.messages) \in Nat /\ Len(k.messages) # 0
      /\ Len(all) \in Nat /\ Len(place) = Len(all)
  <2>1. Len(st) \in Nat /\ Len(all) \in Nat
    BY <1>1, OffsetsGrow
  <2>2. Len(k.messages) \in Nat /\ Len(k.messages) # 0
    BY <1>1, LenProperties, EmptySeq DEF Client
  <2>3. QED
    BY <1>1, <2>1, <2>2 DEF Stock
<1>3. d \in 0 .. Len(st) /\ d + 1 \in 1 .. Len(st) /\ (d + 1) - 1 = d /\ d + 1 \in 0 .. Len(st)
  BY <1>1, <1>2 DEF Stock, Gone
<1>4. /\ off[d] \in 0 .. Len(all) /\ off[d + 1] \in 0 .. Len(all)
      /\ off[d + 1] = off[d] + st[d + 1].len /\ st[d + 1].len \in Nat \ {0}
  BY <1>1, <1>3, OffsetsGrow
<1>5. R = off[d + 1] - s.length /\ R \in off[d] .. off[d + 1] - 1 /\ R + s.length = off[d + 1]
      /\ s.length \in Nat \ {0}
  BY <1>1, <1>4 DEF Reached
<1> HIDE DEF R, d, b
<1>6. Paged(b) /\ Laid(b, place, off[d])
  BY <1>1 DEF Stock, d, b
<1>7. R + 1 \in off[d] + 1 .. Len(place)
  BY <1>2, <1>4, <1>5
<1>8. /\ cur \in Cursors /\ cur.page \in 1 .. Len(b.pages) /\ cur.index \in Nat
      /\ b.pages[cur.page].fill \in 0 .. PageSize /\ cur.index < b.pages[cur.page].fill
  <2>1. /\ place[R + 1] \in Cursors /\ place[R + 1].page \in 1 .. Len(b.pages)
        /\ place[R + 1].index < b.pages[place[R + 1].page].fill
    BY <1>6, <1>7, PlaceFacts
  <2>2. b.pages[place[R + 1].page].fill \in 0 .. PageSize
    BY <1>6, <2>1, PlaceFacts
  <2>3. QED
    BY <1>1, <2>1, <2>2 DEF Cursors
<1>9. rest \in Nat \ {0} /\ rest % SizeMod = rest
  <2>1. rest \in Nat \ {0} /\ SizeMod \in Nat /\ rest < SizeMod
    BY <1>8, CBufAssumption, SMTT(30)
  <2> HIDE DEF rest
  <2>2. QED
    BY <2>1, ModSmall
<1>10. PICK amount : amount = IF s.length < rest THEN s.length ELSE rest
  OBVIOUS
<1>11. amount \in 1 .. s.length /\ amount <= rest /\ amount \in Nat
  <2> HIDE DEF rest
  <2>1. QED
    BY <1>5, <1>9, <1>10
<1>12. n = [s EXCEPT !.pc = "send", !.to_write = amount]
  <2>1. cbuf_cursor_page_remaining(b, cur) = rest
    BY <1>9 DEF cbuf_cursor_page_remaining
  <2> HIDE DEF rest
  <2>2. QED
    BY <1>10, <2>1 DEF ToWrite, b
<1>13. /\ DOMAIN n = DOMAIN s /\ n.pc = "send" /\ n.to_write = amount
       /\ n.connected = s.connected /\ n.cursor = cur /\ n.length = s.length /\ n.result = s.result
  BY <1>1, <1>12 DEF Sender
<1>14. Sender(n) /\ Reached(k, n, st, off) = R
  BY <1>1, <1>13 DEF Sender, Reached, R
<1>15. ASSUME NEW t \in 1 .. amount
       PROVE  place[R + t] = [page |-> cur.page, index |-> cur.index + t - 1]
  <2>1. (R + 1) + amount <= Len(place) + 1
    BY <1>2, <1>4, <1>5, <1>11
  <2>2. cur.index + amount <= Fill(b, cur)
    BY <1>8, <1>11 DEF Fill
  <2>3. \A j \in 1 .. amount : place[(R + 1) + j - 1] = [page |-> cur.page, index |-> cur.index + j - 1]
    <3>1. PICK i, lo : i = R + 1 /\ lo = off[d]
      OBVIOUS
    <3>2. i \in lo + 1 .. Len(place) /\ place[i] = cur /\ i + amount <= Len(place) + 1
      BY <1>1, <1>7, <2>1, <3>1
    <3>3. place[i].index + amount <= Fill(b, place[i])
      BY ONLY <2>2, <3>2
    <3>4. InOnePage(place, i, amount)
      <4>1. Paged(b) /\ Laid(b, place, lo)
        BY <1>6, <3>1
      <4>2. i \in lo + 1 .. Len(place) /\ amount \in Nat /\ i + amount <= Len(place) + 1
        BY <1>11, <3>2
      <4>3. QED
        BY ONLY <3>3, <4>1, <4>2, SamePage
    <3>5. QED
      BY ONLY <3>1, <3>2, <3>4 DEF InOnePage
  <2>4. (R + 1) + t - 1 = R + t
    BY <1>5, <1>4
  <2>5. QED
    BY <2>3, <2>4
<1>16. Underway(k, n, st, off, place)
  BY <1>1, <1>11, <1>13, <1>14, <1>15 DEF Underway, d
<1>17. InStep(k, n, st, w, off, taken)
  <2>1. Busy(n) /\ n.pc # "sent" /\ n.pc # "connect" /\ n.pc # "relock"
    BY <1>13 DEF Busy
  <2>2. R + 0 = R
    BY <1>5, <1>4
  <2>3. QED
    BY <1>1, <1>14, <2>1, <2>2 DEF InStep, d
<1>18. QED
  BY <1>1, <1>14, <1>16, <1>17 DEF View

\* Between two messages: the next one, the end, or waiting.
LEMMA ContinueKeeps ==
  ASSUME NEW k, NEW s, NEW st, NEW w, NEW off, NEW all, NEW place, NEW taken, Sender(s),
         View(k, [s EXCEPT !.pc = "wait"], st, w, off, all, place, taken)
  PROVE  View(k, Continue(k, s), st, w, off, all, place, taken)
<1> DEFINE d == Gone(k, st)
<1>1. PICK r : r = [s EXCEPT !.pc = "wait"]
  OBVIOUS
<1>2. /\ View(k, r, st, w, off, all, place, taken) /\ DOMAIN r = DOMAIN s /\ r.pc = "wait"
      /\ r.connected = s.connected /\ r.cursor = s.cursor /\ r.length = s.length
      /\ r.result = s.result
  BY <1>1 DEF Sender
<1>3. CASE k.messages # <<>> /\ s.connected
  <2>1. PICK h : h = Head(k.messages)
    OBVIOUS
  <2>2. PICK n : n = [s EXCEPT !.cursor = h.cursor, !.length = h.msg.len]
    OBVIOUS
  <2>3. Continue(k, s) = ToWrite(k, n)
    BY <1>3, <2>1, <2>2 DEF Continue
  <2>40. Numbers(k, st, w, off, all, place, d)
    BY <1>2, ViewNumbers
  <2> HIDE DEF d
  <2>4. /\ Len(all) \in Nat /\ Len(place) = Len(all) /\ off[d] \in 0 .. Len(all)
        /\ d + 1 \in 1 .. Len(st) /\ off[d + 1] \in 0 .. Len(all)
        /\ off[d + 1] = off[d] + st[d + 1].len /\ st[d + 1].len \in Nat \ {0}
        /\ h = [msg |-> st[d + 1], cursor |-> place[off[d] + 1]]
    BY <1>3, <2>1, <2>40 DEF Numbers
  <2>5. n.cursor = place[off[d] + 1] /\ n.length = st[d + 1].len /\ n.connected = s.connected
        /\ DOMAIN n = DOMAIN s /\ n.result = s.result
    BY <2>2, <2>4 DEF Sender
  <2>6. place[off[d] + 1] \in Cursors
    <3>1. Paged(k.cbuf) /\ Laid(k.cbuf, place, off[d])
      BY <1>2 DEF View, Stock, d
    <3>2. off[d] + 1 \in off[d] + 1 .. Len(place)
      BY <2>4
    <3>3. QED
      BY <3>1, <3>2, PlaceFacts
  <2>7. Sender(n)
    BY <2>4, <2>5, <2>6 DEF Sender
  <2>8. Reached(k, n, st, off) = off[d]
    BY <2>4, <2>5 DEF Reached, d
  <2>9. n.length \in 1 .. st[d + 1].len
    BY <2>4, <2>5
  <2>10. /\ taken[Len(w)] = d /\ w # <<>> /\ w[Len(w)] # <<>> /\ ~Cut(w[Len(w)])
         /\ UpTo(w, off, taken, Len(w)) = off[d]
    BY <1>2, <1>3 DEF View, InStep, Busy, d
  <2>11. Poised(k, n, st, w, off, all, place, taken)
    BY <1>2, <1>3, <2>5, <2>7, <2>8, <2>9, <2>10 DEF Poised, View, d
  <2>12. QED
    BY <2>3, <2>11, ToWriteKeeps
<1>4. CASE ~(k.messages # <<>> /\ s.connected)
  <2>1. PICK pc : pc = IF Done(k) THEN "unlink" ELSE "wait"
    OBVIOUS
  <2>2. PICK n : n = [s EXCEPT !.pc = pc]
    OBVIOUS
  <2>3. Continue(k, s) = n
    BY <1>4, <2>1, <2>2 DEF Continue
  <2>4. n.pc \in {"unlink", "wait"} /\ n.connected = s.connected /\ Sender(n)
    BY <2>1, <2>2 DEF Sender
  <2>5. ~Busy(r) /\ r.pc # "relock"
    BY <1>2 DEF Busy
  <2>6. View(k, n, st, w, off, all, place, taken)
    <3>1. n.pc \notin {"send", "sent"} /\ (n.pc = "connect" => ~n.connected) /\ n.pc # "relock"
      BY <2>4
    <3>2. n.connected => r.connected /\ ~Busy(r) /\ r.pc # "relock" /\ n.pc # "relock"
      BY <1>2, <2>4, <2>5, <3>1
    <3>3. QED
      BY ONLY <1>2, <2>4, <2>5, <3>1, <3>2, CalmSender
  <2>7. QED
    BY <2>3, <2>6
<1>5. QED
  BY <1>3, <1>4

\* What send() is given is the next part of what was stored.
LEMMA MemoryIsStored ==
  ASSUME NEW k, NEW s, NEW st, NEW w, NEW off, NEW all, NEW place, NEW taken,
         View(k, s, st, w, off, all, place, taken), s.pc = "send",
         NEW n \in 1 .. s.to_write, NEW mem, mem = Memory(k.cbuf, s.cursor, n)
  PROVE  /\ mem \in Seq(Data) /\ Len(mem) = n
         /\ \A i \in 1 .. n : mem[i] = all[Reached(k, s, st, off) + i]
<1> DEFINE d == Gone(k, st)
           b == k.cbuf
           R == Reached(k, s, st, off)
           cur == s.cursor
<1>1. Underway(k, s, st, off, place) /\ Stock(k, st, off, all, place) /\ all \in Seq(Nat \X Nat)
      /\ cur \in Cursors
  BY DEF View, Busy, Offsets, Sender
<1>2. /\ Len(all) \in Nat /\ Len(place) = Len(all) /\ off[d] \in 0 .. Len(all)
      /\ off[d + 1] \in 0 .. Len(all)
      /\ off[d + 1] = off[d] + st[d + 1].len /\ st[d + 1].len \in Nat \ {0}
  <2>1. k.messages # <<>>
    BY <1>1 DEF Underway
  <2>2. Numbers(k, st, w, off, all, place, d)
    BY ViewNumbers
  <2> HIDE DEF d
  <2>3. QED
    BY <2>1, <2>2 DEF Numbers
<1>3. /\ s.length \in 1 .. st[d + 1].len /\ s.to_write \in 1 .. s.length
      /\ \A t \in 1 .. s.to_write : place[R + t] = [page |-> cur.page, index |-> cur.index + t - 1]
  BY <1>1 DEF Underway
<1>4. R \in Nat /\ R >= off[d] /\ R + s.length = off[d + 1]
  BY <1>2, <1>3 DEF Reached
<1> HIDE DEF d, b, R
<1>5. Paged(b) /\ Laid(b, place, off[d])
      /\ \A j \in off[d] + 1 .. Len(all) : Unit(b, place[j]) = all[j]
  BY <1>1 DEF Stock, d, b
<1>6. ASSUME NEW i \in 1 .. n PROVE mem[i] = all[R + i] /\ all[R + i] \in Data
  <2>1. i \in 1 .. s.to_write /\ R + i \in off[d] + 1 .. Len(all) /\ R + i \in 1 .. Len(all)
    BY <1>2, <1>3, <1>4
  <2>2. place[R + i] = [page |-> cur.page, index |-> cur.index + i - 1]
    BY <1>3, <2>1
  <2>3. place[R + i].index \in 0 .. PageSize - 1
    BY <1>2, <1>5, <2>1, PlaceFacts
  <2>4. cur.index \in Nat /\ PageSize \in Nat
    BY <1>1, CBufAssumption DEF Cursors
  <2>5. cur.index + i <= PageSize /\ (cur.index + i - 1) + 1 = cur.index + i
    BY <2>2, <2>3, <2>4
  <2>6. mem[i] = b.pages[cur.page].buf[cur.index + i]
    BY <2>5 DEF Memory, b
  <2>7. Unit(b, place[R + i]) = b.pages[cur.page].buf[cur.index + i]
    BY <2>2, <2>5 DEF Unit
  <2>8. all[R + i] \in Data
    BY <1>1, <2>1, ElementOfSeq DEF Data
  <2>9. QED
    BY <1>5, <2>1, <2>6, <2>7, <2>8
<1>7. mem = [i \in 1 .. n |-> mem[i]] /\ n \in Nat
  <2>1. n \in Nat
    BY <1>2, <1>3
  <2>2. QED
    BY <2>1 DEF Memory
<1>8. mem \in Seq(Data) /\ Len(mem) = n
  <2>1. mem \in [1 .. n -> Data]
    BY <1>6, <1>7
  <2>2. QED
    BY <1>7, <2>1
<1>9. QED
  BY <1>6, <1>8 DEF R

\* More on the last connection, v instead of w: up to position x now, and
\* e messages are out whole.
Longer(w, v, st, off, all, took, e, x) ==
  /\ Replay(v, st, off, all, took) /\ Len(v) = Len(w) /\ v # <<>> /\ v[Len(v)] # <<>>
  /\ took[Len(v)] = e /\ UpTo(v, off, took, Len(v)) = x /\ ~Cut(v[Len(v)])

LEMMA ReplayMore ==
  ASSUME NEW w, NEW st, NEW off, NEW all, NEW taken, Replay(w, st, off, all, taken),
         Offsets(st, off, all), w # <<>>, w[Len(w)] # <<>>, ~Cut(w[Len(w)]),
         NEW mem \in Seq(Data), NEW R, R = UpTo(w, off, taken, Len(w)),
         \A i \in 1 .. Len(mem) : mem[i] = all[R + i],
         NEW e \in 0 .. Len(st), off[e] <= R + Len(mem), R + Len(mem) <= Len(all),
         e < Len(st) => R + Len(mem) < off[e + 1],
         NEW v, v = [w EXCEPT ![Len(w)] = @ \o mem], NEW took, took = [taken EXCEPT ![Len(w)] = e]
  PROVE  Longer(w, v, st, off, all, took, e, R + Len(mem))
<1> DEFINE L == Len(w)
           new == w[L] \o mem
<1>1. /\ w \in Seq(Seq(Data)) /\ L \in Nat \ {0} /\ L \in 1 .. L /\ w[L] \in Seq(Data)
      /\ Len(w[L]) \in Nat \ {0} /\ Len(mem) \in Nat
  <2>1. w \in Seq(Seq(Data)) /\ L \in Nat /\ L # 0
    BY LenProperties, EmptySeq DEF Replay
  <2>2. L \in 1 .. L
    BY <2>1
  <2>3. w[L] \in Seq(Data)
    BY <2>1, <2>2, ElementOfSeq
  <2>4. Len(w[L]) \in Nat /\ Len(w[L]) # 0
    BY <2>3, LenProperties, EmptySeq
  <2>5. QED
    BY <2>1, <2>2, <2>3, <2>4, LenProperties
<1>2. /\ new \in Seq(Data) /\ Len(new) = Len(w[L]) + Len(mem)
      /\ \A i \in 1 .. Len(new) : new[i] = IF i <= Len(w[L]) THEN w[L][i] ELSE mem[i - Len(w[L])]
  BY <1>1, ConcatProperties
<1>3. /\ v \in Seq(Seq(Data)) /\ Len(v) = L
      /\ \A n \in 1 .. L : v[n] = IF n = L THEN new ELSE w[n]
  <2> HIDE DEF L, new
  <2>1. v = [w EXCEPT ![L] = new] /\ L = Len(w)
    BY DEF L, new
  <2>2. w \in Seq(Seq(Data)) /\ L \in 1 .. Len(w) /\ new \in Seq(Data)
    BY <1>1, <1>2, <2>1
  <2>3. /\ [w EXCEPT ![L] = new] \in Seq(Seq(Data)) /\ Len([w EXCEPT ![L] = new]) = Len(w)
        /\ \A n \in 1 .. Len(w) : [w EXCEPT ![L] = new][n] = IF n = L THEN new ELSE w[n]
    BY ONLY <2>2, ExceptSeq
  <2>4. QED
    BY ONLY <2>1, <2>3
<1>4. /\ taken \in [0 .. L -> 0 .. Len(st)] /\ L \in 0 .. L /\ L # 0
      /\ took \in [0 .. L -> 0 .. Len(st)] /\ took[L] = e
      /\ \A n \in 0 .. L : n # L => took[n] = taken[n]
  <2>1. taken \in [0 .. L -> 0 .. Len(st)] /\ L \in 0 .. L /\ L # 0
    BY <1>1 DEF Replay
  <2> HIDE DEF L
  <2>2. took = [taken EXCEPT ![L] = e]
    BY DEF L
  <2>3. QED
    BY <2>1, <2>2
<1> HIDE DEF L, new
<1>5. took[0] = 0
  BY <1>1, <1>4 DEF Replay
<1>6. \A n \in 1 .. L : n - 1 \in 0 .. L /\ n - 1 # L /\ took[n - 1] = taken[n - 1]
                        /\ taken[n - 1] \in 0 .. Len(st)
  <2>1. TAKE n \in 1 .. L
  <2>2. n - 1 \in 0 .. L /\ n - 1 # L
    BY <1>1
  <2>3. QED
    BY <1>4, <2>2
<1>7. v[L] = new /\ new # <<>> /\ Carried(new) = Carried(w[L]) + Len(mem)
      /\ Carried(w[L]) = Len(w[L]) - 1
  <2>1. v[L] = new /\ w[L] # <<>>
    BY <1>1, <1>3 DEF L
  <2>2. new # <<>>
    <3>1. PICK x, y, z : x = Len(new) /\ y = Len(w[L]) /\ z = Len(mem)
      OBVIOUS
    <3>2. x = y + z /\ y \in Nat \ {0} /\ z \in Nat
      BY <1>1, <1>2, <3>1
    <3>3. x # 0
      BY ONLY <3>2
    <3>4. new # <<>>
      BY ONLY <1>2, <3>1, <3>3, EmptySeq
    <3>5. QED
      BY <3>4
  <2>3. QED
    BY <1>1, <1>2, <2>1, <2>2 DEF Carried
<1>70. Carried(w[L]) \in Nat /\ Len(w[L]) = Carried(w[L]) + 1
  <2>1. PICK x : x = Len(w[L])
    OBVIOUS
  <2>2. x \in Nat \ {0} /\ Carried(w[L]) = x - 1
    BY <1>1, <1>7, <2>1
  <2>3. QED
    BY ONLY <2>1, <2>2
<1>8. R = off[taken[L - 1]] + Carried(w[L]) /\ off[taken[L - 1]] \in Nat /\ R \in Nat
  <2>1. L - 1 \in 0 .. L
    BY <1>1
  <2>2. taken[L - 1] \in 0 .. Len(st)
    BY <1>4, <2>1
  <2>3. off[taken[L - 1]] \in Nat
    BY <2>2, OffsetsGrow
  <2>4. R = off[taken[L - 1]] + Carried(w[L])
    BY DEF UpTo, L
  <2>5. QED
    BY ONLY <1>70, <2>3, <2>4, SMTT(30)
<1>9. UpTo(v, off, took, L) = R + Len(mem)
  <2>1. UpTo(v, off, took, L) = off[taken[L - 1]] + (Carried(w[L]) + Len(mem))
    <3>1. took[L - 1] = taken[L - 1]
      BY <1>1, <1>6
    <3>2. QED
      BY <1>7, <3>1 DEF UpTo
  <2>2. Len(mem) \in Nat
    BY <1>1
  <2>3. QED
    BY ONLY <1>8, <1>70, <2>1, <2>2
<1>10. ASSUME NEW n \in 1 .. L
       PROVE  /\ v[n] # <<>> => Headed(v[n])
              /\ \A t \in 1 .. Carried(v[n]) : v[n][t + 1] = all[off[took[n - 1]] + t]
              /\ off[took[n]] <= UpTo(v, off, took, n) /\ UpTo(v, off, took, n) <= Len(all)
              /\ took[n] < Len(st) => UpTo(v, off, took, n) < off[took[n] + 1]
  <2>1. CASE n = L
    <3>1. Headed(v[L]) /\ v[L][1] # CutHeaders
      <4>1. Headed(w[L]) /\ w[L][1] # CutHeaders
        BY <1>1 DEF Replay, L, Cut
      <4>2. 1 \in 1 .. Len(new) /\ 1 <= Len(w[L])
        <5>1. Len(mem) \in Nat /\ Len(new) = Len(w[L]) + Len(mem)
          BY <1>1, <1>2
        <5>2. PICK x, y, z : x = Len(new) /\ y = Len(w[L]) /\ z = Len(mem)
          OBVIOUS
        <5>3. PICK u : u = Carried(w[L])
          OBVIOUS
        <5>4. u \in Nat /\ y = u + 1 /\ z \in Nat /\ x = y + z
          BY ONLY <1>70, <5>1, <5>2, <5>3
        <5>5. 1 \in 1 .. x /\ 1 <= y
          BY ONLY <5>4
        <5>6. QED
          BY ONLY <5>2, <5>5
      <4>3. v[L][1] = w[L][1]
        BY <1>2, <1>7, <4>2
      <4>4. QED
        BY <4>1, <4>3 DEF Headed
    <3>2. ASSUME NEW t \in 1 .. Carried(new) PROVE new[t + 1] = all[off[taken[L - 1]] + t]
      <4>1. t \in Nat \ {0} /\ t + 1 \in 1 .. Len(new)
        <5>1. Len(mem) \in Nat /\ Carried(new) = Carried(w[L]) + Len(mem)
              /\ Len(new) = Len(w[L]) + Len(mem)
          BY <1>1, <1>2, <1>7
        <5>2. QED
          BY ONLY <1>70, <5>1, t \in 1 .. Carried(new)
      <4>2. CASE t + 1 <= Len(w[L])
        <5>1. t \in 1 .. Carried(w[L])
          BY <1>1, <1>7, <4>1, <4>2
        <5>2. w[L][t + 1] = all[off[taken[L - 1]] + t]
          BY <1>1, <5>1 DEF Replay, L
        <5>3. QED
          BY <1>2, <4>1, <4>2, <5>2
      <4>3. CASE ~(t + 1 <= Len(w[L]))
        <5>0. PICK x : x = Len(w[L])
          OBVIOUS
        <5>1. PICK i : i = (t + 1) - x
          OBVIOUS
        <5>2. i \in 1 .. Len(mem) /\ R + i = off[taken[L - 1]] + t
          <6>1. Len(mem) \in Nat /\ Len(new) = Len(w[L]) + Len(mem)
            BY <1>1, <1>2
          <6>2. PICK o, u, z, y : /\ o = off[taken[L - 1]] /\ u = Carried(w[L])
                                  /\ z = Len(mem) /\ y = Len(new)
            OBVIOUS
          <6>3. /\ o \in Nat /\ u \in Nat /\ z \in Nat /\ R = o + u /\ x = u + 1 /\ y = x + z
                /\ t \in Nat \ {0} /\ t + 1 \in 1 .. y /\ ~(t + 1 <= x)
            BY ONLY <1>70, <1>8, <4>1, <4>3, <5>0, <6>1, <6>2
          <6>4. i \in 1 .. z /\ R + i = o + t
            BY ONLY <5>1, <6>3
          <6>5. QED
            BY ONLY <6>2, <6>4
        <5>3. new[t + 1] = mem[i]
          BY ONLY <1>2, <4>1, <4>3, <5>0, <5>1
        <5>4. mem[i] = all[R + i]
          BY <5>2
        <5>5. QED
          BY ONLY <5>2, <5>3, <5>4
      <4>4. QED
        BY <4>2, <4>3
    <3>3. took[L - 1] = taken[L - 1]
      BY <1>6, <1>1
    <3>4. \A t \in 1 .. Carried(v[n]) : v[n][t + 1] = all[off[took[n - 1]] + t]
      <4>1. v[n] = new /\ n - 1 = L - 1
        BY <1>7, <2>1
      <4>2. \A t \in 1 .. Carried(new) : new[t + 1] = all[off[taken[L - 1]] + t]
        BY <3>2
      <4>3. QED
        BY ONLY <3>3, <4>1, <4>2
    <3>5. UpTo(v, off, took, n) = R + Len(mem) /\ took[n] = e
      BY <1>4, <1>9, <2>1
    <3>6. QED
      BY <2>1, <3>1, <3>4, <3>5
  <2>2. CASE n # L
    <3>1. v[n] = w[n] /\ took[n] = taken[n] /\ took[n - 1] = taken[n - 1]
      <4>1. n \in 0 .. L /\ n - 1 \in 0 .. L /\ n - 1 # L
        BY <1>1
      <4>2. QED
        BY <1>3, <1>4, <2>2, <4>1
    <3>2. UpTo(v, off, took, n) = UpTo(w, off, taken, n)
      BY <3>1 DEF UpTo
    <3>3. /\ w[n] # <<>> => Headed(w[n])
          /\ \A t \in 1 .. Carried(w[n]) : w[n][t + 1] = all[off[taken[n - 1]] + t]
          /\ off[taken[n]] <= UpTo(w, off, taken, n) /\ UpTo(w, off, taken, n) <= Len(all)
          /\ taken[n] < Len(st) => UpTo(w, off, taken, n) < off[taken[n] + 1]
      BY DEF Replay, L
    <3>4. QED
      BY ONLY <3>1, <3>2, <3>3
  <2>3. QED
    BY <2>1, <2>2
<1>11. Replay(v, st, off, all, took)
  BY <1>3, <1>4, <1>5, <1>10 DEF Replay
<1>12. QED
  <2>1. v # <<>>
    BY <1>1, <1>3, EmptySeq
  <2>2. ~Cut(v[L])
    <3>1. v[L][1] = w[L][1]
      <4>1. 1 \in 1 .. Len(new) /\ 1 <= Len(w[L])
        <5>1. PICK x, y, z : x = Len(new) /\ y = Len(w[L]) /\ z = Len(mem)
          OBVIOUS
        <5>2. x = y + z /\ y \in Nat \ {0} /\ z \in Nat
          BY <1>1, <1>2, <5>1
        <5>3. 1 \in 1 .. x /\ 1 <= y
          BY ONLY <5>2
        <5>4. QED
          BY ONLY <5>1, <5>3
      <4>2. QED
        BY <1>2, <1>7, <4>1
    <3>2. QED
      BY <3>1 DEF Cut, L
  <2>3. QED
    BY <1>3, <1>4, <1>7, <1>9, <1>11, <2>1, <2>2 DEF L, Longer

\* SenderSends(): send() has accepted n units.
LEMMA SendsKeeps ==
  ASSUME NEW k, NEW s, NEW st, NEW w, NEW off, NEW all, NEW place, NEW taken,
         View(k, s, st, w, off, all, place, taken), s.pc = "send",
         NEW n \in 1 .. s.to_write, NEW r, r = [s EXCEPT !.pc = "sent", !.result = n],
         NEW v, v = [w EXCEPT ![Len(w)] = @ \o Memory(k.cbuf, s.cursor, n)]
  PROVE  \E took : View(k, r, st, v, off, all, place, took)
<1>1. PICK d : d = Gone(k, st)
  OBVIOUS
<1>2. PICK R : R = Reached(k, s, st, off)
  OBVIOUS
<1>3. PICK mem : mem = Memory(k.cbuf, s.cursor, n)
  OBVIOUS
<1>4. /\ Client(k) /\ Sender(s) /\ Offsets(st, off, all) /\ Stock(k, st, off, all, place)
      /\ Underway(k, s, st, off, place) /\ Replay(w, st, off, all, taken)
      /\ InStep(k, s, st, w, off, taken)
  BY DEF View, Busy
<1>5. /\ k.messages # <<>> /\ s.connected /\ s.length \in 1 .. st[d + 1].len
      /\ s.to_write \in 1 .. s.length
  BY <1>1, <1>4 DEF Underway
<1>6. /\ Len(st) \in Nat /\ Len(all) \in Nat /\ d \in 0 .. Len(st) /\ d + 1 \in 1 .. Len(st)
      /\ off[d] \in 0 .. Len(all) /\ off[d + 1] \in 0 .. Len(all)
      /\ off[d + 1] = off[d] + st[d + 1].len /\ st[d + 1].len \in Nat \ {0}
  <2>1. Numbers(k, st, w, off, all, place, d)
    BY <1>1, ViewNumbers
  <2>2. QED
    BY <1>5, <2>1 DEF Numbers
<1>7. R = off[d + 1] - s.length
  BY <1>1, <1>2 DEF Reached
<1>8. n \in Nat \ {0} /\ s.length \in Nat \ {0} /\ n <= s.length
      /\ R \in Nat /\ R >= off[d] /\ R + s.length = off[d + 1]
  <2>1. PICK l, o, z, len : l = s.length /\ o = off[d] /\ z = off[d + 1] /\ len = st[d + 1].len
    OBVIOUS
  <2>2. /\ o \in Nat /\ len \in Nat \ {0} /\ z = o + len /\ l \in 1 .. len /\ R = z - l
        /\ s.to_write \in 1 .. l
    BY ONLY <1>5, <1>6, <1>7, <2>1
  <2>3. n \in 1 .. s.to_write
    OBVIOUS
  <2>4. n \in Nat \ {0} /\ l \in Nat \ {0} /\ n <= l /\ R \in Nat /\ R >= o /\ R + l = z
    BY ONLY <2>2, <2>3
  <2>5. QED
    BY ONLY <2>1, <2>4
<1>9. mem \in Seq(Data) /\ Len(mem) = n /\ \A i \in 1 .. n : mem[i] = all[R + i]
  BY <1>2, <1>3, MemoryIsStored
<1>10. R = UpTo(w, off, taken, Len(w)) /\ w # <<>> /\ w[Len(w)] # <<>> /\ ~Cut(w[Len(w)])
  <2>1. R + 0 = R
    BY <1>8
  <2>2. Busy(s) /\ s.pc # "sent" /\ s.pc # "relock"
    BY DEF Busy
  <2>3. QED
    BY <1>2, <1>4, <1>5, <2>1, <2>2 DEF InStep
<1>11. PICK e : e = IF n = s.length THEN d + 1 ELSE d
  OBVIOUS
<1>12. /\ e \in 0 .. Len(st) /\ off[e] <= R + n /\ R + n <= Len(all)
       /\ e < Len(st) => R + n < off[e + 1]
  <2>1. CASE n = s.length
    <3>1. e = d + 1 /\ R + n = off[d + 1]
      BY <1>8, <1>11, <2>1
    <3>2. d + 1 < Len(st) => off[d + 1] < off[(d + 1) + 1]
      <4>1. HAVE d + 1 < Len(st)
      <4>2. d + 1 \in 0 .. Len(st) /\ (d + 1) + 1 \in 0 .. Len(st) /\ d + 1 < (d + 1) + 1
        BY <1>6, <4>1
      <4>3. QED
        BY <1>4, <4>2, OffsetsGrow
    <3>3. QED
      BY <1>6, <3>1, <3>2
  <2>2. CASE n # s.length
    <3>1. e = d /\ R + n < off[d + 1] /\ off[d] <= R + n
      BY <1>6, <1>8, <1>11, <2>2
    <3>2. QED
      BY <1>6, <1>8, <3>1
  <2>3. QED
    BY <2>1, <2>2
<1>13. PICK took : took = [taken EXCEPT ![Len(w)] = e]
  OBVIOUS
<1>14. v = [w EXCEPT ![Len(w)] = @ \o mem]
  BY <1>3
<1>15. /\ Replay(v, st, off, all, took) /\ Len(v) = Len(w) /\ v # <<>> /\ v[Len(v)] # <<>>
       /\ took[Len(v)] = e /\ UpTo(v, off, took, Len(v)) = R + n /\ ~Cut(v[Len(v)])
  <2>1. \A i \in 1 .. Len(mem) : mem[i] = all[R + i]
    BY <1>9
  <2>2. /\ e \in 0 .. Len(st) /\ off[e] <= R + Len(mem) /\ R + Len(mem) <= Len(all)
        /\ e < Len(st) => R + Len(mem) < off[e + 1]
    BY <1>9, <1>12
  <2>3. Longer(w, v, st, off, all, took, e, R + Len(mem))
    BY ONLY <1>4, <1>9, <1>10, <1>13, <1>14, <2>1, <2>2, ReplayMore
  <2>4. QED
    BY <1>9, <2>3 DEF Longer
<1>16. /\ DOMAIN r = DOMAIN s /\ r.pc = "sent" /\ r.result = n /\ r.length = s.length
       /\ r.connected = s.connected /\ r.cursor = s.cursor /\ r.to_write = s.to_write
  BY <1>4 DEF Sender
<1>17. Sender(r) /\ Reached(k, r, st, off) = R
  BY <1>2, <1>4, <1>8, <1>16 DEF Sender, Reached
<1>18. Underway(k, r, st, off, place)
  BY <1>4, <1>16, <1>17, <1>2 DEF Underway
<1>19. InStep(k, r, st, v, off, took)
  <2>1. n # -1 /\ Busy(r) /\ r.pc = "sent"
    BY <1>8, <1>16 DEF Busy
  <2>2. r.pc # "connect" /\ r.pc # "relock"
    BY <2>1
  <2>3. took[Len(v)] = IF r.result = r.length THEN Gone(k, st) + 1 ELSE Gone(k, st)
    BY <1>1, <1>11, <1>15, <1>16
  <2>4. QED
    BY <1>15, <1>16, <1>17, <2>1, <2>2, <2>3 DEF InStep
<1>20. View(k, r, st, v, off, all, place, took)
  BY <1>4, <1>15, <1>17, <1>18, <1>19 DEF View
<1>21. QED
  BY <1>20

\* What is known when send() has accepted n units of a message.
Accounted(k, s, st, w, off, all, place, taken, d, R, n) ==
  /\ Client(k) /\ Sender(s) /\ Offsets(st, off, all) /\ Stock(k, st, off, all, place)
  /\ Replay(w, st, off, all, taken) /\ k.messages # <<>> /\ s.connected
  /\ d = Gone(k, st) /\ R = off[d + 1] - s.length /\ n = s.result
  /\ Paged(k.cbuf) /\ Laid(k.cbuf, place, off[d])
  /\ Len(all) \in Nat /\ Len(place) = Len(all) /\ Len(st) \in Nat
  /\ d \in 0 .. Len(st) /\ d + 1 \in 1 .. Len(st)
  /\ off[d] \in 0 .. Len(all) /\ off[d + 1] \in 0 .. Len(all)
  /\ off[d + 1] = off[d] + st[d + 1].len /\ st[d + 1].len \in Nat \ {0}
  /\ Head(k.messages) = [msg |-> st[d + 1], cursor |-> place[off[d] + 1]]
  /\ s.length \in 1 .. st[d + 1].len /\ n \in 1 .. s.length
  /\ s.cursor = place[R + 1]
  /\ taken[Len(w)] = IF n = s.length THEN d + 1 ELSE d
  /\ w # <<>> /\ w[Len(w)] # <<>> /\ ~Cut(w[Len(w)]) /\ UpTo(w, off, taken, Len(w)) = R + n

LEMMA SentIsAccounted ==
  ASSUME NEW k, NEW s, NEW st, NEW w, NEW off, NEW all, NEW place, NEW taken,
         View(k, s, st, w, off, all, place, taken), s.pc = "sent", s.result >= 0
  PROVE  \E d, R : Accounted(k, s, st, w, off, all, place, taken, d, R, s.result)
<1>1. PICK d : d = Gone(k, st)
  OBVIOUS
<1>2. PICK R : R = off[d + 1] - s.length
  OBVIOUS
<1>3. PICK n : n = s.result
  OBVIOUS
<1>4. /\ Client(k) /\ Sender(s) /\ Offsets(st, off, all) /\ Stock(k, st, off, all, place)
      /\ Underway(k, s, st, off, place) /\ Replay(w, st, off, all, taken)
      /\ InStep(k, s, st, w, off, taken) /\ Paged(k.cbuf) /\ Laid(k.cbuf, place, off[d])
  BY <1>1 DEF View, Busy, Stock
<1>5. R = Reached(k, s, st, off) /\ s.cursor \in Cursors /\ n \in Int /\ n >= 0
  BY <1>1, <1>2, <1>3, <1>4 DEF Reached, Sender
<1>6. /\ k.messages # <<>> /\ s.connected /\ s.length \in 1 .. st[d + 1].len
      /\ s.to_write \in 1 .. s.length /\ n \in {-1} \cup 1 .. s.to_write
      /\ \A t \in 1 .. s.to_write :
           place[R + t] = [page |-> s.cursor.page, index |-> s.cursor.index + t - 1]
  BY <1>1, <1>3, <1>4, <1>5 DEF Underway
<1>7. Numbers(k, st, w, off, all, place, d)
  BY <1>1, ViewNumbers
<1>8. st[d + 1].len \in Nat \ {0}
  BY <1>6, <1>7 DEF Numbers
<1>9. n \in 1 .. s.length /\ n # -1 /\ 1 \in 1 .. s.to_write
  BY <1>5, <1>6, <1>8
<1>10. s.cursor = place[R + 1]
  <2>1. place[R + 1] = [page |-> s.cursor.page, index |-> s.cursor.index + 1 - 1]
    BY <1>6, <1>9
  <2>2. s.cursor.index + 1 - 1 = s.cursor.index
    BY <1>5 DEF Cursors
  <2>3. s.cursor = [page |-> s.cursor.page, index |-> s.cursor.index]
    BY <1>5 DEF Cursors
  <2>4. QED
    BY <2>1, <2>2, <2>3
<1>11. /\ taken[Len(w)] = IF n = s.length THEN d + 1 ELSE d
       /\ w # <<>> /\ w[Len(w)] # <<>> /\ ~Cut(w[Len(w)]) /\ UpTo(w, off, taken, Len(w)) = R + n
  <2>1. Busy(s) /\ s.pc # "relock"
    BY DEF Busy
  <2>2. QED
    BY <1>1, <1>3, <1>4, <1>5, <1>6, <1>9, <2>1 DEF InStep
<1>12. Accounted(k, s, st, w, off, all, place, taken, d, R, n)
  BY <1>1, <1>2, <1>3, <1>4, <1>6, <1>7, <1>9, <1>10, <1>11 DEF Accounted, Numbers
<1>13. QED
  BY <1>3, <1>12

\* SenderSent(), inside a message: the rest of it is next.
LEMMA SentPart ==
  ASSUME NEW k, NEW s, NEW st, NEW w, NEW off, NEW all, NEW place, NEW taken,
         View(k, s, st, w, off, all, place, taken), s.pc = "sent", s.result >= 0,
         NEW r, r = [s EXCEPT !.cursor = cbuf_advance_cursor(k.cbuf, @, s.result),
                              !.length = @ - s.result],
         r.length > 0
  PROVE  View(k, ToWrite(k, r), st, w, off, all, place, taken)
<1>1. PICK n : n = s.result
  OBVIOUS
<1>2. PICK d, R : Accounted(k, s, st, w, off, all, place, taken, d, R, n)
  BY <1>1, SentIsAccounted
<1>3. /\ Client(k) /\ Sender(s) /\ Offsets(st, off, all) /\ Stock(k, st, off, all, place)
      /\ Replay(w, st, off, all, taken) /\ k.messages # <<>> /\ s.connected
      /\ d = Gone(k, st) /\ R = off[d + 1] - s.length
      /\ Paged(k.cbuf) /\ Laid(k.cbuf, place, off[d])
      /\ Len(all) \in Nat /\ Len(place) = Len(all)
      /\ off[d] \in 0 .. Len(all) /\ off[d + 1] \in 0 .. Len(all)
      /\ off[d + 1] = off[d] + st[d + 1].len /\ st[d + 1].len \in Nat \ {0}
      /\ s.length \in 1 .. st[d + 1].len /\ n \in 1 .. s.length
      /\ s.cursor = place[R + 1]
      /\ taken[Len(w)] = IF n = s.length THEN d + 1 ELSE d
      /\ w # <<>> /\ w[Len(w)] # <<>> /\ ~Cut(w[Len(w)]) /\ UpTo(w, off, taken, Len(w)) = R + n
  BY <1>2 DEF Accounted
<1>4. PICK cur : cur = cbuf_advance_cursor(k.cbuf, place[R + 1], n)
  OBVIOUS
<1>5. /\ r.length = s.length - n /\ r.cursor = cur /\ DOMAIN r = DOMAIN s
      /\ r.connected = s.connected /\ r.result = s.result
  BY <1>1, <1>3, <1>4 DEF Sender
<1>6. s.length \in Nat \ {0} /\ n \in Nat \ {0} /\ n < s.length /\ R \in Nat
      /\ R + s.length = off[d + 1] /\ R >= off[d] /\ r.length \in 1 .. st[d + 1].len
      /\ off[d + 1] - (s.length - n) = R + n
      /\ R + 1 \in off[d] + 1 .. Len(place) /\ (R + 1) + n <= Len(place)
      /\ (R + 1) + n <= Len(place) + 1 /\ (R + 1) + n = (R + n) + 1
  <2>1. PICK x : x = s.length
    OBVIOUS
  <2>2. PICK a, z, m, p : a = off[d] /\ z = off[d + 1] /\ m = st[d + 1].len /\ p = Len(place)
    OBVIOUS
  <2>3. /\ m \in Nat \ {0} /\ x \in 1 .. m /\ n \in 1 .. x /\ x - n > 0 /\ R = z - x /\ z = a + m
        /\ p \in Nat /\ a \in 0 .. p /\ z \in 0 .. p
    BY <1>3, <1>5, <2>1, <2>2
  <2>4. /\ x \in Nat \ {0} /\ n \in Nat \ {0} /\ n < x /\ R \in Nat /\ R + x = z /\ R >= a
        /\ x - n \in 1 .. m /\ z - (x - n) = R + n /\ R + 1 \in a + 1 .. p /\ (R + 1) + n <= p
        /\ (R + 1) + n <= p + 1 /\ (R + 1) + n = (R + n) + 1
    BY ONLY <2>3
  <2>5. QED
    BY ONLY <1>5, <2>1, <2>2, <2>4
<1>8. cur = place[(R + 1) + n] /\ cur \in Cursors
  <2>1. PICK b, lo, j : b = k.cbuf /\ lo = off[d] /\ j = R + 1
    OBVIOUS
  <2>2. /\ Paged(b) /\ Laid(b, place, lo) /\ n \in Nat /\ j \in lo + 1 .. Len(place)
        /\ j + n <= Len(place) + 1 /\ j + n <= Len(place)
    BY <1>3, <1>6, <2>1
  <2>3. cbuf_advance_cursor(b, place[j], n) \in Cursors
    BY ONLY <2>2, AdvanceFollows
  <2>4. cbuf_advance_cursor(b, place[j], n) = place[j + n]
    BY ONLY <2>2, AdvanceFollows
  <2>5. QED
    BY <1>4, <2>1, <2>3, <2>4
<1>9. Reached(k, r, st, off) = R + n
  BY <1>3, <1>5, <1>6 DEF Reached
<1>10. Sender(r)
  <2>1. r.length \in Int
    BY <1>5, <1>6
  <2>2. QED
    BY <1>3, <1>5, <1>8, <2>1 DEF Sender
<1>11. taken[Len(w)] = d
  BY <1>3, <1>6
<1>12. Poised(k, r, st, w, off, all, place, taken)
  BY <1>3, <1>5, <1>6, <1>8, <1>9, <1>10, <1>11 DEF Poised
<1>13. QED
  BY <1>12, ToWriteKeeps

\* Consumed() takes the first message from the queue and from the pages.
LEMMA ConsumedStock ==
  ASSUME NEW k, NEW st, NEW off, NEW all, NEW place, NEW d, Client(k),
         Offsets(st, off, all), Stock(k, st, off, all, place), k.messages # <<>>, d = Gone(k, st),
         NEW n, n = Consumed(k)
  PROVE  Client(n) /\ Stock(n, st, off, all, place) /\ Gone(n, st) = d + 1
<1>1. /\ Len(st) \in Nat /\ Len(k.messages) \in Nat \ {0} /\ Len(all) \in Nat
      /\ Len(place) = Len(all) /\ k.messages \in Seq([msg : Messages, cursor : Cursors])
  <2>1. Len(st) \in Nat /\ Len(all) \in Nat
    BY OffsetsGrow
  <2>2. Len(k.messages) \in Nat /\ Len(k.messages) # 0
    BY LenProperties, EmptySeq DEF Client
  <2>3. QED
    BY <2>1, <2>2 DEF Stock, Client
<1>2. d \in 0 .. Len(st) /\ d + 1 \in 0 .. Len(st) /\ d + 1 \in 1 .. Len(st) /\ (d + 1) - 1 = d
      /\ Len(st) = d + Len(k.messages)
  BY <1>1 DEF Stock, Gone
<1>3. PICK lo, z, len : lo = off[d] /\ z = off[d + 1] /\ len = st[d + 1].len
  OBVIOUS
<1>4. lo \in 0 .. Len(all) /\ z \in 0 .. Len(all) /\ len \in Nat \ {0} /\ lo + len = z
  <2>1. off[d] \in 0 .. Len(all) /\ off[d + 1] \in 0 .. Len(all)
    BY <1>2, OffsetsGrow
  <2>2. off[d + 1] = off[(d + 1) - 1] + st[d + 1].len /\ st[d + 1].len \in Nat \ {0}
    <3>1. \A i \in 1 .. Len(st) : st[i].len \in Nat \ {0} /\ off[i] = off[i - 1] + st[i].len
      BY OffsetsGrow
    <3>2. PICK e : e = d + 1
      OBVIOUS
    <3>3. e \in 1 .. Len(st)
      BY <1>2, <3>2
    <3>4. QED
      BY ONLY <3>1, <3>2, <3>3
  <2>3. QED
    BY <1>2, <1>3, <2>1, <2>2
<1>5. k.messages[1] = [msg |-> st[d + 1], cursor |-> place[lo + 1]]
  <2>1. 1 \in 1 .. Len(k.messages) /\ d + 1 - 1 = d
    BY <1>1, <1>2
  <2>2. QED
    BY <1>3, <2>1 DEF Stock
<1>6. Head(k.messages) = k.messages[1]
  BY <1>1
<1>7. PICK b, m : b = k.cbuf /\ m = cbuf_consume_cursor(b, place[lo + 1], len)
  OBVIOUS
<1>8. /\ DOMAIN n = DOMAIN k /\ n.cbuf = m /\ n.messages = Tail(k.messages)
  BY <1>3, <1>5, <1>6, <1>7 DEF Consumed, Client
<1>9. /\ Paged(b) /\ Laid(b, place, lo) /\ lo < Len(place) /\ len \in Nat /\ lo + len <= Len(place)
  BY <1>1, <1>3, <1>4, <1>7 DEF Stock
<1>10. /\ Paged(m) /\ Laid(m, place, lo + len)
       /\ \A j \in lo + len + 1 .. Len(place) : Unit(m, place[j]) = Unit(b, place[j])
  <2>1. m = cbuf_consume_cursor(b, place[lo + 1], len)
    BY <1>7
  <2>2. QED
    BY ONLY <1>9, <2>1, ConsumeKeeps
<1>11. /\ n.messages \in Seq([msg : Messages, cursor : Cursors])
       /\ Len(n.messages) = Len(k.messages) - 1
       /\ \A i \in 1 .. Len(n.messages) : n.messages[i] = k.messages[i + 1]
  BY <1>1, <1>8, HeadTailProperties
<1>12. Gone(n, st) = d + 1
  BY <1>1, <1>2, <1>11 DEF Gone
<1>13. Client(n)
  BY <1>8, <1>11 DEF Client
<1>14. \A j \in z + 1 .. Len(all) : Unit(m, place[j]) = all[j]
  <2>1. TAKE j \in z + 1 .. Len(all)
  <2>2. j \in lo + len + 1 .. Len(place) /\ j \in lo + 1 .. Len(all)
    BY <1>1, <1>4
  <2>3. Unit(b, place[j]) = all[j]
    BY <1>3, <1>7, <2>2 DEF Stock
  <2>4. QED
    BY <1>10, <2>2, <2>3
<1>15. ASSUME NEW i \in 1 .. Len(n.messages)
       PROVE  n.messages[i] = [msg |-> st[(d + 1) + i], cursor |-> place[off[(d + 1) + i - 1] + 1]]
  <2>1. i + 1 \in 1 .. Len(k.messages) /\ d + (i + 1) = (d + 1) + i /\ d + (i + 1) - 1 = (d + 1) + i - 1
    <3>1. PICK x : x = Len(k.messages)
      OBVIOUS
    <3>2. x \in Nat \ {0} /\ d \in Nat /\ i \in 1 .. x - 1
      BY <1>1, <1>2, <1>11, <3>1
    <3>3. QED
      BY ONLY <3>1, <3>2
  <2>2. k.messages[i + 1] = [msg |-> st[d + (i + 1)], cursor |-> place[off[d + (i + 1) - 1] + 1]]
    BY <2>1 DEF Stock
  <2>3. QED
    BY <1>11, <2>1, <2>2
<1>16. Len(n.messages) <= Len(st)
  BY <1>1, <1>2, <1>11
<1>17. Stock(n, st, off, all, place)
  <2>1. Laid(m, place, z)
    BY <1>4, <1>10
  <2>2. QED
    BY <1>1, <1>3, <1>8, <1>10, <1>12, <1>14, <1>15, <1>16, <2>1 DEF Stock
<1>18. QED
  BY <1>12, <1>13, <1>17

\* SenderSent(), at the end of a message: it leaves the queue.
LEMMA SentWhole ==
  ASSUME NEW k, NEW s, NEW st, NEW w, NEW off, NEW all, NEW place, NEW taken,
         View(k, s, st, w, off, all, place, taken), s.pc = "sent", s.result >= 0,
         NEW r, r = [s EXCEPT !.cursor = cbuf_advance_cursor(k.cbuf, @, s.result),
                              !.length = @ - s.result],
         ~(r.length > 0), NEW q, q = Consumed(k)
  PROVE  View(q, Continue(q, r), st, w, off, all, place, taken)
<1>1. PICK n : n = s.result
  OBVIOUS
<1>2. PICK d, R : Accounted(k, s, st, w, off, all, place, taken, d, R, n)
  BY <1>1, SentIsAccounted
<1>3. /\ Client(k) /\ Sender(s) /\ Offsets(st, off, all) /\ Stock(k, st, off, all, place)
      /\ Replay(w, st, off, all, taken) /\ k.messages # <<>> /\ s.connected
      /\ d = Gone(k, st) /\ R = off[d + 1] - s.length
      /\ Paged(k.cbuf) /\ Laid(k.cbuf, place, off[d])
      /\ Len(all) \in Nat /\ Len(place) = Len(all)
      /\ off[d] \in 0 .. Len(all) /\ off[d + 1] \in 0 .. Len(all)
      /\ off[d + 1] = off[d] + st[d + 1].len /\ st[d + 1].len \in Nat \ {0}
      /\ s.length \in 1 .. st[d + 1].len /\ n \in 1 .. s.length
      /\ s.cursor = place[R + 1]
      /\ taken[Len(w)] = IF n = s.length THEN d + 1 ELSE d
      /\ w # <<>> /\ w[Len(w)] # <<>> /\ ~Cut(w[Len(w)]) /\ UpTo(w, off, taken, Len(w)) = R + n
  BY <1>2 DEF Accounted
<1>4. PICK cur : cur = cbuf_advance_cursor(k.cbuf, place[R + 1], n)
  OBVIOUS
<1>5. /\ r.length = s.length - n /\ r.cursor = cur /\ DOMAIN r = DOMAIN s
      /\ r.connected = s.connected /\ r.result = s.result
  BY <1>1, <1>3, <1>4 DEF Sender
<1>6. /\ n = s.length /\ R + n = off[d + 1] /\ r.length = 0 /\ n \in Nat
      /\ R + 1 \in off[d] + 1 .. Len(place) /\ (R + 1) + n <= Len(place) + 1
  <2>1. PICK x : x = s.length
    OBVIOUS
  <2>2. PICK a, z, m, p : a = off[d] /\ z = off[d + 1] /\ m = st[d + 1].len /\ p = Len(place)
    OBVIOUS
  <2>3. /\ m \in Nat \ {0} /\ x \in 1 .. m /\ n \in 1 .. x /\ ~(x - n > 0) /\ R = z - x /\ z = a + m
        /\ p \in Nat /\ a \in 0 .. p /\ z \in 0 .. p
    BY <1>3, <1>5, <2>1, <2>2
  <2>4. n = x /\ x - n = 0 /\ R + n = z /\ n \in Nat /\ R + 1 \in a + 1 .. p /\ (R + 1) + n <= p + 1
    BY ONLY <2>3
  <2>5. QED
    BY ONLY <1>5, <2>1, <2>2, <2>4
<1>7. cur \in Cursors
  <2>1. PICK b, lo, j : b = k.cbuf /\ lo = off[d] /\ j = R + 1
    OBVIOUS
  <2>2. /\ Paged(b) /\ Laid(b, place, lo) /\ n \in Nat /\ j \in lo + 1 .. Len(place)
        /\ j + n <= Len(place) + 1
    BY <1>3, <1>6, <2>1
  <2>3. cbuf_advance_cursor(b, place[j], n) \in Cursors
    BY ONLY <2>2, AdvanceFollows
  <2>4. QED
    BY <1>4, <2>1, <2>3
<1>8. Sender(r)
  <2>1. r.length \in Int
    BY <1>6
  <2>2. QED
    BY <1>3, <1>5, <1>7, <2>1 DEF Sender
<1>9. Client(q) /\ Stock(q, st, off, all, place) /\ Gone(q, st) = d + 1
  <2>1. /\ Client(k) /\ Offsets(st, off, all) /\ Stock(k, st, off, all, place)
        /\ k.messages # <<>> /\ d = Gone(k, st)
    BY <1>3
  <2>2. q = Consumed(k)
    OBVIOUS
  <2>3. QED
    BY ONLY <2>1, <2>2, ConsumedStock
<1>10. PICK x : x = [r EXCEPT !.pc = "wait"]
  OBVIOUS
<1>11. Sender(x) /\ x.pc = "wait" /\ x.connected = s.connected
  BY <1>5, <1>8, <1>10 DEF Sender
<1>12. ~Busy(x) /\ x.pc # "sent" /\ x.pc # "connect" /\ x.pc # "relock"
  BY <1>11 DEF Busy
<1>13. InStep(q, x, st, w, off, taken)
  <2>1. taken[Len(w)] = d + 1 /\ UpTo(w, off, taken, Len(w)) = off[d + 1]
    BY <1>3, <1>6
  <2>2. QED
    BY <1>3, <1>9, <1>12, <2>1 DEF InStep
<1>14. View(q, x, st, w, off, all, place, taken)
  BY <1>3, <1>9, <1>11, <1>12, <1>13 DEF View
<1>15. QED
  BY <1>8, <1>10, <1>14, ContinueKeeps

\* The same for a sender that goes on from there.
LEMMA CalmContinue ==
  ASSUME NEW k, NEW s, NEW st, NEW w, NEW off, NEW all, NEW place, NEW taken,
         View(k, s, st, w, off, all, place, taken), NEW n, Sender(n),
         ~Busy(s) \/ (s.pc = "sent" /\ s.result = -1),
         n.connected => s.connected /\ ~Busy(s) /\ s.pc # "relock"
  PROVE  View(k, Continue(k, n), st, w, off, all, place, taken)
<1>1. PICK x : x = [n EXCEPT !.pc = "wait"]
  OBVIOUS
<1>2. x.pc = "wait" /\ x.connected = n.connected /\ Sender(x)
  BY <1>1 DEF Sender
<1>3. /\ x.pc \notin {"send", "sent"} /\ (x.pc = "connect" => ~x.connected)
      /\ (x.connected => s.connected /\ ~Busy(s) /\ s.pc # "relock" /\ x.pc # "relock")
  BY <1>2
<1>4. /\ View(k, s, st, w, off, all, place, taken)
      /\ ~Busy(s) \/ (s.pc = "sent" /\ s.result = -1)
  OBVIOUS
<1>5. View(k, x, st, w, off, all, place, taken)
  BY ONLY <1>2, <1>3, <1>4, CalmSender
<1>6. QED
  BY <1>1, <1>5, ContinueKeeps

\* SenderConnects(): a connection that carries nothing yet.
LEMMA ConnectsKeeps ==
  ASSUME NEW k, NEW s, NEW st, NEW w, NEW off, NEW all, NEW place, NEW taken,
         View(k, s, st, w, off, all, place, taken), s.pc = "connect",
         NEW r, r = [s EXCEPT !.connected = TRUE, !.pc = "relock"],
         NEW v, v = Append(w, <<>>)
  PROVE  \E took : View(k, r, st, v, off, all, place, took)
<1>1. PICK d : d = Gone(k, st)
  OBVIOUS
<1>2. PICK L : L = Len(w)
  OBVIOUS
<1>3. PICK took : took = [n \in 0 .. L + 1 |-> IF n = L + 1 THEN d ELSE taken[n]]
  OBVIOUS
<1>4. /\ Client(k) /\ Sender(s) /\ Offsets(st, off, all) /\ Stock(k, st, off, all, place)
      /\ Replay(w, st, off, all, taken) /\ taken[L] = d
  BY <1>1, <1>2 DEF View, InStep
<1>5. /\ L \in Nat /\ w \in Seq(Seq(Data)) /\ taken \in [0 .. L -> 0 .. Len(st)] /\ taken[0] = 0
  BY <1>2, <1>4, LenProperties DEF Replay
<1>6. Numbers(k, st, w, off, all, place, d)
  BY <1>1, ViewNumbers
<1>7. d \in 0 .. Len(st) /\ off[d] \in 0 .. Len(all) /\ Len(st) \in Nat /\ Len(all) \in Nat
  BY <1>6 DEF Numbers
<1>8. /\ v \in Seq(Seq(Data)) /\ Len(v) = L + 1 /\ v[L + 1] = <<>> /\ v # <<>>
      /\ \A n \in 1 .. L : v[n] = w[n]
  <2>1. <<>> \in Seq(Data)
    OBVIOUS
  <2>2. v \in Seq(Seq(Data)) /\ Len(v) = L + 1 /\ v[L + 1] = <<>> /\ \A n \in 1 .. L : v[n] = w[n]
    BY <1>2, <1>5, <2>1, AppendProperties
  <2>3. QED
    BY <1>5, <2>2, EmptySeq
<1>9. /\ took \in [0 .. L + 1 -> 0 .. Len(st)] /\ took[L + 1] = d /\ took[0] = 0
      /\ \A n \in 0 .. L : took[n] = taken[n]
  BY <1>3, <1>5, <1>7
<1>10. Carried(v[L + 1]) = 0 /\ (L + 1) - 1 = L /\ L \in 0 .. L
  BY <1>5, <1>8 DEF Carried
<1>11. UpTo(v, off, took, L + 1) = off[d]
  <2>1. took[(L + 1) - 1] = d
    BY <1>4, <1>9, <1>10
  <2>2. off[d] + 0 = off[d]
    BY <1>7
  <2>3. QED
    BY <1>10, <2>1, <2>2 DEF UpTo
<1>12. ASSUME NEW n \in 1 .. L + 1
       PROVE  /\ v[n] # <<>> => Headed(v[n])
              /\ \A t \in 1 .. Carried(v[n]) : v[n][t + 1] = all[off[took[n - 1]] + t]
              /\ off[took[n]] <= UpTo(v, off, took, n) /\ UpTo(v, off, took, n) <= Len(all)
              /\ took[n] < Len(st) => UpTo(v, off, took, n) < off[took[n] + 1]
  <2>1. CASE n = L + 1
    <3>1. d < Len(st) => off[d] < off[d + 1]
      <4>1. HAVE d < Len(st)
      <4>2. d + 1 \in 0 .. Len(st) /\ d < d + 1
        BY <1>7, <4>1
      <4>3. QED
        BY <1>4, <1>7, <4>2, OffsetsGrow
    <3>2. \A t \in 1 .. Carried(v[n]) : FALSE
      <4>1. Carried(v[n]) = 0
        BY <1>10, <2>1
      <4>2. QED
        BY ONLY <4>1
    <3>3. off[d] <= off[d] /\ off[d] <= Len(all)
      BY <1>7
    <3>4. QED
      BY <1>8, <1>9, <1>11, <2>1, <3>1, <3>2, <3>3
  <2>2. CASE n # L + 1
    <3>1. n \in 1 .. L /\ n \in 0 .. L /\ n - 1 \in 0 .. L
      BY <1>5, <2>2
    <3>2. v[n] = w[n] /\ took[n] = taken[n] /\ took[n - 1] = taken[n - 1]
      BY <1>8, <1>9, <3>1
    <3>3. UpTo(v, off, took, n) = UpTo(w, off, taken, n)
      BY <3>2 DEF UpTo
    <3>4. QED
      BY <1>2, <1>4, <3>1, <3>2, <3>3 DEF Replay
  <2>3. QED
    BY <2>1, <2>2
<1>13. Replay(v, st, off, all, took)
  BY <1>8, <1>9, <1>12 DEF Replay
<1>14. /\ Sender(r) /\ r.pc = "relock" /\ r.connected = TRUE /\ ~Busy(r)
  BY <1>4 DEF Sender, Busy
<1>15. InStep(k, r, st, v, off, took)
  <2>1. v[Len(v)] = <<>> /\ ~Cut(v[Len(v)])
    BY <1>8 DEF Cut
  <2>2. QED
    BY <1>1, <1>8, <1>9, <1>11, <1>14, <2>1 DEF InStep
<1>16. View(k, r, st, v, off, all, place, took)
  BY <1>4, <1>13, <1>14, <1>15 DEF View
<1>17. QED
  BY <1>16

\* What there may be of the headers.
HeaderBlocks == {<<>>, <<HeaderUnit>>, <<DamagedHeaders>>, <<CutHeaders>>}
\* They are on the last connection, v instead of w, and they are all of it.
Started(k, st, v, h, off, all, taken) ==
  /\ Replay(v, st, off, all, taken) /\ v # <<>> /\ v[Len(v)] = h
  /\ UpTo(v, off, taken, Len(v)) = off[Gone(k, st)] /\ taken[Len(v)] = Gone(k, st)

LEMMA HeadersStart ==
  ASSUME NEW k, NEW s, NEW st, NEW w, NEW off, NEW all, NEW place, NEW taken,
         View(k, s, st, w, off, all, place, taken), s.pc = "relock", s.connected,
         NEW h \in HeaderBlocks, NEW v, v = [w EXCEPT ![Len(w)] = @ \o h]
  PROVE  Started(k, st, v, h, off, all, taken)
<1>1. PICK L : L = Len(w)
  OBVIOUS
<1>2. /\ Client(k) /\ Sender(s) /\ Offsets(st, off, all) /\ Stock(k, st, off, all, place)
      /\ Replay(w, st, off, all, taken) /\ ~Busy(s)
      /\ w # <<>> /\ w[L] = <<>> /\ taken[L] = Gone(k, st)
      /\ UpTo(w, off, taken, L) = off[Gone(k, st)]
  BY <1>1 DEF View, InStep, Busy
<1>3. L \in Nat \ {0} /\ w \in Seq(Seq(Data)) /\ L \in 1 .. L
  <2>1. w \in Seq(Seq(Data)) /\ L \in Nat /\ L # 0
    BY <1>1, <1>2, LenProperties, EmptySeq DEF Replay
  <2>2. QED
    BY <2>1
<1>5. h \in Seq(Data) /\ (h # <<>> => Len(h) = 1 /\ Headed(h))
  <2>1. HeaderUnit \in Data /\ DamagedHeaders \in Data /\ CutHeaders \in Data
    BY DEF HeaderUnit, DamagedHeaders, CutHeaders, Data
  <2>2. CASE h = <<>>
    BY <2>2
  <2>3. CASE h # <<>>
    <3>1. PICK x \in {HeaderUnit, DamagedHeaders, CutHeaders} : h = <<x>>
      BY <2>3 DEF HeaderBlocks
    <3>2. x \in Data /\ Len(h) = 1 /\ h[1] = x
      BY <2>1, <3>1
    <3>3. QED
      BY <3>1, <3>2 DEF Headed
  <2>4. QED
    BY <2>2, <2>3
<1>6. v = [w EXCEPT ![L] = h]
  <2>1. <<>> \o h = h
    BY <1>5
  <2>2. QED
    BY <1>1, <1>2, <1>3, <2>1
<1>7. /\ v \in Seq(Seq(Data)) /\ Len(v) = L /\ v # <<>> /\ v[L] = h
      /\ \A n \in 1 .. L : v[n] = IF n = L THEN h ELSE w[n]
  <2>1. /\ [w EXCEPT ![L] = h] \in Seq(Seq(Data)) /\ Len([w EXCEPT ![L] = h]) = Len(w)
        /\ \A n \in 1 .. Len(w) : [w EXCEPT ![L] = h][n] = IF n = L THEN h ELSE w[n]
    BY ONLY <1>1, <1>3, <1>5, ExceptSeq
  <2>2. QED
    BY <1>1, <1>3, <1>6, <2>1, EmptySeq
<1>8. Carried(v[L]) = 0 /\ Carried(w[L]) = 0
  BY <1>2, <1>5, <1>7 DEF Carried
<1>9. \A n \in 1 .. L : Carried(v[n]) = Carried(w[n]) /\ UpTo(v, off, taken, n) = UpTo(w, off, taken, n)
  <2>1. TAKE n \in 1 .. L
  <2>2. Carried(v[n]) = Carried(w[n])
    <3>1. CASE n = L
      BY <1>8, <3>1
    <3>2. CASE n # L
      BY <1>7, <3>2
    <3>3. QED
      BY <3>1, <3>2
  <2>3. QED
    BY <2>2 DEF UpTo
<1>10. Replay(v, st, off, all, taken)
  <2>1. ASSUME NEW n \in 1 .. L
        PROVE  /\ v[n] # <<>> => Headed(v[n])
               /\ \A t \in 1 .. Carried(v[n]) : v[n][t + 1] = all[off[taken[n - 1]] + t]
               /\ off[taken[n]] <= UpTo(v, off, taken, n) /\ UpTo(v, off, taken, n) <= Len(all)
               /\ taken[n] < Len(st) => UpTo(v, off, taken, n) < off[taken[n] + 1]
    <3>1. v[n] # <<>> => Headed(v[n])
      BY <1>1, <1>2, <1>5, <1>7 DEF Replay
    <3>2. \A t \in 1 .. Carried(v[n]) : v[n][t + 1] = all[off[taken[n - 1]] + t]
      <4>1. CASE n = L
        <5>1. \A t \in 1 .. Carried(v[n]) : FALSE
          BY <1>8, <4>1
        <5>2. QED
          BY <5>1
      <4>2. CASE n # L
        BY <1>1, <1>2, <1>7, <4>2 DEF Replay
      <4>3. QED
        BY <4>1, <4>2
    <3>3. QED
      BY <1>1, <1>2, <1>9, <3>1, <3>2 DEF Replay
  <2>2. QED
    BY <1>1, <1>2, <1>7, <2>1 DEF Replay
<1>11. QED
  BY <1>2, <1>3, <1>7, <1>9, <1>10 DEF Started

\* SenderSendsHeaders(): the headers are out, or damaged.
LEMMA HeadersKeep ==
  ASSUME NEW k, NEW s, NEW st, NEW w, NEW off, NEW all, NEW place, NEW taken,
         View(k, s, st, w, off, all, place, taken), s.pc = "relock", s.connected,
         NEW u \in {HeaderUnit, DamagedHeaders}, NEW v, v = [w EXCEPT ![Len(w)] = @ \o <<u>>]
  PROVE  View(k, Continue(k, s), st, v, off, all, place, taken)
<1>1. /\ Client(k) /\ Sender(s) /\ Offsets(st, off, all) /\ Stock(k, st, off, all, place) /\ ~Busy(s)
  BY DEF View, Busy
<1>2. PICK h : h = <<u>>
  OBVIOUS
<1>3. h \in HeaderBlocks /\ h # <<>> /\ ~Cut(h)
  <2>1. u # CutHeaders
    BY DEF HeaderUnit, DamagedHeaders, CutHeaders
  <2>2. h[1] = u /\ h # <<>>
    BY <1>2
  <2>3. QED
    BY <1>2, <2>1, <2>2 DEF HeaderBlocks, Cut
<1>4. Started(k, st, v, h, off, all, taken)
  BY <1>2, <1>3, HeadersStart
<1>5. PICK x : x = [s EXCEPT !.pc = "wait"]
  OBVIOUS
<1>6. Sender(x) /\ x.pc = "wait" /\ x.connected = s.connected /\ ~Busy(x)
  BY <1>1, <1>5 DEF Sender, Busy
<1>7. InStep(k, x, st, v, off, taken)
  BY <1>3, <1>4, <1>6 DEF InStep, Started
<1>8. View(k, x, st, v, off, all, place, taken)
  BY <1>1, <1>4, <1>6, <1>7 DEF View, Started
<1>9. QED
  BY <1>1, <1>5, <1>8, ContinueKeeps

\* SenderSendsHeaders(): they are not, or only in part.
LEMMA HeadersCut ==
  ASSUME NEW k, NEW s, NEW st, NEW w, NEW off, NEW all, NEW place, NEW taken,
         View(k, s, st, w, off, all, place, taken), s.pc = "relock", s.connected,
         NEW h \in {<<>>, <<CutHeaders>>}, NEW v, v = [w EXCEPT ![Len(w)] = @ \o h],
         NEW n, n = [s EXCEPT !.connected = FALSE, !.pc = "wait"]
  PROVE  View(k, n, st, v, off, all, place, taken)
<1>1. /\ Client(k) /\ Sender(s) /\ Offsets(st, off, all) /\ Stock(k, st, off, all, place)
  BY DEF View
<1>2. Started(k, st, v, h, off, all, taken)
  <2>1. h \in HeaderBlocks
    BY DEF HeaderBlocks
  <2>2. QED
    BY <2>1, HeadersStart
<1>3. Sender(n) /\ n.pc = "wait" /\ n.connected = FALSE /\ ~Busy(n)
  BY <1>1 DEF Sender, Busy
<1>4. InStep(k, n, st, v, off, taken)
  BY <1>2, <1>3 DEF InStep, Started
<1>5. QED
  BY <1>1, <1>2, <1>3, <1>4 DEF View, Started

\* One more message m is stored: so, where and what.
More(st, off, all, m, st2, off2, all2) ==
  /\ Offsets(st, off, all) /\ Offsets(st2, off2, all2) /\ m \in Messages
  /\ Len(st2) = Len(st) + 1 /\ st2[Len(st) + 1] = m
  /\ \A n \in 1 .. Len(st) : st2[n] = st[n]
  /\ \A n \in 0 .. Len(st) : off2[n] = off[n]
  /\ off2[Len(st) + 1] = Len(all) + m.len /\ Len(all2) = Len(all) + m.len
  /\ \A j \in 1 .. Len(all) : all2[j] = all[j]
  /\ \A t \in 1 .. m.len : all2[Len(all) + t] = Units(m)[t]

LEMMA UnitsFacts ==
  ASSUME NEW m \in Messages
  PROVE  /\ Units(m) \in Seq(Nat \X Nat) /\ Units(m) \in Seq(Data) /\ Len(Units(m)) = m.len
         /\ m.len \in Nat \ {0} /\ \A t \in 1 .. m.len : Units(m)[t] = <<m.id, t>>
<1>1. m.len \in Nat \ {0} /\ m.id \in Nat
  BY DEF Messages
<1>2. \A t \in 1 .. m.len : Units(m)[t] = <<m.id, t>> /\ <<m.id, t>> \in Nat \X Nat
  BY <1>1 DEF Units
<1>3. Units(m) \in [1 .. m.len -> Nat \X Nat]
  BY <1>1 DEF Units
<1>4. Units(m) \in [1 .. m.len -> Data]
  BY <1>3 DEF Data
<1>5. Units(m) \in Seq(Nat \X Nat) /\ Len(Units(m)) = m.len
  BY <1>1, <1>3
<1>6. Units(m) \in Seq(Data)
  BY <1>1, <1>4
<1>7. QED
  BY <1>1, <1>2, <1>5, <1>6

LEMMA OffsetsMore ==
  ASSUME NEW st, NEW off, NEW all, Offsets(st, off, all), NEW m \in Messages
  PROVE  \E off2, all2 : More(st, off, all, m, Append(st, m), off2, all2)
<1>1. PICK n, a, len, u : n = Len(st) /\ a = Len(all) /\ len = m.len /\ u = Units(m)
  OBVIOUS
<1>2. PICK st2 : st2 = Append(st, m)
  OBVIOUS
<1>3. PICK off2 : off2 = [i \in 0 .. n + 1 |-> IF i = n + 1 THEN a + len ELSE off[i]]
  OBVIOUS
<1>4. PICK all2 : all2 = all \o u
  OBVIOUS
<1>5. /\ n \in Nat /\ a \in Nat /\ a = off[n] /\ \A i \in 0 .. n : off[i] \in Nat
      /\ st \in Seq(Messages) /\ all \in Seq(Nat \X Nat) /\ off[0] = 0
  BY <1>1, OffsetsGrow DEF Offsets
<1>6. /\ u \in Seq(Nat \X Nat) /\ Len(u) = len /\ len \in Nat \ {0}
      /\ \A t \in 1 .. len : u[t] = <<m.id, t>>
  BY <1>1, UnitsFacts
<1>7. st2 \in Seq(Messages) /\ Len(st2) = n + 1 /\ st2[n + 1] = m /\ \A i \in 1 .. n : st2[i] = st[i]
  BY <1>1, <1>2, <1>5, AppendProperties
<1>8. /\ off2 \in [0 .. n + 1 -> Nat] /\ off2[n + 1] = a + len
      /\ \A i \in 0 .. n : off2[i] = off[i]
  BY <1>3, <1>5, <1>6
<1>9. /\ all2 \in Seq(Nat \X Nat) /\ Len(all2) = a + len
      /\ \A j \in 1 .. Len(all2) : all2[j] = IF j <= a THEN all[j] ELSE u[j - a]
  <2>1. /\ all \o u \in Seq(Nat \X Nat) /\ Len(all \o u) = Len(all) + Len(u)
        /\ \A j \in 1 .. Len(all) + Len(u) :
             (all \o u)[j] = IF j <= Len(all) THEN all[j] ELSE u[j - Len(all)]
    BY ONLY <1>5, <1>6, ConcatProperties
  <2>2. QED
    BY ONLY <1>1, <1>4, <1>6, <2>1
<1>10. \A j \in 1 .. a : all2[j] = all[j]
  <2>1. \A j \in 1 .. a : j \in 1 .. Len(all2) /\ j <= a
    BY <1>5, <1>6, <1>9
  <2>2. QED
    BY <1>9, <2>1
<1>11. \A t \in 1 .. len : all2[a + t] = u[t]
  <2>1. \A t \in 1 .. len : a + t \in 1 .. Len(all2) /\ ~(a + t <= a) /\ (a + t) - a = t
    <3>1. TAKE t \in 1 .. len
    <3>2. Len(all2) = a + len /\ a \in Nat /\ len \in Nat
      BY <1>5, <1>6, <1>9
    <3>3. QED
      BY ONLY <3>2, t \in 1 .. len
  <2>2. QED
    BY <1>9, <2>1
<1>12. ASSUME NEW i \in 1 .. n + 1
       PROVE  /\ off2[i] = off2[i - 1] + st2[i].len
              /\ \A t \in 1 .. st2[i].len : all2[off2[i - 1] + t] = <<st2[i].id, t>>
  <2>1. CASE i = n + 1
    <3>1. off2[i - 1] = a /\ st2[i] = m /\ off2[i] = a + len
      <4>1. i - 1 = n /\ n \in 0 .. n
        BY <1>5, <2>1
      <4>2. QED
        BY <1>5, <1>7, <1>8, <2>1, <4>1
    <3>2. QED
      BY <1>1, <1>6, <1>11, <3>1
  <2>2. CASE i # n + 1
    <3>1. i \in 1 .. n /\ i \in 0 .. n /\ i - 1 \in 0 .. n
      BY <1>5, <2>2
    <3>2. off2[i] = off[i] /\ off2[i - 1] = off[i - 1] /\ st2[i] = st[i]
      BY <1>7, <1>8, <3>1
    <3>3. /\ off[i] = off[i - 1] + st[i].len /\ st[i].len \in Nat \ {0}
          /\ off[i] \in 0 .. a /\ off[i - 1] \in 0 .. a
      BY <1>1, <3>1, OffsetsGrow
    <3>4. ASSUME NEW t \in 1 .. st[i].len PROVE all2[off[i - 1] + t] = <<st[i].id, t>>
      <4>1. off[i - 1] + t \in 1 .. a
        <5>1. PICK o, z, l : o = off[i - 1] /\ z = off[i] /\ l = st[i].len
          OBVIOUS
        <5>2. a \in Nat /\ o \in 0 .. a /\ z \in 0 .. a /\ l \in Nat \ {0} /\ z = o + l /\ t \in 1 .. l
          BY <1>5, <3>3, <5>1
        <5>3. o + t \in 1 .. a
          BY ONLY <5>2
        <5>4. QED
          BY <5>1, <5>3
      <4>2. all[off[i - 1] + t] = <<st[i].id, t>>
        BY <1>1, <3>1 DEF Offsets
      <4>3. QED
        BY <1>10, <4>1, <4>2
    <3>5. QED
      BY <3>2, <3>3, <3>4
  <2>3. QED
    BY <2>1, <2>2
<1>13. Offsets(st2, off2, all2)
  <2>1. off2[0] = 0
    BY <1>5, <1>8
  <2>2. Len(all2) = off2[Len(st2)]
    BY <1>7, <1>8, <1>9
  <2>3. QED
    BY <1>7, <1>8, <1>9, <1>12, <2>1, <2>2 DEF Offsets
<1>14. More(st, off, all, m, st2, off2, all2)
  BY <1>1, <1>7, <1>8, <1>9, <1>10, <1>11, <1>13 DEF More
<1>15. QED
  BY <1>2, <1>14

\* store_received_message() for queue and pages: the message is behind the others.
LEMMA StockMore ==
  ASSUME NEW k, NEW st, NEW off, NEW all, NEW place, Client(k), Stock(k, st, off, all, place),
         NEW m, NEW st2, NEW off2, NEW all2, More(st, off, all, m, st2, off2, all2),
         k.cbuf.pages[k.cbuf.tail].fill # PageSize,
         NEW q, DOMAIN q = DOMAIN k, q.cbuf = cbuf_write(k.cbuf, Units(m)),
         q.messages = Append(k.messages, [msg |-> m, cursor |-> cbuf_write_cursor(k.cbuf)])
  PROVE  \E new : /\ Client(q) /\ Stock(q, st2, off2, all2, new) /\ Gone(q, st2) = Gone(k, st)
                  /\ \A j \in 1 .. Len(all) : new[j] = place[j]
<1>1. PICK b, c, u, len : b = k.cbuf /\ c = cbuf_write(b, u) /\ u = Units(m) /\ len = m.len
  OBVIOUS
<1>2. PICK d, a, n, x : d = Gone(k, st) /\ a = Len(all) /\ n = Len(st) /\ x = Len(k.messages)
  OBVIOUS
<1>3. PICK lo, node : lo = off[d] /\ node = [msg |-> m, cursor |-> cbuf_write_cursor(b)]
  OBVIOUS
<1>4. /\ m \in Messages /\ u \in Seq(Data) /\ Len(u) = len /\ len \in Nat \ {0}
  BY <1>1, UnitsFacts DEF More
<1>5. /\ n \in Nat /\ a \in Nat /\ a = off[n] /\ Offsets(st, off, all)
      /\ x \in Nat /\ Len(place) = a /\ x <= n
  <2>1. Offsets(st, off, all)
    BY DEF More
  <2>2. n \in Nat /\ a \in Nat /\ a = off[n]
    BY <1>2, <2>1, OffsetsGrow
  <2>3. x \in Nat
    BY <1>2, LenProperties DEF Client
  <2>4. QED
    BY <1>2, <2>1, <2>2, <2>3 DEF Stock
<1>6. d \in 0 .. n /\ n = d + x
  BY <1>2, <1>5 DEF Gone
<1>7. lo \in 0 .. a /\ off2[d] = lo
  <2>1. off[d] \in 0 .. a
    BY <1>2, <1>5, <1>6, OffsetsGrow
  <2>2. off2[d] = off[d]
    BY <1>2, <1>6 DEF More
  <2>3. QED
    BY <1>3, <2>1, <2>2
<1>8. Paged(b) /\ Laid(b, place, lo)
  BY <1>1, <1>2, <1>3 DEF Stock
<1>9. PICK new : Grown(b, place, lo, u, len, c, new)
  <2>1. c = cbuf_write(b, u)
    BY <1>1
  <2>2. \E new : Grown(b, place, lo, u, Len(u), c, new)
    BY ONLY <1>4, <1>8, <2>1, WriteKeeps
  <2>3. QED
    BY <1>4, <2>2
<1>10. /\ Paged(c) /\ Laid(c, new, lo) /\ Len(new) = a + len
       /\ \A j \in 1 .. a : new[j] = place[j]
       /\ \A j \in lo + 1 .. a : Unit(c, place[j]) = Unit(b, place[j])
       /\ \A t \in 1 .. len : Unit(c, new[a + t]) = u[t]
       /\ new[a + 1] = cbuf_write_cursor(b)
  <2>1. Slot(b) = cbuf_write_cursor(b)
    BY <1>1 DEF Slot, cbuf_write_cursor
  <2>2. len > 0
    BY <1>4
  <2>3. QED
    BY <1>5, <1>9, <2>1, <2>2 DEF Grown
<1>11. node \in [msg : Messages, cursor : Cursors]
  <2>1. a + 1 \in 1 .. Len(new) /\ new \in Seq(Cursors)
    <3>1. new \in Seq(Cursors)
      BY <1>10 DEF Laid, Spread
    <3>2. a \in Nat /\ len \in Nat \ {0}
      BY <1>4, <1>5
    <3>3. a + 1 \in 1 .. a + len
      BY ONLY <3>2
    <3>4. QED
      BY <1>10, <3>1, <3>3
  <2>2. cbuf_write_cursor(b) \in Cursors
    BY <1>10, <2>1, ElementOfSeq
  <2>3. QED
    BY <1>3, <1>4, <2>2
<1>12. /\ q.messages \in Seq([msg : Messages, cursor : Cursors]) /\ Len(q.messages) = x + 1
       /\ q.messages[x + 1] = node /\ \A i \in 1 .. x : q.messages[i] = k.messages[i]
  <2>1. k.messages \in Seq([msg : Messages, cursor : Cursors])
    BY DEF Client
  <2>2. q.messages = Append(k.messages, node)
    BY <1>1, <1>3
  <2>3. QED
    BY <1>2, <1>11, <2>1, <2>2, AppendProperties
<1>13. Client(q)
  BY <1>12 DEF Client
<1>14. Len(st2) = n + 1 /\ Len(all2) = a + len
  BY <1>1, <1>2 DEF More
<1>15. Gone(q, st2) = d
  <2>1. (n + 1) - (x + 1) = d
    BY <1>5, <1>6
  <2>2. QED
    BY <1>12, <1>14, <2>1 DEF Gone
<1>16. ASSUME NEW j \in lo + 1 .. Len(all2) PROVE Unit(c, new[j]) = all2[j]
  <2>1. CASE j <= a
    <3>1. j \in 1 .. a /\ j \in lo + 1 .. a
      BY <1>5, <1>7, <2>1
    <3>2. Unit(b, place[j]) = all[j]
      BY <1>1, <1>2, <1>3, <3>1 DEF Stock
    <3>3. all2[j] = all[j]
      BY <1>2, <3>1 DEF More
    <3>4. QED
      BY <1>10, <3>1, <3>2, <3>3
  <2>2. CASE ~(j <= a)
    <3>1. PICK t : t = j - a
      OBVIOUS
    <3>2. t \in 1 .. len /\ j = a + t
      <4>1. PICK y : y = Len(all2)
        OBVIOUS
      <4>2. /\ a \in Nat /\ len \in Nat /\ lo \in 0 .. a /\ y = a + len
            /\ j \in lo + 1 .. y
        BY <1>4, <1>5, <1>7, <1>14, <4>1
      <4>3. QED
        BY ONLY <2>2, <3>1, <4>2
    <3>3. all2[a + t] = u[t]
      BY <1>1, <1>2, <3>2 DEF More
    <3>4. QED
      BY <1>10, <3>2, <3>3
  <2>3. QED
    BY <2>1, <2>2
<1>17. ASSUME NEW i \in 1 .. x + 1
       PROVE  q.messages[i] = [msg |-> st2[d + i], cursor |-> new[off2[d + i - 1] + 1]]
  <2>1. CASE i = x + 1
    <3>1. d + i = n + 1 /\ d + i - 1 = n /\ n \in 0 .. n
      BY <1>5, <1>6, <2>1
    <3>2. st2[n + 1] = m /\ off2[n] = a
      BY <1>2, <1>5, <3>1 DEF More
    <3>3. QED
      BY <1>3, <1>10, <1>12, <2>1, <3>1, <3>2
  <2>2. CASE i # x + 1
    <3>1. i \in 1 .. x /\ d + i \in 1 .. n /\ d + i \in 0 .. n /\ d + i - 1 \in 0 .. n
          /\ d + i - 1 < d + i
      BY <1>5, <1>6, <2>2
    <3>2. st2[d + i] = st[d + i] /\ off2[d + i - 1] = off[d + i - 1]
      BY <1>2, <3>1 DEF More
    <3>3. off[d + i - 1] < off[d + i] /\ off[d + i] \in 0 .. a /\ off[d + i - 1] \in 0 .. a
      BY <1>2, <1>5, <3>1, OffsetsGrow
    <3>4. off[d + i - 1] + 1 \in 1 .. a
      BY <1>5, <3>3
    <3>5. k.messages[i] = [msg |-> st[d + i], cursor |-> place[off[d + i - 1] + 1]]
      BY <1>2, <3>1 DEF Stock
    <3>6. QED
      BY <1>10, <1>12, <3>1, <3>2, <3>4, <3>5
  <2>3. QED
    BY <2>1, <2>2
<1>18. Stock(q, st2, off2, all2, new)
  <2>1. x + 1 <= n + 1
    BY <1>5
  <2>2. q.cbuf = c
    BY <1>1
  <2>3. QED
    BY <1>7, <1>10, <1>12, <1>14, <1>15, <1>16, <1>17, <2>1, <2>2 DEF Stock
<1>19. QED
  BY <1>2, <1>10, <1>13, <1>15, <1>18

LEMMA ReplayStored ==
  ASSUME NEW w, NEW st, NEW off, NEW all, NEW taken, Replay(w, st, off, all, taken),
         NEW m, NEW st2, NEW off2, NEW all2, More(st, off, all, m, st2, off2, all2)
  PROVE  /\ Replay(w, st2, off2, all2, taken)
         /\ \A n \in 1 .. Len(w) : UpTo(w, off2, taken, n) = UpTo(w, off, taken, n)
<1>1. PICK L, x, a : L = Len(w) /\ x = Len(st) /\ a = Len(all)
  OBVIOUS
<1>2. /\ L \in Nat /\ x \in Nat /\ a \in Nat /\ off[x] = a /\ m.len \in Nat \ {0}
      /\ Len(st2) = x + 1 /\ Len(all2) = a + m.len /\ off2[x + 1] = a + m.len
      /\ w \in Seq(Seq(Data)) /\ taken \in [0 .. L -> 0 .. x]
  <2>1. Offsets(st, off, all) /\ m \in Messages
    BY DEF More
  <2>2. x \in Nat /\ a \in Nat /\ off[x] = a
    BY <1>1, <2>1, OffsetsGrow
  <2>3. m.len \in Nat \ {0}
    BY <2>1 DEF Messages
  <2>4. w \in Seq(Seq(Data)) /\ taken \in [0 .. L -> 0 .. x] /\ L \in Nat
    BY <1>1, LenProperties DEF Replay
  <2>5. QED
    BY <1>1, <2>2, <2>3, <2>4 DEF More
<1>3. \A n \in 0 .. L : taken[n] \in 0 .. x /\ off2[taken[n]] = off[taken[n]] /\ off[taken[n]] \in Nat
  <2>1. TAKE n \in 0 .. L
  <2>2. taken[n] \in 0 .. x
    BY <1>2
  <2>3. off2[taken[n]] = off[taken[n]] /\ Offsets(st, off, all)
    BY <1>1, <2>2 DEF More
  <2>4. off[taken[n]] \in Nat
    BY <1>1, <2>2, <2>3, OffsetsGrow
  <2>5. QED
    BY <2>2, <2>3, <2>4
<1>4. \A n \in 1 .. L : n \in 0 .. L /\ n - 1 \in 0 .. L
  BY <1>2
<1>5. \A n \in 1 .. L : UpTo(w, off2, taken, n) = UpTo(w, off, taken, n)
  BY <1>3, <1>4 DEF UpTo
<1>6. ASSUME NEW n \in 1 .. L
      PROVE  /\ w[n] # <<>> => Headed(w[n])
             /\ \A t \in 1 .. Carried(w[n]) : w[n][t + 1] = all2[off2[taken[n - 1]] + t]
             /\ off2[taken[n]] <= UpTo(w, off2, taken, n) /\ UpTo(w, off2, taken, n) <= Len(all2)
             /\ taken[n] < Len(st2) => UpTo(w, off2, taken, n) < off2[taken[n] + 1]
  <2>1. PICK y, e, c, f : /\ y = UpTo(w, off, taken, n) /\ e = taken[n] /\ c = Carried(w[n])
                          /\ f = off[taken[n - 1]]
    OBVIOUS
  <2>2. /\ w[n] # <<>> => Headed(w[n])
        /\ \A t \in 1 .. c : w[n][t + 1] = all[f + t]
        /\ off[e] <= y /\ y <= a /\ (e < x => y < off[e + 1])
    BY <1>1, <2>1 DEF Replay
  <2>3. /\ f \in Nat /\ off2[taken[n - 1]] = f /\ e \in 0 .. x /\ off2[e] = off[e] /\ off[e] \in Nat
        /\ UpTo(w, off2, taken, n) = y
    BY <1>3, <1>4, <1>5, <2>1
  <2>4. c \in Nat /\ y = f + c
    <3>1. w[n] \in Seq(Data)
      BY <1>1, <1>2, ElementOfSeq
    <3>2. Len(w[n]) \in Nat /\ (w[n] # <<>> => Len(w[n]) # 0)
      BY <3>1, LenProperties, EmptySeq
    <3>3. c \in Nat
      BY <2>1, <3>2 DEF Carried
    <3>4. QED
      BY <2>1, <3>3 DEF UpTo
  <2>5. ASSUME NEW t \in 1 .. c PROVE w[n][t + 1] = all2[f + t]
    <3>1. f + t \in 1 .. a
      BY <1>2, <2>2, <2>3, <2>4
    <3>2. all2[f + t] = all[f + t]
      BY <1>1, <3>1 DEF More
    <3>3. QED
      BY <2>2, <3>2
  <2>6. e < x + 1 => y < off2[e + 1]
    <3>1. CASE e < x
      <4>1. e + 1 \in 0 .. x
        BY <1>2, <2>3, <3>1
      <4>2. off2[e + 1] = off[e + 1]
        BY <1>1, <4>1 DEF More
      <4>3. QED
        BY <2>2, <3>1, <4>2
    <3>2. CASE e = x
      <4>1. off2[e + 1] = a + m.len
        BY <1>2, <3>2
      <4>2. a \in Nat /\ m.len \in Nat \ {0} /\ y \in Nat /\ y <= a
        BY <1>2, <2>2, <2>3, <2>4
      <4>3. y < a + m.len
        BY ONLY <4>2
      <4>4. QED
        BY <4>1, <4>3
    <3>3. e < x \/ e = x
      BY ONLY <1>2, <2>3
    <3>4. QED
      BY <3>1, <3>2, <3>3
  <2>7. y <= a + m.len
    <3>1. a \in Nat /\ m.len \in Nat /\ y \in Nat /\ y <= a
      BY <1>2, <2>2, <2>3, <2>4
    <3>2. QED
      BY ONLY <3>1
  <2>8. QED
    BY <1>2, <2>1, <2>2, <2>3, <2>5, <2>6, <2>7
<1>7. taken[0] = 0 /\ taken \in [0 .. L -> 0 .. Len(st2)]
  <2>1. taken[0] = 0
    BY DEF Replay
  <2>2. \A i \in 0 .. x : i \in 0 .. x + 1
    BY <1>2
  <2>3. QED
    BY <1>2, <2>1, <2>2
<1>8. Replay(w, st2, off2, all2, taken)
  BY <1>1, <1>2, <1>6, <1>7 DEF Replay
<1>9. QED
  BY <1>1, <1>5, <1>8

\* store_received_message(), as long as the tail page is not full.
LEMMA StoreKeeps ==
  ASSUME NEW k, NEW s, NEW st, NEW w, NEW off, NEW all, NEW place, NEW taken,
         View(k, s, st, w, off, all, place, taken), NEW m \in Messages,
         k.cbuf.pages[k.cbuf.tail].fill # PageSize,
         NEW q, DOMAIN q = DOMAIN k, q.cbuf = cbuf_write(k.cbuf, Units(m)),
         q.messages = Append(k.messages, [msg |-> m, cursor |-> cbuf_write_cursor(k.cbuf)])
  PROVE  \E off2, all2, new : View(q, s, Append(st, m), w, off2, all2, new, taken)
<1>1. PICK st2 : st2 = Append(st, m)
  OBVIOUS
<1>2. /\ Client(k) /\ Sender(s) /\ Offsets(st, off, all) /\ Stock(k, st, off, all, place)
      /\ Replay(w, st, off, all, taken) /\ InStep(k, s, st, w, off, taken)
      /\ Busy(s) => Underway(k, s, st, off, place)
  BY DEF View
<1>3. PICK off2, all2 : More(st, off, all, m, st2, off2, all2)
  BY <1>1, <1>2, OffsetsMore
<1>4. PICK new : /\ Client(q) /\ Stock(q, st2, off2, all2, new) /\ Gone(q, st2) = Gone(k, st)
                 /\ \A j \in 1 .. Len(all) : new[j] = place[j]
  BY <1>2, <1>3, StockMore
<1>5. /\ Replay(w, st2, off2, all2, taken)
      /\ \A n \in 1 .. Len(w) : UpTo(w, off2, taken, n) = UpTo(w, off, taken, n)
  BY ONLY <1>2, <1>3, ReplayStored
<1>6. PICK d : d = Gone(k, st)
  OBVIOUS
<1>7. Numbers(k, st, w, off, all, place, d)
  BY <1>6, ViewNumbers
<1>8. d \in 0 .. Len(st) /\ off2[d] = off[d] /\ Len(w) \in Nat /\ Len(all) \in Nat
  BY <1>3, <1>7 DEF Numbers, More
<1>9. ASSUME Busy(s)
      PROVE  /\ Underway(q, s, st2, off2, new) /\ Reached(q, s, st2, off2) = Reached(k, s, st, off)
  <2>1. Underway(k, s, st, off, place)
    BY <1>2, <1>9
  <2>2. /\ k.messages # <<>> /\ s.connected /\ s.length \in 1 .. st[d + 1].len
        /\ s.to_write \in 1 .. s.length
        /\ \A t \in 1 .. s.to_write :
             place[Reached(k, s, st, off) + t] = [page |-> s.cursor.page, index |-> s.cursor.index + t - 1]
        /\ s.pc = "sent" => s.result \in {-1} \cup 1 .. s.to_write
    BY <1>6, <2>1 DEF Underway
  <2>3. /\ d + 1 \in 1 .. Len(st) /\ off[d] \in 0 .. Len(all) /\ off[d + 1] \in 0 .. Len(all)
        /\ off[d + 1] = off[d] + st[d + 1].len /\ st[d + 1].len \in Nat \ {0}
    BY <1>7, <2>2 DEF Numbers
  <2>4. d + 1 \in 0 .. Len(st)
    BY <1>8, <2>3
  <2>5. st2[d + 1] = st[d + 1] /\ off2[d + 1] = off[d + 1]
    BY <1>3, <2>3, <2>4 DEF More
  <2>6. Reached(q, s, st2, off2) = Reached(k, s, st, off)
    BY <1>4, <1>6, <2>5 DEF Reached
  <2>7. PICK R : R = Reached(k, s, st, off)
    OBVIOUS
  <2>8. R \in Nat /\ R + s.length <= Len(all) /\ s.length \in Nat
    <3>1. R = off[d + 1] - s.length
      BY <1>6, <2>7 DEF Reached
    <3>2. PICK z, y, f, a : /\ z = off[d + 1] /\ y = s.length /\ f = off[d] /\ a = Len(all)
      OBVIOUS
    <3>3. PICK len : len = st[d + 1].len
      OBVIOUS
    <3>4. /\ R = z - y /\ a \in Nat /\ z \in 0 .. a /\ f \in 0 .. a /\ len \in Nat \ {0}
          /\ y \in 1 .. len /\ z = f + len
      BY <1>8, <2>2, <2>3, <3>1, <3>2, <3>3
    <3>5. R \in Nat /\ R + y <= a /\ y \in Nat
      BY ONLY <3>4
    <3>6. QED
      BY ONLY <3>2, <3>5
  <2>9. ASSUME NEW t \in 1 .. s.to_write
        PROVE  new[R + t] = [page |-> s.cursor.page, index |-> s.cursor.index + t - 1]
    <3>1. R + t \in 1 .. Len(all)
      BY <1>8, <2>2, <2>8
    <3>2. QED
      BY <1>4, <2>2, <2>7, <3>1
  <2>10. q.messages # <<>>
    <3>1. Len(k.messages) \in Nat /\ k.messages \in Seq([msg : Messages, cursor : Cursors])
      BY <1>2, <1>7 DEF Numbers, Client
    <3>2. Gone(q, st2) = d /\ Len(st2) = Len(st) + 1 /\ q.messages \in Seq([msg : Messages, cursor : Cursors])
      BY <1>3, <1>4, <1>6 DEF More, Client
    <3>3. Len(st2) - Len(q.messages) = d /\ Len(st) \in Nat
      BY <1>7, <3>2 DEF Gone, Numbers
    <3>4. Len(q.messages) # 0
      BY <1>8, <3>2, <3>3, LenProperties
    <3>5. QED
      BY <3>4
  <2>11. Underway(q, s, st2, off2, new)
    BY <1>4, <1>6, <2>2, <2>5, <2>6, <2>7, <2>9, <2>10 DEF Underway
  <2>12. QED
    BY <2>6, <2>11
<1>10. InStep(q, s, st2, w, off2, taken)
  <2>1. w # <<>> => Len(w) \in 1 .. Len(w)
    <3>1. HAVE w # <<>>
    <3>2. Len(w) # 0
      BY <1>2, <3>1, EmptySeq DEF Replay
    <3>3. QED
      BY <1>8, <3>2
  <2>2. w # <<>> => UpTo(w, off2, taken, Len(w)) = UpTo(w, off, taken, Len(w))
    BY <1>5, <2>1
  <2>3. QED
    BY <1>2, <1>4, <1>6, <1>8, <1>9, <2>2 DEF InStep
<1>11. View(q, s, st2, w, off2, all2, new, taken)
  BY <1>2, <1>3, <1>4, <1>5, <1>9, <1>10 DEF View, More
<1>12. QED
  BY <1>1, <1>11

\* A client that has just been created.
LEMMA NewView ==
  \E off, all, place, taken : View(NewClient, NewSender, <<>>, <<>>, off, all, place, taken)
<1>1. PICK off, taken : off = [n \in 0 .. 0 |-> 0] /\ taken = [n \in 0 .. 0 |-> 0]
  OBVIOUS
<1>2. PICK k, s : k = NewClient /\ s = NewSender
  OBVIOUS
<1>3. Client(k) /\ k.messages = <<>> /\ k.cbuf = cbuf_create /\ Gone(k, <<>>) = 0
  BY <1>2 DEF NewClient, Client, Gone
<1>4. Sender(s) /\ ~Busy(s) /\ s.pc = "none" /\ s.connected = FALSE
  BY <1>2 DEF NewSender, Sender, Busy, Cursors
<1>5. Offsets(<<>>, off, <<>>)
  BY <1>1 DEF Offsets
<1>6. PICK b, p : b = cbuf_create /\ p = Page(1)
  OBVIOUS
<1>7. p \in Pages /\ p.empty = TRUE /\ p.fill = 0 /\ p.next = 1
  BY <1>6, CBufAssumption DEF Page, Pages, Data
<1>8. b.pages = <<p>> /\ b.tail = 1 /\ Len(b.pages) = 1 /\ b.pages[1] = p /\ b \in Buffers
  BY <1>6, <1>7 DEF cbuf_create, Buffers
<1>9. \A i \in 1 .. Len(b.pages) : i = 1
  BY <1>8
<1>10. Paged(b)
  BY <1>7, <1>8, <1>9 DEF Paged
<1>11. Laid(b, <<>>, 0)
  BY <1>7, <1>8, <1>9 DEF Laid, Spread
<1>12. Stock(k, <<>>, off, <<>>, <<>>)
  BY <1>1, <1>3, <1>6, <1>10, <1>11 DEF Stock
<1>13. Replay(<<>>, <<>>, off, <<>>, taken)
  BY <1>1 DEF Replay
<1>14. InStep(k, s, <<>>, <<>>, off, taken)
  BY <1>1, <1>3, <1>4 DEF InStep
<1>15. View(k, s, <<>>, <<>>, off, <<>>, <<>>, taken)
  BY <1>3, <1>4, <1>5, <1>12, <1>13, <1>14 DEF View
<1>16. QED
  BY <1>2, <1>15

\* SenderSends(): send() fails.
LEMMA SendFails ==
  ASSUME NEW k, NEW s, NEW st, NEW w, NEW off, NEW all, NEW place, NEW taken,
         View(k, s, st, w, off, all, place, taken), s.pc = "send",
         NEW r, r = [s EXCEPT !.pc = "sent", !.result = -1]
  PROVE  View(k, r, st, w, off, all, place, taken)
<1>1. /\ Sender(s) /\ Underway(k, s, st, off, place) /\ InStep(k, s, st, w, off, taken)
  BY DEF View, Busy
<1>2. /\ DOMAIN r = DOMAIN s /\ r.pc = "sent" /\ r.result = -1 /\ r.length = s.length
      /\ r.connected = s.connected /\ r.cursor = s.cursor /\ r.to_write = s.to_write
  BY <1>1 DEF Sender
<1>3. Sender(r) /\ Reached(k, r, st, off) = Reached(k, s, st, off)
  BY <1>1, <1>2 DEF Sender, Reached
<1>4. Underway(k, r, st, off, place) /\ s.length # -1
  BY <1>1, <1>2, <1>3 DEF Underway
<1>5. InStep(k, r, st, w, off, taken)
  <2>1. Busy(r) /\ Busy(s)
    BY <1>2 DEF Busy
  <2>2. QED
    BY <1>1, <1>2, <1>3, <1>4, <2>1 DEF InStep
<1>6. QED
  BY <1>3, <1>4, <1>5 DEF View

-----------------------------------------------------------------------------
(* The invariant.                                                          *)

Viewed(k, s, st, w) ==
  \E off, all, place, taken : View(k, s, st, w, off, all, place, taken)

Shape ==
  /\ DOMAIN client = Clients /\ DOMAIN sender = Clients /\ DOMAIN stored = Clients
  /\ DOMAIN wire = Clients /\ pageEnd \in [Clients -> BOOLEAN] /\ net \in [Clients -> Seq(Items)]

\* A client's part, unless a message of it began where a full page ends: its
\* view, what is still to be read, that its thread starts only once it is in
\* the list, and what the main thread is about to do with it.
Sound(c) ==
  ~pageEnd[c] =>
    /\ Viewed(client[c], sender[c], stored[c], wire[c])
    /\ client[c].mbuf \in Seq(Items)
    /\ client[c].state = "none" => sender[c].pc = "none"
    /\ mpc = "add" /\ current = c => client[c].state # "none" /\ sender[c].pc = "none"
    /\ mpc = "store" /\ current = c => client[c].mbuf # <<>> /\ Head(client[c].mbuf).kind = "msg"

ProxyInv == Shape /\ \A c \in Clients : Sound(c)

\* A step that does not concern client c.
Alike(c) ==
  /\ client'[c] = client[c] /\ sender'[c] = sender[c] /\ stored'[c] = stored[c]
  /\ wire'[c] = wire[c] /\ pageEnd'[c] = pageEnd[c]
  /\ mpc' \in {"add", "store"} /\ current' = c => mpc' = mpc /\ current' = current

LEMMA OneClient ==
  ASSUME ProxyInv, Shape', NEW c \in Clients, Sound(c)',
         \A x \in Clients : x # c => Alike(x)
  PROVE  ProxyInv'
<1>1. ASSUME NEW x \in Clients PROVE Sound(x)'
  <2>1. CASE x = c
    BY <2>1
  <2>2. CASE x # c
    <3>1. Sound(x) /\ Alike(x)
      BY <2>2 DEF ProxyInv
    <3>2. QED
      BY <3>1 DEF Sound, Alike
  <2>3. QED
    BY <2>1, <2>2
<1>2. QED
  BY <1>1 DEF ProxyInv

LEMMA NoClientStep ==
  ASSUME ProxyInv, Shape', \A x \in Clients : Alike(x)
  PROVE  ProxyInv'
<1>1. ASSUME NEW x \in Clients PROVE Sound(x)'
  <2>1. Sound(x) /\ Alike(x)
    BY DEF ProxyInv
  <2>2. QED
    BY <2>1 DEF Sound, Alike
<1>2. QED
  BY <1>1 DEF ProxyInv

\* A step of c's sender, or of the main thread on c's sender.
LEMMA SenderMoves ==
  ASSUME ProxyInv, NEW c \in Clients, NEW s, NEW v,
         sender' = [sender EXCEPT ![c] = s], DOMAIN wire' = Clients, wire'[c] = v,
         \A x \in Clients : x # c => wire'[x] = wire[x],
         UNCHANGED <<client, stored, pageEnd, net>>,
         mpc' \in {"add", "store"} => UNCHANGED <<mpc, current>>,
         ~pageEnd[c] => /\ Viewed(client[c], s, stored[c], v)
                        /\ client[c].state = "none" => s.pc = "none"
                        /\ mpc' = "add" /\ current' = c => s.pc = "none"
  PROVE  ProxyInv'
<1>1. Shape'
  BY DEF ProxyInv, Shape
<1>2. sender'[c] = s /\ wire'[c] = v
  BY DEF ProxyInv, Shape
<1>3. \A x \in Clients : x # c => Alike(x)
  BY DEF ProxyInv, Shape, Alike
<1>4. Sound(c)'
  <2>1. Sound(c)
    BY DEF ProxyInv
  <2>2. QED
    BY <1>2, <2>1 DEF Sound
<1>5. QED
  BY <1>1, <1>3, <1>4, OneClient

\* What a sender's step starts from.
LEMMA SenderFacts ==
  ASSUME ProxyInv, NEW c \in Clients
  PROVE  /\ ~pageEnd[c] => /\ Viewed(client[c], sender[c], stored[c], wire[c])
                           /\ client[c].state = "none" => sender[c].pc = "none"
                           /\ mpc = "add" /\ current = c => sender[c].pc = "none"
         /\ DOMAIN sender = Clients /\ DOMAIN wire = Clients
BY DEF ProxyInv, Shape, Sound

LEMMA ViewedSender ==
  ASSUME NEW k, NEW s, NEW st, NEW w, Viewed(k, s, st, w)
  PROVE  Sender(s) /\ (s.pc = "connect" => ~s.connected)
BY DEF Viewed, View, InStep

\* Only the sender's place changes, between two messages.
LEMMA CalmStep ==
  ASSUME ProxyInv, NEW c \in Clients, NEW n, sender' = [sender EXCEPT ![c] = n],
         UNCHANGED <<client, stored, pageEnd, net, wire>>,
         mpc' \in {"add", "store"} => UNCHANGED <<mpc, current>>,
         ~pageEnd[c] =>
           /\ Sender(sender[c]) => Sender(n)
           /\ sender[c].pc \notin {"none", "send", "sent"} /\ n.pc \notin {"send", "sent"}
           /\ n.pc = "connect" => ~n.connected
           /\ n.connected => sender[c].connected /\ sender[c].pc # "relock" /\ n.pc # "relock"
  PROVE  ProxyInv'
<1>1. DOMAIN wire' = Clients /\ wire'[c] = wire[c] /\ \A x \in Clients : x # c => wire'[x] = wire[x]
  BY SenderFacts
<1>2. ASSUME ~pageEnd[c]
      PROVE  /\ Viewed(client[c], n, stored[c], wire[c])
             /\ client[c].state = "none" => n.pc = "none"
             /\ mpc' = "add" /\ current' = c => n.pc = "none"
  <2>1. PICK k, s, st, w : k = client[c] /\ s = sender[c] /\ st = stored[c] /\ w = wire[c]
    OBVIOUS
  <2>2. PICK off, all, place, taken : View(k, s, st, w, off, all, place, taken)
    BY <1>2, <2>1, SenderFacts DEF Viewed
  <2>3. ~Busy(s)
    BY <1>2, <2>1 DEF Busy
  <2>4. /\ Sender(n) /\ n.pc \notin {"send", "sent"} /\ (n.pc = "connect" => ~n.connected)
        /\ n.connected => s.connected /\ ~Busy(s) /\ s.pc # "relock" /\ n.pc # "relock"
    BY <1>2, <2>1, <2>2, <2>3 DEF View
  <2>5. View(k, n, st, w, off, all, place, taken)
    BY ONLY <2>2, <2>3, <2>4, CalmSender
  <2>6. QED
    BY <1>2, <2>1, <2>5, SenderFacts DEF Viewed
<1>3. QED
  BY <1>1, <1>2, SenderMoves

LEMMA StartsKeeps ==
  ASSUME ProxyInv, NEW c \in Clients, SenderStarts(c)
  PROVE  ProxyInv'
<1>1. PICK n : n = [sender[c] EXCEPT !.pc = "wait"]
  OBVIOUS
<1>2. sender' = [sender EXCEPT ![c] = n] /\ sender[c].pc = "start"
  BY <1>1 DEF SenderStarts, SenderAt
<1>3. Sender(sender[c]) => Sender(n) /\ n.pc = "wait" /\ n.connected = sender[c].connected
  BY <1>1 DEF Sender
<1>4. ~pageEnd[c] => Sender(sender[c])
  BY SenderFacts, ViewedSender
<1>5. UNCHANGED <<client, stored, pageEnd, net, wire, mpc, current>>
  BY DEF SenderStarts, SenderOnly, mainVars, peerVars, history
<1>6. QED
  BY <1>2, <1>3, <1>4, <1>5, CalmStep

LEMMA GivesUpKeeps ==
  ASSUME ProxyInv, NEW c \in Clients, SenderGivesUp(c)
  PROVE  ProxyInv'
<1>1. PICK n : n = [sender[c] EXCEPT !.pc = "relock"]
  OBVIOUS
<1>2. sender' = [sender EXCEPT ![c] = n] /\ sender[c].pc = "connect"
  BY <1>1 DEF SenderGivesUp, SenderAt
<1>3. Sender(sender[c]) => Sender(n) /\ n.pc = "relock" /\ n.connected = sender[c].connected
  BY <1>1 DEF Sender
<1>4. ~pageEnd[c] => Sender(sender[c]) /\ ~sender[c].connected
  BY <1>2, SenderFacts, ViewedSender
<1>5. UNCHANGED <<client, stored, pageEnd, net, wire, mpc, current>>
  BY DEF SenderGivesUp, SenderOnly, mainVars, peerVars, history
<1>6. QED
  BY <1>2, <1>3, <1>4, <1>5, CalmStep

LEMMA FindsKeeps ==
  ASSUME ProxyInv, NEW c \in Clients, SenderFinds(c)
  PROVE  ProxyInv'
<1>1. PICK prev : sender' = [sender EXCEPT ![c].pc = "free", ![c].prev = prev]
  BY DEF SenderFinds
<1>2. PICK n : n = [sender[c] EXCEPT !.pc = "free", !.prev = prev]
  OBVIOUS
<1>3. sender' = [sender EXCEPT ![c] = n] /\ sender[c].pc = "unlink"
  BY <1>1, <1>2, SenderFacts DEF SenderFinds, SenderAt
<1>4. Sender(sender[c]) => Sender(n) /\ n.pc = "free" /\ n.connected = sender[c].connected
  BY <1>2 DEF Sender
<1>5. ~pageEnd[c] => Sender(sender[c])
  BY SenderFacts, ViewedSender
<1>6. UNCHANGED <<client, stored, pageEnd, net, wire, mpc, current>>
  BY DEF SenderFinds, SenderOnly, mainVars, peerVars, history
<1>7. QED
  BY <1>3, <1>4, <1>5, <1>6, CalmStep

\* pthread_cond_signal()
LEMMA WokenKeeps ==
  ASSUME ProxyInv, NEW c, sender' = Woken(c),
         UNCHANGED <<client, stored, pageEnd, net, wire>>, mpc' \notin {"add", "store"}
  PROVE  ProxyInv'
<1>1. CASE sender' = sender
  <2>1. Shape' /\ \A x \in Clients : Alike(x)
    BY <1>1 DEF ProxyInv, Shape, Alike
  <2>2. QED
    BY <2>1, NoClientStep
<1>2. CASE sender[c].pc = "wait" /\ c \in Clients
  <2>1. PICK n : n = [sender[c] EXCEPT !.pc = "woken"]
    OBVIOUS
  <2>2. sender' = [sender EXCEPT ![c] = n]
    BY <1>2, <2>1 DEF Woken
  <2>3. Sender(sender[c]) => Sender(n) /\ n.pc = "woken" /\ n.connected = sender[c].connected
    BY <2>1 DEF Sender
  <2>4. ~pageEnd[c] => Sender(sender[c])
    BY <1>2, SenderFacts, ViewedSender
  <2>5. QED
    BY <1>2, <2>2, <2>3, <2>4, CalmStep
<1>3. CASE sender[c].pc = "wait" /\ c \notin Clients
  <2>1. sender' = [sender EXCEPT ![c] = [sender[c] EXCEPT !.pc = "woken"]]
    BY <1>3 DEF Woken
  <2>2. Shape' /\ \A x \in Clients : Alike(x)
    BY <1>3, <2>1 DEF ProxyInv, Shape, Alike
  <2>3. QED
    BY <2>2, NoClientStep
<1>4. QED
  BY <1>1, <1>2, <1>3 DEF Woken

LEMMA SenderGoesOn ==
  ASSUME ProxyInv, NEW c \in Clients, NEW s, sender[c].pc # "none",
         sender' = [sender EXCEPT ![c] = s], SenderOnly, UNCHANGED client, DOMAIN wire' = Clients,
         \A x \in Clients : x # c => wire'[x] = wire[x],
         ~pageEnd[c] => Viewed(client[c], s, stored[c], wire'[c])
  PROVE  ProxyInv'
<1>1. UNCHANGED <<client, stored, pageEnd, net, mpc, current>>
  BY DEF SenderOnly, mainVars, peerVars, history
<1>2. ~pageEnd[c] => /\ Viewed(client[c], s, stored[c], wire'[c])
                     /\ client[c].state = "none" => s.pc = "none"
                     /\ mpc' = "add" /\ current' = c => s.pc = "none"
  BY <1>1, SenderFacts
<1>3. QED
  BY <1>1, <1>2, SenderMoves

\* Continue() without a change of client and wire.
LEMMA ContinueStep ==
  ASSUME ProxyInv, NEW c \in Clients, NEW n,
         sender' = [sender EXCEPT ![c] = Continue(client[c], n)], SenderOnly,
         UNCHANGED <<client, wire>>, sender[c].pc # "none",
         ~pageEnd[c] =>
           /\ Sender(sender[c]) => Sender(n)
           /\ ~Busy(sender[c]) \/ (sender[c].pc = "sent" /\ sender[c].result = -1)
           /\ n.connected => sender[c].connected /\ ~Busy(sender[c]) /\ sender[c].pc # "relock"
  PROVE  ProxyInv'
<1>1. ASSUME ~pageEnd[c] PROVE Viewed(client[c], Continue(client[c], n), stored[c], wire[c])
  <2>1. PICK k, s, st, w : k = client[c] /\ s = sender[c] /\ st = stored[c] /\ w = wire[c]
    OBVIOUS
  <2>2. PICK off, all, place, taken : View(k, s, st, w, off, all, place, taken)
    BY <1>1, <2>1, SenderFacts DEF Viewed
  <2>3. /\ Sender(n) /\ (~Busy(s) \/ (s.pc = "sent" /\ s.result = -1))
        /\ n.connected => s.connected /\ ~Busy(s) /\ s.pc # "relock"
    BY <1>1, <2>1, <2>2 DEF View
  <2>4. View(k, Continue(k, n), st, w, off, all, place, taken)
    BY ONLY <2>2, <2>3, CalmContinue
  <2>5. QED
    BY <2>1, <2>4 DEF Viewed
<1>2. DOMAIN wire' = Clients /\ wire'[c] = wire[c] /\ \A x \in Clients : x # c => wire'[x] = wire[x]
  BY SenderFacts
<1>3. QED
  BY <1>1, <1>2, SenderGoesOn

LEMMA UnconnectedKeeps ==
  ASSUME ProxyInv, NEW c \in Clients, SenderUnconnected(c)
  PROVE  ProxyInv'
<1>1. /\ sender[c].pc = "relock" /\ ~sender[c].connected /\ SenderOnly /\ UNCHANGED <<client, wire>>
      /\ sender' = [sender EXCEPT ![c] = Continue(client[c], sender[c])]
  BY SenderFacts DEF SenderUnconnected, SenderAt
<1>2. ~Busy(sender[c])
  BY <1>1 DEF Busy
<1>3. QED
  BY <1>1, <1>2, ContinueStep

LEMMA FailedKeeps ==
  ASSUME ProxyInv, NEW c \in Clients, SenderFailed(c)
  PROVE  ProxyInv'
<1>1. PICK n : n = [sender[c] EXCEPT !.connected = FALSE]
  OBVIOUS
<1>2. /\ sender[c].pc = "sent" /\ sender[c].result = -1 /\ SenderOnly /\ UNCHANGED <<client, wire>>
      /\ sender' = [sender EXCEPT ![c] = Continue(client[c], n)]
  BY <1>1, SenderFacts DEF SenderFailed, SenderAt
<1>3. Sender(sender[c]) => Sender(n) /\ n.connected = FALSE
  BY <1>1 DEF Sender
<1>4. ~pageEnd[c] => Sender(sender[c])
  BY SenderFacts, ViewedSender
<1>5. QED
  BY <1>2, <1>3, <1>4, ContinueStep

LEMMA WakesKeeps ==
  ASSUME ProxyInv, NEW c \in Clients, SenderWakes(c)
  PROVE  ProxyInv'
<1>1. PICK k, s : k = client[c] /\ s = sender[c]
  OBVIOUS
<1>2. /\ s.pc = "woken" /\ SenderOnly /\ UNCHANGED <<client, wire>>
      /\ sender' = [sender EXCEPT ![c] =
           CASE session = "SENDING" /\ s.connected -> Continue(k, s)
             [] session = "SENDING" /\ ~s.connected ->
                  [s EXCEPT !.pc = IF k.state = "C_HEADER" THEN "wait" ELSE "connect"]
             [] session = "PAUSED" -> [s EXCEPT !.pc = "wait", !.connected = FALSE]
             [] OTHER -> [s EXCEPT !.pc = "wait"]]
  BY <1>1 DEF SenderWakes, SenderAt
<1>3. UNCHANGED <<client, stored, pageEnd, net, wire, mpc, current>>
  BY <1>2 DEF SenderOnly, mainVars, peerVars, history
<1>4. ~pageEnd[c] => Sender(sender[c])
  BY SenderFacts, ViewedSender
<1>5. CASE session = "SENDING" /\ s.connected
  <2>1. sender' = [sender EXCEPT ![c] = Continue(client[c], s)]
    BY <1>1, <1>2, <1>5
  <2>2. ~Busy(s) /\ s.pc # "relock"
    BY <1>2 DEF Busy
  <2>3. QED
    BY <1>1, <1>2, <2>1, <2>2, ContinueStep
<1>6. CASE session = "SENDING" /\ ~s.connected
  <2>1. PICK pc : pc = IF k.state = "C_HEADER" THEN "wait" ELSE "connect"
    OBVIOUS
  <2>2. PICK n : n = [s EXCEPT !.pc = pc]
    OBVIOUS
  <2>3. sender' = [sender EXCEPT ![c] = n]
    BY <1>2, <1>6, <2>1, <2>2
  <2>4. Sender(s) => Sender(n) /\ n.pc \in {"wait", "connect"} /\ n.connected = s.connected
    BY <2>1, <2>2 DEF Sender
  <2>5. ~pageEnd[c] => /\ Sender(n) /\ n.pc \notin {"send", "sent"} /\ ~n.connected
                       /\ sender[c].pc \notin {"none", "send", "sent"}
    BY <1>1, <1>2, <1>4, <1>6, <2>4
  <2>6. QED
    BY <1>3, <2>3, <2>5, CalmStep
<1>7. CASE session = "PAUSED"
  <2>1. PICK n : n = [s EXCEPT !.pc = "wait", !.connected = FALSE]
    OBVIOUS
  <2>2. sender' = [sender EXCEPT ![c] = n]
    BY <1>2, <1>7, <2>1
  <2>3. Sender(s) => Sender(n) /\ n.pc = "wait" /\ n.connected = FALSE
    BY <2>1 DEF Sender
  <2>4. QED
    BY <1>1, <1>2, <1>3, <1>4, <2>2, <2>3, CalmStep
<1>8. CASE session # "SENDING" /\ session # "PAUSED"
  <2>1. PICK n : n = [s EXCEPT !.pc = "wait"]
    OBVIOUS
  <2>2. sender' = [sender EXCEPT ![c] = n]
    BY <1>2, <1>8, <2>1
  <2>3. Sender(s) => Sender(n) /\ n.pc = "wait" /\ n.connected = s.connected
    BY <2>1 DEF Sender
  <2>4. ~pageEnd[c] => /\ Sender(n) /\ n.pc \notin {"connect", "send", "sent", "relock"}
                       /\ sender[c].pc \notin {"none", "send", "sent", "relock"}
                       /\ n.connected = sender[c].connected
    BY <1>1, <1>2, <1>4, <2>3
  <2>5. QED
    BY <1>3, <2>2, <2>4, CalmStep
<1>9. QED
  BY <1>5, <1>6, <1>7, <1>8

LEMMA ConnectedKeeps ==
  ASSUME ProxyInv, NEW c \in Clients, SenderConnects(c)
  PROVE  ProxyInv'
<1>1. PICK s, v : s = [sender[c] EXCEPT !.connected = TRUE, !.pc = "relock"] /\ v = Append(wire[c], <<>>)
  OBVIOUS
<1>2. sender[c].pc = "connect" /\ SenderOnly /\ UNCHANGED client
  BY DEF SenderConnects, SenderAt
<1>3. UNCHANGED <<client, stored, pageEnd, net, mpc, current>>
  BY <1>2 DEF SenderOnly, mainVars, peerVars, history
<1>4. CASE UNCHANGED <<sender, wire>>
  <2>1. Shape' /\ \A x \in Clients : Alike(x)
    BY <1>3, <1>4 DEF ProxyInv, Shape, Alike
  <2>2. QED
    BY <2>1, NoClientStep
<1>5. CASE /\ sender' = [sender EXCEPT ![c].connected = TRUE, ![c].pc = "relock"]
           /\ wire' = [wire EXCEPT ![c] = Append(@, <<>>)]
  <2>1. sender' = [sender EXCEPT ![c] = s] /\ wire' = [wire EXCEPT ![c] = v]
    BY <1>1, <1>5, SenderFacts
  <2>2. DOMAIN wire' = Clients /\ wire'[c] = v /\ \A x \in Clients : x # c => wire'[x] = wire[x]
    BY <2>1, SenderFacts
  <2>3. ASSUME ~pageEnd[c] PROVE Viewed(client[c], s, stored[c], v)
    <3>1. PICK off, all, place, taken :
            View(client[c], sender[c], stored[c], wire[c], off, all, place, taken)
      BY <2>3, SenderFacts DEF Viewed
    <3>2. PICK took : View(client[c], s, stored[c], v, off, all, place, took)
      BY <1>1, <1>2, <3>1, ConnectsKeeps
    <3>3. QED
      BY <3>2 DEF Viewed
  <2>4. QED
    BY <1>2, <2>1, <2>2, <2>3, SenderGoesOn
<1>6. QED
  BY <1>4, <1>5 DEF SenderConnects

\* The rest of Undefined(): nothing that the invariant speaks of changes.
LEMMA UndefinedKeeps ==
  ASSUME ProxyInv, Undefined
  PROVE  ProxyInv'
<1>1. UNCHANGED <<client, sender, wire, stored, pageEnd, net, mpc, current>>
  BY DEF Undefined, mainVars, peerVars, history
<1>2. Shape' /\ \A x \in Clients : Alike(x)
  BY <1>1 DEF ProxyInv, Shape, Alike
<1>3. QED
  BY <1>2, NoClientStep

LEMMA SendsHeadersKeeps ==
  ASSUME ProxyInv, NEW c \in Clients, SenderSendsHeaders(c)
  PROVE  ProxyInv'
<1>1. sender[c].pc = "relock" /\ sender[c].connected
  BY DEF SenderSendsHeaders, SenderAt
<1>2. CASE Undefined
  BY <1>2, UndefinedKeeps
<1>3. ASSUME NEW u \in {HeaderUnit, DamagedHeaders}, wire' = Accept(c, <<u>>),
             sender' = [sender EXCEPT ![c] = Continue(client[c], @)], SenderOnly, UNCHANGED client
      PROVE  ProxyInv'
  <2>1. PICK s, v : s = Continue(client[c], sender[c])
                    /\ v = [wire[c] EXCEPT ![Len(wire[c])] = @ \o <<u>>]
    OBVIOUS
  <2>2. sender' = [sender EXCEPT ![c] = s] /\ wire' = [wire EXCEPT ![c] = v]
    BY <1>3, <2>1, SenderFacts DEF Accept
  <2>3. DOMAIN wire' = Clients /\ wire'[c] = v /\ \A x \in Clients : x # c => wire'[x] = wire[x]
    BY <2>2, SenderFacts
  <2>4. ASSUME ~pageEnd[c] PROVE Viewed(client[c], s, stored[c], v)
    <3>1. PICK off, all, place, taken :
            View(client[c], sender[c], stored[c], wire[c], off, all, place, taken)
      BY <2>4, SenderFacts DEF Viewed
    <3>2. View(client[c], s, stored[c], v, off, all, place, taken)
      BY <1>1, <2>1, <3>1, HeadersKeep
    <3>3. QED
      BY <3>2 DEF Viewed
  <2>5. sender[c].pc # "none" /\ SenderOnly /\ UNCHANGED client
    BY <1>1, <1>3
  <2>6. ~pageEnd[c] => Viewed(client[c], s, stored[c], wire'[c])
    BY <2>3, <2>4
  <2>7. QED
    BY ONLY ProxyInv, c \in Clients, <2>2, <2>3, <2>5, <2>6, SenderGoesOn
<1>4. ASSUME NEW h \in {<<>>, <<CutHeaders>>}, wire' = Accept(c, h),
             sender' = [sender EXCEPT ![c].connected = FALSE, ![c].pc = "wait"],
             SenderOnly, UNCHANGED client
      PROVE  ProxyInv'
  <2>1. PICK s, v : s = [sender[c] EXCEPT !.connected = FALSE, !.pc = "wait"]
                    /\ v = [wire[c] EXCEPT ![Len(wire[c])] = @ \o h]
    OBVIOUS
  <2>2. sender' = [sender EXCEPT ![c] = s]
    BY <1>4, <2>1, SenderFacts
  <2>3. wire' = [wire EXCEPT ![c] = v]
    BY <1>4, <2>1, SenderFacts DEF Accept
  <2>4. DOMAIN wire' = Clients /\ wire'[c] = v /\ \A x \in Clients : x # c => wire'[x] = wire[x]
    BY <2>3, SenderFacts
  <2>5. ASSUME ~pageEnd[c] PROVE Viewed(client[c], s, stored[c], v)
    <3>1. PICK off, all, place, taken :
            View(client[c], sender[c], stored[c], wire[c], off, all, place, taken)
      BY <2>5, SenderFacts DEF Viewed
    <3>2. View(client[c], s, stored[c], v, off, all, place, taken)
      BY <1>1, <2>1, <3>1, HeadersCut
    <3>3. QED
      BY <3>2 DEF Viewed
  <2>6. sender[c].pc # "none" /\ SenderOnly /\ UNCHANGED client
    BY <1>1, <1>4
  <2>7. ~pageEnd[c] => Viewed(client[c], s, stored[c], wire'[c])
    BY <2>4, <2>5
  <2>8. QED
    BY ONLY ProxyInv, c \in Clients, <2>2, <2>4, <2>6, <2>7, SenderGoesOn
<1>5. QED
  BY <1>2, <1>3, <1>4 DEF SenderSendsHeaders

LEMMA SendsKeep ==
  ASSUME ProxyInv, NEW c \in Clients, SenderSends(c)
  PROVE  ProxyInv'
<1>1. sender[c].pc = "send" /\ SenderOnly /\ UNCHANGED client
  BY DEF SenderSends, SenderAt
<1>2. ASSUME ~pageEnd[c] PROVE sender[c].to_write \in Nat \ {0}
  <2>1. PICK off, all, place, taken :
          View(client[c], sender[c], stored[c], wire[c], off, all, place, taken)
    BY <1>2, SenderFacts DEF Viewed
  <2>2. PICK k, s, st : k = client[c] /\ s = sender[c] /\ st = stored[c]
    OBVIOUS
  <2>3. s.to_write \in 1 .. s.length /\ s.length \in Int
    BY <1>1, <2>1, <2>2 DEF View, Busy, Underway, Sender
  <2>4. QED
    BY <2>2, <2>3
<1>3. ASSUME NEW n, ~pageEnd[c] => n \in 1 .. sender[c].to_write, Sent(c, n)
      PROVE  ProxyInv'
  <2>1. PICK s, v : /\ s = [sender[c] EXCEPT !.pc = "sent", !.result = n]
                    /\ v = [wire[c] EXCEPT ![Len(wire[c])] =
                              @ \o Memory(client[c].cbuf, sender[c].cursor, n)]
    OBVIOUS
  <2>2. sender' = [sender EXCEPT ![c] = s] /\ wire' = [wire EXCEPT ![c] = v]
    BY <1>3, <2>1, SenderFacts DEF Accept, Sent
  <2>3. DOMAIN wire' = Clients /\ wire'[c] = v /\ \A x \in Clients : x # c => wire'[x] = wire[x]
    BY <2>2, SenderFacts
  <2>4. ASSUME ~pageEnd[c] PROVE Viewed(client[c], s, stored[c], v)
    <3>1. PICK off, all, place, taken :
            View(client[c], sender[c], stored[c], wire[c], off, all, place, taken)
      BY <2>4, SenderFacts DEF Viewed
    <3>2. n \in 1 .. sender[c].to_write
      BY <1>3, <2>4
    <3>3. PICK took : View(client[c], s, stored[c], v, off, all, place, took)
      BY <1>1, <2>1, <3>1, <3>2, SendsKeeps
    <3>4. QED
      BY <3>3 DEF Viewed
  <2>5. QED
    BY <1>1, <2>2, <2>3, <2>4, SenderGoesOn
<1>4. CASE /\ sender' = [sender EXCEPT ![c].pc = "sent", ![c].result = -1]
           /\ UNCHANGED wire
  <2>1. PICK s : s = [sender[c] EXCEPT !.pc = "sent", !.result = -1]
    OBVIOUS
  <2>2. sender' = [sender EXCEPT ![c] = s]
    BY <1>4, <2>1, SenderFacts
  <2>3. DOMAIN wire' = Clients /\ wire'[c] = wire[c] /\ \A x \in Clients : x # c => wire'[x] = wire[x]
    BY <1>4, SenderFacts
  <2>4. ASSUME ~pageEnd[c] PROVE Viewed(client[c], s, stored[c], wire[c])
    <3>1. PICK off, all, place, taken :
            View(client[c], sender[c], stored[c], wire[c], off, all, place, taken)
      BY <2>4, SenderFacts DEF Viewed
    <3>2. View(client[c], s, stored[c], wire[c], off, all, place, taken)
      BY <1>1, <2>1, <3>1, SendFails
    <3>3. QED
      BY <3>2 DEF Viewed
  <2>5. QED
    BY <1>1, <2>2, <2>3, <2>4, SenderGoesOn
<1>5. CASE Sent(c, sender[c].to_write)
  <2>1. ~pageEnd[c] => sender[c].to_write \in 1 .. sender[c].to_write
    BY <1>2
  <2>2. QED
    BY <1>3, <1>5, <2>1
<1>6. CASE \E n \in 1 .. sender[c].to_write - 1 : Sent(c, n)
  <2>1. PICK n \in 1 .. sender[c].to_write - 1 : Sent(c, n)
    BY <1>6
  <2>2. ~pageEnd[c] => n \in 1 .. sender[c].to_write
    BY <1>2
  <2>3. QED
    BY <1>3, <2>1, <2>2
<1>7. QED
  BY <1>4, <1>5, <1>6 DEF SenderSends

LEMMA ViewedClient ==
  ASSUME NEW k, NEW s, NEW st, NEW w, Viewed(k, s, st, w)
  PROVE  /\ Client(k)
         /\ \A n : DOMAIN n = DOMAIN k /\ n.messages = k.messages /\ n.cbuf = k.cbuf
                     => Viewed(n, s, st, w)
<1>1. PICK off, all, place, taken : View(k, s, st, w, off, all, place, taken)
  BY DEF Viewed
<1>2. Client(k)
  BY <1>1 DEF View
<1>3. ASSUME NEW n, DOMAIN n = DOMAIN k, n.messages = k.messages, n.cbuf = k.cbuf
      PROVE  Viewed(n, s, st, w)
  <2>1. View(n, s, st, w, off, all, place, taken)
    BY <1>1, <1>3, SameQueue
  <2>2. QED
    BY <2>1 DEF Viewed
<1>4. QED
  BY <1>2, <1>3

LEMMA SentKeeps ==
  ASSUME ProxyInv, NEW c \in Clients, SenderSent(c)
  PROVE  ProxyInv'
<1>1. PICK k, s, st, w : k = client[c] /\ s = sender[c] /\ st = stored[c] /\ w = wire[c]
  OBVIOUS
<1>2. PICK r : r = [s EXCEPT !.cursor = cbuf_advance_cursor(k.cbuf, @, s.result),
                             !.length = @ - s.result]
  OBVIOUS
<1>3. /\ s.pc = "sent" /\ s.result >= 0 /\ SenderOnly /\ UNCHANGED wire
      /\ \/ r.length > 0 /\ sender' = [sender EXCEPT ![c] = ToWrite(k, r)] /\ UNCHANGED client
         \/ /\ ~(r.length > 0)
            /\ client' = [client EXCEPT ![c] = Consumed(k)]
            /\ sender' = [sender EXCEPT ![c] = Continue(Consumed(k), r)]
  BY <1>1, <1>2, SenderFacts DEF SenderSent, SenderAt, ProxyInv, Shape
<1>4. UNCHANGED <<stored, pageEnd, net, wire, mpc, current>>
  BY <1>3 DEF SenderOnly, mainVars, peerVars, history
<1>5. CASE r.length > 0 /\ sender' = [sender EXCEPT ![c] = ToWrite(k, r)] /\ UNCHANGED client
  <2>1. ASSUME ~pageEnd[c] PROVE Viewed(client[c], ToWrite(k, r), stored[c], wire'[c])
    <3>1. PICK off, all, place, taken : View(k, s, st, w, off, all, place, taken)
      BY <1>1, <2>1, SenderFacts DEF Viewed
    <3>2. View(k, ToWrite(k, r), st, w, off, all, place, taken)
      BY <1>2, <1>3, <1>5, <3>1, SentPart
    <3>3. QED
      BY <1>1, <1>4, <3>2 DEF Viewed
  <2>2. DOMAIN wire' = Clients /\ \A x \in Clients : x # c => wire'[x] = wire[x]
    BY <1>4, SenderFacts
  <2>3. sender[c].pc # "none" /\ SenderOnly /\ UNCHANGED client
        /\ sender' = [sender EXCEPT ![c] = ToWrite(k, r)]
    BY <1>1, <1>3, <1>5
  <2>4. QED
    BY ONLY ProxyInv, c \in Clients, <2>1, <2>2, <2>3, SenderGoesOn
<1>6. CASE /\ ~(r.length > 0)
           /\ client' = [client EXCEPT ![c] = Consumed(k)]
           /\ sender' = [sender EXCEPT ![c] = Continue(Consumed(k), r)]
  <2>1. PICK q, n : q = Consumed(k) /\ n = Continue(q, r)
    OBVIOUS
  <2>2. client' = [client EXCEPT ![c] = q] /\ sender' = [sender EXCEPT ![c] = n]
    BY <1>6, <2>1
  <2>3. client'[c] = q /\ sender'[c] = n /\ Shape'
    BY <1>4, <2>2 DEF ProxyInv, Shape
  <2>4. \A x \in Clients : x # c => Alike(x)
    BY <1>4, <2>2 DEF ProxyInv, Shape, Alike
  <2>5. ASSUME ~pageEnd[c]
        PROVE  Viewed(q, n, st, w) /\ q.mbuf = k.mbuf /\ q.state = k.state
    <3>1. PICK off, all, place, taken : View(k, s, st, w, off, all, place, taken)
      BY <1>1, <2>5, SenderFacts DEF Viewed
    <3>2. View(q, n, st, w, off, all, place, taken)
      BY <1>2, <1>3, <1>6, <2>1, <3>1, SentWhole
    <3>3. q.mbuf = k.mbuf /\ q.state = k.state
      BY <2>1, <3>1 DEF Consumed, View, Client
    <3>4. QED
      BY <3>2, <3>3 DEF Viewed
  <2>6. Sound(c)'
    <3>1. Sound(c)
      BY DEF ProxyInv
    <3>2. QED
      BY <1>1, <1>3, <1>4, <2>3, <2>5, <3>1 DEF Sound
  <2>7. QED
    BY <2>3, <2>4, <2>6, OneClient
<1>7. QED
  BY <1>3, <1>5, <1>6

LEMMA FreesKeeps ==
  ASSUME ProxyInv, NEW c \in Clients, SenderFrees(c)
  PROVE  ProxyInv'
<1>1. PICK s, p, next : s = [sender[c] EXCEPT !.pc = "gone"] /\ p = sender[c].prev /\ next = client[c].next
  OBVIOUS
<1>2. /\ sender[c].pc = "free" /\ sender' = [sender EXCEPT ![c] = s]
      /\ client' = client \/ client' = [client EXCEPT ![p] = [client[p] EXCEPT !.next = next]]
      /\ UNCHANGED <<stored, pageEnd, net, wire, mpc, current>>
  BY <1>1 DEF SenderFrees, SenderAt, peerVars, history
<1>3. Shape'
  BY <1>2 DEF ProxyInv, Shape
<1>4. ASSUME NEW x \in Clients PROVE Sound(x)'
  <2>1. SUFFICES ASSUME ~pageEnd[x] PROVE Sound(x)'
    BY <1>2 DEF Sound
  <2>2. PICK k, n : k = client[x] /\ n = client'[x]
    OBVIOUS
  <2>3. /\ Viewed(k, sender[x], stored[x], wire[x]) /\ Client(k) /\ Sender(sender[x])
    BY <2>1, <2>2, SenderFacts, ViewedClient, ViewedSender
  <2>4. n = k \/ n = [k EXCEPT !.next = next]
    BY <1>2, <2>2 DEF ProxyInv, Shape
  <2>5. /\ DOMAIN n = DOMAIN k /\ n.messages = k.messages /\ n.cbuf = k.cbuf
        /\ n.mbuf = k.mbuf /\ n.state = k.state
    <3>1. CASE n = k
      BY <3>1
    <3>2. CASE n = [k EXCEPT !.next = next]
      BY <2>3, <3>2 DEF Client
    <3>3. QED
      BY <2>4, <3>1, <3>2
  <2>6. Viewed(n, sender[x], stored[x], wire[x])
    BY <2>3, <2>5, ViewedClient
  <2>7. CASE x # c
    <3>1. sender'[x] = sender[x]
      BY <1>2, <2>7 DEF ProxyInv, Shape
    <3>2. Sound(x)
      BY DEF ProxyInv
    <3>3. QED
      BY <1>2, <2>2, <2>5, <2>6, <3>1, <3>2 DEF Sound
  <2>8. CASE x = c
    <3>1. sender'[x] = s
      BY <1>2, <2>8 DEF ProxyInv, Shape
    <3>2. Sender(s) /\ s.pc = "gone" /\ s.connected = sender[c].connected
      BY <1>1, <2>3, <2>8 DEF Sender
    <3>3. PICK off, all, place, taken :
            View(n, sender[c], stored[c], wire[c], off, all, place, taken)
      BY <2>6, <2>8 DEF Viewed
    <3>4. View(n, s, stored[c], wire[c], off, all, place, taken)
      <4>1. ~Busy(sender[c]) /\ sender[c].pc # "relock"
        BY <1>2 DEF Busy
      <4>2. /\ s.pc \notin {"send", "sent"} /\ (s.pc = "connect" => ~s.connected)
            /\ s.connected => sender[c].connected /\ ~Busy(sender[c]) /\ sender[c].pc # "relock"
                              /\ s.pc # "relock"
        BY <3>2, <4>1
      <4>3. QED
        BY ONLY <3>2, <3>3, <4>1, <4>2, CalmSender
    <3>5. Viewed(n, s, stored[c], wire[c])
      BY <3>4 DEF Viewed
    <3>6. Sound(c)
      BY DEF ProxyInv
    <3>7. QED
      BY <1>2, <2>2, <2>5, <2>8, <3>1, <3>5, <3>6 DEF Sound
  <2>9. QED
    BY <2>7, <2>8
<1>5. QED
  BY <1>3, <1>4 DEF ProxyInv

\* A step of a sender.
LEMMA SenderKeeps ==
  ASSUME ProxyInv, NEW c \in Clients, SenderStep(c)
  PROVE  ProxyInv'
BY StartsKeeps, WakesKeeps, ConnectedKeeps, GivesUpKeeps, SendsHeadersKeeps, UnconnectedKeeps,
   SendsKeep, FailedKeeps, SentKeeps, FindsKeeps, FreesKeeps DEF SenderStep

-----------------------------------------------------------------------------
(* The main thread.                                                        *)

\* A step on the part of a client that its sender does not look at.
LEMMA ClientMoves ==
  ASSUME ProxyInv, NEW c \in Clients, NEW k, client' = [client EXCEPT ![c] = k],
         UNCHANGED <<sender, stored, pageEnd, wire>>, net' \in [Clients -> Seq(Items)],
         mpc' \in {"add", "store"} => current' = c,
         ~pageEnd[c] /\ Client(client[c]) =>
           /\ DOMAIN k = DOMAIN client[c] /\ k.messages = client[c].messages
           /\ k.cbuf = client[c].cbuf /\ k.mbuf \in Seq(Items)
           /\ k.state = "none" => sender[c].pc = "none"
           /\ mpc' = "add" => k.state # "none" /\ sender[c].pc = "none"
           /\ mpc' = "store" => k.mbuf # <<>> /\ Head(k.mbuf).kind = "msg"
  PROVE  ProxyInv'
<1>1. Shape' /\ client'[c] = k
  BY DEF ProxyInv, Shape
<1>2. \A x \in Clients : x # c => Alike(x)
  BY DEF ProxyInv, Shape, Alike
<1>3. ASSUME ~pageEnd[c] PROVE Viewed(k, sender[c], stored[c], wire[c]) /\ Client(client[c])
  BY <1>3, SenderFacts, ViewedClient
<1>4. Sound(c)'
  BY <1>1, <1>3 DEF Sound
<1>5. QED
  BY <1>1, <1>2, <1>4, OneClient

LEMMA ConnectKeeps ==
  ASSUME ProxyInv, NEW c \in Clients, Connect(c)
  PROVE  ProxyInv'
<1>1. PICK k : k = [client[c] EXCEPT !.state = "C_HEADER", !.next = head]
  OBVIOUS
<1>2. client' = [client EXCEPT ![c] = k] /\ current' = c /\ mpc' = "add" /\ client[c].state = "none"
  BY <1>1 DEF Connect, Goto, ProxyInv, Shape
<1>3. UNCHANGED <<sender, stored, pageEnd, wire, net>>
  BY DEF Connect, peerVars, history
<1>4. Client(client[c]) =>
        /\ DOMAIN k = DOMAIN client[c] /\ k.messages = client[c].messages
        /\ k.cbuf = client[c].cbuf /\ k.mbuf = client[c].mbuf /\ k.state = "C_HEADER"
  BY <1>1 DEF Client
<1>5. Sound(c) /\ net \in [Clients -> Seq(Items)]
  BY DEF ProxyInv, Shape
<1>6. ~pageEnd[c] => client[c].mbuf \in Seq(Items) /\ sender[c].pc = "none"
  BY <1>2, <1>5 DEF Sound
<1>7. QED
  BY <1>2, <1>3, <1>4, <1>5, <1>6, ClientMoves

LEMMA AcceptedKeeps ==
  ASSUME ProxyInv, NEW c \in Clients, Accepted(c)
  PROVE  ProxyInv'
<1>1. PICK n : n = [sender[c] EXCEPT !.pc = "start"]
  OBVIOUS
<1>2. sender' = [sender EXCEPT ![c] = n] /\ mpc' = "loop" /\ mpc = "add" /\ current = c
  BY <1>1 DEF Accepted, Goto, At
<1>3. UNCHANGED <<client, stored, pageEnd, net, wire>>
  BY DEF Accepted, history
<1>4. DOMAIN wire' = Clients /\ wire'[c] = wire[c] /\ \A x \in Clients : x # c => wire'[x] = wire[x]
  BY <1>3, SenderFacts
<1>5. ASSUME ~pageEnd[c]
      PROVE  Viewed(client[c], n, stored[c], wire[c]) /\ client[c].state # "none"
  <2>1. Sound(c)
    BY DEF ProxyInv
  <2>2. client[c].state # "none" /\ sender[c].pc = "none"
    BY <1>2, <1>5, <2>1 DEF Sound
  <2>3. PICK off, all, place, taken :
          View(client[c], sender[c], stored[c], wire[c], off, all, place, taken)
    BY <1>5, <2>1 DEF Sound, Viewed
  <2>4. Sender(sender[c])
    BY <2>3 DEF View
  <2>5. Sender(n) /\ n.pc = "start" /\ n.connected = sender[c].connected
    BY <1>1, <2>4 DEF Sender
  <2>6. ~Busy(sender[c])
    BY <2>2 DEF Busy
  <2>7. /\ n.pc \notin {"send", "sent"} /\ (n.pc = "connect" => ~n.connected)
        /\ n.connected => sender[c].connected /\ ~Busy(sender[c]) /\ sender[c].pc # "relock"
                          /\ n.pc # "relock"
    BY <2>2, <2>5, <2>6
  <2>8. View(client[c], n, stored[c], wire[c], off, all, place, taken)
    BY ONLY <2>3, <2>5, <2>6, <2>7, CalmSender
  <2>9. QED
    BY <2>2, <2>8 DEF Viewed
<1>6. QED
  BY <1>2, <1>3, <1>4, <1>5, SenderMoves

LEMMA ClosesKeeps ==
  ASSUME ProxyInv, NEW c \in Clients, PeerCloses(c)
  PROVE  ProxyInv'
<1>1. PICK rest \in {net[c], <<>>} : net' = [net EXCEPT ![c] = rest]
  BY DEF PeerCloses
<1>2. UNCHANGED <<client, sender, stored, pageEnd, wire, mpc, current>>
  BY DEF PeerCloses, mainVars, history
<1>3. net \in [Clients -> Seq(Items)]
  BY DEF ProxyInv, Shape
<1>4. rest \in Seq(Items)
  <2>1. net[c] \in Seq(Items) /\ <<>> \in Seq(Items)
    BY <1>3
  <2>2. rest = net[c] \/ rest = <<>>
    BY <1>1
  <2>3. QED
    BY ONLY <2>1, <2>2, Zenon
<1>5. net' \in [Clients -> Seq(Items)]
  BY <1>1, <1>3, <1>4
<1>6. Shape'
  BY <1>2, <1>5 DEF ProxyInv, Shape
<1>7. \A x \in Clients : Alike(x)
  BY <1>2 DEF Alike
<1>8. QED
  BY <1>6, <1>7, NoClientStep

\* client_callback() has something to look at.
LEMMA RecvFacts ==
  ASSUME ProxyInv, NEW c \in Clients, NEW mbuf, Recv(c, mbuf)
  PROVE  /\ net' \in [Clients -> Seq(Items)] /\ UNCHANGED <<sender, stored, pageEnd, wire>>
         /\ ~pageEnd[c] => mbuf \in Seq(Items) /\ mbuf # <<>> /\ Tail(mbuf) \in Seq(Items)
                           /\ Head(mbuf) \in Items
<1>1. PICK n \in 0 .. MaxRecv :
        /\ n <= Len(net[c]) /\ (n = 0 => client[c].mbuf # <<>>)
        /\ mbuf = client[c].mbuf \o SubSeq(net[c], 1, n)
        /\ net' = [net EXCEPT ![c] = SubSeq(@, n + 1, Len(@))]
  BY DEF Recv
<1>2. UNCHANGED <<sender, stored, pageEnd, wire>>
  BY DEF Recv, history
<1>3. net \in [Clients -> Seq(Items)] /\ net[c] \in Seq(Items) /\ n \in Nat
  BY <1>1, ProxyAssumption DEF ProxyInv, Shape
<1>4. PICK q : q = net[c]
  OBVIOUS
<1>5. q \in Seq(Items) /\ Len(q) \in Nat /\ n <= Len(q)
  BY <1>1, <1>3, <1>4, LenProperties
<1>6. /\ SubSeq(q, 1, n) \in Seq(Items) /\ Len(SubSeq(q, 1, n)) = n
      /\ SubSeq(q, n + 1, Len(q)) \in Seq(Items)
  <2>1. \A i \in 1 .. n : i \in 1 .. Len(q) /\ q[i] \in Items
    BY <1>3, <1>5, ElementOfSeq
  <2>2. \A i \in n + 1 .. Len(q) : i \in 1 .. Len(q) /\ q[i] \in Items
    BY <1>3, <1>5, ElementOfSeq
  <2>3. SubSeq(q, n + 1, Len(q)) \in Seq(Items)
    BY <1>3, <1>5, <2>2, SubSeqProperties
  <2>4. SubSeq(q, 1, n) \in Seq(Items) /\ Len(SubSeq(q, 1, n)) = n
    BY <1>3, <1>5, <2>1, SubSeqProperties
  <2>5. QED
    BY <2>3, <2>4
<1>7. net' \in [Clients -> Seq(Items)]
  <2>1. net' = [net EXCEPT ![c] = SubSeq(q, n + 1, Len(q))]
    BY <1>1, <1>3, <1>4
  <2>2. QED
    BY <1>3, <1>6, <2>1
<1>8. ASSUME ~pageEnd[c]
      PROVE  mbuf \in Seq(Items) /\ mbuf # <<>> /\ Tail(mbuf) \in Seq(Items) /\ Head(mbuf) \in Items
  <2>1. PICK b, a : b = client[c].mbuf /\ a = SubSeq(q, 1, n)
    OBVIOUS
  <2>2. b \in Seq(Items)
    BY <1>8, <2>1 DEF ProxyInv, Sound
  <2>3. a \in Seq(Items) /\ Len(a) = n /\ mbuf = b \o a
    BY <1>1, <1>4, <1>6, <2>1
  <2>4. mbuf \in Seq(Items) /\ Len(mbuf) = Len(b) + n /\ Len(b) \in Nat
    BY <2>2, <2>3, ConcatProperties, LenProperties
  <2>5. n = 0 => Len(b) # 0
    BY <1>1, <2>1, <2>2, EmptySeq
  <2>6. Len(mbuf) # 0
    BY <1>3, <2>4, <2>5
  <2>7. mbuf # <<>>
    BY <2>6
  <2>8. QED
    BY <2>4, <2>7, HeadTailProperties
<1>9. QED
  BY <1>2, <1>7, <1>8

LEMMA ReceiveKeeps ==
  ASSUME ProxyInv, NEW c \in Clients, Receive(c)
  PROVE  ProxyInv'
<1>1. CASE RecvHeaders(c)
  <2>1. PICK mbuf :
          /\ Recv(c, mbuf) /\ mpc' = "signal"
          /\ client' = [client EXCEPT ![c].state = "C_DATA", ![c].headers = Head(mbuf).have,
                                      ![c].mbuf = Tail(mbuf)]
    BY <1>1 DEF RecvHeaders, Goto
  <2>2. PICK k : k = [client[c] EXCEPT !.state = "C_DATA", !.headers = Head(mbuf).have,
                                       !.mbuf = Tail(mbuf)]
    OBVIOUS
  <2>3. client' = [client EXCEPT ![c] = k]
    BY <2>1, <2>2 DEF ProxyInv, Shape
  <2>4. Client(client[c]) =>
          /\ DOMAIN k = DOMAIN client[c] /\ k.messages = client[c].messages
          /\ k.cbuf = client[c].cbuf /\ k.mbuf = Tail(mbuf) /\ k.state = "C_DATA"
    BY <2>2 DEF Client
  <2>5. /\ net' \in [Clients -> Seq(Items)] /\ UNCHANGED <<sender, stored, pageEnd, wire>>
        /\ ~pageEnd[c] => Tail(mbuf) \in Seq(Items)
    BY <2>1, RecvFacts
  <2>6. QED
    BY <2>1, <2>3, <2>4, <2>5, ClientMoves
<1>2. CASE RecvMessage(c)
  <2>1. PICK mbuf :
          /\ Recv(c, mbuf) /\ mpc' = "store" /\ current' = c /\ client[c].state = "C_DATA"
          /\ Head(mbuf).kind = "msg" /\ client' = [client EXCEPT ![c].mbuf = mbuf]
    BY <1>2 DEF RecvMessage, Goto
  <2>2. PICK k : k = [client[c] EXCEPT !.mbuf = mbuf]
    OBVIOUS
  <2>3. client' = [client EXCEPT ![c] = k]
    BY <2>1, <2>2 DEF ProxyInv, Shape
  <2>4. Client(client[c]) =>
          /\ DOMAIN k = DOMAIN client[c] /\ k.messages = client[c].messages
          /\ k.cbuf = client[c].cbuf /\ k.mbuf = mbuf /\ k.state = "C_DATA"
    BY <2>1, <2>2 DEF Client
  <2>5. /\ net' \in [Clients -> Seq(Items)] /\ UNCHANGED <<sender, stored, pageEnd, wire>>
        /\ ~pageEnd[c] => mbuf \in Seq(Items) /\ mbuf # <<>>
    BY <2>1, RecvFacts
  <2>6. QED
    BY <2>1, <2>3, <2>4, <2>5, ClientMoves
<1>3. CASE RecvError(c)
  <2>1. PICK mbuf :
          /\ Recv(c, mbuf) /\ mpc' = "signal"
          /\ client' = [client EXCEPT ![c].state = "C_PROTOCOL_ERROR", ![c].mbuf = Tail(mbuf)]
    BY <1>3 DEF RecvError, Goto
  <2>2. PICK k : k = [client[c] EXCEPT !.state = "C_PROTOCOL_ERROR", !.mbuf = Tail(mbuf)]
    OBVIOUS
  <2>3. client' = [client EXCEPT ![c] = k]
    BY <2>1, <2>2 DEF ProxyInv, Shape
  <2>4. Client(client[c]) =>
          /\ DOMAIN k = DOMAIN client[c] /\ k.messages = client[c].messages
          /\ k.cbuf = client[c].cbuf /\ k.mbuf = Tail(mbuf) /\ k.state = "C_PROTOCOL_ERROR"
    BY <2>2 DEF Client
  <2>5. /\ net' \in [Clients -> Seq(Items)] /\ UNCHANGED <<sender, stored, pageEnd, wire>>
        /\ ~pageEnd[c] => Tail(mbuf) \in Seq(Items)
    BY <2>1, RecvFacts
  <2>6. QED
    BY <2>1, <2>3, <2>4, <2>5, ClientMoves
<1>4. QED
  BY <1>1, <1>2, <1>3 DEF Receive

LEMMA MessageItem ==
  ASSUME NEW m \in Items, m.kind = "msg"
  PROVE  m \in Messages
BY DEF Items, Messages, Junk

LEMMA StoredKeeps ==
  ASSUME ProxyInv, NEW c \in Clients, store_received_message(c)
  PROVE  ProxyInv'
<1>1. PICK k, m, at, q :
        /\ k = client[c] /\ m = Head(k.mbuf) /\ at = cbuf_write_cursor(k.cbuf)
        /\ q = [k EXCEPT !.messages = Append(@, [msg |-> m, cursor |-> at]),
                         !.cbuf = cbuf_write(@, Units(m)), !.mbuf = Tail(@)]
  OBVIOUS
<1>2. /\ mpc = "store" /\ current = c /\ mpc' = "signal"
      /\ client' = [client EXCEPT ![c] = q]
      /\ stored' = [stored EXCEPT ![c] = Append(@, m)]
      /\ pageEnd' = [pageEnd EXCEPT ![c] = @ \/ at.index = PageSize]
      /\ UNCHANGED <<sender, wire, net>>
  BY <1>1 DEF store_received_message, At, Goto, peerVars, ProxyInv, Shape
<1>3. DOMAIN stored = Clients /\ DOMAIN client = Clients /\ pageEnd \in [Clients -> BOOLEAN]
      /\ Sound(c)
  BY DEF ProxyInv, Shape
<1>4. /\ client'[c] = q /\ stored'[c] = Append(stored[c], m)
      /\ pageEnd' \in [Clients -> BOOLEAN] /\ pageEnd'[c] <=> (pageEnd[c] \/ at.index = PageSize)
      /\ \A x \in Clients : x # c => pageEnd'[x] = pageEnd[x]
  BY <1>2, <1>3
<1>5. Shape'
  BY <1>2, <1>4 DEF ProxyInv, Shape
<1>6. \A x \in Clients : x # c => Alike(x)
  BY <1>2, <1>3, <1>4 DEF Alike
<1>7. ASSUME ~pageEnd'[c]
      PROVE  /\ Viewed(q, sender[c], Append(stored[c], m), wire[c]) /\ q.mbuf \in Seq(Items)
             /\ q.state = k.state
  <2>1. ~pageEnd[c] /\ at.index # PageSize
    BY <1>4, <1>7
  <2>2. PICK off, all, place, taken :
          View(k, sender[c], stored[c], wire[c], off, all, place, taken)
    BY <1>1, <1>3, <2>1 DEF Sound, Viewed
  <2>3. k.mbuf \in Seq(Items) /\ k.mbuf # <<>> /\ m.kind = "msg"
    BY <1>1, <1>2, <1>3, <2>1 DEF Sound
  <2>4. m \in Items /\ Tail(k.mbuf) \in Seq(Items)
    BY <1>1, <2>3, HeadTailProperties
  <2>5. m \in Messages
    BY <2>3, <2>4, MessageItem
  <2>6. Client(k)
    BY <2>2 DEF View
  <2>7. /\ DOMAIN q = DOMAIN k /\ q.messages = Append(k.messages, [msg |-> m, cursor |-> at])
        /\ q.cbuf = cbuf_write(k.cbuf, Units(m)) /\ q.mbuf = Tail(k.mbuf) /\ q.state = k.state
    BY <1>1, <2>6 DEF Client
  <2>8. k.cbuf.pages[k.cbuf.tail].fill # PageSize
    BY <1>1, <2>1 DEF cbuf_write_cursor
  <2>9. at = cbuf_write_cursor(k.cbuf)
    BY <1>1
  <2>10. PICK off2, all2, new :
           View(q, sender[c], Append(stored[c], m), wire[c], off2, all2, new, taken)
    BY <2>2, <2>5, <2>7, <2>8, <2>9, StoreKeeps
  <2>11. QED
    BY <2>4, <2>7, <2>10 DEF Viewed
<1>8. Sound(c)'
  <2>1. ~pageEnd'[c] => (k.state = "none" => sender[c].pc = "none")
    BY <1>1, <1>3, <1>4 DEF Sound
  <2>2. QED
    BY <1>2, <1>4, <1>7, <2>1 DEF Sound
<1>9. QED
  BY <1>5, <1>6, <1>8, OneClient

LEMMA ClosedKeeps ==
  ASSUME ProxyInv, NEW c \in Clients, ClientClosed(c)
  PROVE  ProxyInv'
<1>1. PICK k, s : k = [client[c] EXCEPT !.state = "C_DISCONNECTED"] /\ s = sender'[c]
  OBVIOUS
<1>2. /\ client' = [client EXCEPT ![c] = k] /\ sender' = Woken(c) /\ mpc = "loop"
      /\ UNCHANGED <<stored, pageEnd, wire, net, mpc, current>>
  BY <1>1 DEF ClientClosed, At, mainVars, history, ProxyInv, Shape
<1>3. DOMAIN client = Clients /\ DOMAIN sender = Clients /\ Sound(c)
  BY DEF ProxyInv, Shape
<1>4. /\ DOMAIN sender' = Clients /\ \A x \in Clients : x # c => sender'[x] = sender[x]
      /\ s = sender[c] \/ (sender[c].pc = "wait" /\ s = [sender[c] EXCEPT !.pc = "woken"])
  BY <1>1, <1>2, <1>3 DEF Woken
<1>5. Shape' /\ client'[c] = k
  BY <1>2, <1>3, <1>4 DEF ProxyInv, Shape
<1>6. \A x \in Clients : x # c => Alike(x)
  BY <1>2, <1>3, <1>4 DEF Alike
<1>7. ASSUME ~pageEnd[c]
      PROVE  /\ Viewed(k, s, stored[c], wire[c]) /\ k.mbuf \in Seq(Items)
             /\ k.state # "none"
  <2>1. Viewed(client[c], sender[c], stored[c], wire[c]) /\ client[c].mbuf \in Seq(Items)
    BY <1>3, <1>7 DEF Sound
  <2>2. Client(client[c]) /\ Sender(sender[c])
    BY <2>1, ViewedClient, ViewedSender
  <2>3. /\ DOMAIN k = DOMAIN client[c] /\ k.messages = client[c].messages
        /\ k.cbuf = client[c].cbuf /\ k.mbuf = client[c].mbuf /\ k.state = "C_DISCONNECTED"
    BY <1>1, <2>2 DEF Client
  <2>4. Viewed(k, sender[c], stored[c], wire[c])
    BY <2>1, <2>3, ViewedClient
  <2>5. Viewed(k, s, stored[c], wire[c])
    <3>1. CASE s = sender[c]
      BY <2>4, <3>1
    <3>2. CASE sender[c].pc = "wait" /\ s = [sender[c] EXCEPT !.pc = "woken"]
      <4>1. PICK off, all, place, taken :
              View(k, sender[c], stored[c], wire[c], off, all, place, taken)
        BY <2>4 DEF Viewed
      <4>2. Sender(s) /\ s.pc = "woken" /\ s.connected = sender[c].connected
        BY <2>2, <3>2 DEF Sender
      <4>3. ~Busy(sender[c])
        BY <3>2 DEF Busy
      <4>4. /\ s.pc \notin {"send", "sent"} /\ (s.pc = "connect" => ~s.connected)
            /\ s.connected => sender[c].connected /\ ~Busy(sender[c]) /\ sender[c].pc # "relock"
                              /\ s.pc # "relock"
        BY <3>2, <4>2, <4>3
      <4>5. View(k, s, stored[c], wire[c], off, all, place, taken)
        BY ONLY <4>1, <4>2, <4>3, <4>4, CalmSender
      <4>6. QED
        BY <4>5 DEF Viewed
    <3>3. QED
      BY <1>4, <3>1, <3>2
  <2>6. QED
    BY <2>1, <2>3, <2>5
<1>8. Sound(c)'
  BY <1>1, <1>2, <1>5, <1>7 DEF Sound
<1>9. QED
  BY <1>5, <1>6, <1>8, OneClient

LEMMA MainKeeps ==
  ASSUME ProxyInv, MainStep
  PROVE  ProxyInv'
<1>1. ASSUME NEW c \in Clients, Signal(c) PROVE ProxyInv'
  <2>1. sender' = Woken(c) /\ mpc' = "loop" /\ UNCHANGED <<client, stored, pageEnd, net, wire>>
    BY <1>1 DEF Signal, Goto, peerVars, history
  <2>2. QED
    BY <2>1, WokenKeeps
<1>2. CASE WalkSignal
  <2>1. CASE Undefined
    BY <2>1, UndefinedKeeps
  <2>2. CASE sender' = Woken(current) /\ mpc' = "next" /\ UNCHANGED <<client, stored, pageEnd, net, wire>>
    BY <2>2, WokenKeeps
  <2>3. QED
    BY <1>2, <2>1, <2>2 DEF WalkSignal, peerVars, history
<1>3. ASSUME mpc' \notin {"add", "store"}, UNCHANGED <<client, sender, stored, pageEnd, net, wire>>
      PROVE  ProxyInv'
  <2>1. Shape' /\ \A x \in Clients : Alike(x)
    BY <1>3 DEF ProxyInv, Shape, Alike
  <2>2. QED
    BY <2>1, NoClientStep
<1>4. CASE WalkNext
  <2>1. CASE Undefined
    BY <2>1, UndefinedKeeps
  <2>2. CASE mpc' = "walk" /\ UNCHANGED <<client, sender, stored, pageEnd, net, wire>>
    BY <1>3, <2>2
  <2>3. QED
    BY <1>4, <2>1, <2>2 DEF WalkNext, Goto, peerVars, history
<1>5. CASE WalkEnds
  BY <1>3, <1>5 DEF WalkEnds, Goto, peerVars, history
<1>6. QED
  BY <1>1, <1>2, <1>4, <1>5, AcceptedKeeps, StoredKeeps DEF MainStep

LEMMA CommandKeeps ==
  ASSUME ProxyInv, NEW s, Command(s)
  PROVE  ProxyInv'
<1>1. UNCHANGED <<client, sender, stored, pageEnd, net, wire>>
      /\ (mpc' \in {"walk"} \/ UNCHANGED <<mpc, current>>)
  BY DEF Command, Goto, peerVars, history
<1>2. Shape' /\ \A x \in Clients : Alike(x)
  BY <1>1 DEF ProxyInv, Shape, Alike
<1>3. QED
  BY <1>2, NoClientStep

LEMMA ProxyStep ==
  ProxyInv /\ [Next]_vars => ProxyInv'
<1>1. SUFFICES ASSUME ProxyInv, [Next]_vars PROVE ProxyInv'
  OBVIOUS
<1>2. CASE UNCHANGED vars
  <2>1. UNCHANGED <<client, sender, wire, stored, pageEnd, net, mpc, current>>
    BY <1>2 DEF vars, mainVars, peerVars, history
  <2>2. Shape' /\ \A x \in Clients : Alike(x)
    BY <1>1, <2>1 DEF ProxyInv, Shape, Alike
  <2>3. QED
    BY <1>1, <2>2, NoClientStep
<1>3. CASE MainStep
  BY <1>1, <1>3, MainKeeps
<1>4. ASSUME NEW c \in Clients,
             Connect(c) \/ PeerCloses(c) \/ Receive(c) \/ ClientClosed(c) \/ SenderStep(c)
      PROVE  ProxyInv'
  BY <1>1, <1>4, ConnectKeeps, ClosesKeeps, ReceiveKeeps, ClosedKeeps, SenderKeeps
<1>5. CASE \E s \in Commands : Command(s)
  BY <1>1, <1>5, CommandKeeps
<1>6. QED
  BY <1>1, <1>2, <1>3, <1>4, <1>5 DEF Next

LEMMA ProxyStart ==
  Init => ProxyInv
<1>1. SUFFICES ASSUME Init PROVE ProxyInv
  OBVIOUS
<1>2. net \in [Clients -> Seq(Items)]
  BY <1>1, ProxyAssumption DEF Init
<1>3. Shape
  BY <1>1, <1>2 DEF Init, Shape
<1>4. ASSUME NEW c \in Clients PROVE Sound(c)
  <2>1. client[c] = NewClient /\ sender[c] = NewSender /\ stored[c] = <<>> /\ wire[c] = <<>>
        /\ mpc = "loop"
    BY <1>1 DEF Init
  <2>2. Viewed(NewClient, NewSender, <<>>, <<>>)
    BY NewView DEF Viewed
  <2>3. NewClient.mbuf \in Seq(Items) /\ NewSender.pc = "none"
    BY DEF NewClient, NewSender
  <2>4. QED
    BY <2>1, <2>2, <2>3 DEF Sound
<1>5. QED
  BY <1>3, <1>4 DEF ProxyInv

-----------------------------------------------------------------------------
(* What the invariant says about the properties.                           *)

\* A queued message is where its cursor says.
LEMMA FoundIsStored ==
  ASSUME NEW k, NEW s, NEW st, NEW w, NEW off, NEW all, NEW place, NEW taken,
         View(k, s, st, w, off, all, place, taken), NEW i \in DOMAIN k.messages,
         NEW node, node = k.messages[i]
  PROVE  Found(k.cbuf, node.cursor, node.msg.len) = Units(node.msg)
<1>1. PICK d, b, m : d = Gone(k, st) /\ b = k.cbuf /\ m = st[d + i]
  OBVIOUS
<1>2. /\ Offsets(st, off, all) /\ Stock(k, st, off, all, place)
      /\ Paged(b) /\ Laid(b, place, off[d])
      /\ \A j \in off[d] + 1 .. Len(all) : Unit(b, place[j]) = all[j]
  BY <1>1 DEF View, Stock
<1>3. Numbers(k, st, w, off, all, place, d)
  BY <1>1, ViewNumbers
<1>4. /\ Len(st) \in Nat /\ Len(k.messages) \in Nat /\ Len(all) \in Nat /\ Len(place) = Len(all)
      /\ d \in 0 .. Len(st) /\ Len(st) = d + Len(k.messages)
  BY <1>3 DEF Numbers
<1>5. i \in 1 .. Len(k.messages)
  <2>1. k.messages \in Seq([msg : Messages, cursor : Cursors])
    BY DEF View, Client
  <2>2. QED
    BY <2>1
<1>6. node = [msg |-> m, cursor |-> place[off[d + i - 1] + 1]]
  BY <1>1, <1>2, <1>5 DEF Stock
<1>7. PICK e, f, len : e = d + i /\ f = off[d + i - 1] /\ len = m.len
  OBVIOUS
<1>8. e \in 1 .. Len(st) /\ d + i - 1 = e - 1 /\ e - 1 \in 0 .. Len(st) /\ e \in 0 .. Len(st)
      /\ (d = e - 1 \/ d < e - 1)
  BY <1>4, <1>5, <1>7
<1>9. /\ m \in Messages /\ len \in Nat \ {0} /\ off[e] = f + len /\ f \in 0 .. Len(all)
      /\ off[e] \in 0 .. Len(all) /\ off[d] \in 0 .. Len(all) /\ off[d] <= f
  <2>1. st[e] \in Messages /\ st[e].len \in Nat \ {0} /\ off[e] = off[e - 1] + st[e].len
    BY <1>2, <1>8, OffsetsGrow
  <2>2. /\ off[e] \in 0 .. Len(all) /\ off[e - 1] \in 0 .. Len(all) /\ off[d] \in 0 .. Len(all)
    BY <1>2, <1>4, <1>8, OffsetsGrow
  <2>3. d < e - 1 => off[d] < off[e - 1]
    BY <1>2, <1>4, <1>8, OffsetsGrow
  <2>4. off[d] <= off[e - 1]
    BY <1>4, <1>8, <2>2, <2>3
  <2>5. QED
    BY <1>1, <1>7, <1>8, <2>1, <2>2, <2>4
<1>10. ASSUME NEW t \in 1 .. len
       PROVE  Memory(b, cbuf_advance_cursor(b, place[f + 1], t - 1), 1)[1] = <<m.id, t>>
  <2>1. PICK j, n, x : j = f + 1 /\ n = t - 1 /\ x = f + t
    OBVIOUS
  <2>2. /\ j \in off[d] + 1 .. Len(place) /\ n \in Nat /\ j + n <= Len(place) /\ j + n <= Len(place) + 1
        /\ j + n = x /\ x \in off[d] + 1 .. Len(place) /\ x \in off[d] + 1 .. Len(all)
    BY ONLY <1>4, <1>9, <2>1, t \in 1 .. len
  <2>3. cbuf_advance_cursor(b, place[j], n) = place[j + n]
    <3>1. PICK lo : lo = off[d]
      OBVIOUS
    <3>2. Paged(b) /\ Laid(b, place, lo) /\ j \in lo + 1 .. Len(place)
      BY <1>2, <2>2, <3>1
    <3>3. QED
      BY ONLY <2>2, <3>2, AdvanceFollows
  <2>4. place[x].index \in 0 .. PageSize - 1 /\ PageSize \in Nat
    BY <1>2, <2>2, PlaceFacts, CBufAssumption
  <2>5. Memory(b, place[x], 1)[1] = Unit(b, place[x])
    <3>1. place[x].index + 1 <= PageSize /\ 1 \in 1 .. 1
      BY <2>4
    <3>2. QED
      BY <3>1 DEF Memory, Unit
  <2>6. Unit(b, place[x]) = all[x]
    BY <1>2, <2>2
  <2>7. all[off[e - 1] + t] = <<st[e].id, t>>
    <3>1. t \in 1 .. st[e].len
      BY <1>1, <1>7
    <3>2. QED
      BY <1>2, <1>8, <3>1 DEF Offsets
  <2>8. all[x] = <<m.id, t>>
    BY <1>1, <1>7, <1>8, <2>1, <2>7
  <2>9. QED
    BY <2>1, <2>2, <2>3, <2>5, <2>6, <2>8
<1>11. Found(b, place[f + 1], len) = Units(m)
  BY <1>7, <1>10 DEF Found, Units
<1>12. QED
  BY <1>1, <1>6, <1>7, <1>11

\* FlattenSeq(), step by step.
Joining(q, n, g) == g = [i \in 1 .. n |-> IF i = 1 THEN q[i] ELSE g[i - 1] \o q[i]]

LEMMA JoiningExists ==
  ASSUME NEW q
  PROVE  \A n \in Nat : \E g : Joining(q, n, g)
<1> DEFINE T == {n \in Nat : \E g : Joining(q, n, g)}
<1>1. 0 \in T
  <2> DEFINE g == [i \in 1 .. 0 |-> q[i]]
  <2>1. Joining(q, 0, g)
    BY DEF Joining
  <2>2. QED
    BY <2>1
<1>2. ASSUME NEW n \in Nat, n \in T PROVE n + 1 \in T
  <2>1. PICK g : Joining(q, n, g)
    BY <1>2
  <2>2. PICK new : new = IF n + 1 = 1 THEN q[n + 1] ELSE g[n] \o q[n + 1]
    OBVIOUS
  <2> DEFINE h == [i \in 1 .. n + 1 |-> IF i = n + 1 THEN new ELSE g[i]]
  <2>3. \A i \in 1 .. n + 1 : h[i] = IF i = 1 THEN q[i] ELSE h[i - 1] \o q[i]
    <3>1. TAKE i \in 1 .. n + 1
    <3>2. CASE i = n + 1
      <4>1. h[i] = new /\ (i # 1 => i - 1 = n /\ h[i - 1] = g[n])
        BY <3>2
      <4>2. QED
        BY <2>2, <3>2, <4>1
    <3>3. CASE i # n + 1
      <4>1. i \in 1 .. n /\ h[i] = g[i]
        BY <3>3
      <4>2. i # 1 => h[i - 1] = g[i - 1]
        BY <4>1
      <4>3. g[i] = IF i = 1 THEN q[i] ELSE g[i - 1] \o q[i]
        BY <2>1, <4>1 DEF Joining
      <4>4. QED
        BY <4>1, <4>2, <4>3
    <3>4. QED
      BY <3>2, <3>3
  <2>4. Joining(q, n + 1, h)
    BY <2>3 DEF Joining
  <2>5. QED
    BY <2>4
<1>3. QED
  <2> HIDE DEF T
  <2>1. Nat \subseteq T
    BY <1>1, <1>2, Induction
  <2>2. QED
    BY <2>1 DEF T

LEMMA FlattenIsJoining ==
  ASSUME NEW q, Len(q) \in Nat, Len(q) # 0
  PROVE  \E g : Joining(q, Len(q), g) /\ FlattenSeq(q) = g[Len(q)]
<1>1. PICK g : Joining(q, Len(q), g)
  BY JoiningExists
<1> DEFINE h == CHOOSE x : Joining(q, Len(q), x)
<1>2. Joining(q, Len(q), h)
  BY <1>1
<1>3. FlattenSeq(q) = h[Len(q)]
  BY DEF FlattenSeq, Joining
<1>4. QED
  BY <1>2, <1>3

\* x is the first n of the units all.
First(all, n, x) == x \in Seq(Nat \X Nat) /\ Len(x) = n /\ \A j \in 1 .. n : x[j] = all[j]

LEMMA FirstMore ==
  ASSUME NEW st, NEW off, NEW all, Offsets(st, off, all), NEW n \in 1 .. Len(st),
         NEW x, First(all, off[n - 1], x)
  PROVE  First(all, off[n], x \o Units(st[n]))
<1>1. PICK f, m, u, y : f = off[n - 1] /\ m = st[n] /\ u = Units(m) /\ y = x \o u
  OBVIOUS
<1>2. Len(st) \in Nat /\ n - 1 \in 0 .. Len(st) /\ n \in 0 .. Len(st)
  <2>1. Len(st) \in Nat
    BY OffsetsGrow
  <2>2. QED
    BY <2>1
<1>3. m \in Messages /\ m.len \in Nat \ {0} /\ off[n] = f + m.len /\ f \in Nat
  <2>1. st[n] \in Messages /\ st[n].len \in Nat \ {0} /\ off[n] = off[n - 1] + st[n].len
    BY OffsetsGrow
  <2>2. off[n - 1] \in 0 .. Len(all)
    BY <1>2, OffsetsGrow
  <2>3. QED
    BY <1>1, <2>1, <2>2
<1>4. /\ u \in Seq(Nat \X Nat) /\ Len(u) = m.len /\ \A t \in 1 .. m.len : u[t] = <<m.id, t>>
  BY <1>1, <1>3, UnitsFacts
<1>5. /\ x \in Seq(Nat \X Nat) /\ Len(x) = f /\ \A j \in 1 .. f : x[j] = all[j]
  BY <1>1 DEF First
<1>6. /\ y \in Seq(Nat \X Nat) /\ Len(y) = f + m.len
      /\ \A j \in 1 .. f + m.len : y[j] = IF j <= f THEN x[j] ELSE u[j - f]
  <2>1. /\ x \o u \in Seq(Nat \X Nat) /\ Len(x \o u) = Len(x) + Len(u)
        /\ \A j \in 1 .. Len(x) + Len(u) :
             (x \o u)[j] = IF j <= Len(x) THEN x[j] ELSE u[j - Len(x)]
    BY ONLY <1>4, <1>5, ConcatProperties
  <2>2. QED
    BY ONLY <1>1, <1>4, <1>5, <2>1
<1>7. ASSUME NEW j \in 1 .. f + m.len PROVE y[j] = all[j]
  <2>1. CASE j <= f
    <3>1. j \in 1 .. f
      BY <1>3, <2>1
    <3>2. QED
      BY <1>5, <1>6, <2>1, <3>1
  <2>2. CASE ~(j <= f)
    <3>1. PICK t : t = j - f
      OBVIOUS
    <3>2. t \in 1 .. m.len /\ f + t = j
      BY <1>3, <2>2, <3>1
    <3>3. y[j] = <<m.id, t>>
      BY <1>4, <1>6, <2>2, <3>1, <3>2
    <3>4. all[f + t] = <<m.id, t>>
      BY <1>1, <3>2 DEF Offsets
    <3>5. QED
      BY <3>2, <3>3, <3>4
  <2>3. QED
    BY <2>1, <2>2
<1>8. QED
  BY <1>1, <1>3, <1>6, <1>7 DEF First

LEMMA FlattenStored ==
  ASSUME NEW st, NEW off, NEW all, Offsets(st, off, all), NEW n \in 0 .. Len(st)
  PROVE  First(all, off[n], FlattenSeq([i \in 1 .. n |-> Units(st[i])]))
<1>1. Len(st) \in Nat /\ n \in Nat /\ off[0] = 0 /\ \A i \in 1 .. Len(st) : st[i] \in Messages
  BY OffsetsGrow DEF Offsets
<1>2. PICK q : q = [i \in 1 .. n |-> Units(st[i])]
  OBVIOUS
<1>3. q \in Seq(Seq(Nat \X Nat)) /\ Len(q) = n
  <2>1. \A i \in 1 .. n : Units(st[i]) \in Seq(Nat \X Nat)
    <3>1. TAKE i \in 1 .. n
    <3>2. i \in 1 .. Len(st)
      BY <1>1
    <3>3. QED
      BY <1>1, <3>2, UnitsFacts
  <2>2. q \in [1 .. n -> Seq(Nat \X Nat)]
    BY <1>2, <2>1
  <2>3. QED
    BY <1>1, <2>2
<1>4. CASE n = 0
  <2>1. q = <<>> /\ FlattenSeq(q) = q
    BY <1>3, <1>4, EmptySeq DEF FlattenSeq
  <2>2. First(all, 0, q)
    BY <2>1 DEF First
  <2>3. QED
    BY <1>1, <1>2, <1>4, <2>1, <2>2
<1>5. CASE n # 0
  <2>1. PICK g : Joining(q, n, g) /\ FlattenSeq(q) = g[n]
    BY <1>1, <1>3, <1>5, FlattenIsJoining
  <2> DEFINE T == {i \in Nat : i + 1 <= n => First(all, off[i + 1], g[i + 1])}
  <2>2. \A i \in 1 .. n : q[i] = Units(st[i]) /\ i \in 1 .. Len(st)
    BY <1>1, <1>2
  <2>3. First(all, off[0], <<>>)
    BY <1>1 DEF First
  <2>4. 0 \in T
    <3>1. 1 \in 1 .. n /\ 1 \in 1 .. Len(st) /\ 1 - 1 = 0 /\ 0 + 1 = 1
      BY <1>1, <1>5
    <3>2. g[1] = Units(st[1])
      BY <2>1, <2>2, <3>1 DEF Joining
    <3>3. First(all, off[1], <<>> \o Units(st[1]))
      BY <2>3, <3>1, FirstMore
    <3>4. <<>> \o Units(st[1]) = Units(st[1])
      <4>1. Units(st[1]) \in Seq(Nat \X Nat)
        BY <1>1, <3>1, UnitsFacts
      <4>2. QED
        BY <4>1, ConcatEmptySeq
    <3>5. QED
      BY <3>1, <3>2, <3>3, <3>4
  <2>5. ASSUME NEW i \in Nat, i \in T PROVE i + 1 \in T
    <3>1. SUFFICES ASSUME (i + 1) + 1 <= n PROVE First(all, off[(i + 1) + 1], g[(i + 1) + 1])
      OBVIOUS
    <3>2. PICK j : j = (i + 1) + 1
      OBVIOUS
    <3>3. j \in 1 .. n /\ j # 1 /\ j - 1 = i + 1 /\ i + 1 <= n /\ j \in 1 .. Len(st)
      BY <1>1, <3>1, <3>2
    <3>4. First(all, off[j - 1], g[j - 1])
      BY <2>5, <3>3
    <3>5. g[j] = g[j - 1] \o Units(st[j])
      BY <2>1, <2>2, <3>3 DEF Joining
    <3>6. First(all, off[j], g[j - 1] \o Units(st[j]))
      BY <3>3, <3>4, FirstMore
    <3>7. QED
      BY <3>2, <3>5, <3>6
  <2>6. First(all, off[n], g[n])
    <3> HIDE DEF T
    <3>1. n - 1 \in Nat /\ (n - 1) + 1 = n
      BY <1>1, <1>5
    <3>2. n - 1 \in T
      BY <2>4, <2>5, <3>1, Induction
    <3>3. QED
      BY <3>1, <3>2 DEF T
  <2>7. QED
    BY <1>2, <2>1, <2>6
<1>6. QED
  BY <1>4, <1>5

\* All() and Ends() are what the invariant calls all and off.
EndsOf(st, off) == {off[n] : n \in 0 .. Len(st)}
LEMMA AllIsAll ==
  ASSUME NEW c, NEW off, NEW all, Offsets(stored[c], off, all)
  PROVE  All(c) = all /\ Ends(c) = EndsOf(stored[c], off)
<1>1. PICK st : st = stored[c]
  OBVIOUS
<1>2. /\ st \in Seq(Messages) /\ Len(st) \in Nat /\ all \in Seq(Nat \X Nat) /\ Len(all) = off[Len(st)]
      /\ Offsets(st, off, all)
  BY <1>1, OffsetsGrow DEF Offsets
<1>3. \A n \in 0 .. Len(st) :
        First(all, off[n], FlattenSeq([i \in 1 .. n |-> Units(st[i])]))
  BY <1>2, FlattenStored
<1>4. All(c) = FlattenSeq([i \in 1 .. Len(st) |-> Units(st[i])])
  <2>1. DOMAIN st = 1 .. Len(st)
    BY <1>2
  <2>2. [i \in DOMAIN st |-> Units(st[i])] = [i \in 1 .. Len(st) |-> Units(st[i])]
    BY <2>1
  <2>3. All(c) = FlattenSeq([i \in DOMAIN st |-> Units(st[i])])
    BY <1>1 DEF All
  <2>4. QED
    BY ONLY <2>2, <2>3
<1>5. First(all, Len(all), All(c))
  <2>1. Len(st) \in 0 .. Len(st)
    BY <1>2
  <2>2. QED
    BY <1>2, <1>3, <1>4, <2>1
<1>6. All(c) = all
  <2>1. PICK x : x = All(c)
    OBVIOUS
  <2>2. x \in Seq(Nat \X Nat) /\ Len(x) = Len(all) /\ \A j \in 1 .. Len(all) : x[j] = all[j]
    BY <1>5, <2>1 DEF First
  <2>3. x = all
    BY ONLY <1>2, <2>2, SeqEqual
  <2>4. QED
    BY <2>1, <2>3
<1>7. \A n \in 0 .. Len(st) : Len(FlattenSeq([i \in 1 .. n |-> Units(st[i])])) = off[n]
  BY <1>3 DEF First
<1>8. Ends(c) = EndsOf(st, off)
  BY <1>1, <1>7 DEF Ends, EndsOf
<1>9. QED
  BY <1>1, <1>6, <1>8

\* The last of these ends that is not beyond x.
LastEnd(ends, x) == CHOOSE e \in ends : e <= x /\ \A f \in ends : f <= x => f <= e
\* Forwarded(), step by step.
Following(w, ends, n, g) ==
  g = [i \in 0 .. n |-> IF i = 0 THEN 0 ELSE LastEnd(ends, g[i - 1] + Carried(w[i]))]

LEMMA FollowingExists ==
  ASSUME NEW w, NEW ends
  PROVE  \A n \in Nat : \E g : Following(w, ends, n, g)
<1> DEFINE T == {n \in Nat : \E g : Following(w, ends, n, g)}
<1>1. 0 \in T
  <2> DEFINE g == [i \in 0 .. 0 |-> 0]
  <2>1. Following(w, ends, 0, g)
    BY DEF Following
  <2>2. QED
    BY <2>1
<1>2. ASSUME NEW n \in Nat, n \in T PROVE n + 1 \in T
  <2>1. PICK g : Following(w, ends, n, g)
    BY <1>2
  <2>2. PICK new : new = LastEnd(ends, g[n] + Carried(w[n + 1]))
    OBVIOUS
  <2> DEFINE h == [i \in 0 .. n + 1 |-> IF i = n + 1 THEN new ELSE g[i]]
  <2>3. \A i \in 0 .. n + 1 :
          h[i] = IF i = 0 THEN 0 ELSE LastEnd(ends, h[i - 1] + Carried(w[i]))
    <3>1. TAKE i \in 0 .. n + 1
    <3>2. CASE i = n + 1
      <4>1. h[i] = new /\ i # 0 /\ i - 1 = n /\ h[i - 1] = g[n]
        BY <3>2
      <4>2. QED
        BY <2>2, <3>2, <4>1
    <3>3. CASE i # n + 1
      <4>1. i \in 0 .. n /\ h[i] = g[i]
        BY <3>3
      <4>2. i # 0 => h[i - 1] = g[i - 1]
        BY <4>1
      <4>3. g[i] = IF i = 0 THEN 0 ELSE LastEnd(ends, g[i - 1] + Carried(w[i]))
        BY <2>1, <4>1 DEF Following
      <4>4. QED
        BY <4>1, <4>2, <4>3
    <3>4. QED
      BY <3>2, <3>3
  <2>4. Following(w, ends, n + 1, h)
    BY <2>3 DEF Following
  <2>5. QED
    BY <2>4
<1>3. QED
  <2> HIDE DEF T
  <2>1. Nat \subseteq T
    BY <1>1, <1>2, Induction
  <2>2. QED
    BY <2>1 DEF T

LEMMA ForwardedIsFollowing ==
  ASSUME NEW c, Len(wire[c]) \in Nat
  PROVE  Following(wire[c], Ends(c), Len(wire[c]), Forwarded(c))
<1>1. PICK g : Following(wire[c], Ends(c), Len(wire[c]), g)
  BY FollowingExists
<1> DEFINE h == CHOOSE x : Following(wire[c], Ends(c), Len(wire[c]), x)
<1>2. Following(wire[c], Ends(c), Len(wire[c]), h)
  BY <1>1
<1>3. Forwarded(c) = h
  BY DEF Forwarded, Following, LastEnd, Carried
<1>4. QED
  BY <1>2, <1>3

\* The messages that are out whole end where LastEnd() says.
LEMMA LastEndIsTaken ==
  ASSUME NEW st, NEW off, NEW all, Offsets(st, off, all), NEW e \in 0 .. Len(st),
         NEW x \in Nat, off[e] <= x, e < Len(st) => x < off[e + 1],
         NEW ends, ends = {off[n] : n \in 0 .. Len(st)}
  PROVE  LastEnd(ends, x) = off[e]
<1>1. /\ Len(st) \in Nat /\ \A n \in 0 .. Len(st) : off[n] \in Nat
      /\ \A m, n \in 0 .. Len(st) : m < n => off[m] < off[n]
  BY OffsetsGrow
<1>2. ASSUME NEW n \in 0 .. Len(st), off[n] <= x PROVE off[n] <= off[e]
  <2>1. CASE n <= e
    <3>1. n = e \/ n < e
      BY <1>1, <2>1
    <3>2. off[n] \in Nat /\ off[e] \in Nat /\ (n < e => off[n] < off[e])
      BY <1>1
    <3>3. QED
      BY <3>1, <3>2
  <2>2. CASE ~(n <= e)
    <3>1. e < Len(st) /\ e + 1 \in 0 .. Len(st) /\ (e + 1 = n \/ e + 1 < n)
      BY <1>1, <2>2
    <3>2. off[e + 1] \in Nat /\ off[n] \in Nat /\ (e + 1 < n => off[e + 1] < off[n])
      BY <1>1, <3>1
    <3>3. x < off[e + 1]
      BY <3>1
    <3>4. FALSE
      BY <1>2, <3>1, <3>2, <3>3
    <3>5. QED
      BY <3>4
  <2>3. QED
    BY <2>1, <2>2
<1>3. off[e] \in ends /\ \A f \in ends : f \in Nat /\ (f <= x => f <= off[e])
  BY <1>1, <1>2
<1>4. PICK y : y = LastEnd(ends, x)
  OBVIOUS
<1>5. y \in ends /\ y <= x /\ \A f \in ends : f <= x => f <= y
  <2>1. \E z \in ends : z <= x /\ \A f \in ends : f <= x => f <= z
    BY <1>3
  <2>2. QED
    BY ONLY <1>4, <2>1 DEF LastEnd
<1>6. y \in Nat /\ off[e] \in Nat /\ y <= off[e] /\ off[e] <= y
  BY <1>1, <1>3, <1>5
<1>7. y = off[e]
  BY ONLY <1>6
<1>8. QED
  BY <1>4, <1>7

\* Every connection carries its part of what was stored.
LEMMA ReplayIsVerbatim ==
  ASSUME NEW c, NEW off, NEW all, NEW taken, Offsets(stored[c], off, all),
         Replay(wire[c], stored[c], off, all, taken)
  PROVE  ForwardsVerbatim(c)
<1>1. PICK st, w, L : st = stored[c] /\ w = wire[c] /\ L = Len(wire[c])
  OBVIOUS
<1>2. /\ w \in Seq(Seq(Data)) /\ L \in Nat /\ taken \in [0 .. L -> 0 .. Len(st)] /\ taken[0] = 0
      /\ Len(st) \in Nat /\ Len(all) \in Nat /\ all \in Seq(Nat \X Nat) /\ off[0] = 0
      /\ \A n \in 0 .. Len(st) : off[n] \in Nat
  BY <1>1, LenProperties, OffsetsGrow DEF Replay, Offsets
<1>3. PICK ends, g : ends = {off[n] : n \in 0 .. Len(st)} /\ g = Forwarded(c)
  OBVIOUS
<1>4. All(c) = all /\ Ends(c) = ends
  <2>1. Offsets(stored[c], off, all)
    OBVIOUS
  <2>2. All(c) = all /\ Ends(c) = EndsOf(stored[c], off)
    BY ONLY <2>1, AllIsAll
  <2>3. QED
    BY ONLY <1>1, <1>3, <2>2 DEF EndsOf
<1>5. Following(w, ends, L, g)
  BY <1>1, <1>2, <1>3, <1>4, ForwardedIsFollowing
<1>6. \A n \in 1 .. L : /\ w[n] \in Seq(Data) /\ Len(w[n]) \in Nat /\ (w[n] # <<>> => Len(w[n]) # 0)
                        /\ Carried(w[n]) \in Nat
  <2>1. TAKE n \in 1 .. L
  <2>2. w[n] \in Seq(Data)
    BY <1>1, <1>2, ElementOfSeq
  <2>3. Len(w[n]) \in Nat /\ (w[n] # <<>> => Len(w[n]) # 0)
    BY <2>2, LenProperties, EmptySeq
  <2>4. Carried(w[n]) \in Nat
    BY <2>3 DEF Carried
  <2>5. QED
    BY <2>2, <2>3, <2>4
<1>7. \A n \in 0 .. L : taken[n] \in 0 .. Len(st) /\ off[taken[n]] \in Nat
  BY <1>2
<1>8. \A n \in 1 .. L :
        /\ w[n] # <<>> => Headed(w[n])
        /\ \A t \in 1 .. Carried(w[n]) : w[n][t + 1] = all[off[taken[n - 1]] + t]
        /\ off[taken[n]] <= off[taken[n - 1]] + Carried(w[n])
        /\ off[taken[n - 1]] + Carried(w[n]) <= Len(all)
        /\ taken[n] < Len(st) => off[taken[n - 1]] + Carried(w[n]) < off[taken[n] + 1]
  BY <1>1 DEF Replay, UpTo
<1> DEFINE T == {n \in Nat : n <= L => g[n] = off[taken[n]]}
<1>9. 0 \in T
  <2>1. 0 \in 0 .. L
    BY <1>2
  <2>2. g[0] = 0
    BY <1>5, <2>1 DEF Following
  <2>3. QED
    BY <1>2, <2>2
<1>10. ASSUME NEW n \in Nat, n \in T PROVE n + 1 \in T
  <2>1. SUFFICES ASSUME n + 1 <= L PROVE g[n + 1] = off[taken[n + 1]]
    OBVIOUS
  <2>2. PICK i : i = n + 1
    OBVIOUS
  <2>3. i \in 1 .. L /\ i \in 0 .. L /\ i # 0 /\ i - 1 = n /\ n <= L /\ i - 1 \in 0 .. L
    BY <1>2, <2>1, <2>2
  <2>4. g[i - 1] = off[taken[i - 1]]
    BY <1>10, <2>3
  <2>5. PICK x, e : x = off[taken[i - 1]] + Carried(w[i]) /\ e = taken[i]
    OBVIOUS
  <2>6. g[i] = LastEnd(ends, x)
    BY <1>5, <2>3, <2>4, <2>5 DEF Following
  <2>7. off[taken[i - 1]] \in Nat /\ Carried(w[i]) \in Nat /\ e \in 0 .. Len(st)
    BY <1>6, <1>7, <2>3, <2>5
  <2>8. x \in Nat /\ off[e] <= x /\ (e < Len(st) => x < off[e + 1])
    <3>1. x \in Nat
      BY ONLY <2>5, <2>7
    <3>2. /\ off[taken[i]] <= off[taken[i - 1]] + Carried(w[i])
          /\ taken[i] < Len(st) => off[taken[i - 1]] + Carried(w[i]) < off[taken[i] + 1]
      BY ONLY <1>8, <2>3
    <3>3. QED
      BY ONLY <2>5, <3>1, <3>2
  <2>9. Offsets(st, off, all) /\ ends = {off[m] : m \in 0 .. Len(st)}
    BY <1>1, <1>3
  <2>10. LastEnd(ends, x) = off[e]
    BY ONLY <2>7, <2>8, <2>9, LastEndIsTaken
  <2>11. QED
    BY <2>2, <2>5, <2>6, <2>10
<1>11. \A n \in 0 .. L : g[n] = off[taken[n]]
  <2> HIDE DEF T
  <2>1. Nat \subseteq T
    BY <1>9, <1>10, Induction
  <2>2. QED
    BY <1>2, <2>1 DEF T
<1>12. ASSUME NEW n \in 1 .. L, w[n] # <<>>
       PROVE  /\ Headed(w[n]) /\ Len(w[n]) - 1 + g[n - 1] <= Len(all)
              /\ Tail(w[n]) = SubSeq(all, g[n - 1] + 1, g[n - 1] + Len(w[n]) - 1)
  <2>1. PICK v, y, f, len : v = w[n] /\ y = Carried(w[n]) /\ f = g[n - 1] /\ len = Len(v)
    OBVIOUS
  <2>2. /\ v \in Seq(Data) /\ len \in Nat /\ len # 0 /\ y = len - 1 /\ y \in Nat /\ f \in Nat
        /\ f = off[taken[n - 1]]
    <3>1. n - 1 \in 0 .. L
      BY <1>2
    <3>2. QED
      BY <1>6, <1>7, <1>11, <1>12, <2>1, <3>1 DEF Carried
  <2>3. Headed(v) /\ (\A t \in 1 .. y : v[t + 1] = all[f + t]) /\ f + y <= Len(all)
    BY <1>8, <1>12, <2>1, <2>2
  <2>4. len - 1 + f <= Len(all) /\ f + len - 1 = f + y
    BY ONLY <1>2, <2>2, <2>3
  <2>5. PICK a, b : a = Tail(v) /\ b = SubSeq(all, f + 1, f + y)
    OBVIOUS
  <2>6. Len(a) = y /\ a \in Seq(Data) /\ \A t \in 1 .. y : a[t] = v[t + 1]
    <3>1. v # <<>>
      BY <1>12, <2>1
    <3>2. /\ Tail(v) \in Seq(Data) /\ Len(Tail(v)) = Len(v) - 1
          /\ \A t \in 1 .. Len(Tail(v)) : Tail(v)[t] = v[t + 1]
      BY ONLY <2>2, <3>1, HeadTailProperties
    <3>3. QED
      BY <2>1, <2>2, <2>5, <3>2
  <2>7. b \in Seq(Data) /\ Len(b) = y /\ \A t \in 1 .. y : b[t] = all[f + t]
    <3>1. PICK k : k = Len(all)
      OBVIOUS
    <3>2. k \in Nat /\ f + y <= k
      BY <1>2, <2>3, <3>1
    <3>3. ASSUME NEW t \in 1 .. y
          PROVE  f + t \in 1 .. k /\ (f + 1) + t - 1 = f + t
      BY ONLY <2>2, <3>2, <3>3
    <3>4. \A i \in f + 1 .. f + y : i \in 1 .. k
      BY ONLY <2>2, <3>2
    <3>5. all \in Seq(Nat \X Nat) /\ f + 1 \in Int /\ f + y \in Int
          /\ \A i \in f + 1 .. f + y : all[i] \in Data
      <4>1. \A i \in f + 1 .. f + y : all[i] \in Nat \X Nat
        BY <1>2, <3>1, <3>4, ElementOfSeq
      <4>2. \A i \in f + 1 .. f + y : all[i] \in Data
        BY ONLY <4>1 DEF Data
      <4>3. f + 1 \in Int /\ f + y \in Int
        BY ONLY <2>2
      <4>4. QED
        BY <1>2, <4>2, <4>3
    <3>6. PICK m1, n1 : m1 = f + 1 /\ n1 = f + y
      OBVIOUS
    <3>7. m1 \in Int /\ n1 \in Int /\ \A i \in m1 .. n1 : all[i] \in Data
      BY <3>5, <3>6
    <3>8. /\ SubSeq(all, m1, n1) \in Seq(Data)
          /\ Len(SubSeq(all, m1, n1)) = IF m1 <= n1 THEN n1 - m1 + 1 ELSE 0
          /\ \A t \in 1 .. n1 - m1 + 1 : SubSeq(all, m1, n1)[t] = all[m1 + t - 1]
      BY ONLY <3>7, SubSeqProperties
    <3>9. n1 - m1 + 1 = y /\ (IF m1 <= n1 THEN n1 - m1 + 1 ELSE 0) = y
      BY ONLY <2>2, <3>6
    <3>10. \A t \in 1 .. y : m1 + t - 1 = f + t
      BY ONLY <2>2, <3>6
    <3>11. b = SubSeq(all, m1, n1)
      BY <2>5, <3>6
    <3>12. QED
      BY ONLY <3>8, <3>9, <3>10, <3>11
  <2>8. a = b
    <3>1. Len(a) = Len(b) /\ \A t \in 1 .. Len(a) : a[t] = b[t]
      BY <2>3, <2>6, <2>7
    <3>2. QED
      BY ONLY <2>6, <2>7, <3>1, SeqEqual
  <2>9. QED
    BY <2>1, <2>3, <2>4, <2>5, <2>8
<1>13. QED
  BY <1>1, <1>3, <1>4, <1>12 DEF ForwardsVerbatim

\* What a run of the proxy checks on small instances holds for every number
\* of clients, page size, message size and capacity: each message still queued
\* for a client is found in its circular buffer where its cursor points
\* (store_received_message() puts it there, client_send_thread() reads it in
\* another thread and in part without the mutex), as long as no message of that
\* client began where a full page ends.
THEOREM QueueIsReadBack == Spec => []QueuedIntact
<1>1. Init => ProxyInv
  BY ProxyStart
<1>2. ProxyInv /\ [Next]_vars => ProxyInv'
  BY ProxyStep
<1>3. ProxyInv => QueuedIntact
  <2>1. SUFFICES ASSUME ProxyInv, NEW c \in Clients, ~pageEnd[c],
                        NEW i \in DOMAIN client[c].messages
                 PROVE  Found(client[c].cbuf, client[c].messages[i].cursor,
                              client[c].messages[i].msg.len)
                          = Units(client[c].messages[i].msg)
    BY DEF QueuedIntact
  <2>2. Viewed(client[c], sender[c], stored[c], wire[c])
    BY <2>1 DEF ProxyInv, Sound
  <2>3. PICK k, s, st, w : k = client[c] /\ s = sender[c] /\ st = stored[c] /\ w = wire[c]
    OBVIOUS
  <2>4. PICK off, all, place, taken : View(k, s, st, w, off, all, place, taken)
    BY <2>2, <2>3 DEF Viewed
  <2>5. PICK node : node = k.messages[i]
    OBVIOUS
  <2>6. i \in DOMAIN k.messages
    BY <2>1, <2>3
  <2>7. Found(k.cbuf, node.cursor, node.msg.len) = Units(node.msg)
    BY ONLY <2>4, <2>5, <2>6, FoundIsStored
  <2>8. QED
    BY <2>3, <2>5, <2>7
<1>4. QED
  BY <1>1, <1>2, <1>3, PTL DEF Spec

\* "stored in the buffer without translation, and then simply replayed", for
\* every value of the constants: over each connection that
\* client_send_thread() opens go the headers and then the stored
\* messages in order, beginning with the first that no earlier connection took
\* whole, whatever the receiving thread stores meanwhile and wherever the
\* connection breaks; except behind the end of a full page.
THEOREM MessagesAreReplayed == Spec => []ReplayedUntilPageEnd
<1>1. Init => ProxyInv
  BY ProxyStart
<1>2. ProxyInv /\ [Next]_vars => ProxyInv'
  BY ProxyStep
<1>3. ProxyInv => ReplayedUntilPageEnd
  <2>1. SUFFICES ASSUME ProxyInv, NEW c \in Clients, ~pageEnd[c]
                 PROVE  ForwardsVerbatim(c)
    BY DEF ReplayedUntilPageEnd
  <2>2. Viewed(client[c], sender[c], stored[c], wire[c])
    BY <2>1 DEF ProxyInv, Sound
  <2>3. PICK off, all, place, taken :
          View(client[c], sender[c], stored[c], wire[c], off, all, place, taken)
    BY <2>2 DEF Viewed
  <2>4. Offsets(stored[c], off, all) /\ Replay(wire[c], stored[c], off, all, taken)
    BY <2>3 DEF View
  <2>5. QED
    BY ONLY <2>4, ReplayIsVerbatim
<1>4. QED
  BY <1>1, <1>2, <1>3, PTL DEF Spec

=============================================================================
