-------------------------- MODULE EventLoopProofs ---------------------------
(***************************************************************************)
(* The event loop of the server, for any connections, bytes, timeouts and  *)
(* faults: the loop refers to no freed channel, every connection behaves   *)
(* as its owner is promised, and only silent clients are dropped as idle.  *)
(*                                                                         *)
(* The invariant has four layers, each proved from the ones before it: the *)
(* lists of channels (Lists), the round over the polled channels (Round),  *)
(* the bytes of a connection (Bytes) and its activity (Activity).          *)
(***************************************************************************)
EXTENDS EventLoop, SequenceTheorems, WellFoundedInduction, TLAPS

Locations ==
  {"top", "poll", "polling", "chan", "hup", "hupdata", "data", "tail", "idle",
   "monitor", "timers", "done", "crashed", "undefined"}
Serving == pc \in {"hup", "hupdata", "data", "tail", "idle", "monitor"}
InRound == pc = "chan" \/ Serving
Reports == {"none", "POLLIN", "POLLHUP", "POLLERR", "POLLNVAL"}
Statuses ==
  {"SOCKET_CONN_CLOSED", "SOCKET_IDLE", "SOCKET_UNKNOWN", "SOCKET_CONN_REFUSED", "SOCKET_DROPPED"}

Loops ==
  [channels : Seq(Chans), active : SUBSET Chans, removable : SUBSET Chans,
   shutting : SUBSET Chans, freed : SUBSET Chans, last_activity : [Chans -> Nat],
   fds : Seq(Chans), fds_dirty : BOOLEAN, stopping : BOOLEAN, force_stop : BOOLEAN, now : Nat]
Sockets ==
  [net : Nat, eof : BOOLEAN, state : {"none", "backlog", "open", "shut", "closed"},
   err : {"none", "reset", "refused", "invalid", "notsock"}]

Types ==
  /\ el \in Loops /\ sock \in [Chans -> Sockets]
  /\ pc \in Locations /\ i \in Nat \ {0} /\ ch \in Chans /\ len \in Nat
  /\ revents \in [Chans -> Reports]
  /\ clock \in Nat
  /\ sent \in [Conns -> Nat] /\ sentAt \in [Conns -> Nat] /\ sentLate \subseteq Conns
  /\ got \in [Conns -> Seq(Int)] /\ told \in [Conns -> Seq(Statuses)]
  \* the listening socket
  /\ revents[L] \in {"none", "POLLIN"} /\ el.last_activity[L] = 0
  /\ pc = "monitor" => ch = L
  /\ pc \in {"hup", "hupdata", "data"} => ch # L

Distinct(s) == \A j, k \in 1 .. Len(s) : s[j] = s[k] => j = k

\* The linked list, the flags of its channels and the array that poll() sees.
Lists ==
  /\ Distinct(el.channels) /\ Distinct(el.fds)
  /\ Range(el.channels) \cap el.freed = {}
  /\ el.removable \subseteq Range(el.channels) \cup el.freed
  /\ el.active \subseteq Range(el.channels) \ el.removable
  /\ ~el.fds_dirty => Range(el.fds) = el.active
  /\ pc \in {"poll", "polling"} => ~el.fds_dirty
  /\ InRound => Range(el.fds) \subseteq Range(el.channels)
  /\ Serving => ch \in Range(el.channels)
  /\ el.force_stop => el.stopping /\ Range(el.channels) \subseteq el.removable
  /\ (L \in el.removable \/ el.shutting # {}) => el.stopping
  /\ Serving /\ ~el.force_stop => i <= Len(el.fds) /\ ch = el.fds[i]
  /\ ~el.stopping /\ pc # "undefined" =>
       Range(el.channels) \cap el.removable \subseteq IF InRound THEN Range(el.fds) ELSE {}
  /\ \A c \in Conns :
       /\ sock[c].state \in {"none", "backlog"} => c \notin Range(el.channels) \cup el.freed
       /\ c \in Range(el.channels) \ el.removable => sock[c].state \in {"open", "shut"}

\* Nothing has been said about the channels that the round has not come to.
Waiting ==
  \A k \in i .. Len(el.fds) :
    el.fds[k] # L /\ (pc = "chan" \/ k # i) => told[el.fds[k]] = <<>>
\* What was reported, and to whom.
Round ==
  /\ pc \in {"hup", "hupdata"} => revents[ch] = "POLLHUP"
  /\ pc = "data" => revents[ch] = "POLLIN"
  /\ \A c \in Conns :
       /\ c \notin Range(el.channels) \cup el.freed => told[c] = <<>> /\ got[c] = <<>>
       /\ told[c] # <<>> => c \notin el.active
       /\ sock[c].state \in {"none", "backlog"} => sock[c].err = "none"
       /\ InRound /\ revents[c] \in {"POLLERR", "POLLNVAL"} /\ sock[c].state # "closed"
          => sock[c].err \notin {"none", "notsock"}
       /\ InRound /\ revents[c] # "none" => c \in Range(el.channels)
  /\ InRound => Waiting
  /\ pc \in {"hup", "hupdata", "data"} => told[ch] = <<>> \/ ch \in el.removable
  /\ pc = "tail" /\ revents[ch] = "POLLNVAL" => told[ch] = <<>> \/ ch \in el.removable

\* Bytes in hand.
Hand(c) == IF pc \in {"data", "hupdata"} /\ ch = c THEN len ELSE 0
\* Bytes of c may have been dropped.
Unspoiled(c) ==
  sock[c].err \in {"none", "notsock"} \/ (InRound /\ revents[c] \in {"POLLIN", "POLLHUP"})
\* All bytes are accounted for.
Accounted(c) ==
  /\ \A k \in 1 .. Len(got[c]) : got[c][k] = k
  /\ c \notin el.removable \cup el.freed /\ sock[c].state # "closed" /\ Unspoiled(c)
     => sent[c] = Len(got[c]) + sock[c].net + Hand(c)
Bytes ==
  /\ pc \in {"data", "hupdata"} => len # 0
  /\ \A c \in Conns : Accounted(c)

Noted(c) == sentAt[c] <= el.last_activity[c]
Live(c) == c \in Range(el.channels) \ el.removable /\ sock[c].err = "none"
AtHup(c) == pc \in {"hup", "hupdata"} /\ ch = c
\* The round will still come to c, which has something to say.
Pending(c) ==
  /\ revents[c] \in {"POLLIN", "POLLHUP"}
  /\ \E k \in i .. Len(el.fds) : el.fds[k] = c /\ (pc = "chan" \/ k # i)
Minded(c) ==
  /\ sentAt[c] <= clock
  /\ Live(c) /\ c \notin el.active => AtHup(c)
  /\ Live(c) /\ sock[c].net = 0 /\ ~AtHup(c) => Noted(c)
  /\ InRound /\ Live(c) /\ c \notin sentLate /\ sock[c].net # 0 /\ ~AtHup(c)
     => Noted(c) \/ Pending(c)
Activity ==
  /\ el.now <= clock /\ (InRound => el.now = clock)
  /\ \A c \in Conns : Minded(c)

-----------------------------------------------------------------------------
(* Induction, as a fact about sets of numbers, and the list walk of        *)
(* update_fds() and eventloop_socket_remove().                             *)

\* Every set of numbers has a least element.
LEMMA Least ==
  ASSUME NEW T, T \subseteq Nat, T # {}
  PROVE  \E m \in T : \A k \in T : m <= k
<1> DEFINE R == OpToRel(<, Nat)
<1>1. IsWellFoundedOn(R, Nat)
  BY NatLessThanWellFounded
<1>2. \A x, y \in Nat : <<x, y>> \in R <=> x < y
  BY DEF OpToRel
<1> HIDE DEF R
<1>3. PICK x \in T : \A y \in T : ~(<<y, x>> \in R)
  BY <1>1, WFMin
<1>4. \A y \in T : x \in Nat /\ y \in Nat /\ ~(y < x)
  BY <1>2, <1>3
<1>5. \A y \in T : x <= y
  BY <1>4
<1>6. QED
  BY <1>5

\* Induction: a set with 0 and every successor has all numbers.
LEMMA Induction ==
  ASSUME NEW T, 0 \in T, \A n \in Nat : n \in T => n + 1 \in T
  PROVE  Nat \subseteq T
<1>1. SUFFICES ASSUME NEW n \in Nat, n \notin T PROVE FALSE
  OBVIOUS
<1> DEFINE U == Nat \ T
<1>2. PICK m \in U : \A k \in U : m <= k
  <2>1. U \subseteq Nat /\ U # {}
    BY <1>1
  <2> HIDE DEF U
  <2>2. QED
    BY <2>1, Least
<1>3. m \in Nat /\ m \notin T /\ m # 0
  OBVIOUS
<1>4. m - 1 \in Nat /\ m - 1 < m /\ (m - 1) + 1 = m
  BY <1>3
<1>5. m - 1 \in T
  BY <1>2, <1>4
<1>6. QED
  BY <1>3, <1>4, <1>5

\* g lists what is kept of the first 0, 1 .. n channels of s.
Walk(s, A, n, g) ==
  g = [k \in 0 .. n |-> IF k = 0 THEN <<>>
                        ELSE IF s[k] \in A THEN Append(g[k - 1], s[k]) ELSE g[k - 1]]

\* The walk is defined for lists of every length.
LEMMA WalkExists ==
  ASSUME NEW s, NEW A
  PROVE  \A n \in Nat : \E g : Walk(s, A, n, g)
<1> DEFINE T == {n \in Nat : \E g : Walk(s, A, n, g)}
<1>1. 0 \in T
  <2> DEFINE g == [k \in 0 .. 0 |-> <<>>]
  <2>1. Walk(s, A, 0, g)
    BY DEF Walk
  <2>2. QED
    BY <2>1
<1>2. ASSUME NEW n \in Nat, n \in T PROVE n + 1 \in T
  <2>1. PICK g : Walk(s, A, n, g)
    BY <1>2
  <2> DEFINE h == [k \in 0 .. n + 1 |->
         IF k = n + 1 THEN IF s[k] \in A THEN Append(g[n], s[k]) ELSE g[n] ELSE g[k]]
  <2>2. \A k \in 0 .. n + 1 : h[k] = IF k = 0 THEN <<>>
            ELSE IF s[k] \in A THEN Append(h[k - 1], s[k]) ELSE h[k - 1]
    <3>1. TAKE k \in 0 .. n + 1
    <3>2. CASE k = n + 1
      BY <3>2
    <3>3. CASE k # n + 1
      <4>1. k \in 0 .. n /\ h[k] = g[k]
        BY <3>3
      <4>2. k # 0 => h[k - 1] = g[k - 1]
        BY <4>1
      <4>3. QED
        BY <2>1, <4>1, <4>2 DEF Walk
    <3>4. QED
      BY <3>2, <3>3
  <2>3. Walk(s, A, n + 1, h)
    BY <2>2 DEF Walk
  <2>4. QED
    BY <2>3
<1>3. QED
  <2> HIDE DEF T
  <2>1. Nat \subseteq T
    BY <1>1, <1>2, Induction
  <2>2. QED
    BY <2>1 DEF T

LEMMA KeptIsWalk ==
  ASSUME NEW s, NEW A, Len(s) \in Nat
  PROVE  \E g : Walk(s, A, Len(s), g) /\ Kept(s, A) = g[Len(s)]
<1>1. PICK g : Walk(s, A, Len(s), g)
  BY WalkExists
<1> DEFINE h == CHOOSE x : Walk(s, A, Len(s), x)
<1>2. Walk(s, A, Len(s), h)
  BY <1>1
<1>3. Kept(s, A) = h[Len(s)]
  BY DEF Kept, Walk
<1>4. QED
  BY <1>2, <1>3

\* What t keeps of the first n channels of s: those in A, each once.
Keeps(t, s, A, n) ==
  /\ \A k \in 1 .. Len(t) : t[k] \in A /\ \E j \in 1 .. n : s[j] = t[k]
  /\ \A j \in 1 .. n : s[j] \in A => \E k \in 1 .. Len(t) : t[k] = s[j]
  /\ Distinct(s) => Distinct(t)

LEMMA WalkKeeps ==
  ASSUME NEW S, NEW s \in Seq(S), NEW A, NEW g, Walk(s, A, Len(s), g)
  PROVE  \A n \in 0 .. Len(s) : g[n] \in Seq(S) /\ Keeps(g[n], s, A, n)
<1> DEFINE T == {n \in Nat : n <= Len(s) => g[n] \in Seq(S) /\ Keeps(g[n], s, A, n)}
<1>0. Len(s) \in Nat /\ \A k \in 1 .. Len(s) : s[k] \in S
  BY ElementOfSeq, LenProperties
<1>1. 0 \in T
  <2>1. g[0] = <<>>
    BY <1>0 DEF Walk
  <2>2. <<>> \in Seq(S) /\ Len(<<>>) = 0
    BY EmptySeq
  <2>3. Keeps(<<>>, s, A, 0)
    BY <2>2 DEF Keeps, Distinct
  <2>4. QED
    BY <2>1, <2>2, <2>3
<1>2. ASSUME NEW n \in Nat, n \in T PROVE n + 1 \in T
  <2>1. SUFFICES ASSUME n + 1 <= Len(s)
                 PROVE  g[n + 1] \in Seq(S) /\ Keeps(g[n + 1], s, A, n + 1)
    OBVIOUS
  <2>2. n \in 0 .. Len(s) /\ n + 1 \in 1 .. Len(s) /\ s[n + 1] \in S
    BY <1>0, <2>1
  <2>3. g[n] \in Seq(S) /\ Keeps(g[n], s, A, n)
    BY <1>2, <2>2
  <2>4. g[n + 1] = IF s[n + 1] \in A THEN Append(g[n], s[n + 1]) ELSE g[n]
    <3>1. n + 1 \in 0 .. Len(s) /\ n + 1 # 0 /\ (n + 1) - 1 = n
      BY <2>2
    <3>2. QED
      BY <3>1 DEF Walk
  <2>5. CASE s[n + 1] \notin A
    <3>1. g[n + 1] = g[n]
      BY <2>4, <2>5
    <3>2. \A j \in 1 .. n + 1 : s[j] \in A => j \in 1 .. n
      BY <2>5
    <3>3. Keeps(g[n], s, A, n + 1)
      BY <2>3, <3>2 DEF Keeps
    <3>4. QED
      BY <2>3, <3>1, <3>3
  <2>6. CASE s[n + 1] \in A
    <3> DEFINE t == g[n]
               u == Append(t, s[n + 1])
    <3>1. u \in Seq(S) /\ Len(u) = Len(t) + 1 /\ Len(t) \in Nat
          /\ u[Len(t) + 1] = s[n + 1] /\ \A k \in 1 .. Len(t) : u[k] = t[k]
      <4>1. t \in Seq(S) /\ s[n + 1] \in S
        BY <2>2, <2>3
      <4> HIDE DEF t
      <4>2. QED
        BY <4>1, AppendProperties, LenProperties
    <3>2. Keeps(t, s, A, n)
      BY <2>3
    <3> HIDE DEF t, u
    <3>3. \A k \in 1 .. Len(u) : k = Len(t) + 1 \/ k \in 1 .. Len(t)
      BY <3>1
    <3>4. \A k \in 1 .. Len(u) : u[k] \in A /\ \E j \in 1 .. n + 1 : s[j] = u[k]
      <4>1. TAKE k \in 1 .. Len(u)
      <4>2. CASE k = Len(t) + 1
        BY <2>6, <3>1, <4>2
      <4>3. CASE k \in 1 .. Len(t)
        <5>1. t[k] \in A /\ \E j \in 1 .. n : s[j] = t[k]
          BY <3>2, <4>3 DEF Keeps
        <5>2. PICK j \in 1 .. n : s[j] = t[k]
          BY <5>1
        <5>3. u[k] = t[k] /\ j \in 1 .. n + 1
          BY <3>1, <4>3
        <5>4. QED
          BY <5>1, <5>2, <5>3
      <4>4. QED
        BY <3>3, <4>2, <4>3
    <3>5. \A j \in 1 .. n + 1 : s[j] \in A => \E k \in 1 .. Len(u) : u[k] = s[j]
      <4>1. TAKE j \in 1 .. n + 1
      <4>2. CASE j = n + 1
        <5>1. Len(t) + 1 \in 1 .. Len(u)
          BY <3>1
        <5>2. QED
          BY <3>1, <4>2, <5>1
      <4>3. CASE j \in 1 .. n
        <5>1. HAVE s[j] \in A
        <5>2. PICK k \in 1 .. Len(t) : t[k] = s[j]
          BY <3>2, <4>3, <5>1 DEF Keeps
        <5>3. k \in 1 .. Len(u) /\ u[k] = s[j]
          BY <3>1, <5>2
        <5>4. QED
          BY <5>3
      <4>4. QED
        BY <4>2, <4>3
    <3>6. Distinct(s) => Distinct(u)
      <4>1. HAVE Distinct(s)
      <4>2. \A k \in 1 .. Len(t) : t[k] # s[n + 1]
        <5>1. TAKE k \in 1 .. Len(t)
        <5>2. PICK j \in 1 .. n : s[j] = t[k]
          BY <3>2 DEF Keeps
        <5>3. j \in 1 .. Len(s) /\ j # n + 1
          BY <2>2, <1>0
        <5>4. QED
          BY <2>2, <4>1, <5>2, <5>3 DEF Distinct
      <4>3. Distinct(t)
        BY <3>2, <4>1 DEF Keeps
      <4>4. SUFFICES ASSUME NEW j \in 1 .. Len(u), NEW k \in 1 .. Len(u), u[j] = u[k]
                     PROVE  j = k
        BY DEF Distinct
      <4>5. CASE j \in 1 .. Len(t) /\ k \in 1 .. Len(t)
        BY <3>1, <4>3, <4>4, <4>5 DEF Distinct
      <4>6. CASE j = Len(t) + 1 /\ k \in 1 .. Len(t)
        BY <3>1, <4>2, <4>4, <4>6
      <4>7. CASE j \in 1 .. Len(t) /\ k = Len(t) + 1
        BY <3>1, <4>2, <4>4, <4>7
      <4>8. QED
        BY <3>3, <4>5, <4>6, <4>7
    <3>7. Keeps(u, s, A, n + 1)
      BY <3>4, <3>5, <3>6 DEF Keeps
    <3>8. g[n + 1] = u
      BY <2>4, <2>6 DEF u, t
    <3>9. QED
      BY <3>1, <3>7, <3>8
  <2>7. QED
    BY <2>5, <2>6
<1>3. Nat \subseteq T
  <2> HIDE DEF T
  <2>1. QED
    BY <1>1, <1>2, Induction
<1>4. QED
  BY <1>0, <1>3

\* update_fds() and eventloop_socket_remove() keep what they should.
LEMMA KeptProperties ==
  ASSUME NEW S, NEW s \in Seq(S), NEW A
  PROVE  /\ Kept(s, A) \in Seq(S)
         /\ Range(Kept(s, A)) = Range(s) \cap A
         /\ Distinct(s) => Distinct(Kept(s, A))
<1>1. Len(s) \in Nat /\ DOMAIN s = 1 .. Len(s)
  BY LenProperties
<1>2. PICK g : Walk(s, A, Len(s), g) /\ Kept(s, A) = g[Len(s)]
  BY <1>1, KeptIsWalk
<1> DEFINE t == Kept(s, A)
<1>3. t \in Seq(S) /\ Keeps(t, s, A, Len(s))
  BY <1>1, <1>2, WalkKeeps
<1> HIDE DEF t
<1>4. DOMAIN t = 1 .. Len(t)
  BY <1>3, LenProperties
<1>5. Range(t) = Range(s) \cap A
  <2>1. ASSUME NEW x \in Range(t) PROVE x \in Range(s) \cap A
    <3>1. PICK k \in 1 .. Len(t) : x = t[k]
      BY <1>4, <2>1 DEF Range
    <3>2. x \in A /\ \E j \in 1 .. Len(s) : s[j] = x
      BY <1>3, <3>1 DEF Keeps
    <3>3. QED
      BY <1>1, <3>2 DEF Range
  <2>2. ASSUME NEW x \in Range(s), x \in A PROVE x \in Range(t)
    <3>1. PICK j \in 1 .. Len(s) : x = s[j]
      BY <1>1, <2>2 DEF Range
    <3>2. \E k \in 1 .. Len(t) : t[k] = x
      BY <1>3, <2>2, <3>1 DEF Keeps
    <3>3. QED
      BY <1>4, <3>2 DEF Range
  <2>3. QED
    BY <2>1, <2>2
<1>6. QED
  BY <1>3, <1>5 DEF t, Keeps

-----------------------------------------------------------------------------
(* What the operations do to the fields of the EventLoop object.           *)

\* The lists and the fields that no callback changes.
SameLists(l, m) ==
  /\ m.channels = l.channels /\ m.fds = l.fds /\ m.freed = l.freed
  /\ m.shutting = l.shutting /\ m.stopping = l.stopping
  /\ m.force_stop = l.force_stop /\ m.now = l.now

LEMMA DeactivateFields ==
  ASSUME NEW l \in Loops, NEW c \in Chans, NEW m,
         m = eventloop_socket_activate(l, c, FALSE)
  PROVE  /\ m \in Loops /\ SameLists(l, m)
         /\ m.active = l.active \ {c} /\ m.removable = l.removable
         /\ (m.fds_dirty <=> l.fds_dirty \/ c \in l.active)
         /\ m.last_activity = l.last_activity
<1>1. CASE c \in l.active
  <2>1. m = [l EXCEPT !.active = @ \ {c}, !.fds_dirty = TRUE]
    BY <1>1 DEF eventloop_socket_activate
  <2>2. QED
    BY <1>1, <2>1 DEF Loops, SameLists
<1>2. CASE c \notin l.active
  <2>1. m = l
    BY <1>2 DEF eventloop_socket_activate
  <2>2. QED
    BY <1>2, <2>1 DEF Loops, SameLists
<1>3. QED
  BY <1>1, <1>2

LEMMA ReleaseFields ==
  ASSUME NEW l \in Loops, NEW c \in Chans, NEW m, m = eventloop_socket_release(l, c)
  PROVE  /\ m \in Loops /\ SameLists(l, m)
         /\ m.active = l.active \ {c} /\ m.removable = l.removable \cup {c}
         /\ (m.fds_dirty <=> l.fds_dirty \/ c \in l.active)
         /\ m.last_activity = l.last_activity
<1>1. PICK d : d = eventloop_socket_activate(l, c, FALSE)
  OBVIOUS
<1>2. /\ d \in Loops /\ SameLists(l, d)
      /\ d.active = l.active \ {c} /\ d.removable = l.removable
      /\ (d.fds_dirty <=> l.fds_dirty \/ c \in l.active)
      /\ d.last_activity = l.last_activity
  BY ONLY <1>1, l \in Loops, c \in Chans, DeactivateFields, ZenonT(30)
<1>3. m = [d EXCEPT !.removable = @ \cup {c}]
  BY <1>1 DEF eventloop_socket_release
<1>4. m \in Loops
  <2>1. PICK r : r = d.removable \cup {c}
    OBVIOUS
  <2>2. r \in SUBSET Chans
    BY <1>2, <2>1 DEF Loops
  <2>3. m = [d EXCEPT !.removable = r]
    BY <1>2, <1>3, <2>1 DEF Loops
  <2>4. QED
    BY <1>2, <2>2, <2>3 DEF Loops
<1>5. SameLists(d, m) /\ m.active = d.active /\ m.removable = d.removable \cup {c}
      /\ m.fds_dirty = d.fds_dirty /\ m.last_activity = d.last_activity
  BY <1>2, <1>3 DEF Loops, SameLists
<1>6. SameLists(l, m)
  BY ONLY <1>2, <1>5 DEF SameLists
<1>7. m.fds_dirty <=> l.fds_dirty \/ c \in l.active
  BY <1>2, <1>5
<1>8. QED
  BY <1>2, <1>4, <1>5, <1>6, <1>7

LEMMA UpdateFields ==
  ASSUME NEW l \in Loops, NEW m, m = update_fds(l)
  PROVE  /\ m \in Loops /\ ~m.fds_dirty
         /\ Range(m.fds) = Range(l.channels) \cap l.active
         /\ Distinct(l.channels) => Distinct(m.fds)
         /\ m.channels = l.channels /\ m.freed = l.freed /\ m.shutting = l.shutting
         /\ m.stopping = l.stopping /\ m.force_stop = l.force_stop /\ m.now = l.now
         /\ m.active = l.active /\ m.removable = l.removable
         /\ m.last_activity = l.last_activity
<1> DEFINE f == Kept(l.channels, l.active)
<1>1. l.channels \in Seq(Chans)
  BY DEF Loops
<1>2. f \in Seq(Chans) /\ Range(f) = Range(l.channels) \cap l.active
      /\ (Distinct(l.channels) => Distinct(f))
  BY <1>1, KeptProperties
<1>3. m = [l EXCEPT !.fds = f, !.fds_dirty = FALSE]
  BY DEF update_fds
<1> HIDE DEF f
<1>4. QED
  BY <1>2, <1>3 DEF Loops

LEMMA RemoveFields ==
  ASSUME NEW l \in Loops, NEW R, R \subseteq Chans, NEW m, m = Removed(l, R)
  PROVE  /\ m \in Loops
         /\ Range(m.channels) = Range(l.channels) \ R
         /\ Distinct(l.channels) => Distinct(m.channels)
         /\ m.active = l.active \ R /\ m.freed = l.freed \cup R
         /\ (m.fds_dirty <=> l.fds_dirty \/ l.active \cap R # {})
         /\ m.fds = l.fds /\ m.removable = l.removable /\ m.shutting = l.shutting
         /\ m.stopping = l.stopping /\ m.force_stop = l.force_stop /\ m.now = l.now
         /\ m.last_activity = l.last_activity
<1> DEFINE f == Kept(l.channels, Range(l.channels) \ R)
<1>1. l.channels \in Seq(Chans)
  BY DEF Loops
<1>2. f \in Seq(Chans) /\ Range(f) = Range(l.channels) \cap (Range(l.channels) \ R)
      /\ (Distinct(l.channels) => Distinct(f))
  BY <1>1, KeptProperties
<1>3. m = [l EXCEPT !.active = @ \ R, !.fds_dirty = @ \/ l.active \cap R # {},
                    !.channels = f, !.freed = @ \cup R]
  BY DEF Removed
<1> HIDE DEF f
<1>4. m \in Loops /\ m.channels = f
  BY <1>2, <1>3, ZenonT(30) DEF Loops
<1>5. QED
  BY <1>2, <1>3, <1>4 DEF Loops

\* A channel put before the list.
LEMMA Prepended ==
  ASSUME NEW S, NEW s \in Seq(S), NEW c \in S
  PROVE  /\ <<c>> \o s \in Seq(S) /\ Range(<<c>> \o s) = Range(s) \cup {c}
         /\ Distinct(s) /\ c \notin Range(s) => Distinct(<<c>> \o s)
<1> DEFINE t == <<c>> \o s
<1>1. <<c>> \in Seq(S) /\ Len(<<c>>) = 1 /\ <<c>>[1] = c
  OBVIOUS
<1>2. t \in Seq(S) /\ Len(t) = 1 + Len(s)
      /\ \A k \in 1 .. 1 + Len(s) : t[k] = IF k <= 1 THEN <<c>>[k] ELSE s[k - 1]
  BY <1>1, ConcatProperties
<1>3. Len(s) \in Nat /\ DOMAIN s = 1 .. Len(s) /\ DOMAIN t = 1 .. Len(t)
  BY <1>2, LenProperties
<1> HIDE DEF t
<1>4. t[1] = c /\ \A k \in 1 .. Len(s) : t[k + 1] = s[k]
  <2>1. 1 \in 1 .. 1 + Len(s)
    BY <1>3
  <2>2. t[1] = c
    BY <1>1, <1>2, <2>1
  <2>3. ASSUME NEW k \in 1 .. Len(s) PROVE t[k + 1] = s[k]
    <3>1. k + 1 \in 1 .. 1 + Len(s) /\ ~(k + 1 <= 1) /\ (k + 1) - 1 = k
      BY <1>3
    <3>2. QED
      BY <1>2, <3>1
  <2>4. QED
    BY <2>2, <2>3
<1>5. \A k \in 1 .. Len(t) : k = 1 \/ (k - 1 \in 1 .. Len(s) /\ t[k] = s[k - 1])
  BY <1>2, <1>3
<1>6. Range(t) = Range(s) \cup {c}
  <2>1. ASSUME NEW x \in Range(t) PROVE x \in Range(s) \cup {c}
    <3>1. PICK k \in 1 .. Len(t) : x = t[k]
      BY <1>3, <2>1 DEF Range
    <3>2. QED
      BY <1>3, <1>4, <1>5, <3>1 DEF Range
  <2>2. ASSUME NEW x \in Range(s) PROVE x \in Range(t)
    <3>1. PICK k \in 1 .. Len(s) : x = s[k]
      BY <1>3, <2>2 DEF Range
    <3>2. k + 1 \in 1 .. Len(t) /\ t[k + 1] = x
      BY <1>2, <1>3, <1>4, <3>1
    <3>3. QED
      BY <1>3, <3>2 DEF Range
  <2>3. c \in Range(t)
    <3>1. 1 \in 1 .. Len(t)
      BY <1>2, <1>3
    <3>2. QED
      BY <1>3, <1>4, <3>1 DEF Range
  <2>4. QED
    BY <2>1, <2>2, <2>3
<1>7. ASSUME Distinct(s), c \notin Range(s) PROVE Distinct(t)
  <2>1. \A k \in 1 .. Len(s) : s[k] # c
    BY <1>3, <1>7 DEF Range
  <2>2. SUFFICES ASSUME NEW j \in 1 .. Len(t), NEW k \in 1 .. Len(t), t[j] = t[k]
                 PROVE  j = k
    BY DEF Distinct
  <2>3. CASE j = 1 /\ k # 1
    BY <1>4, <1>5, <2>1, <2>2, <2>3
  <2>4. CASE j # 1 /\ k = 1
    BY <1>4, <1>5, <2>1, <2>2, <2>4
  <2>5. CASE j # 1 /\ k # 1
    <3>1. j - 1 \in 1 .. Len(s) /\ k - 1 \in 1 .. Len(s) /\ s[j - 1] = s[k - 1]
      BY <1>5, <2>2, <2>5
    <3>2. j - 1 = k - 1
      BY <1>7, <3>1 DEF Distinct
    <3>3. QED
      BY <1>2, <1>3, <3>2
  <2>6. QED
    BY <2>3, <2>4, <2>5
<1>8. QED
  BY <1>2, <1>6, <1>7 DEF t

Registered(l, c, m) ==
  /\ m \in Loops
  /\ Range(m.channels) = Range(l.channels) \cup {c}
  /\ (Distinct(l.channels) /\ c \notin Range(l.channels) => Distinct(m.channels))
  /\ m.active = l.active \cup {c} /\ m.fds_dirty
  /\ m.fds = l.fds /\ m.freed = l.freed /\ m.shutting = l.shutting
  /\ m.removable = l.removable
  /\ m.stopping = l.stopping /\ m.force_stop = l.force_stop /\ m.now = l.now
  /\ m.last_activity = [l.last_activity EXCEPT ![c] = l.now]
LEMMA RegisterFields ==
  ASSUME NEW l \in Loops, NEW c \in Chans, c \notin l.active, NEW m,
         m = eventloop_on_read_in_channel(l, c)
  PROVE  Registered(l, c, m)
<1> DEFINE f == <<c>> \o l.channels
<1>1. l.channels \in Seq(Chans)
  BY DEF Loops
<1>2. f \in Seq(Chans) /\ Range(f) = Range(l.channels) \cup {c}
      /\ (Distinct(l.channels) /\ c \notin Range(l.channels) => Distinct(f))
  BY <1>1, Prepended
<1>3. m = [l EXCEPT !.channels = f, !.active = @ \cup {c}, !.fds_dirty = TRUE,
                    !.last_activity = [@ EXCEPT ![c] = l.now]]
  BY DEF eventloop_on_read_in_channel, channel_new, eventloop_socket_activate, Loops
<1> HIDE DEF f
<1>4. m \in Loops /\ m.channels = f
  <2>1. [l.last_activity EXCEPT ![c] = l.now] \in [Chans -> Nat]
    BY DEF Loops
  <2>2. l.active \cup {c} \in SUBSET Chans
    BY DEF Loops
  <2>3. PICK a, b : a = [l.last_activity EXCEPT ![c] = l.now] /\ b = l.active \cup {c}
    OBVIOUS
  <2>4. m = [l EXCEPT !.channels = f, !.active = b, !.fds_dirty = TRUE, !.last_activity = a]
    BY <1>3, <2>3
  <2>5. QED
    BY <1>2, <2>1, <2>2, <2>3, <2>4 DEF Loops
<1>5. QED
  BY <1>2, <1>3, <1>4 DEF Loops, Registered

LEMMA StopFields ==
  ASSUME NEW l \in Loops, NEW m, m = eventloop_stop(l)
  PROVE  /\ m \in Loops /\ m.stopping /\ ~m.fds_dirty
         /\ m.channels = l.channels /\ m.freed = l.freed /\ m.now = l.now
         /\ m.force_stop = l.force_stop /\ m.last_activity = l.last_activity
         /\ m.active = l.active \ Released(l) /\ m.removable = l.removable \cup Released(l)
         /\ Range(m.fds) = Range(m.channels) \cap m.active
         /\ Distinct(m.channels) => Distinct(m.fds)
<1>1. PICK k : k = [l EXCEPT !.stopping = TRUE]
  OBVIOUS
<1>2. /\ k \in Loops /\ k.channels = l.channels /\ k.active = l.active
      /\ k.force_stop = l.force_stop /\ k.stopping /\ k.removable = l.removable
      /\ k.freed = l.freed /\ k.now = l.now /\ k.last_activity = l.last_activity
  BY <1>1 DEF Loops
<1>3. PICK P : P = Released(l)
  OBVIOUS
<1>4. P = Released(k)
  BY <1>2, <1>3 DEF Released
<1>5. P \subseteq Chans /\ Range(k.channels) \subseteq Chans
  <2>1. Range(k.channels) \subseteq Chans
    BY <1>2, LenProperties DEF Loops, Range
  <2>2. QED
    BY <1>4, <2>1 DEF Released
<1>6. PICK j : j = [k EXCEPT !.active = @ \ P, !.removable = @ \cup P,
                             !.shutting = @ \cup (Range(k.channels) \ P)]
  OBVIOUS
<1>7. j \in Loops
  <2>1. PICK a, b, d : a = k.active \ P /\ b = k.removable \cup P
                       /\ d = k.shutting \cup (Range(k.channels) \ P)
    OBVIOUS
  <2>2. a \in SUBSET Chans /\ b \in SUBSET Chans /\ d \in SUBSET Chans
    BY <1>2, <1>5, <2>1 DEF Loops
  <2>3. j = [k EXCEPT !.active = a, !.removable = b, !.shutting = d]
    BY <1>2, <1>6, <2>1 DEF Loops
  <2>4. QED
    BY <1>2, <2>2, <2>3 DEF Loops
<1>8. /\ j.channels = l.channels /\ j.active = l.active \ P /\ j.removable = l.removable \cup P
      /\ j.force_stop = l.force_stop /\ j.stopping
      /\ j.freed = l.freed /\ j.now = l.now /\ j.last_activity = l.last_activity
  BY <1>2, <1>6 DEF Loops
<1>9. m = update_fds(j)
  BY <1>1, <1>4, <1>6 DEF eventloop_stop, terminate_fds
<1>10. /\ m \in Loops /\ ~m.fds_dirty
       /\ Range(m.fds) = Range(j.channels) \cap j.active
       /\ Distinct(j.channels) => Distinct(m.fds)
       /\ m.channels = j.channels /\ m.freed = j.freed /\ m.shutting = j.shutting
       /\ m.stopping = j.stopping /\ m.force_stop = j.force_stop /\ m.now = j.now
       /\ m.active = j.active /\ m.removable = j.removable
       /\ m.last_activity = j.last_activity
  BY ONLY <1>7, <1>9, UpdateFields
<1>11. QED
  BY <1>3, <1>8, <1>10

LEMMA TerminateFields ==
  ASSUME NEW l \in Loops, NEW m, m = eventloop_terminate(l)
  PROVE  /\ m \in Loops /\ m.stopping /\ m.force_stop /\ ~m.fds_dirty
         /\ m.channels = l.channels /\ m.freed = l.freed /\ m.now = l.now
         /\ m.last_activity = l.last_activity
         /\ m.active = l.active \ Range(l.channels)
         /\ m.removable = l.removable \cup Range(l.channels)
         /\ Range(m.fds) = {} /\ Distinct(m.fds)
<1>1. PICK k : k = [l EXCEPT !.force_stop = TRUE]
  OBVIOUS
<1>2. /\ k \in Loops /\ k.channels = l.channels /\ k.active = l.active
      /\ k.force_stop /\ k.removable = l.removable
      /\ k.freed = l.freed /\ k.now = l.now /\ k.last_activity = l.last_activity
  BY <1>1 DEF Loops
<1>3. Released(k) = Range(l.channels)
  BY <1>2 DEF Released
<1>4. m = eventloop_stop(k)
  BY <1>1 DEF eventloop_terminate
<1>5. /\ m \in Loops /\ m.stopping /\ ~m.fds_dirty
      /\ m.channels = k.channels /\ m.freed = k.freed /\ m.now = k.now
      /\ m.force_stop = k.force_stop /\ m.last_activity = k.last_activity
      /\ m.active = k.active \ Released(k) /\ m.removable = k.removable \cup Released(k)
      /\ Range(m.fds) = Range(m.channels) \cap m.active
  BY ONLY <1>2, <1>4, StopFields
<1>6. Range(m.fds) = {}
  BY <1>2, <1>3, <1>5
<1>7. Distinct(m.fds)
  <2>1. m.fds \in Seq(Chans)
    BY <1>5 DEF Loops
  <2>2. DOMAIN m.fds = 1 .. Len(m.fds)
    BY <2>1, LenProperties
  <2>3. QED
    BY <1>6, <2>2 DEF Distinct, Range
<1>8. QED
  BY <1>2, <1>3, <1>5, <1>6, <1>7

-----------------------------------------------------------------------------
(* Types.                                                                  *)

LEMMA TypesInit ==
  ASSUME Init
  PROVE  /\ Types
         /\ el = [eventloop_init EXCEPT !.channels = <<L>>, !.active = {L}, !.fds_dirty = TRUE]
<1>1. el = [eventloop_init EXCEPT !.channels = <<L>>, !.active = {L}, !.fds_dirty = TRUE]
  <2>1. <<L>> \o <<>> = <<L>>
    OBVIOUS
  <2>2. QED
    BY <2>1 DEF Init, eventloop_on_monitor_in_channel, channel_new, eventloop_init,
       eventloop_socket_activate
<1>2. el \in Loops /\ el.last_activity[L] = 0
  <2>1. <<L>> \in Seq(Chans) /\ <<>> \in Seq(Chans) /\ L \in Chans
    BY DEF Chans
  <2>2. QED
    BY <1>1, <2>1 DEF Loops, eventloop_init
<1>3. sock \in [Chans -> Sockets]
  BY DEF Init, NewSocket, Sockets
<1>4. QED
  BY <1>1, <1>2, <1>3 DEF Init, Types, Locations, Reports, Statuses, Chans

-----------------------------------------------------------------------------
(* The callbacks of the server.                                            *)

\* c, a channel of loop state l, is released and its socket closed.
GivenUp(l, c) ==
  /\ el' \in Loops /\ SameLists(l, el') /\ el'.last_activity = l.last_activity
  /\ el'.active = l.active \ {c} /\ el'.removable = l.removable \cup {c}
  /\ (el'.fds_dirty <=> l.fds_dirty \/ c \in l.active)
  /\ sock' = socket_close(sock, c)

\* The outcomes of do_status_callback().
Told(l, c, st) ==
  \/ c \in l.removable /\ el' = l /\ sock' = sock /\ told' = told
  \/ /\ c \notin l.removable /\ told' = [told EXCEPT ![c] = Append(@, st)]
     /\ st \in {"SOCKET_CONN_CLOSED", "SOCKET_IDLE"} /\ GivenUp(l, c)
  \/ /\ c \notin l.removable /\ told' = [told EXCEPT ![c] = Append(@, st)]
     /\ st \notin {"SOCKET_CONN_CLOSED", "SOCKET_IDLE"} /\ el' = l /\ sock' = sock

LEMMA AbandonedIs ==
  ASSUME Owner = "server", NEW l \in Loops, NEW c \in Chans,
         el' = Abandoned(l, c), sock' = socket_close(sock, c)
  PROVE  GivenUp(l, c)
<1>1. PICK m : m = el'
  OBVIOUS
<1>2. m = eventloop_socket_release(l, c)
  BY <1>1 DEF Abandoned
<1>3. /\ m \in Loops /\ SameLists(l, m)
      /\ m.active = l.active \ {c} /\ m.removable = l.removable \cup {c}
      /\ (m.fds_dirty <=> l.fds_dirty \/ c \in l.active)
      /\ m.last_activity = l.last_activity
  BY ONLY <1>2, l \in Loops, c \in Chans, ReleaseFields
<1>4. QED
  BY <1>1, <1>3 DEF GivenUp

LEMMA StatusIsTold ==
  ASSUME Owner = "server", NEW l \in Loops, NEW c \in Conns, NEW st,
         do_status_callback(l, c, st)
  PROVE  Told(l, c, st)
<1>1. CASE c \in l.removable /\ el' = l /\ UNCHANGED <<sock, told>>
  BY <1>1 DEF Told
<1>2. CASE c \notin l.removable /\ status_cbk(l, c, st)
  <2>1. told' = [told EXCEPT ![c] = Append(@, st)]
    BY <1>2 DEF status_cbk
  <2>2. Final = {"SOCKET_CONN_CLOSED", "SOCKET_IDLE"}
    BY DEF Final
  <2>3. CASE st \in Final
    <3>1. el' = Abandoned(l, c) /\ sock' = socket_close(sock, c) /\ c \in Chans
      BY <1>2, <2>3 DEF status_cbk, Chans
    <3>2. GivenUp(l, c)
      BY <3>1, AbandonedIs
    <3>3. QED
      BY <1>2, <2>1, <2>2, <2>3, <3>2 DEF Told
  <2>4. CASE st \notin Final
    <3>1. el' = l /\ sock' = sock
      BY <1>2, <2>4 DEF status_cbk
    <3>2. QED
      BY <1>2, <2>1, <2>2, <2>4, <3>1 DEF Told
  <2>5. QED
    BY <2>3, <2>4
<1>3. QED
  BY <1>1, <1>2 DEF do_status_callback

LEMMA ClosedSocket ==
  ASSUME sock \in [Chans -> Sockets], NEW c \in Chans, NEW s, s = socket_close(sock, c)
  PROVE  /\ s \in [Chans -> Sockets]
         /\ s[c].state = "closed" /\ s[c].err = "none" /\ s[c].net = 0
         /\ \A d \in Chans \ {c} : s[d] = sock[d]
BY DEF socket_close, NewSocket, Sockets

LEMMA ToldTypes ==
  ASSUME Types, NEW l \in Loops, NEW c \in Conns, NEW st \in Statuses, Told(l, c, st)
  PROVE  /\ el' \in Loops /\ SameLists(l, el') /\ el'.last_activity = l.last_activity
         /\ sock' \in [Chans -> Sockets] /\ told' \in [Conns -> Seq(Statuses)]
<1>1. c \in Chans
  BY DEF Chans
<1>2. sock \in [Chans -> Sockets] /\ told \in [Conns -> Seq(Statuses)]
  BY DEF Types
<1>3. SameLists(l, l)
  BY DEF SameLists
<1>4. [told EXCEPT ![c] = Append(@, st)] \in [Conns -> Seq(Statuses)]
  <2>1. Append(told[c], st) \in Seq(Statuses)
    BY <1>2, AppendProperties
  <2>2. QED
    BY <1>2, <2>1
<1>5. socket_close(sock, c) \in [Chans -> Sockets]
  BY <1>1, <1>2, ClosedSocket
<1>6. QED
  BY <1>2, <1>3, <1>4, <1>5 DEF Told, GivenUp

-----------------------------------------------------------------------------

\* The steps of peers, of the clock and of the kernel.
LEMMA TypesPeers ==
  ASSUME Types, NEW c \in Conns,
         PeerConnects(c) \/ PeerSends(c) \/ PeerCloses(c) \/ SocketBreaks(c)
  PROVE  Types'
<1>0. c \in Chans /\ sock[c] \in Sockets /\ sock \in [Chans -> Sockets]
  BY DEF Types, Chans
<1>1. CASE PeerConnects(c)
  <2>1. sock' \in [Chans -> Sockets]
    BY <1>0, <1>1 DEF PeerConnects, Sockets
  <2>2. QED
    BY <1>1, <2>1 DEF PeerConnects, loopVars, history, Types
<1>2. CASE PeerSends(c)
  <2>1. sock' \in [Chans -> Sockets]
    BY <1>0, <1>2 DEF PeerSends, Sockets
  <2>2. sent' \in [Conns -> Nat] /\ sentAt' \in [Conns -> Nat] /\ sentLate' \subseteq Conns
    BY <1>2 DEF PeerSends, Types
  <2>3. QED
    BY <1>2, <2>1, <2>2 DEF PeerSends, loopVars, history, Types
<1>3. CASE PeerCloses(c)
  <2>1. sock' \in [Chans -> Sockets]
    BY <1>0, <1>3 DEF PeerCloses, Sockets
  <2>2. QED
    BY <1>3, <2>1 DEF PeerCloses, loopVars, history, Types
<1>4. CASE SocketBreaks(c)
  <2>1. sock' \in [Chans -> Sockets]
    BY <1>0, <1>4 DEF SocketBreaks, Sockets
  <2>2. QED
    BY <1>4, <2>1 DEF SocketBreaks, loopVars, history, Types
<1>5. QED
  BY <1>1, <1>2, <1>3, <1>4

LEMMA NowSet ==
  ASSUME NEW l \in Loops, NEW n \in Nat, NEW m, m = [l EXCEPT !.now = n]
  PROVE  /\ m \in Loops /\ m.now = n /\ m.channels = l.channels /\ m.fds = l.fds
         /\ m.freed = l.freed /\ m.shutting = l.shutting /\ m.stopping = l.stopping
         /\ m.force_stop = l.force_stop /\ m.active = l.active /\ m.removable = l.removable
         /\ m.fds_dirty = l.fds_dirty /\ m.last_activity = l.last_activity
BY DEF Loops

\* The activity of a channel is noted.
Touched(l, c) == [l EXCEPT !.last_activity[c] = l.now]
LEMMA NotedNow ==
  ASSUME NEW l \in Loops, NEW c \in Chans, NEW m, m = Touched(l, c)
  PROVE  /\ m \in Loops /\ SameLists(l, m) /\ m.active = l.active /\ m.removable = l.removable
         /\ m.fds_dirty = l.fds_dirty /\ m.last_activity = [l.last_activity EXCEPT ![c] = l.now]
<1>1. PICK a : a = [l.last_activity EXCEPT ![c] = l.now]
  OBVIOUS
<1>2. a \in [Chans -> Nat]
  BY <1>1 DEF Loops
<1>3. m = [l EXCEPT !.last_activity = a]
  BY <1>1 DEF Loops, Touched
<1>4. QED
  BY <1>1, <1>2, <1>3 DEF Loops, SameLists

\* The steps of the loop outside the round over the channels.
LEMMA TypesLoop ==
  ASSUME Types,
         LoopExits \/ LoopTurns \/ PollCalled \/ PollReturns \/ NoEvents \/ TimerFires
         \/ TimerNotDue \/ Sweep \/ Terminate
  PROVE  Types'
<1>0. el \in Loops /\ clock \in Nat /\ L \in Chans /\ sock \in [Chans -> Sockets]
      /\ AfterEvents \in Locations
  BY DEF Types, Chans, AfterEvents, Locations
<1>1. CASE LoopExits
  BY <1>1 DEF LoopExits, history, Types, Locations
<1>2. CASE LoopTurns
  <2>1. PICK m : m = update_fds(el)
    OBVIOUS
  <2>2. m \in Loops /\ m.last_activity = el.last_activity
    BY ONLY <1>0, <2>1, UpdateFields
  <2>3. el' \in Loops /\ el'.last_activity = el.last_activity
    BY <1>0, <1>2, <2>1, <2>2 DEF LoopTurns
  <2>4. QED
    BY <1>2, <2>3 DEF LoopTurns, history, Types, Locations
<1>3. CASE PollCalled
  BY <1>3 DEF PollCalled, history, Types, Locations
<1>4. CASE PollReturns
  <2>1. el' \in Loops /\ el'.last_activity = el.last_activity
    <3>1. el' = [el EXCEPT !.now = clock]
      BY <1>4 DEF PollReturns
    <3>2. QED
      BY ONLY <1>0, <3>1, NowSet
  <2>2. revents' \in [Chans -> Reports] /\ revents'[L] \in {"none", "POLLIN"}
    BY <1>0, <1>4 DEF PollReturns, Reports, Events
  <2>3. QED
    BY <1>4, <2>1, <2>2 DEF PollReturns, history, Types, Locations
<1>5. CASE NoEvents
  <2>1. el' \in Loops /\ el'.last_activity = el.last_activity
    <3>1. el' = [el EXCEPT !.now = clock]
      BY <1>5 DEF NoEvents
    <3>2. QED
      BY ONLY <1>0, <3>1, NowSet
  <2>2. QED
    BY <1>0, <1>5, <2>1 DEF NoEvents, history, Types, AfterEvents
<1>6. CASE TimerFires
  <2>1. el' \in Loops /\ el'.last_activity = el.last_activity /\ sock' \in [Chans -> Sockets]
    <3>1. CASE UNCHANGED <<el, sock>>
      BY <1>0, <3>1
    <3>2. CASE el' = eventloop_stop(el) /\ Shutdown(el')
      <4>1. el' \in Loops /\ el'.last_activity = el.last_activity
        BY ONLY <1>0, <3>2, StopFields
      <4>2. \A c \in Chans : sock[c] \in Sockets /\ [sock[c] EXCEPT !.state = "shut"] \in Sockets
        BY <1>0 DEF Sockets
      <4>3. sock' \in [Chans -> Sockets]
        BY <1>0, <3>2, <4>2 DEF Shutdown
      <4>4. QED
        BY <4>1, <4>3
    <3>3. QED
      BY <1>6, <3>1, <3>2 DEF TimerFires
  <2>2. QED
    BY <1>6, <2>1 DEF TimerFires, Types, Locations
<1>7. CASE TimerNotDue
  BY <1>7 DEF TimerNotDue, history, Types, Locations
<1>8. CASE Sweep
  <2>1. PICK R : R = Range(el.fds) \cap el.removable
    OBVIOUS
  <2>2. R \subseteq Chans
    BY <1>0, <2>1 DEF Loops
  <2>3. el' = Removed(el, R)
    BY <1>8, <2>1 DEF Sweep
  <2>4. el' \in Loops /\ el'.last_activity = el.last_activity
    BY ONLY <1>0, <2>2, <2>3, RemoveFields
  <2>5. QED
    BY <1>0, <1>8, <2>4 DEF Sweep, RoundEnds, Quiet, Types, AfterEvents, Reports
<1>9. CASE Terminate
  <2>1. PICK m : m = eventloop_terminate(el)
    OBVIOUS
  <2>2. m \in Loops /\ m.last_activity = el.last_activity /\ m.now = el.now
    BY ONLY <1>0, <2>1, TerminateFields
  <2>3. PICK n : n = IF pc = "polling" THEN clock ELSE el.now
    OBVIOUS
  <2>4. n \in Nat
    BY <1>0, <2>3 DEF Loops
  <2>5. el' = [m EXCEPT !.now = n]
    BY <1>9, <2>1, <2>2, <2>3 DEF Terminate, Loops
  <2>6. el' \in Loops /\ el'.last_activity = m.last_activity
    BY ONLY <2>2, <2>4, <2>5, NowSet
  <2>7. sock' \in [Chans -> Sockets]
    <3>1. \A c \in Chans : socket_close(sock, c) \in [Chans -> Sockets]
      BY <1>0, ClosedSocket
    <3>2. \A c \in Chans : socket_close(sock, c)[c] \in Sockets
      BY <3>1
    <3>3. QED
      BY <1>0, <1>9, <3>2 DEF Terminate
  <2>8. QED
    BY <1>0, <1>9, <2>2, <2>6, <2>7 DEF Terminate, history, Types, AfterEvents
<1>10. QED
  BY <1>1, <1>2, <1>3, <1>4, <1>5, <1>6, <1>7, <1>8, <1>9

-----------------------------------------------------------------------------
(* The steps that serve a channel.                                         *)

\* What they have in common: only that channel changes.
Handled(c) ==
  /\ el' \in Loops /\ SameLists(el, el')
  /\ el'.active = el.active \/ el'.active = el.active \ {c}
  /\ (el'.fds_dirty <=> el.fds_dirty \/ el'.active # el.active)
  /\ el'.removable = el.removable \/ (el'.removable = el.removable \cup {c} /\ c \notin el'.active)
  /\ c # L \/ el'.removable = el.removable \/ el.shutting # {}
  /\ \/ el'.last_activity = el.last_activity
     \/ c # L /\ el'.last_activity = [el.last_activity EXCEPT ![c] = el.now]
  /\ sock' \in [Chans -> Sockets] /\ told' \in [Conns -> Seq(Statuses)]
  /\ \A d \in Chans \ {c} : sock'[d] = sock[d]
  /\ \A d \in Conns \ {c} : told'[d] = told[d] /\ got'[d] = got[d]
  /\ \/ sock'[c].state = sock[c].state /\ sock'[c].err = sock[c].err
     \/ c \in el'.removable /\ sock'[c].state = "closed"
  /\ c \in Conns => \/ told'[c] = told[c]
                    \/ c \notin el.removable /\ c \notin el'.active

\* The listening socket has no activity.
LEMMA HandledListener ==
  ASSUME Types, NEW c \in Chans, Handled(c)
  PROVE  el'.last_activity[L] = 0
BY DEF Types, Handled, Loops, Chans

\* A callback about c in loop state l, which is el with c perhaps deactivated
\* and perhaps noted as active.
LEMMA ToldIsHandled ==
  ASSUME Types, NEW l \in Loops, NEW c \in Conns, NEW st \in Statuses, Told(l, c, st),
         SameLists(el, l), l.removable = el.removable,
         \/ l.active = el.active /\ st \in {"SOCKET_CONN_CLOSED", "SOCKET_IDLE"}
         \/ l.active = el.active \ {c},
         l.fds_dirty <=> el.fds_dirty \/ l.active # el.active,
         \/ l.last_activity = el.last_activity
         \/ l.last_activity = [el.last_activity EXCEPT ![c] = el.now],
         got' = got
  PROVE  Handled(c)
<1>1. c \in Chans /\ c # L /\ el \in Loops /\ sock \in [Chans -> Sockets]
      /\ told \in [Conns -> Seq(Statuses)]
  BY EventLoopAssumption DEF Types, Chans
<1>2. /\ el' \in Loops /\ SameLists(l, el') /\ el'.last_activity = l.last_activity
      /\ sock' \in [Chans -> Sockets] /\ told' \in [Conns -> Seq(Statuses)]
  BY ToldTypes
<1>3. SameLists(el, el')
  BY <1>2 DEF SameLists
<1>4. \A d \in Conns \ {c} : told'[d] = told[d] /\ got'[d] = got[d]
  BY <1>1 DEF Told
<1>5. CASE el' = l /\ sock' = sock /\ (c \in l.removable \/ l.active = el.active \ {c})
  <2>1. told'[c] = told[c] \/ (c \notin el.removable /\ c \notin el'.active)
    BY <1>1, <1>5 DEF Told
  <2>2. QED
    BY <1>1, <1>2, <1>3, <1>4, <1>5, <2>1 DEF Handled
<1>6. CASE GivenUp(l, c)
  <2>1. sock'[c].state = "closed" /\ \A d \in Chans \ {c} : sock'[d] = sock[d]
    BY <1>1, <1>6, ClosedSocket DEF GivenUp
  <2>2. /\ el'.active = el.active \ {c} /\ el'.removable = el.removable \cup {c}
        /\ (el'.fds_dirty <=> l.fds_dirty \/ c \in l.active)
    BY <1>6 DEF GivenUp
  <2>3. el'.fds_dirty <=> el.fds_dirty \/ el'.active # el.active
    BY <2>2
  <2>4. told'[c] = told[c] \/ c \notin el.removable
    BY <1>1 DEF Told
  <2>5. QED
    BY <1>1, <1>2, <1>3, <1>4, <2>1, <2>2, <2>3, <2>4 DEF Handled
<1>7. QED
  BY <1>5, <1>6 DEF Told

\* Deactivated(c): the loop state that ErrStatus, Hup, InClosed and Invalid start from.
LEMMA ToldAfterDeactivation ==
  ASSUME Owner = "server", Types, NEW c \in Conns, NEW st \in Statuses,
         NEW l, l = eventloop_socket_activate(el, c, FALSE),
         do_status_callback(l, c, st), got' = got
  PROVE  Told(l, c, st) /\ Handled(c)
<1>1. el \in Loops /\ c \in Chans
  BY DEF Types, Chans
<1>2. /\ l \in Loops /\ SameLists(el, l)
      /\ l.active = el.active \ {c} /\ l.removable = el.removable
      /\ (l.fds_dirty <=> el.fds_dirty \/ c \in el.active)
      /\ l.last_activity = el.last_activity
  BY ONLY <1>1, l = eventloop_socket_activate(el, c, FALSE), DeactivateFields, ZenonT(30)
<1>3. l.fds_dirty <=> el.fds_dirty \/ l.active # el.active
  BY <1>1, <1>2
<1>4. Told(l, c, st)
  BY <1>2, StatusIsTold
<1>5. QED
  BY <1>2, <1>3, <1>4, ToldIsHandled

\* Nothing happens to the lists.
LEMMA UntouchedIsHandled ==
  ASSUME Types, NEW c \in Chans, el' = el, sock' \in [Chans -> Sockets], told' = told,
         \A d \in Chans \ {c} : sock'[d] = sock[d],
         sock'[c].state = sock[c].state, sock'[c].err = sock[c].err,
         \A d \in Conns \ {c} : got'[d] = got[d]
  PROVE  Handled(c)
BY DEF Types, Handled, SameLists

\* Bytes taken from a socket.
LEMMA TakenBytes ==
  ASSUME Types, NEW c \in Chans, NEW n \in Nat, n <= sock[c].net,
         sock' = [sock EXCEPT ![c].net = @ - n]
  PROVE  /\ sock' \in [Chans -> Sockets]
         /\ \A d \in Chans \ {c} : sock'[d] = sock[d]
         /\ sock'[c].state = sock[c].state /\ sock'[c].err = sock[c].err
         /\ sock'[c].eof = sock[c].eof /\ sock'[c].net = sock[c].net - n
<1>1. sock \in [Chans -> Sockets] /\ sock[c] \in Sockets
  BY DEF Types
<1>2. sock[c].net - n \in Nat
  BY <1>1 DEF Sockets
<1>3. QED
  BY <1>1, <1>2 DEF Sockets

\* The loop over the channels: the step that begins to serve c.
LEMMA BeginHandled ==
  ASSUME Owner = "server", Types, NEW c \in Chans,
         ErrBytes(c) \/ ErrStatus(c) \/ Hup(c) \/ InRecv(c) \/ InClosed(c) \/ InFails(c)
         \/ Silent(c) \/ (c = L /\ InListener)
  PROVE  Handled(c) /\ Types'
<1>0. /\ el \in Loops /\ sock \in [Chans -> Sockets] /\ sock[c] \in Sockets
      /\ revents[L] \in {"none", "POLLIN"} /\ el.now \in Nat
      /\ (c # L => c \in Conns)
  BY DEF Types, Loops, Chans
<1>1. CASE ErrBytes(c)
  <2>1. PICK n \in 1 .. MaxRecv : n <= sock[c].net /\ sock' = [sock EXCEPT ![c].net = @ - n]
    BY <1>1 DEF ErrBytes
  <2>2. n \in Nat
    BY EventLoopAssumption
  <2>3. Handled(c)
    BY <1>1, <2>1, <2>2, TakenBytes, UntouchedIsHandled DEF ErrBytes
  <2>4. QED
    BY <1>1, <2>3, HandledListener DEF ErrBytes, At, Quiet, Types, Handled, Locations
<1>2. CASE ErrStatus(c)
  <2>1. c \in Conns
    BY <1>0, <1>2 DEF ErrStatus, At
  <2>2. PICK st : st = IF sock[c].err = "refused" THEN "SOCKET_CONN_REFUSED" ELSE "SOCKET_UNKNOWN"
    OBVIOUS
  <2>3. st \in Statuses
    BY <2>2 DEF Statuses
  <2>4. do_status_callback(eventloop_socket_activate(el, c, FALSE), c, st) /\ got' = got
    BY <1>2, <2>2 DEF ErrStatus
  <2>5. Handled(c)
    BY <2>1, <2>3, <2>4, ToldAfterDeactivation
  <2>6. QED
    BY <1>2, <2>1, <2>5, HandledListener DEF ErrStatus, At, Quiet, Types, Handled, Locations
<1>3. CASE Hup(c)
  <2>1. c \in Conns /\ c # L
    BY <1>0, <1>3 DEF Hup, At
  <2>2. PICK m : m = eventloop_socket_activate(el, c, FALSE)
    OBVIOUS
  <2>3. /\ m \in Loops /\ SameLists(el, m)
        /\ m.active = el.active \ {c} /\ m.removable = el.removable
        /\ (m.fds_dirty <=> el.fds_dirty \/ c \in el.active)
        /\ m.last_activity = el.last_activity
    BY ONLY <1>0, <2>2, c \in Chans, DeactivateFields, ZenonT(30)
  <2>4. el' = m /\ sock' = sock /\ told' = told /\ got' = got
    BY <1>3, <2>2 DEF Hup
  <2>5. m.fds_dirty <=> el.fds_dirty \/ m.active # el.active
    BY <1>0, <2>3
  <2>6. Handled(c)
    BY <1>0, <2>3, <2>4, <2>5 DEF Handled, Types
  <2>7. QED
    BY <1>3, <2>1, <2>6, HandledListener DEF Hup, At, Quiet, Types, Handled, Locations
<1>4. CASE InRecv(c)
  <2>1. PICK n : n = IF sock[c].net > MaxRecv THEN MaxRecv ELSE sock[c].net
    OBVIOUS
  <2>2. n \in Nat /\ n <= sock[c].net /\ len' = n /\ sock' = [sock EXCEPT ![c].net = @ - n]
    BY <1>0, <1>4, <2>1, EventLoopAssumption DEF InRecv, Sockets
  <2>3. /\ sock' \in [Chans -> Sockets] /\ \A d \in Chans \ {c} : sock'[d] = sock[d]
        /\ sock'[c].state = sock[c].state /\ sock'[c].err = sock[c].err
    BY <2>2, TakenBytes
  <2>4. PICK m : m = Touched(el, c)
    OBVIOUS
  <2>5. /\ m \in Loops /\ SameLists(el, m) /\ m.active = el.active /\ m.removable = el.removable
        /\ m.fds_dirty = el.fds_dirty /\ m.last_activity = [el.last_activity EXCEPT ![c] = el.now]
    BY ONLY <1>0, <2>4, c \in Chans, NotedNow
  <2>6. el' = m /\ told' = told /\ got' = got /\ c # L
    BY <1>4, <2>4 DEF InRecv, Touched
  <2>7. Handled(c)
    BY <1>0, <2>3, <2>5, <2>6 DEF Handled, Types
  <2>8. QED
    BY <1>4, <2>2, <2>6, <2>7, HandledListener DEF InRecv, At, Quiet, Types, Handled, Locations
<1>5. CASE InClosed(c)
  <2>1. c \in Conns /\ c # L
    BY <1>0, <1>5 DEF InClosed
  <2>2. PICK m : m = eventloop_socket_activate(el, c, FALSE)
    OBVIOUS
  <2>3. /\ m \in Loops /\ SameLists(el, m)
        /\ m.active = el.active \ {c} /\ m.removable = el.removable
        /\ (m.fds_dirty <=> el.fds_dirty \/ c \in el.active)
        /\ m.last_activity = el.last_activity
    BY ONLY <1>0, <2>2, c \in Chans, DeactivateFields, ZenonT(30)
  <2>4. PICK l : l = Touched(m, c)
    OBVIOUS
  <2>5. /\ l \in Loops /\ SameLists(m, l) /\ l.active = m.active /\ l.removable = m.removable
        /\ l.fds_dirty = m.fds_dirty /\ l.last_activity = [m.last_activity EXCEPT ![c] = m.now]
    BY ONLY <2>3, <2>4, c \in Chans, NotedNow
  <2>6. m.now = el.now
    BY <2>3 DEF SameLists
  <2>7. do_status_callback(l, c, "SOCKET_CONN_CLOSED") /\ got' = got
    BY <1>5, <2>2, <2>4, <2>6 DEF InClosed, Touched
  <2>8. Told(l, c, "SOCKET_CONN_CLOSED")
    BY <2>1, <2>5, <2>7, StatusIsTold
  <2>9. l.fds_dirty <=> el.fds_dirty \/ l.active # el.active
    BY <1>0, <2>3, <2>5
  <2>10. SameLists(el, l) /\ l.last_activity = [el.last_activity EXCEPT ![c] = el.now]
         /\ l.removable = el.removable /\ l.active = el.active \ {c}
    BY <2>3, <2>5, <2>6 DEF SameLists
  <2>11. Handled(c)
    BY <2>1, <2>5, <2>7, <2>8, <2>9, <2>10, ToldIsHandled DEF Statuses
  <2>12. QED
    BY <1>5, <2>1, <2>11, HandledListener DEF InClosed, At, Quiet, Types, Handled, Locations
<1>6. CASE InFails(c)
  <2>1. PICK m : m = Touched(el, c)
    OBVIOUS
  <2>2. /\ m \in Loops /\ SameLists(el, m) /\ m.active = el.active /\ m.removable = el.removable
        /\ m.fds_dirty = el.fds_dirty /\ m.last_activity = [el.last_activity EXCEPT ![c] = el.now]
    BY ONLY <1>0, <2>1, c \in Chans, NotedNow
  <2>3. el' = m /\ told' = told /\ got' = got /\ c # L /\ sock' = sock
    BY <1>6, <2>1 DEF InFails, Touched
  <2>4. Handled(c)
    BY <1>0, <2>2, <2>3 DEF Handled, Types
  <2>5. QED
    BY <1>6, <2>3, <2>4, HandledListener DEF InFails, At, Quiet, Types, Handled, Locations
<1>7. CASE Silent(c)
  <2>1. el' \in Loops /\ SameLists(el, el') /\ el'.last_activity = el.last_activity
        /\ \/ el' = el
           \/ /\ el'.active = el.active \ {c} /\ el'.removable = el.removable \cup {c}
              /\ (el'.fds_dirty <=> el.fds_dirty \/ c \in el.active) /\ el.shutting # {}
    <3>1. CASE el' = el
      BY <1>0, <3>1 DEF SameLists
    <3>2. CASE c \in el.shutting /\ el' = eventloop_socket_release(el, c)
      <4>1. /\ el' \in Loops /\ SameLists(el, el') /\ el'.last_activity = el.last_activity
            /\ el'.active = el.active \ {c} /\ el'.removable = el.removable \cup {c}
            /\ (el'.fds_dirty <=> el.fds_dirty \/ c \in el.active)
        BY ONLY <1>0, <3>2, c \in Chans, ReleaseFields
      <4>2. QED
        BY <3>2, <4>1
    <3>3. QED
      BY <1>7, <3>1, <3>2 DEF Silent
  <2>2. sock' = sock /\ told' = told /\ got' = got
    BY <1>7 DEF Silent
  <2>3. el'.fds_dirty <=> el.fds_dirty \/ el'.active # el.active
    BY <1>0, <2>1
  <2>4. Handled(c)
    BY <1>0, <2>1, <2>2, <2>3 DEF Handled, Types
  <2>5. QED
    BY <1>7, <2>1, <2>4, HandledListener DEF Silent, At, Quiet, Types, Handled, Locations
<1>8. CASE c = L /\ InListener
  <2>1. Handled(c)
    BY <1>0, <1>8, UntouchedIsHandled DEF InListener
  <2>2. QED
    BY <1>8, <2>1, HandledListener DEF InListener, At, Quiet, Types, Handled, Locations
<1>9. QED
  BY <1>1, <1>2, <1>3, <1>4, <1>5, <1>6, <1>7, <1>8

\* The read callback: the bytes in hand go to the owner, unless the channel has
\* been released; the owner may give the connection up.
ReadBy(c, n) ==
  \/ c \in el.removable /\ UNCHANGED <<el, sock, got>>
  \/ /\ c \notin el.removable
     /\ got' = [got EXCEPT ![c] = @ \o [k \in 1 .. n |-> sent[c] - sock[c].net - n + k]]
     /\ UNCHANGED <<el, sock>> \/ GivenUp(el, c)

LEMMA ReadIsReadBy ==
  ASSUME Owner = "server", Types, NEW c \in Chans, NEW n, do_read_callback(c, n)
  PROVE  ReadBy(c, n)
<1>1. el \in Loops
  BY DEF Types
<1>2. CASE c \in el.removable /\ UNCHANGED <<el, sock, luck, got>>
  BY <1>2 DEF ReadBy
<1>3. CASE /\ c \notin el.removable /\ read_cbk(c)
           /\ got' = [got EXCEPT ![c] = @ \o [k \in 1 .. n |-> sent[c] - sock[c].net - n + k]]
  <2>1. CASE UNCHANGED <<el, sock, luck>>
    BY <1>3, <2>1 DEF ReadBy
  <2>2. CASE el' = Abandoned(el, c) /\ sock' = socket_close(sock, c)
    BY <1>1, <1>3, <2>2, AbandonedIs DEF ReadBy
  <2>3. QED
    BY <1>3, <2>1, <2>2 DEF read_cbk
<1>4. QED
  BY <1>2, <1>3 DEF do_read_callback

LEMMA NumbersAreSeq ==
  ASSUME NEW a \in Int, NEW n \in Nat
  PROVE  /\ [k \in 1 .. n |-> a + k] \in Seq(Int) /\ Len([k \in 1 .. n |-> a + k]) = n
         /\ \A k \in 1 .. n : [j \in 1 .. n |-> a + j][k] = a + k
<1>1. [k \in 1 .. n |-> a + k] \in Seq(Int)
  OBVIOUS
<1>2. QED
  BY <1>1

\* The loop over the channels: the steps that go on serving ch.
LEMMA ContinueHandled ==
  ASSUME Owner = "server", Types, HupRecv \/ HupClosed \/ DataRead \/ Invalid \/ Reap
  PROVE  Handled(ch) /\ Types'
<1>0. /\ el \in Loops /\ sock \in [Chans -> Sockets] /\ ch \in Chans /\ sock[ch] \in Sockets
      /\ revents[L] \in {"none", "POLLIN"} /\ (ch # L => ch \in Conns)
      /\ told \in [Conns -> Seq(Statuses)] /\ got \in [Conns -> Seq(Int)]
      /\ sent \in [Conns -> Nat] /\ len \in Nat /\ i \in Nat \ {0} /\ SameLists(el, el)
  BY DEF Types, Chans, SameLists
<1>1. CASE HupRecv
  <2>1. PICK n : n = IF sock[ch].net > MaxRecv THEN MaxRecv ELSE sock[ch].net
    OBVIOUS
  <2>2. n \in Nat /\ n <= sock[ch].net /\ len' = n /\ sock' = [sock EXCEPT ![ch].net = @ - n]
    BY <1>0, <1>1, <2>1, EventLoopAssumption DEF HupRecv, Sockets
  <2>3. Handled(ch)
    BY <1>0, <1>1, <2>2, TakenBytes, UntouchedIsHandled DEF HupRecv
  <2>4. QED
    BY <1>0, <1>1, <2>2, <2>3, HandledListener DEF HupRecv, Quiet, Types, Handled, Locations
<1>2. CASE HupClosed
  <2>1. ch \in Conns
    BY <1>0, <1>2 DEF HupClosed, Types
  <2>2. Told(el, ch, "SOCKET_CONN_CLOSED") /\ got' = got
    BY <1>0, <1>2, <2>1, StatusIsTold DEF HupClosed
  <2>3. Handled(ch)
    BY <1>0, <2>1, <2>2, ToldIsHandled DEF Statuses
  <2>4. QED
    BY <1>0, <1>2, <2>3, HandledListener DEF HupClosed, Quiet, Types, Handled, Locations
<1>3. CASE DataRead
  <2>1. ch \in Conns /\ ch # L
    BY <1>0, <1>3 DEF DataRead, Types
  <2>2. ReadBy(ch, len) /\ told' = told
    BY <1>0, <1>3, ReadIsReadBy DEF DataRead
  <2>3. got' \in [Conns -> Seq(Int)] /\ \A d \in Conns \ {ch} : got'[d] = got[d]
    <3>1. CASE got' = got
      BY <1>0, <3>1
    <3>2. CASE got' = [got EXCEPT ![ch] = @ \o
                         [k \in 1 .. len |-> sent[ch] - sock[ch].net - len + k]]
      <4>1. PICK a : a = sent[ch] - sock[ch].net - len
        OBVIOUS
      <4>2. a \in Int
        BY <1>0, <2>1, <4>1 DEF Sockets
      <4>3. [k \in 1 .. len |-> a + k] \in Seq(Int)
        BY <1>0, <4>2, NumbersAreSeq
      <4>4. got[ch] \o [k \in 1 .. len |-> a + k] \in Seq(Int)
        BY <1>0, <2>1, <4>3, ConcatProperties
      <4>5. QED
        BY <1>0, <2>1, <3>2, <4>1, <4>4
    <3>3. QED
      BY <2>2, <3>1, <3>2 DEF ReadBy
  <2>4. Handled(ch)
    <3>1. CASE UNCHANGED <<el, sock>>
      BY <1>0, <2>2, <2>3, <3>1, UntouchedIsHandled
    <3>2. CASE GivenUp(el, ch)
      <4>1. sock' \in [Chans -> Sockets] /\ sock'[ch].state = "closed"
            /\ \A d \in Chans \ {ch} : sock'[d] = sock[d]
        BY <1>0, <3>2, ClosedSocket DEF GivenUp
      <4>2. el'.fds_dirty <=> el.fds_dirty \/ el'.active # el.active
        BY <1>0, <3>2 DEF GivenUp
      <4>3. QED
        BY <1>0, <2>1, <2>2, <2>3, <3>2, <4>1, <4>2 DEF GivenUp, Handled
    <3>3. QED
      BY <2>2, <3>1, <3>2 DEF ReadBy
  <2>5. QED
    BY <1>0, <1>3, <2>1, <2>3, <2>4, HandledListener DEF DataRead, Quiet, Types, Handled, Locations
<1>4. CASE Invalid
  <2>1. Handled(ch)
    <3>1. CASE revents[ch] = "POLLNVAL"
      <4>1. ch \in Conns
        BY <1>0, <3>1
      <4>2. do_status_callback(eventloop_socket_activate(el, ch, FALSE), ch, "SOCKET_DROPPED")
            /\ got' = got
        BY <1>4, <3>1 DEF Invalid
      <4>3. QED
        BY <4>1, <4>2, ToldAfterDeactivation DEF Statuses
    <3>2. CASE revents[ch] # "POLLNVAL"
      BY <1>0, <1>4, <3>2, UntouchedIsHandled DEF Invalid
    <3>3. QED
      BY <3>1, <3>2
  <2>2. QED
    BY <1>0, <1>4, <2>1, HandledListener DEF Invalid, Quiet, Types, Handled, Locations
<1>5. CASE Reap
  <2>1. Handled(ch)
    <3>1. CASE IsIdle(ch)
      <4>1. ch \in Conns
        BY <1>0, <3>1 DEF IsIdle, Types
      <4>2. Told(el, ch, "SOCKET_IDLE") /\ got' = got
        BY <1>0, <1>5, <3>1, <4>1, StatusIsTold DEF Reap
      <4>3. QED
        BY <1>0, <4>1, <4>2, ToldIsHandled DEF Statuses
    <3>2. CASE ~IsIdle(ch)
      BY <1>0, <1>5, <3>2, UntouchedIsHandled DEF Reap
    <3>3. QED
      BY <3>1, <3>2
  <2>2. i' \in Nat \ {0} /\ pc' = "chan"
    BY <1>0, <1>5 DEF Reap
  <2>3. QED
    BY <1>0, <1>5, <2>1, <2>2, HandledListener DEF Reap, Quiet, Types, Handled, Locations
<1>6. QED
  BY <1>1, <1>2, <1>3, <1>4, <1>5

\* A connection is accepted.
Accepted(c) ==
  /\ sock' = [sock EXCEPT ![c].state = "open"] /\ el' = eventloop_on_read_in_channel(el, c)
Refused(c) == sock' = socket_close(sock, c) /\ el' = el

LEMMA TypesAccept ==
  ASSUME Types, Lists, Accept
  PROVE  Types'
<1>0. el \in Loops /\ sock \in [Chans -> Sockets] /\ el.last_activity[L] = 0
  BY DEF Types
<1>1. CASE UNCHANGED <<el, sock>>
  BY <1>0, <1>1 DEF Accept, Quiet, Types, Locations
<1>2. ASSUME NEW c \in Conns, sock[c].state = "backlog", Accepted(c) \/ Refused(c)
      PROVE  el' \in Loops /\ sock' \in [Chans -> Sockets] /\ el'.last_activity[L] = 0
  <2>1. c \in Chans /\ c # L /\ sock[c] \in Sockets
    BY <1>0, EventLoopAssumption DEF Chans
  <2>2. CASE Refused(c)
    BY <1>0, <2>1, <2>2, ClosedSocket DEF Refused
  <2>3. CASE Accepted(c)
    <3>1. sock' \in [Chans -> Sockets]
      BY <1>0, <2>1, <2>3 DEF Accepted, Sockets
    <3>2. el' \in Loops /\ el'.last_activity = [el.last_activity EXCEPT ![c] = el.now]
      <4>1. c \notin el.active /\ el' = eventloop_on_read_in_channel(el, c)
        BY <1>2, <2>3 DEF Accepted, Lists
      <4>2. QED
        BY ONLY <1>0, <2>1, <4>1, RegisterFields DEF Registered
    <3>3. QED
      BY <1>0, <2>1, <3>1, <3>2 DEF Loops, Chans
  <2>4. QED
    BY <1>2, <2>2, <2>3
<1>3. CASE \E c \in Conns : sock[c].state = "backlog" /\ (Accepted(c) \/ Refused(c))
  BY <1>0, <1>2, <1>3 DEF Accept, Quiet, Types, Locations
<1>4. QED
  BY <1>1, <1>3 DEF Accept, Accepted, Refused

-----------------------------------------------------------------------------
(* The lists of channels.                                                  *)

LEMMA ListsInit ==
  ASSUME Init
  PROVE  Lists
<1>1. Types /\ el = [eventloop_init EXCEPT !.channels = <<L>>, !.active = {L}, !.fds_dirty = TRUE]
  BY TypesInit
<1>2. /\ el.channels = <<L>> /\ el.active = {L} /\ el.fds_dirty /\ el.removable = {}
      /\ el.freed = {} /\ el.fds = <<>> /\ ~el.stopping /\ ~el.force_stop /\ el.shutting = {}
  BY <1>1 DEF eventloop_init
<1>3. Range(el.channels) = {L} /\ Range(el.fds) = {} /\ Distinct(el.channels) /\ Distinct(el.fds)
  BY <1>2 DEF Range, Distinct
<1>4. \A c \in Conns : c # L
  BY EventLoopAssumption
<1>5. pc = "top"
  BY DEF Init
<1>6. QED
  BY <1>2, <1>3, <1>4, <1>5 DEF Lists, InRound, Serving

LEMMA ListsHandled ==
  ASSUME Types, Lists, NEW c \in Range(el.channels), Handled(c), InRound, i' = i \/ pc' = "chan",
         ~el.force_stop => i <= Len(el.fds) /\ c = el.fds[i],
         \/ pc' \in {"hup", "hupdata", "data", "tail", "idle", "monitor"} /\ ch' = c
         \/ pc' = "chan"
  PROVE  Lists'
<1>1. /\ el'.channels = el.channels /\ el'.fds = el.fds /\ el'.freed = el.freed
      /\ el'.stopping = el.stopping /\ el'.force_stop = el.force_stop
      /\ el'.shutting = el.shutting
  BY DEF Handled, SameLists
<1>2. c \in Chans /\ i \in Nat \ {0} /\ el.fds \in Seq(Chans) /\ Len(el.fds) \in Nat
  <2>1. el.channels \in Seq(Chans) /\ el.fds \in Seq(Chans) /\ i \in Nat \ {0}
    BY DEF Types, Loops
  <2>2. QED
    BY <2>1, LenProperties DEF Range
<1>3. ~el.force_stop => c \in Range(el.fds)
  BY <1>2, LenProperties DEF Range
<1>4. /\ Distinct(el'.channels) /\ Distinct(el'.fds)
      /\ Range(el'.channels) \cap el'.freed = {}
      /\ el'.removable \subseteq Range(el'.channels) \cup el'.freed
      /\ el'.active \subseteq Range(el'.channels) \ el'.removable
  BY <1>1 DEF Lists, Handled
<1>5. ~el'.fds_dirty => Range(el'.fds) = el'.active
  BY <1>1 DEF Lists, Handled
<1>6. pc' \notin {"poll", "polling"} /\ InRound' /\ Range(el'.fds) \subseteq Range(el'.channels)
  BY <1>1 DEF Lists, InRound, Serving
<1>7. Serving' => ch' = c /\ i' = i
  BY DEF Serving
<1>8. /\ el'.force_stop => el'.stopping /\ Range(el'.channels) \subseteq el'.removable
      /\ Serving' /\ ~el'.force_stop => i' <= Len(el'.fds) /\ ch' = el'.fds[i']
      /\ Serving' => ch' \in Range(el'.channels)
      /\ (L \in el'.removable \/ el'.shutting # {}) => el'.stopping
  BY <1>1, <1>7 DEF Lists, Handled
<1>9. ~el'.stopping => Range(el'.channels) \cap el'.removable \subseteq Range(el'.fds)
  <2>1. pc # "undefined"
    BY DEF InRound, Serving
  <2>2. QED
    BY <1>1, <1>3, <2>1 DEF Lists, Handled
<1>10. \A d \in Conns :
         /\ sock'[d].state \in {"none", "backlog"} => d \notin Range(el'.channels) \cup el'.freed
         /\ d \in Range(el'.channels) \ el'.removable => sock'[d].state \in {"open", "shut"}
  <2>1. TAKE d \in Conns
  <2>2. d \in Chans
    BY DEF Chans
  <2>3. CASE d # c
    BY <1>1, <2>2, <2>3 DEF Lists, Handled
  <2>4. CASE d = c
    BY <1>1, <2>2, <2>4 DEF Lists, Handled
  <2>5. QED
    BY <2>3, <2>4
<1>11. QED
  BY <1>4, <1>5, <1>6, <1>8, <1>9, <1>10 DEF Lists

\* Serving begins with the channel that the loop has come to.
LEMMA BeginAt ==
  ASSUME Types, Lists, NEW c \in Chans,
         ErrBytes(c) \/ ErrStatus(c) \/ Hup(c) \/ InRecv(c) \/ InClosed(c) \/ InFails(c)
         \/ Silent(c) \/ (c = L /\ InListener)
  PROVE  /\ pc = "chan" /\ InRound /\ i <= Len(el.fds) /\ c = el.fds[i] /\ i' = i /\ ch' = c
         /\ i \in 1 .. Len(el.fds) /\ c \in Range(el.fds) /\ c \in Range(el.channels)
         /\ pc' \in {"hup", "data", "tail", "monitor"}
<1>1. pc = "chan" /\ i <= Len(el.fds) /\ c = el.fds[i] /\ i' = i /\ ch' = c
  BY DEF ErrBytes, ErrStatus, Hup, InRecv, InClosed, InFails, Silent, InListener, At
<1>2. pc' \in {"hup", "data", "tail", "monitor"}
  BY DEF ErrBytes, ErrStatus, Hup, InRecv, InClosed, InFails, Silent, InListener
<1>3. el.fds \in Seq(Chans) /\ i \in Nat \ {0}
  BY DEF Types, Loops
<1>4. i \in 1 .. Len(el.fds) /\ DOMAIN el.fds = 1 .. Len(el.fds)
  BY <1>1, <1>3, LenProperties
<1>5. c \in Range(el.fds) /\ InRound
  BY <1>1, <1>4 DEF Range, InRound
<1>6. QED
  BY <1>1, <1>2, <1>4, <1>5 DEF Lists

LEMMA ListsServing ==
  ASSUME Owner = "server", Types, Lists,
         \/ \E c \in Chans : ErrBytes(c) \/ ErrStatus(c) \/ Hup(c) \/ InRecv(c) \/ InClosed(c)
                             \/ InFails(c) \/ Silent(c) \/ (c = L /\ InListener)
         \/ HupRecv \/ HupClosed \/ DataRead \/ Invalid \/ Reap
  PROVE  Types' /\ Lists'
<1>1. ASSUME NEW c \in Chans,
             ErrBytes(c) \/ ErrStatus(c) \/ Hup(c) \/ InRecv(c) \/ InClosed(c)
             \/ InFails(c) \/ Silent(c) \/ (c = L /\ InListener)
      PROVE  Types' /\ Lists'
  <2>1. Handled(c) /\ Types'
    BY <1>1, BeginHandled
  <2>2. /\ InRound /\ i <= Len(el.fds) /\ c = el.fds[i] /\ i' = i /\ ch' = c
        /\ c \in Range(el.channels) /\ pc' \in {"hup", "data", "tail", "monitor"}
    BY <1>1, BeginAt
  <2>3. QED
    BY <2>1, <2>2, ListsHandled
<1>2. ASSUME HupRecv \/ HupClosed \/ DataRead \/ Invalid \/ Reap
      PROVE  Types' /\ Lists'
  <2>1. Handled(ch) /\ Types'
    BY <1>2, ContinueHandled
  <2>2. /\ pc \in {"hup", "hupdata", "data", "tail", "idle"} /\ ch' = ch
        /\ pc' \in {"hup", "hupdata", "tail", "idle", "chan"}
        /\ i' = i \/ pc' = "chan"
    BY <1>2 DEF HupRecv, HupClosed, DataRead, Invalid, Reap
  <2>3. Serving /\ InRound
    BY <2>2 DEF Serving, InRound
  <2>4. ch \in Range(el.channels) /\ (~el.force_stop => i <= Len(el.fds) /\ ch = el.fds[i])
    BY <2>3 DEF Lists
  <2>5. QED
    BY <2>1, <2>2, <2>3, <2>4, ListsHandled
<1>3. QED
  BY <1>1, <1>2

\* Only sockets change, and no accepted connection returns to the backlog.
LEMMA ListsSockets ==
  ASSUME Types, Lists, el' = el, pc' = pc, ch' = ch, i' = i,
         \A c \in Conns : \/ sock'[c].state = sock[c].state
                          \/ sock[c].state = "none" /\ sock'[c].state = "backlog"
  PROVE  Lists'
<1>1. \A c \in Conns :
       /\ sock'[c].state \in {"none", "backlog"} => c \notin Range(el'.channels) \cup el'.freed
       /\ c \in Range(el'.channels) \ el'.removable => sock'[c].state \in {"open", "shut"}
  BY DEF Lists
<1>2. QED
  BY <1>1 DEF Lists, InRound, Serving

LEMMA ListsPeers ==
  ASSUME Types, Lists, NEW c \in Conns,
         PeerConnects(c) \/ PeerSends(c) \/ PeerCloses(c) \/ SocketBreaks(c)
  PROVE  Types' /\ Lists'
<1>1. Types'
  BY TypesPeers
<1>2. el' = el /\ pc' = pc /\ ch' = ch /\ i' = i
  BY DEF PeerConnects, PeerSends, PeerCloses, SocketBreaks, loopVars
<1>3. c \in Chans /\ sock \in [Chans -> Sockets] /\ Conns \subseteq Chans
  BY DEF Types, Chans
<1>4. \A d \in Conns : \/ sock'[d].state = sock[d].state
                       \/ sock[d].state = "none" /\ sock'[d].state = "backlog"
  BY <1>3 DEF PeerConnects, PeerSends, PeerCloses, SocketBreaks, Sockets
<1>5. QED
  BY <1>1, <1>2, <1>4, ListsSockets

\* The loop itself.
LEMMA ListsLoop ==
  ASSUME Types, Lists,
         LoopExits \/ LoopTurns \/ PollCalled \/ PollReturns \/ NoEvents \/ TimerFires
         \/ TimerNotDue \/ Sweep \/ Terminate
  PROVE  Types' /\ Lists'
<1>0. Types' /\ el \in Loops /\ clock \in Nat /\ sock \in [Chans -> Sockets]
      /\ Conns \subseteq Chans
  BY TypesLoop DEF Types, Chans
<1>1. CASE LoopExits \/ PollCalled \/ TimerNotDue
  <2>1. el' = el /\ sock' = sock /\ ch' = ch /\ i' = i
        /\ \/ pc = "poll" /\ pc' = "polling"
           \/ pc \in {"top", "timers"} /\ pc' \in {"top", "done"}
    BY <1>1 DEF LoopExits, PollCalled, TimerNotDue
  <2>2. ~InRound /\ ~InRound' /\ ~Serving'
    BY <2>1 DEF InRound, Serving
  <2>3. QED
    BY <1>0, <2>1, <2>2 DEF Lists
<1>2. CASE LoopTurns
  <2>1. ~InRound /\ ~InRound' /\ ~Serving' /\ sock' = sock /\ pc = "top"
    BY <1>2 DEF LoopTurns, InRound, Serving
  <2>2. CASE ~el.fds_dirty
    <3>1. el' = el
      BY <1>2, <2>2 DEF LoopTurns
    <3>2. QED
      BY <1>0, <2>1, <2>2, <3>1 DEF Lists
  <2>3. CASE el.fds_dirty
    <3>1. el' = update_fds(el)
      BY <1>2, <2>3 DEF LoopTurns
    <3>2. /\ ~el'.fds_dirty
          /\ Range(el'.fds) = Range(el.channels) \cap el.active
          /\ Distinct(el.channels) => Distinct(el'.fds)
          /\ el'.channels = el.channels /\ el'.freed = el.freed
          /\ el'.stopping = el.stopping /\ el'.force_stop = el.force_stop
          /\ el'.active = el.active /\ el'.removable = el.removable
          /\ el'.shutting = el.shutting
      BY ONLY <1>0, <3>1, UpdateFields
    <3>3. QED
      BY <1>0, <2>1, <3>2 DEF Lists
  <2>4. QED
    BY <2>2, <2>3
<1>3. CASE PollReturns \/ NoEvents
  <2>1. el' = [el EXCEPT !.now = clock] /\ sock' = sock /\ pc = "polling"
        /\ pc' \in {"chan", "timers", "top"}
    BY <1>3 DEF PollReturns, NoEvents, AfterEvents
  <2>2. /\ el'.channels = el.channels /\ el'.fds = el.fds
        /\ el'.freed = el.freed /\ el'.stopping = el.stopping
        /\ el'.force_stop = el.force_stop /\ el'.active = el.active
        /\ el'.removable = el.removable /\ el'.fds_dirty = el.fds_dirty
        /\ el'.shutting = el.shutting
    BY ONLY <1>0, <2>1, NowSet
  <2>3. ~InRound /\ ~Serving' /\ Range(el.fds) \subseteq Range(el.channels)
    BY <2>1 DEF InRound, Serving, Lists
  <2>4. QED
    BY <1>0, <2>1, <2>2, <2>3 DEF Lists
<1>4. CASE TimerFires
  <2>1. pc = "timers" /\ pc' = "top" /\ ~InRound /\ ~InRound' /\ ~Serving'
    BY <1>4 DEF TimerFires, InRound, Serving
  <2>2. CASE UNCHANGED <<el, sock>>
    BY <1>0, <2>1, <2>2 DEF Lists
  <2>3. CASE el' = eventloop_stop(el) /\ Shutdown(el')
    <3>1. /\ el'.stopping /\ ~el'.fds_dirty
          /\ el'.channels = el.channels /\ el'.freed = el.freed
          /\ el'.force_stop = el.force_stop
          /\ el'.active = el.active \ Released(el)
          /\ el'.removable = el.removable \cup Released(el)
          /\ Range(el'.fds) = Range(el'.channels) \cap el'.active
          /\ Distinct(el'.channels) => Distinct(el'.fds)
      BY ONLY <1>0, <2>3, StopFields
    <3>2. Released(el) \subseteq Range(el.channels)
      BY DEF Released
    <3>3. \A c \in Conns : sock'[c].state = sock[c].state
                           \/ (sock[c].state = "open" /\ sock'[c].state = "shut")
      BY <1>0, <2>3 DEF Shutdown, Sockets
    <3>4. QED
      BY <1>0, <2>1, <3>1, <3>2, <3>3 DEF Lists
  <2>4. QED
    BY <1>4, <2>2, <2>3 DEF TimerFires
<1>5. CASE Sweep
  <2>1. pc = "chan" /\ pc' \in {"timers", "top"} /\ sock' = sock
    BY <1>5 DEF Sweep, AfterEvents
  <2>2. InRound /\ ~InRound' /\ ~Serving'
    BY <2>1 DEF InRound, Serving
  <2>3. PICK R : R = Range(el.fds) \cap el.removable
    OBVIOUS
  <2>4. R \subseteq Chans /\ el' = Removed(el, R)
    BY <1>0, <1>5, <2>3 DEF Sweep, Loops
  <2>5. /\ Range(el'.channels) = Range(el.channels) \ R
        /\ Distinct(el.channels) => Distinct(el'.channels)
        /\ el'.active = el.active \ R /\ el'.freed = el.freed \cup R
        /\ (el'.fds_dirty <=> el.fds_dirty \/ el.active \cap R # {})
        /\ el'.fds = el.fds /\ el'.removable = el.removable
        /\ el'.stopping = el.stopping /\ el'.force_stop = el.force_stop
        /\ el'.shutting = el.shutting
    BY ONLY <1>0, <2>4, RemoveFields
  <2>6. QED
    BY <1>0, <2>1, <2>2, <2>3, <2>5 DEF Lists
<1>6. CASE Terminate
  <2>1. PICK m : m = eventloop_terminate(el)
    OBVIOUS
  <2>2. /\ m \in Loops /\ m.stopping /\ m.force_stop /\ ~m.fds_dirty /\ m.now = el.now
        /\ m.channels = el.channels /\ m.freed = el.freed
        /\ m.active = el.active \ Range(el.channels)
        /\ m.removable = el.removable \cup Range(el.channels)
        /\ Range(m.fds) = {} /\ Distinct(m.fds)
    BY ONLY <1>0, <2>1, TerminateFields
  <2>3. PICK n : n = IF pc = "polling" THEN clock ELSE el.now
    OBVIOUS
  <2>4. n \in Nat /\ el' = [m EXCEPT !.now = n]
    BY <1>0, <1>6, <2>1, <2>2, <2>3 DEF Terminate, Loops
  <2>5. /\ el'.channels = m.channels /\ el'.fds = m.fds
        /\ el'.freed = m.freed /\ el'.stopping = m.stopping
        /\ el'.force_stop = m.force_stop /\ el'.active = m.active
        /\ el'.removable = m.removable /\ el'.fds_dirty = m.fds_dirty
    <3>1. m \in Loops
      BY <2>2
    <3>2. QED
      BY ONLY <3>1, <2>4, NowSet
  <2>6. ch' = ch /\ i' = i /\ (pc' = pc \/ pc' \in {"timers", "top"})
    BY <1>6 DEF Terminate, AfterEvents
  <2>7. Serving' => Serving
    BY <2>6 DEF Serving
  <2>8. \A c \in Conns : \/ sock'[c].state = sock[c].state \/ sock'[c].state = "closed"
    <3>1. TAKE c \in Conns
    <3>2. c \in Chans /\ socket_close(sock, c)[c].state = "closed"
      BY <1>0, ClosedSocket
    <3>3. QED
      BY <1>6, <3>2 DEF Terminate
  <2>9. el'.active = {} /\ el'.fds_dirty = FALSE /\ Range(el'.fds) = {}
    BY <2>2, <2>5 DEF Lists, Loops
  <2>10. QED
    BY <1>0, <2>2, <2>5, <2>7, <2>6, <2>8, <2>9 DEF Lists
<1>7. QED
  BY <1>1, <1>2, <1>3, <1>4, <1>5, <1>6

LEMMA ListsAccept ==
  ASSUME Types, Lists, Accept
  PROVE  Types' /\ Lists'
<1>0. Types' /\ el \in Loops /\ sock \in [Chans -> Sockets] /\ Conns \subseteq Chans
  BY TypesAccept DEF Types, Chans
<1>1. pc = "monitor" /\ ch' = ch /\ i' = i
  BY DEF Accept
<1>2. CASE L \in el.removable /\ pc' = "crashed" /\ UNCHANGED <<el, sock>>
  <2>1. ~InRound' /\ ~Serving' /\ InRound
    BY <1>1, <1>2 DEF InRound, Serving
  <2>2. el.stopping
    BY <1>2 DEF Accept, Lists
  <2>3. QED
    BY <1>0, <1>2, <2>1, <2>2 DEF Lists
<1>3. ASSUME NEW c \in Conns, sock[c].state = "backlog", pc' = "tail", L \notin el.removable,
             Accepted(c) \/ Refused(c)
      PROVE  Types' /\ Lists'
  <2>1. c \in Chans /\ c \notin Range(el.channels) \cup el.freed /\ c \notin el.removable
        /\ c \notin el.active
    BY <1>0, <1>3 DEF Lists
  <2>2. InRound /\ InRound' /\ Serving /\ Serving'
    BY <1>1, <1>3 DEF InRound, Serving
  <2>3. CASE Refused(c)
    <3>1. /\ el' = el /\ sock'[c].state = "closed"
          /\ \A d \in Chans \ {c} : sock'[d] = sock[d]
      BY <1>0, <2>1, <2>3, ClosedSocket DEF Refused
    <3>2. \A d \in Conns :
           /\ sock'[d].state \in {"none", "backlog"} => d \notin Range(el'.channels) \cup el'.freed
           /\ d \in Range(el'.channels) \ el'.removable => sock'[d].state \in {"open", "shut"}
      BY <1>0, <2>1, <3>1 DEF Lists
    <3>3. QED
      BY <1>0, <1>1, <1>3, <2>2, <3>1, <3>2 DEF Lists
  <2>4. CASE Accepted(c)
    <3>1. el' = eventloop_on_read_in_channel(el, c)
      BY <2>4 DEF Accepted
    <3>2. /\ Range(el'.channels) = Range(el.channels) \cup {c}
          /\ Distinct(el.channels) /\ c \notin Range(el.channels) => Distinct(el'.channels)
          /\ el'.active = el.active \cup {c} /\ el'.fds_dirty
          /\ el'.fds = el.fds /\ el'.freed = el.freed
          /\ el'.removable = el.removable
          /\ el'.stopping = el.stopping /\ el'.force_stop = el.force_stop
          /\ el'.shutting = el.shutting
      <4>1. PICK m : m = el'
        OBVIOUS
      <4>2. m = eventloop_on_read_in_channel(el, c)
        BY <3>1, <4>1
      <4>3. el \in Loops /\ c \in Chans /\ c \notin el.active
        BY <1>0, <2>1
      <4>4. /\ Range(m.channels) = Range(el.channels) \cup {c}
            /\ (Distinct(el.channels) /\ c \notin Range(el.channels) => Distinct(m.channels))
            /\ m.active = el.active \cup {c} /\ m.fds_dirty
            /\ m.fds = el.fds /\ m.freed = el.freed /\ m.shutting = el.shutting
            /\ m.removable = el.removable
            /\ m.stopping = el.stopping /\ m.force_stop = el.force_stop
        <5>1. Registered(el, c, m)
          BY ONLY <4>2, <4>3, RegisterFields
        <5>2. QED
          BY ONLY <5>1 DEF Registered
      <4>5. QED
        BY <4>1, <4>4
    <3>3. ~el.force_stop
      <4>1. ch = L /\ ch \in Range(el.channels)
        BY <1>1, <2>2 DEF Types, Lists
      <4>2. QED
        BY <1>3, <4>1 DEF Lists
    <3>4. sock'[c].state = "open" /\ \A d \in Chans \ {c} : sock'[d] = sock[d]
      BY <1>0, <2>1, <2>4 DEF Accepted, Sockets
    <3>5. \A d \in Conns :
           /\ sock'[d].state \in {"none", "backlog"} => d \notin Range(el'.channels) \cup el'.freed
           /\ d \in Range(el'.channels) \ el'.removable => sock'[d].state \in {"open", "shut"}
      BY <1>0, <2>1, <3>2, <3>4 DEF Lists
    <3>6. QED
      BY <1>0, <1>1, <1>3, <2>1, <2>2, <3>2, <3>3, <3>5 DEF Lists
  <2>5. QED
    BY <1>3, <2>3, <2>4
<1>4. QED
  BY <1>2, <1>3 DEF Accept, Accepted, Refused

LEMMA ListsTick ==
  ASSUME Types, Lists, Tick
  PROVE  Types' /\ Lists'
<1>1. Types'
  BY DEF Tick, loopVars, history, Types
<1>2. el' = el /\ pc' = pc /\ ch' = ch /\ i' = i /\ sock' = sock
  BY DEF Tick, loopVars
<1>3. QED
  BY <1>1, <1>2, ListsSockets

\* The steps by kind: the environment, a channel that is served, a connection
\* that is accepted, and the loop around them.
Begins(c) ==
  ErrBytes(c) \/ ErrStatus(c) \/ Hup(c) \/ InRecv(c) \/ InClosed(c) \/ InFails(c)
  \/ Silent(c) \/ (c = L /\ InListener)
Continues == HupRecv \/ HupClosed \/ DataRead \/ Invalid \/ Reap
Outer ==
  LoopExits \/ LoopTurns \/ PollCalled \/ PollReturns \/ NoEvents \/ TimerFires
  \/ TimerNotDue \/ Sweep \/ Terminate
Peers(c) == PeerConnects(c) \/ PeerSends(c) \/ PeerCloses(c) \/ SocketBreaks(c)

\* recv() fails with ENOTSOCK: the channel is freed.
Dropped(c) ==
  /\ c \in Conns /\ sock[c].err = "notsock" /\ c \in Range(el.channels)
  /\ pc = "chan" /\ InRound /\ pc' = "undefined" /\ ch' = c
  /\ UNCHANGED <<i, len, revents, sock, clock, sent, sentAt, sentLate, got, told>>
  /\ el' \in Loops /\ Range(el'.channels) = Range(el.channels) \ {c} /\ Distinct(el'.channels)
  /\ el'.active = el.active \ {c} /\ el'.freed = el.freed \cup {c}
  /\ (el'.fds_dirty <=> el.fds_dirty \/ c \in el.active)
  /\ el'.fds = el.fds /\ el'.removable = el.removable /\ el'.shutting = el.shutting
  /\ el'.stopping = el.stopping /\ el'.force_stop = el.force_stop /\ el'.now = el.now
  /\ el'.last_activity = [el.last_activity EXCEPT ![c] = el.now]

LEMMA NotSocketDrops ==
  ASSUME Types, Lists, NEW c \in Chans, InNotSocket(c)
  PROVE  Dropped(c)
<1>1. /\ pc = "chan" /\ i <= Len(el.fds) /\ c = el.fds[i] /\ ch' = c /\ pc' = "undefined"
      /\ UNCHANGED <<i, len, revents, sock, clock, sent, sentAt, sentLate, got, told>>
      /\ sock[c].err = "notsock" /\ c # L
  BY DEF InNotSocket, At, Quiet
<1>2. el \in Loops /\ c \in Conns /\ i \in Nat \ {0} /\ el.fds \in Seq(Chans)
  BY <1>1 DEF Types, Chans, Loops
<1>3. i \in 1 .. Len(el.fds) /\ DOMAIN el.fds = 1 .. Len(el.fds)
  BY <1>1, <1>2, LenProperties
<1>4. InRound /\ c \in Range(el.channels) /\ Distinct(el.channels)
  <2>1. c \in Range(el.fds) /\ InRound
    BY <1>1, <1>3 DEF Range, InRound
  <2>2. QED
    BY <2>1 DEF Lists
<1>5. PICK m : m = Touched(el, c)
  OBVIOUS
<1>6. /\ m \in Loops /\ SameLists(el, m) /\ m.active = el.active /\ m.removable = el.removable
      /\ m.fds_dirty = el.fds_dirty /\ m.last_activity = [el.last_activity EXCEPT ![c] = el.now]
  <2>1. el \in Loops
    BY <1>2
  <2>2. QED
    BY ONLY <2>1, <1>5, c \in Chans, NotedNow, ZenonT(60)
<1>7. PICK R : R = {c}
  OBVIOUS
<1>8. R \subseteq Chans /\ el' = Removed(m, R)
  BY <1>5, <1>7 DEF InNotSocket, Touched, eventloop_socket_remove
<1>9. /\ el' \in Loops /\ Range(el'.channels) = Range(m.channels) \ R
      /\ Distinct(m.channels) => Distinct(el'.channels)
      /\ el'.active = m.active \ R /\ el'.freed = m.freed \cup R
      /\ (el'.fds_dirty <=> m.fds_dirty \/ m.active \cap R # {})
      /\ el'.fds = m.fds /\ el'.removable = m.removable /\ el'.shutting = m.shutting
      /\ el'.stopping = m.stopping /\ el'.force_stop = m.force_stop /\ el'.now = m.now
      /\ el'.last_activity = m.last_activity
  BY ONLY <1>6, <1>8, RemoveFields
<1>10. m.active \cap R # {} <=> c \in el.active
  BY <1>6, <1>7
<1>11. QED
  BY <1>1, <1>2, <1>4, <1>6, <1>7, <1>9, <1>10 DEF Dropped, SameLists

LEMMA ListsDropped ==
  ASSUME Types, Lists, NEW c \in Chans, InNotSocket(c)
  PROVE  Types' /\ Lists'
<1>1. Dropped(c)
  BY NotSocketDrops
<1>2. ~InRound' /\ ~Serving' /\ c # L /\ Conns \subseteq Chans
  BY <1>1, EventLoopAssumption DEF Dropped, InRound, Serving, Chans
<1>3. el'.last_activity[L] = el.last_activity[L]
  BY <1>1, <1>2 DEF Dropped, Types, Loops, Chans
<1>4. Types'
  BY <1>1, <1>2, <1>3 DEF Types, Dropped, Locations
<1>5. /\ ~el'.fds_dirty => Range(el'.fds) = el'.active
      /\ el'.active \subseteq Range(el'.channels) \ el'.removable
      /\ Range(el'.channels) \cap el'.freed = {}
      /\ el'.removable \subseteq Range(el'.channels) \cup el'.freed
  BY <1>1 DEF Lists, Dropped
<1>6. \A d \in Conns :
        /\ sock'[d].state \in {"none", "backlog"} => d \notin Range(el'.channels) \cup el'.freed
        /\ d \in Range(el'.channels) \ el'.removable => sock'[d].state \in {"open", "shut"}
  BY <1>1 DEF Lists, Dropped
<1>7. QED
  BY <1>1, <1>2, <1>4, <1>5, <1>6 DEF Lists, Dropped

LEMMA KindsOfSteps ==
  ASSUME Next
  PROVE  \/ \E c \in Conns : Peers(c)
         \/ \E c \in Chans : Begins(c)
         \/ \E c \in Chans : InNotSocket(c)
         \/ Continues \/ Outer \/ Accept \/ Tick
<1>1. CASE Environment
  BY <1>1 DEF Environment, Peers, Outer, PollInterrupted
<1>2. CASE Channel
  <2>1. L \in Chans
    BY DEF Chans
  <2>2. QED
    BY <1>2, <2>1 DEF Channel, Begins, Continues
<1>3. CASE Loop /\ ~Channel
  BY <1>3 DEF Loop, Outer, PollTimesOut
<1>4. QED
  BY <1>1, <1>2, <1>3 DEF Next, Loop

LEMMA ListsNext ==
  ASSUME Owner = "server", Types, Lists, [Next]_vars
  PROVE  Types' /\ Lists'
<1>1. ASSUME NEW c \in Conns, Peers(c) PROVE Types' /\ Lists'
  BY <1>1, ListsPeers DEF Peers
<1>2. ASSUME (\E c \in Chans : Begins(c)) \/ Continues PROVE Types' /\ Lists'
  BY <1>2, ListsServing DEF Begins, Continues
<1>3. ASSUME Outer PROVE Types' /\ Lists'
  BY <1>3, ListsLoop DEF Outer
<1>4. ASSUME UNCHANGED vars PROVE Types' /\ Lists'
  BY <1>4 DEF vars, loopVars, history, Types, Lists, InRound, Serving
<1>5. QED
  BY <1>1, <1>2, <1>3, <1>4, KindsOfSteps, ListsDropped, ListsAccept, ListsTick

\* Nothing happens any more once a freed channel has been used.
Fatal == pc = "undefined" => sock[ch].err = "notsock"

LEMMA FatalNext ==
  ASSUME Owner = "server", Types, Lists, Fatal, [Next]_vars
  PROVE  Fatal'
<1>1. ASSUME NEW c \in Conns, Peers(c) PROVE Fatal'
  BY <1>1 DEF Peers, PeerConnects, PeerSends, PeerCloses, SocketBreaks, Outside, Fatal, loopVars
<1>2. ASSUME NEW c \in Chans, Begins(c) PROVE Fatal'
  BY <1>2, BeginAt DEF Begins, Fatal
<1>3. ASSUME NEW c \in Chans, InNotSocket(c) PROVE Fatal'
  BY <1>3, NotSocketDrops DEF Dropped, Fatal
<1>4. CASE Continues
  BY <1>4 DEF Continues, HupRecv, HupClosed, DataRead, Invalid, Reap, Fatal
<1>5. CASE Outer
  BY <1>5 DEF Outer, LoopExits, LoopTurns, PollCalled, PollReturns, NoEvents, TimerFires,
     TimerNotDue, Sweep, Terminate, AfterEvents, Fatal
<1>6. CASE Accept \/ Tick \/ UNCHANGED vars
  BY <1>6 DEF Accept, Tick, vars, loopVars, Fatal
<1>7. QED
  BY <1>1, <1>2, <1>3, <1>4, <1>5, <1>6, KindsOfSteps

LEMMA ListsAlways ==
  ASSUME Owner = "server"
  PROVE  Spec => [](Types /\ Lists /\ Fatal)
<1>1. Init => Types /\ Lists /\ Fatal
  BY TypesInit, ListsInit DEF Init, Fatal
<1>2. Types /\ Lists /\ Fatal /\ [Next]_vars => (Types /\ Lists /\ Fatal)'
  BY ListsNext, FatalNext
<1>3. QED
  BY <1>1, <1>2, PTL DEF Spec

LEMMA ListsAreValid ==
  ASSUME Types, Lists, Fatal
  PROVE  ChannelMemory
<1>1. \A c \in Served \cap el.freed : sock[c].err = "notsock"
  <2>1. Serving => ch \notin el.freed
    BY DEF Lists
  <2>2. QED
    BY <2>1 DEF Served, Serving, Fatal
<1>2. pc = "chan" => Range(el.fds) \cap el.freed = {}
  BY DEF Lists, InRound
<1>3. pc = "top" /\ ~el.stopping => Range(el.channels) \cap el.removable = {}
  BY DEF Lists, InRound, Serving
<1>4. QED
  BY <1>1, <1>2, <1>3 DEF ChannelMemory

\* With the callbacks of the server, eventloop_run() never refers to a channel
\* that has been freed, whichever callbacks and signals release channels, but
\* for the one that it frees itself on ENOTSOCK; and a channel released in a
\* round has been freed when the round ends.
THEOREM ChannelsAreValid ==
  ASSUME Owner = "server"
  PROVE  Spec => []ChannelMemory
<1>1. Spec => [](Types /\ Lists /\ Fatal)
  BY ListsAlways
<1>2. Types /\ Lists /\ Fatal => ChannelMemory
  BY ListsAreValid
<1>3. QED
  BY <1>1, <1>2, PTL

-----------------------------------------------------------------------------
(* The round over the polled channels.                                     *)

LEMMA RoundInit ==
  ASSUME Init
  PROVE  Round
<1>1. pc = "top" /\ told = [c \in Conns |-> <<>>] /\ got = [c \in Conns |-> <<>>]
  BY DEF Init
<1>2. \A c \in Conns : sock[c].err = "none"
  BY DEF Init, NewSocket, Chans
<1>3. QED
  BY <1>1, <1>2 DEF Round, InRound, Serving

\* What serving c leaves true of every connection.
LEMMA RoundHandled ==
  ASSUME Types, Lists, Round, NEW c \in Range(el.channels), Handled(c), InRound,
         revents' = revents
  PROVE  \A d \in Conns :
       /\ d \notin Range(el'.channels) \cup el'.freed => told'[d] = <<>> /\ got'[d] = <<>>
       /\ told'[d] # <<>> => d \notin el'.active
       /\ sock'[d].state \in {"none", "backlog"} => sock'[d].err = "none"
       /\ revents'[d] \in {"POLLERR", "POLLNVAL"} /\ sock'[d].state # "closed"
          => sock'[d].err \notin {"none", "notsock"}
       /\ revents'[d] # "none" => d \in Range(el'.channels)
<1>1. TAKE d \in Conns
<1>2. el'.channels = el.channels /\ el'.freed = el.freed /\ d \in Chans
      /\ (d \in el'.active => d \in el.active)
  BY DEF Handled, SameLists, Chans
<1>3. CASE d # c
  <2>1. told'[d] = told[d] /\ got'[d] = got[d] /\ sock'[d] = sock[d]
    BY <1>2, <1>3 DEF Handled
  <2>2. QED
    BY <1>2, <2>1 DEF Round
<1>4. CASE d = c
  <2>1. told'[d] = told[d] \/ d \notin el'.active
    BY <1>4 DEF Handled
  <2>2. \/ sock'[d].state = sock[d].state /\ sock'[d].err = sock[d].err
        \/ sock'[d].state = "closed"
    BY <1>4 DEF Handled
  <2>3. QED
    BY <1>2, <1>4, <2>1, <2>2 DEF Round
<1>5. QED
  BY <1>3, <1>4

LEMMA WaitingHandled ==
  ASSUME Types, Lists, Waiting, NEW c \in Range(el.channels), Handled(c),
         ~el.force_stop => i <= Len(el.fds) /\ c = el.fds[i],
         (i' = i /\ pc' # "chan") \/ (i' = i + 1 /\ pc' = "chan")
  PROVE  Waiting'
<1>1. el'.fds = el.fds /\ i \in Nat \ {0} /\ el.fds \in Seq(Chans) /\ Len(el.fds) \in Nat
      /\ \A k \in 1 .. Len(el.fds) : el.fds[k] \in Chans
  <2>1. el.fds \in Seq(Chans) /\ i \in Nat \ {0}
    BY DEF Types, Loops
  <2>2. QED
    BY <2>1, LenProperties, ElementOfSeq DEF Handled, SameLists
<1>2. SUFFICES ASSUME NEW k \in i' .. Len(el.fds), el.fds[k] # L, pc' = "chan" \/ k # i'
               PROVE  told'[el.fds[k]] = <<>>
  BY <1>1 DEF Waiting
<1>3. k \in i .. Len(el.fds) /\ k # i /\ k \in 1 .. Len(el.fds) /\ i \in Nat
  BY <1>1, <1>2
<1>4. el.fds[k] \in Conns /\ told[el.fds[k]] = <<>>
  BY <1>1, <1>2, <1>3 DEF Waiting, Chans
<1>5. CASE el.fds[k] # c
  BY <1>4, <1>5 DEF Handled
<1>6. CASE el.fds[k] = c
  <2>1. el.force_stop
    <3>1. SUFFICES ASSUME ~el.force_stop PROVE FALSE
      OBVIOUS
    <3>2. i \in 1 .. Len(el.fds) /\ c = el.fds[i]
      BY <1>1, <3>1
    <3>3. QED
      BY <1>3, <1>6, <3>2 DEF Lists, Distinct
  <2>2. c \in el.removable
    BY <2>1 DEF Lists
  <2>3. QED
    BY <1>4, <1>6, <2>2 DEF Handled
<1>7. QED
  BY <1>5, <1>6

LEMMA RoundBegins ==
  ASSUME Owner = "server", Types, Lists, Round, NEW c \in Chans, Begins(c)
  PROVE  Round'
<1>1. Handled(c) /\ Types'
  BY BeginHandled DEF Begins
<1>2. /\ pc = "chan" /\ InRound /\ i <= Len(el.fds) /\ c = el.fds[i] /\ i' = i /\ ch' = c
      /\ i \in 1 .. Len(el.fds) /\ c \in Range(el.channels)
      /\ pc' \in {"hup", "data", "tail", "monitor"}
  BY BeginAt DEF Begins
<1>3. revents' = revents
  BY DEF Begins, ErrBytes, ErrStatus, Hup, InRecv, InClosed, InFails, Silent, InListener, At
<1>4. Waiting
  BY <1>2 DEF Round
<1>5. Waiting'
  BY <1>1, <1>2, <1>4, WaitingHandled
<1>6. c # L => told[c] = <<>>
  <2>1. i \in i .. Len(el.fds)
    BY <1>2
  <2>2. QED
    BY <1>2, <1>4, <2>1 DEF Waiting
<1>7. pc' \in {"hup", "hupdata", "data"} =>
        /\ told'[c] = <<>>
        /\ revents[c] = IF pc' = "data" THEN "POLLIN" ELSE "POLLHUP"
  <2>1. HAVE pc' \in {"hup", "hupdata", "data"}
  <2>2. Hup(c) \/ InRecv(c)
    BY <2>1 DEF Begins, ErrBytes, ErrStatus, InClosed, InFails, Silent, InListener
  <2>3. c # L
    BY <1>2, <2>1, <1>1 DEF Types
  <2>4. QED
    BY <1>6, <2>2, <2>3 DEF Hup, InRecv, At
<1>8. pc' = "tail" /\ revents[c] = "POLLNVAL" => told'[c] = <<>>
  <2>1. HAVE pc' = "tail" /\ revents[c] = "POLLNVAL"
  <2>2. Silent(c)
    BY <2>1 DEF Begins, ErrBytes, ErrStatus, Hup, InRecv, InClosed, InFails, InListener, At
  <2>3. c # L
    BY <2>1 DEF Types
  <2>4. QED
    BY <1>6, <2>2, <2>3 DEF Silent
<1>9. \A d \in Conns :
       /\ d \notin Range(el'.channels) \cup el'.freed => told'[d] = <<>> /\ got'[d] = <<>>
       /\ told'[d] # <<>> => d \notin el'.active
       /\ sock'[d].state \in {"none", "backlog"} => sock'[d].err = "none"
       /\ revents'[d] \in {"POLLERR", "POLLNVAL"} /\ sock'[d].state # "closed"
          => sock'[d].err \notin {"none", "notsock"}
       /\ revents'[d] # "none" => d \in Range(el'.channels)
  BY <1>1, <1>2, <1>3, RoundHandled
<1>10. QED
  BY <1>2, <1>3, <1>5, <1>7, <1>8, <1>9 DEF Round

LEMMA RoundContinues ==
  ASSUME Owner = "server", Types, Lists, Round, Continues
  PROVE  Round'
<1>1. Handled(ch) /\ Types'
  BY ContinueHandled DEF Continues
<1>2. /\ pc \in {"hup", "hupdata", "data", "tail", "idle"} /\ ch' = ch /\ revents' = revents
      /\ pc' \in {"hup", "hupdata", "tail", "idle", "chan"}
      /\ (i' = i /\ pc' # "chan") \/ (i' = i + 1 /\ pc' = "chan")
  BY DEF Continues, HupRecv, HupClosed, DataRead, Invalid, Reap
<1>3. Serving /\ InRound /\ ch \in Range(el.channels)
      /\ (~el.force_stop => i <= Len(el.fds) /\ ch = el.fds[i])
  BY <1>2 DEF Serving, InRound, Lists
<1>4. Waiting'
  <2>1. Waiting
    BY <1>3 DEF Round
  <2>2. QED
    BY <1>1, <1>2, <1>3, <2>1, WaitingHandled
<1>5. pc' \in {"hup", "hupdata", "data"} =>
        /\ told' = told /\ pc' # "data" /\ pc \in {"hup", "hupdata"}
        /\ el.removable \subseteq el'.removable
  <2>1. HAVE pc' \in {"hup", "hupdata", "data"}
  <2>2. HupRecv \/ (DataRead /\ pc # "data")
    BY <2>1 DEF Continues, HupClosed, DataRead, Invalid, Reap
  <2>3. QED
    BY <1>1, <2>1, <2>2 DEF HupRecv, DataRead, Handled
<1>6. pc' = "tail" => revents[ch] # "POLLNVAL"
  <2>1. HAVE pc' = "tail"
  <2>2. HupClosed \/ (DataRead /\ pc = "data")
    BY <2>1 DEF Continues, HupRecv, DataRead, Invalid, Reap
  <2>3. QED
    BY <2>2 DEF HupClosed, Round
<1>7. \A d \in Conns :
       /\ d \notin Range(el'.channels) \cup el'.freed => told'[d] = <<>> /\ got'[d] = <<>>
       /\ told'[d] # <<>> => d \notin el'.active
       /\ sock'[d].state \in {"none", "backlog"} => sock'[d].err = "none"
       /\ revents'[d] \in {"POLLERR", "POLLNVAL"} /\ sock'[d].state # "closed"
          => sock'[d].err \notin {"none", "notsock"}
       /\ revents'[d] # "none" => d \in Range(el'.channels)
  BY <1>1, <1>2, <1>3, RoundHandled
<1>8. QED
  BY <1>2, <1>4, <1>5, <1>6, <1>7 DEF Round

\* Neither callbacks nor the round are concerned.
LEMMA RoundPeers ==
  ASSUME Types, Lists, Round, NEW c \in Conns, Peers(c)
  PROVE  Round'
<1>1. UNCHANGED <<el, pc, i, ch, revents, told, got>>
  BY DEF Peers, PeerConnects, PeerSends, PeerCloses, SocketBreaks, loopVars, history
<1>2. c \in Chans /\ sock \in [Chans -> Sockets] /\ Conns \subseteq Chans
  BY DEF Types, Chans
<1>3. \A d \in Conns :
       /\ sock'[d].state \in {"none", "backlog"} =>
            sock[d].state \in {"none", "backlog"} /\ sock'[d].err = sock[d].err
       /\ sock'[d].state = "closed" <=> sock[d].state = "closed"
       /\ sock[d].err \notin {"none", "notsock"} => sock'[d].err \notin {"none", "notsock"}
  BY <1>2 DEF Peers, PeerConnects, PeerSends, PeerCloses, SocketBreaks, Sockets
<1>4. QED
  BY <1>1, <1>3 DEF Round, Waiting, InRound, Serving

\* A connection that is accepted has no history.
LEMMA RoundAccept ==
  ASSUME Types, Lists, Round, Accept
  PROVE  Round'
<1>0. Types' /\ el \in Loops /\ sock \in [Chans -> Sockets] /\ Conns \subseteq Chans
  BY TypesAccept DEF Types, Chans
<1>1. pc = "monitor" /\ ch' = ch /\ i' = i /\ ch = L /\ revents' = revents
      /\ told' = told /\ got' = got /\ revents[L] \in {"none", "POLLIN"}
  BY DEF Accept, Types
<1>2. CASE pc' = "crashed" /\ UNCHANGED <<el, sock>>
  <2>1. ~InRound'
    BY <1>2 DEF InRound, Serving
  <2>2. QED
    BY <1>1, <1>2, <2>1 DEF Round
<1>3. ASSUME NEW c \in Conns, sock[c].state = "backlog", pc' = "tail", Accepted(c) \/ Refused(c)
      PROVE  Round'
  <2>1. c \in Chans /\ c \notin Range(el.channels) \cup el.freed /\ c \notin el.active
    BY <1>0, <1>3 DEF Lists
  <2>2. InRound /\ InRound'
    BY <1>1, <1>3 DEF InRound, Serving
  <2>3. /\ el'.fds = el.fds /\ el'.freed = el.freed
        /\ \/ Range(el'.channels) = Range(el.channels) \cup {c} /\ el'.active = el.active \cup {c}
           \/ el' = el
    <3>1. CASE Refused(c)
      BY <3>1 DEF Refused
    <3>2. CASE Accepted(c)
      <4>1. el \in Loops /\ c \in Chans /\ c \notin el.active
            /\ el' = eventloop_on_read_in_channel(el, c)
        BY <1>0, <2>1, <3>2 DEF Accepted
      <4>2. Registered(el, c, el')
        BY ONLY <4>1, RegisterFields
      <4>3. QED
        BY <4>2 DEF Registered
    <3>3. QED
      BY <1>3, <3>1, <3>2
  <2>4. sock'[c].state \in {"open", "closed"} /\ \A d \in Chans \ {c} : sock'[d] = sock[d]
    <3>1. CASE Refused(c)
      BY <1>0, <2>1, <3>1, ClosedSocket DEF Refused
    <3>2. CASE Accepted(c)
      BY <1>0, <2>1, <3>2 DEF Accepted, Sockets
    <3>3. QED
      BY <1>3, <3>1, <3>2
  <2>5. told[c] = <<>> /\ revents[c] = "none"
    BY <2>1, <2>2 DEF Round
  <2>6. Waiting'
    BY <1>1, <1>3, <2>2, <2>3 DEF Round, Waiting
  <2>7. \A d \in Conns :
       /\ d \notin Range(el'.channels) \cup el'.freed => told'[d] = <<>> /\ got'[d] = <<>>
       /\ told'[d] # <<>> => d \notin el'.active
       /\ sock'[d].state \in {"none", "backlog"} => sock'[d].err = "none"
       /\ revents'[d] \in {"POLLERR", "POLLNVAL"} /\ sock'[d].state # "closed"
          => sock'[d].err \notin {"none", "notsock"}
       /\ revents'[d] # "none" => d \in Range(el'.channels)
    BY <1>0, <1>1, <2>2, <2>3, <2>4, <2>5 DEF Round
  <2>8. QED
    BY <1>1, <1>3, <2>2, <2>6, <2>7 DEF Round
<1>4. QED
  BY <1>2, <1>3 DEF Accept, Accepted, Refused

\* What the loop around the channels, and the signal, do to the connections.
Circles ==
  /\ UNCHANGED <<told, got, sent, sentAt, clock>>
  /\ el'.now = el.now \/ el'.now = clock
  /\ el'.active \subseteq el.active /\ el.active \subseteq el'.active \cup el'.removable
  /\ el'.last_activity = el.last_activity
  /\ el.removable \subseteq el'.removable /\ el.freed \subseteq el'.freed
  /\ Range(el'.channels) \cup el'.freed = Range(el.channels) \cup el.freed
  /\ \A c \in Conns :
       \/ sock'[c].state = "closed"
       \/ /\ sock'[c].net = sock[c].net /\ sock'[c].err = sock[c].err
          /\ \/ sock'[c].state = sock[c].state
             \/ sock[c].state = "open" /\ sock'[c].state = "shut"

LEMMA OuterCircles ==
  ASSUME Types, Lists, Outer
  PROVE  Circles
<1>0. el \in Loops /\ clock \in Nat /\ sock \in [Chans -> Sockets] /\ Conns \subseteq Chans
  BY DEF Types, Chans
<1>1. UNCHANGED <<told, got, sent, sentAt, clock>>
  BY DEF Outer, LoopExits, LoopTurns, PollCalled, PollReturns, NoEvents, TimerFires,
     TimerNotDue, Sweep, Terminate, Quiet, history
<1>2. CASE LoopExits \/ PollCalled \/ TimerNotDue
  BY <1>1, <1>2 DEF LoopExits, PollCalled, TimerNotDue, Circles
<1>3. CASE LoopTurns
  <2>1. CASE el' = el
    BY <1>1, <1>3, <2>1 DEF LoopTurns, Circles
  <2>2. CASE el' = update_fds(el)
    <3>1. /\ el'.channels = el.channels /\ el'.freed = el.freed
          /\ el'.active = el.active /\ el'.removable = el.removable
          /\ el'.last_activity = el.last_activity /\ el'.now = el.now
      BY ONLY <1>0, <2>2, UpdateFields
    <3>2. QED
      BY <1>1, <1>3, <3>1 DEF LoopTurns, Circles
  <2>3. QED
    BY <1>3, <2>1, <2>2 DEF LoopTurns
<1>4. CASE PollReturns \/ NoEvents
  <2>1. el' = [el EXCEPT !.now = clock] /\ sock' = sock
    BY <1>4 DEF PollReturns, NoEvents
  <2>2. /\ el'.channels = el.channels /\ el'.freed = el.freed /\ el'.active = el.active
        /\ el'.removable = el.removable /\ el'.last_activity = el.last_activity
        /\ el'.now = clock
    BY ONLY <1>0, <2>1, NowSet
  <2>3. QED
    BY <1>1, <2>1, <2>2 DEF Circles
<1>5. CASE TimerFires
  <2>1. CASE UNCHANGED <<el, sock>>
    BY <1>1, <2>1 DEF Circles
  <2>2. CASE el' = eventloop_stop(el) /\ Shutdown(el')
    <3>1. /\ el'.channels = el.channels /\ el'.freed = el.freed
          /\ el'.active = el.active \ Released(el)
          /\ el'.removable = el.removable \cup Released(el)
          /\ el'.last_activity = el.last_activity /\ el'.now = el.now
      BY ONLY <1>0, <2>2, StopFields
    <3>2. \A c \in Conns :
            /\ sock'[c].net = sock[c].net /\ sock'[c].err = sock[c].err
            /\ \/ sock'[c].state = sock[c].state
               \/ sock[c].state = "open" /\ sock'[c].state = "shut"
      BY <1>0, <2>2 DEF Shutdown, Sockets
    <3>3. QED
      BY <1>1, <3>1, <3>2 DEF Circles
  <2>3. QED
    BY <1>5, <2>1, <2>2 DEF TimerFires
<1>6. CASE Sweep
  <2>1. PICK R : R = Range(el.fds) \cap el.removable
    OBVIOUS
  <2>2. R \subseteq Chans /\ el' = Removed(el, R) /\ sock' = sock
    BY <1>0, <1>6, <2>1 DEF Sweep, Loops
  <2>3. /\ Range(el'.channels) = Range(el.channels) \ R
        /\ el'.active = el.active \ R /\ el'.freed = el.freed \cup R
        /\ el'.removable = el.removable /\ el'.last_activity = el.last_activity
        /\ el'.now = el.now
    BY ONLY <1>0, <2>2, RemoveFields
  <2>4. R \subseteq Range(el.channels)
    BY <1>6, <2>1 DEF Sweep, Lists, InRound
  <2>5. QED
    BY <1>1, <2>1, <2>2, <2>3, <2>4 DEF Circles
<1>7. CASE Terminate
  <2>1. PICK m : m = eventloop_terminate(el)
    OBVIOUS
  <2>2. /\ m \in Loops /\ m.now = el.now
        /\ m.channels = el.channels /\ m.freed = el.freed
        /\ m.active = el.active \ Range(el.channels)
        /\ m.removable = el.removable \cup Range(el.channels)
        /\ m.last_activity = el.last_activity
    BY ONLY <1>0, <2>1, TerminateFields
  <2>3. PICK n : n = IF pc = "polling" THEN clock ELSE el.now
    OBVIOUS
  <2>4. n \in Nat /\ m \in Loops /\ el' = [m EXCEPT !.now = n]
    BY <1>0, <1>7, <2>1, <2>2, <2>3 DEF Terminate, Loops
  <2>5. /\ el'.channels = m.channels /\ el'.freed = m.freed /\ el'.active = m.active
        /\ el'.removable = m.removable /\ el'.last_activity = m.last_activity
        /\ el'.now = n
    BY ONLY <2>4, NowSet
  <2>6. \A c \in Conns : sock'[c] = sock[c] \/ sock'[c].state = "closed"
    <3>1. TAKE c \in Conns
    <3>2. c \in Chans /\ socket_close(sock, c)[c].state = "closed"
      BY <1>0, ClosedSocket
    <3>3. QED
      BY <1>7, <3>2 DEF Terminate
  <2>7. QED
    BY <1>1, <2>2, <2>3, <2>5, <2>6 DEF Circles
<1>8. QED
  BY <1>2, <1>3, <1>4, <1>5, <1>6, <1>7 DEF Outer

\* Where these steps lead: into a round, out of it, or on in a round that
\* eventloop_terminate() has cut short.
LEMMA OuterPlaces ==
  ASSUME Types, Lists, Outer
  PROVE  \/ PollReturns
         \/ ~InRound'
         \/ /\ Terminate /\ InRound /\ UNCHANGED <<pc, ch, i, len, revents>>
            /\ Range(el'.fds) = {} /\ el'.channels = el.channels
            /\ Range(el.channels) \subseteq el'.removable
<1>1. CASE ~Terminate /\ ~PollReturns
  <2>1. pc' \in {"done", "top", "poll", "polling", "timers"}
    BY <1>1 DEF Outer, LoopExits, LoopTurns, PollCalled, NoEvents, TimerFires,
       TimerNotDue, Sweep, AfterEvents
  <2>2. QED
    BY <2>1 DEF InRound, Serving
<1>2. CASE Terminate
  <2>1. PICK m : m = eventloop_terminate(el)
    OBVIOUS
  <2>2. el \in Loops /\ clock \in Nat
    BY DEF Types
  <2>3. /\ m \in Loops /\ m.now = el.now /\ m.channels = el.channels
        /\ m.removable = el.removable \cup Range(el.channels) /\ Range(m.fds) = {}
    BY ONLY <2>1, <2>2, TerminateFields
  <2>4. PICK n : n = IF pc = "polling" THEN clock ELSE el.now
    OBVIOUS
  <2>5. n \in Nat /\ m \in Loops /\ el' = [m EXCEPT !.now = n]
    BY <1>2, <2>1, <2>2, <2>3, <2>4 DEF Terminate, Loops
  <2>6. el'.channels = m.channels /\ el'.fds = m.fds /\ el'.removable = m.removable
    BY ONLY <2>5, NowSet
  <2>7. ~InRound' \/ (InRound /\ pc' = pc)
    BY <1>2 DEF Terminate, AfterEvents, InRound, Serving
  <2>8. QED
    BY <1>2, <2>3, <2>6, <2>7 DEF Terminate
<1>3. QED
  BY <1>1, <1>2

LEMMA NothingListed ==
  ASSUME NEW s \in Seq(Chans), Range(s) = {}
  PROVE  Len(s) = 0
<1>1. Len(s) \in Nat /\ DOMAIN s = 1 .. Len(s)
  BY LenProperties
<1>2. 1 \notin DOMAIN s
  BY DEF Range
<1>3. QED
  BY <1>1, <1>2

LEMMA RoundOuter ==
  ASSUME Types, Lists, Round, Outer
  PROVE  Round'
<1>1. Circles /\ Types' /\ Lists'
  BY OuterCircles, ListsLoop DEF Outer
<1>2. \A d \in Conns :
       /\ d \notin Range(el'.channels) \cup el'.freed => told'[d] = <<>> /\ got'[d] = <<>>
       /\ told'[d] # <<>> => d \notin el'.active
       /\ sock'[d].state \in {"none", "backlog"} => sock'[d].err = "none"
  BY <1>1 DEF Circles, Round
<1>3. CASE ~InRound'
  BY <1>2, <1>3 DEF Round, InRound, Serving
<1>4. CASE PollReturns
  <2>1. pc' = "chan" /\ pc = "polling" /\ el'.fds = el.fds /\ sock' = sock
        /\ Range(el'.channels) = Range(el.channels)
    <3>1. el \in Loops /\ clock \in Nat /\ el' = [el EXCEPT !.now = clock]
      BY <1>4 DEF PollReturns, Types
    <3>2. el'.fds = el.fds /\ el'.channels = el.channels
      BY ONLY <3>1, NowSet
    <3>3. QED
      BY <1>4, <3>2 DEF PollReturns
  <2>2. Range(el.fds) = el.active /\ el.active \subseteq Range(el.channels)
    BY <2>1 DEF Lists
  <2>3. \A d \in Conns :
          /\ revents'[d] \in {"POLLERR", "POLLNVAL"} => sock[d].err \notin {"none", "notsock"}
          /\ revents'[d] # "none" => d \in Range(el'.channels)
    <3>1. TAKE d \in Conns
    <3>2. d \in Chans /\ d # L
      BY EventLoopAssumption DEF Chans
    <3>3. CASE d \notin Range(el.fds)
      BY <1>4, <3>2, <3>3 DEF PollReturns
    <3>4. CASE d \in Range(el.fds)
      <4>1. revents'[d] \in Events(d)
        BY <1>4, <3>2, <3>4 DEF PollReturns
      <4>2. revents'[d] \in {"POLLERR", "POLLNVAL"} => sock[d].err \notin {"none", "notsock"}
        BY <3>2, <4>1 DEF Events
      <4>3. QED
        BY <2>1, <2>2, <3>4, <4>2
    <3>5. QED
      BY <3>3, <3>4
  <2>4. Waiting'
    <3>1. SUFFICES ASSUME NEW k \in i' .. Len(el.fds), el.fds[k] # L
                   PROVE  told[el.fds[k]] = <<>>
      BY <1>1, <2>1 DEF Waiting, Circles
    <3>2. i' = 1 /\ el.fds \in Seq(Chans)
      BY <1>4 DEF PollReturns, Types, Loops
    <3>3. k \in DOMAIN el.fds /\ el.fds[k] \in Chans
      BY <3>2, LenProperties, ElementOfSeq
    <3>4. el.fds[k] \in Conns /\ el.fds[k] \in el.active
      BY <2>2, <3>1, <3>3 DEF Range, Chans
    <3>5. QED
      BY <3>4 DEF Round
  <2>5. QED
    BY <1>2, <2>1, <2>3, <2>4 DEF Round
<1>5. CASE /\ Terminate /\ InRound /\ UNCHANGED <<pc, ch, i, len, revents>>
           /\ Range(el'.fds) = {} /\ el'.channels = el.channels
           /\ Range(el.channels) \subseteq el'.removable
  <2>1. Waiting'
    <3>1. el'.fds \in Seq(Chans) /\ i' \in Nat \ {0}
      BY <1>1 DEF Types, Loops
    <3>2. Len(el'.fds) = 0
      BY <1>5, <3>1, NothingListed
    <3>3. QED
      BY <3>1, <3>2 DEF Waiting
  <2>2. Serving => ch' \in el'.removable
    BY <1>5 DEF Lists
  <2>3. \A d \in Conns :
          /\ revents'[d] \in {"POLLERR", "POLLNVAL"} /\ sock'[d].state # "closed"
             => sock'[d].err \notin {"none", "notsock"}
          /\ revents'[d] # "none" => d \in Range(el'.channels)
    BY <1>1, <1>5 DEF Circles, Round
  <2>4. QED
    BY <1>2, <1>5, <2>1, <2>2, <2>3 DEF Round, Serving
<1>6. QED
  BY <1>3, <1>4, <1>5, OuterPlaces

LEMMA RoundDropped ==
  ASSUME Types, Lists, Round, NEW c \in Chans, InNotSocket(c)
  PROVE  Round'
<1>1. Dropped(c)
  BY NotSocketDrops
<1>2. ~InRound' /\ pc' = "undefined"
  BY <1>1 DEF Dropped, InRound, Serving
<1>3. \A d \in Conns :
        /\ d \notin Range(el'.channels) \cup el'.freed => told'[d] = <<>> /\ got'[d] = <<>>
        /\ told'[d] # <<>> => d \notin el'.active
        /\ sock'[d].state \in {"none", "backlog"} => sock'[d].err = "none"
  BY <1>1 DEF Dropped, Round
<1>4. QED
  BY <1>2, <1>3 DEF Round

LEMMA RoundNext ==
  ASSUME Owner = "server", Types, Lists, Round, [Next]_vars
  PROVE  Round'
<1>1. ASSUME UNCHANGED vars \/ Tick PROVE Round'
  BY <1>1 DEF vars, loopVars, history, Tick, Round, Waiting, InRound, Serving
<1>2. QED
  BY <1>1, KindsOfSteps, RoundPeers, RoundBegins, RoundContinues, RoundOuter, RoundAccept,
     RoundDropped

-----------------------------------------------------------------------------
(* The bytes of a connection.                                              *)

LEMMA BytesInit ==
  ASSUME Init
  PROVE  Bytes
<1>1. pc = "top" /\ sent = [c \in Conns |-> 0] /\ got = [c \in Conns |-> <<>>]
  BY DEF Init
<1>2. \A c \in Conns : sock[c].net = 0
  BY DEF Init, NewSocket, Chans
<1>3. QED
  BY <1>1, <1>2 DEF Bytes, Accounted, Hand

\* A step that moves no byte of c.
LEMMA AccountedStill ==
  ASSUME NEW c \in Conns, Accounted(c), got'[c] = got[c], sent'[c] = sent[c],
         el.removable \cup el.freed \subseteq el'.removable \cup el'.freed,
         \/ sock'[c].state = "closed"
         \/ /\ sock[c].state # "closed" /\ sock'[c].net = sock[c].net
            /\ sock[c].err = "none" \/ sock'[c].err = sock[c].err,
         Hand(c)' = Hand(c),
         InRound' /\ revents'[c] \in {"POLLIN", "POLLHUP"} => Unspoiled(c)
  PROVE  Accounted(c)'
<1>1. \A k \in 1 .. Len(got'[c]) : got'[c][k] = k
  BY DEF Accounted
<1>2. ASSUME c \notin el'.removable \cup el'.freed, sock'[c].state # "closed", Unspoiled(c)'
      PROVE  sent'[c] = Len(got'[c]) + sock'[c].net + Hand(c)'
  <2>1. Unspoiled(c)
    BY <1>2 DEF Unspoiled
  <2>2. QED
    BY <1>2, <2>1 DEF Accounted
<1>3. QED
  BY <1>1, <1>2 DEF Accounted

LEMMA StatusOnSocket ==
  ASSUME NEW l, NEW c, NEW st, do_status_callback(l, c, st)
  PROVE  sock' = sock \/ sock' = socket_close(sock, c)
BY DEF do_status_callback, status_cbk

\* Serving c moves no byte of other connections.
LEMMA OthersAccounted ==
  ASSUME Types, Bytes, NEW c \in Chans, NEW d \in Conns, d # c, Handled(c),
         revents' = revents, sent' = sent, ch' = c, pc = "chan" \/ ch = c, InRound
  PROVE  Accounted(d)'
<1>1. d \in Chans /\ told'[d] = told[d] /\ got'[d] = got[d] /\ sock'[d] = sock[d]
  BY DEF Handled, Chans
<1>2. Hand(d) = 0 /\ Hand(d)' = 0
  BY DEF Hand
<1>3. el.removable \cup el.freed \subseteq el'.removable \cup el'.freed
  BY DEF Handled, SameLists
<1>4. InRound' /\ revents'[d] \in {"POLLIN", "POLLHUP"} => Unspoiled(d)
  BY DEF Unspoiled
<1>5. Accounted(d)
  BY DEF Bytes
<1>6. QED
  <2>1. CASE sock[d].state = "closed"
    BY <1>1, <1>2, <1>3, <1>4, <1>5, <2>1, AccountedStill
  <2>2. CASE sock[d].state # "closed"
    BY <1>1, <1>2, <1>3, <1>4, <1>5, <2>2, AccountedStill
  <2>3. QED
    BY <2>1, <2>2

\* Nor of c, if its socket is left alone or closed.
LEMMA ServedAccounted ==
  ASSUME Types, Bytes, NEW c \in Conns, Handled(c), got' = got,
         sock' = sock \/ sock' = socket_close(sock, c), Hand(c) = 0, Hand(c)' = 0,
         revents' = revents, sent' = sent, InRound
  PROVE  Accounted(c)'
<1>1. sock \in [Chans -> Sockets] /\ c \in Chans
  BY DEF Types, Chans
<1>2. sock'[c] = sock[c] \/ sock'[c].state = "closed"
  BY <1>1, ClosedSocket
<1>3. el.removable \cup el.freed \subseteq el'.removable \cup el'.freed
  BY DEF Handled, SameLists
<1>4. InRound' /\ revents'[c] \in {"POLLIN", "POLLHUP"} => Unspoiled(c)
  BY DEF Unspoiled
<1>5. Accounted(c)
  BY DEF Bytes
<1>6. QED
  <2>1. CASE sock'[c].state = "closed"
    BY <1>3, <1>4, <1>5, <2>1, AccountedStill
  <2>2. CASE sock'[c].state # "closed" /\ sock'[c] = sock[c]
    BY <1>3, <1>4, <1>5, <2>2, AccountedStill
  <2>3. QED
    BY <1>2, <2>1, <2>2

\* Bytes in the kernel become bytes in hand.
LEMMA ReceivedAccounted ==
  ASSUME Types, Bytes, NEW c \in Conns, Handled(c), got' = got, sent' = sent,
         NEW n \in Nat, n <= sock[c].net, sock' = [sock EXCEPT ![c].net = @ - n],
         Hand(c) = 0, Hand(c)' = n, revents' = revents, InRound
  PROVE  Accounted(c)'
<1>1. c \in Chans /\ sent \in [Conns -> Nat] /\ got \in [Conns -> Seq(Int)]
      /\ sock \in [Chans -> Sockets]
  BY DEF Types, Chans
<1>2. sock'[c].net = sock[c].net - n /\ sock'[c].state = sock[c].state
      /\ sock'[c].err = sock[c].err /\ sock[c].net \in Nat
  BY <1>1, TakenBytes DEF Sockets
<1>3. Len(got[c]) \in Nat /\ sent[c] \in Nat
  BY <1>1, LenProperties
<1>4. el.removable \cup el.freed \subseteq el'.removable \cup el'.freed
  BY DEF Handled, SameLists
<1>5. Accounted(c)
  BY DEF Bytes
<1>6. Unspoiled(c)' => Unspoiled(c)
  BY <1>2 DEF Unspoiled
<1>7. ASSUME c \notin el'.removable \cup el'.freed, sock'[c].state # "closed", Unspoiled(c)'
      PROVE  sent'[c] = Len(got'[c]) + sock'[c].net + Hand(c)'
  <2>1. sent[c] = Len(got[c]) + sock[c].net + Hand(c)
    BY <1>2, <1>4, <1>5, <1>6, <1>7 DEF Accounted
  <2>2. QED
    BY <1>2, <1>3, <2>1
<1>8. QED
  BY <1>5, <1>7 DEF Accounted

LEMMA BytesBegins ==
  ASSUME Owner = "server", Types, Lists, Round, Bytes, NEW c \in Chans, Begins(c)
  PROVE  Bytes'
<1>1. Handled(c) /\ Types'
  BY BeginHandled DEF Begins
<1>2. /\ pc = "chan" /\ InRound /\ i' = i /\ ch' = c /\ c \in Range(el.channels)
      /\ pc' \in {"hup", "data", "tail", "monitor"}
  BY BeginAt DEF Begins
<1>3. revents' = revents /\ sent' = sent /\ got' = got
  BY DEF Begins, ErrBytes, ErrStatus, Hup, InRecv, InClosed, InFails, Silent, InListener, At,
     Quiet
<1>4. \A d \in Conns \ {c} : Accounted(d)'
  BY <1>1, <1>2, <1>3, OthersAccounted
<1>5. CASE c = L
  <2>1. pc' # "data" /\ L \notin Conns
    BY <1>1, <1>2, <1>5, EventLoopAssumption DEF Types
  <2>2. QED
    BY <1>2, <1>4, <1>5, <2>1 DEF Bytes
<1>6. CASE c # L
  <2>1. c \in Conns /\ Hand(c) = 0 /\ (pc' # "data" => Hand(c)' = 0)
    BY <1>2, <1>6 DEF Hand, Chans
  <2>2. CASE InRecv(c)
    <3>1. PICK n : n = IF sock[c].net > MaxRecv THEN MaxRecv ELSE sock[c].net
      OBVIOUS
    <3>2. sock[c] \in Sockets
      BY DEF Types
    <3>3. n \in Nat /\ n <= sock[c].net /\ n # 0 /\ len' = n
          /\ sock' = [sock EXCEPT ![c].net = @ - n] /\ pc' = "data"
      BY <2>2, <3>1, <3>2, EventLoopAssumption DEF InRecv, Sockets
    <3>4. Hand(c)' = n
      BY <1>2, <3>3 DEF Hand
    <3>5. Accounted(c)'
      BY <1>1, <1>2, <1>3, <2>1, <3>3, <3>4, ReceivedAccounted
    <3>6. QED
      BY <1>4, <3>3, <3>5 DEF Bytes
  <2>3. CASE ErrBytes(c)
    <3>1. pc' = "tail" /\ revents[c] = "POLLERR"
      BY <2>3 DEF ErrBytes, At
    <3>2. sock[c].state = "closed" \/ sock[c].err \notin {"none", "notsock"}
      BY <1>2, <2>1, <3>1 DEF Round
    <3>3. sock'[c].state = "closed" \/ sock'[c].err \notin {"none", "notsock"}
      BY <1>1, <3>2 DEF Handled
    <3>4. Accounted(c)
      BY <2>1 DEF Bytes
    <3>5. Accounted(c)'
      BY <1>3, <3>1, <3>3, <3>4 DEF Accounted, Unspoiled
    <3>6. QED
      BY <1>4, <3>1, <3>5 DEF Bytes
  <2>4. CASE ~InRecv(c) /\ ~ErrBytes(c)
    <3>1. pc' # "data"
      BY <2>4 DEF Begins, ErrStatus, Hup, InClosed, InFails, Silent, InListener
    <3>2. sock' = sock \/ sock' = socket_close(sock, c)
      <4>1. CASE ErrStatus(c) \/ InClosed(c)
        BY <4>1, StatusOnSocket DEF ErrStatus, InClosed
      <4>2. CASE Hup(c) \/ InFails(c) \/ Silent(c) \/ InListener
        BY <4>2 DEF Hup, InFails, Silent, InListener
      <4>3. QED
        BY <2>4, <4>1, <4>2 DEF Begins
    <3>3. Accounted(c)'
      BY <1>1, <1>2, <1>3, <2>1, <3>1, <3>2, ServedAccounted
    <3>4. QED
      BY <1>2, <1>4, <3>1, <3>3 DEF Bytes
  <2>5. QED
    BY <2>2, <2>3, <2>4
<1>7. QED
  BY <1>5, <1>6

\* The read callback gets the next bytes.
LEMMA ReadInOrder ==
  ASSUME Owner = "server", Types, Lists, Round, Bytes, DataRead, ch \notin el.removable
  PROVE  /\ ch \in Conns /\ ch \in Range(el.channels) \ el.freed /\ told[ch] = <<>>
         /\ sent[ch] = Len(got[ch]) + sock[ch].net + len
         /\ len \in Nat \ {0} /\ Len(got[ch]) \in Nat /\ sock[ch].net \in Nat
         /\ got'[ch] = [k \in 1 .. Len(got[ch]) + len |-> k]
         /\ got'[ch] \in Seq(Int) /\ Len(got'[ch]) = Len(got[ch]) + len
         /\ UNCHANGED <<el, sock>> \/ GivenUp(el, ch)
<1>1. pc \in {"data", "hupdata"}
  BY DEF DataRead
<1>2. /\ ch \in Conns /\ ch # L /\ ch \in Chans /\ sock[ch] \in Sockets /\ got[ch] \in Seq(Int)
      /\ sent[ch] \in Nat /\ len \in Nat /\ el \in Loops /\ got \in [Conns -> Seq(Int)]
  BY <1>1 DEF Types, Chans
<1>3. Serving /\ InRound /\ ch \in Range(el.channels) \ el.freed
  BY <1>1 DEF Serving, InRound, Lists
<1>4. sock[ch].state # "closed" /\ Unspoiled(ch) /\ told[ch] = <<>> /\ Accounted(ch) /\ len # 0
  BY <1>1, <1>2, <1>3 DEF Lists, Round, Bytes, Unspoiled
<1>5. sent[ch] = Len(got[ch]) + sock[ch].net + len
  BY <1>1, <1>3, <1>4 DEF Accounted, Hand
<1>6. Len(got[ch]) \in Nat /\ sock[ch].net \in Nat
  BY <1>2, LenProperties DEF Sockets
<1>7. ReadBy(ch, len)
  BY <1>2, ReadIsReadBy DEF DataRead
<1>8. /\ got' = [got EXCEPT ![ch] = @ \o [k \in 1 .. len |-> sent[ch] - sock[ch].net - len + k]]
      /\ UNCHANGED <<el, sock>> \/ GivenUp(el, ch)
  BY <1>7 DEF ReadBy
<1>9. PICK a : a = sent[ch] - sock[ch].net - len
  OBVIOUS
<1>10. a = Len(got[ch])
  BY <1>2, <1>5, <1>6, <1>9
<1>11. PICK s : s = [k \in 1 .. len |-> a + k]
  OBVIOUS
<1>12. s \in Seq(Int) /\ Len(s) = len /\ \A k \in 1 .. len : s[k] = a + k
  BY <1>2, <1>6, <1>10, <1>11, NumbersAreSeq
<1>13. got'[ch] = got[ch] \o s
  BY <1>2, <1>8, <1>9, <1>11
<1>14. PICK g : g = got[ch] \o s
  OBVIOUS
<1>15. /\ g \in Seq(Int) /\ Len(g) = Len(got[ch]) + len
       /\ \A k \in 1 .. Len(got[ch]) + len :
            g[k] = IF k <= Len(got[ch]) THEN got[ch][k] ELSE s[k - Len(got[ch])]
  BY <1>2, <1>12, <1>14, ConcatProperties
<1>16. \A k \in 1 .. Len(got[ch]) + len : g[k] = k
  <2>1. TAKE k \in 1 .. Len(got[ch]) + len
  <2>2. CASE k <= Len(got[ch])
    <3>1. k \in 1 .. Len(got[ch])
      BY <1>6, <2>2
    <3>2. QED
      BY <1>4, <1>15, <2>2, <3>1 DEF Accounted
  <2>3. CASE ~(k <= Len(got[ch]))
    <3>1. k - Len(got[ch]) \in 1 .. len /\ a + (k - Len(got[ch])) = k
      BY <1>2, <1>6, <1>10, <2>3
    <3>2. QED
      BY <1>12, <1>15, <2>3, <3>1
  <2>4. QED
    BY <2>2, <2>3
<1>17. g = [k \in 1 .. Len(got[ch]) + len |-> k]
  <2>1. DOMAIN g = 1 .. Len(g)
    BY <1>15, LenProperties
  <2>2. g = [k \in DOMAIN g |-> g[k]]
    BY <1>15
  <2>3. QED
    BY <1>15, <1>16, <2>1, <2>2
<1>18. QED
  BY <1>2, <1>3, <1>4, <1>5, <1>6, <1>8, <1>13, <1>14, <1>15, <1>17

LEMMA BytesContinues ==
  ASSUME Owner = "server", Types, Lists, Round, Bytes, Continues
  PROVE  Bytes'
<1>1. Handled(ch) /\ Types'
  BY ContinueHandled DEF Continues
<1>2. /\ pc \in {"hup", "hupdata", "data", "tail", "idle"} /\ ch' = ch /\ revents' = revents
      /\ pc' \in {"hup", "hupdata", "tail", "idle", "chan"} /\ sent' = sent
  BY DEF Continues, HupRecv, HupClosed, DataRead, Invalid, Reap, Quiet
<1>3. Serving /\ InRound /\ ch \in Range(el.channels) /\ ch \in Chans
  BY <1>2 DEF Serving, InRound, Lists, Types
<1>4. \A d \in Conns \ {ch} : Accounted(d)'
  BY <1>1, <1>2, <1>3, OthersAccounted
<1>5. CASE HupRecv
  <2>1. ch \in Conns /\ sock[ch] \in Sockets /\ pc = "hup"
    BY <1>3, <1>5 DEF HupRecv, Types, Chans
  <2>2. PICK n : n = IF sock[ch].net > MaxRecv THEN MaxRecv ELSE sock[ch].net
    OBVIOUS
  <2>3. n \in Nat /\ n <= sock[ch].net /\ n # 0 /\ len' = n
        /\ sock' = [sock EXCEPT ![ch].net = @ - n] /\ pc' = "hupdata" /\ got' = got
    BY <1>5, <2>1, <2>2, EventLoopAssumption DEF HupRecv, Sockets
  <2>4. Hand(ch) = 0 /\ Hand(ch)' = n
    BY <1>2, <2>1, <2>3 DEF Hand
  <2>5. PICK c : c = ch
    OBVIOUS
  <2>6. Hand(c)' = n
    BY <1>2, <2>3, <2>5 DEF Hand
  <2>7. Accounted(c)'
    BY <1>1, <1>2, <1>3, <2>1, <2>3, <2>4, <2>5, <2>6, ReceivedAccounted
  <2>8. QED
    BY <1>4, <2>3, <2>5, <2>7 DEF Bytes
<1>6. CASE DataRead
  <2>1. ch \in Conns /\ pc' \in {"tail", "hup"}
    BY <1>3, <1>6 DEF DataRead, Types, Chans
  <2>2. PICK c : c = ch
    OBVIOUS
  <2>3. Hand(c)' = 0
    BY <2>1 DEF Hand
  <2>4. Accounted(c)
    BY <2>1, <2>2 DEF Bytes
  <2>5. CASE ch \in el.removable
    <3>1. c \in el'.removable /\ got' = got
      BY <1>1, <1>6, <2>2, <2>5 DEF Handled, DataRead, do_read_callback
    <3>2. Accounted(c)'
      BY <2>4, <3>1 DEF Accounted
    <3>3. QED
      BY <1>4, <2>1, <2>2, <3>2 DEF Bytes
  <2>6. CASE ch \notin el.removable
    <3>1. /\ sent[ch] = Len(got[ch]) + sock[ch].net + len
          /\ len \in Nat \ {0} /\ Len(got[ch]) \in Nat /\ sock[ch].net \in Nat
          /\ got'[ch] = [k \in 1 .. Len(got[ch]) + len |-> k]
          /\ Len(got'[ch]) = Len(got[ch]) + len
          /\ UNCHANGED <<el, sock>> \/ GivenUp(el, ch)
      BY <1>6, <2>6, ReadInOrder
    <3>2. \A k \in 1 .. Len(got'[c]) : got'[c][k] = k
      BY <2>2, <3>1
    <3>3. CASE UNCHANGED <<el, sock>>
      <4>1. sent'[c] = Len(got'[c]) + sock'[c].net + Hand(c)'
        BY <1>2, <2>2, <2>3, <3>1, <3>3
      <4>2. Accounted(c)'
        BY <3>2, <4>1 DEF Accounted
      <4>3. QED
        BY <1>4, <2>1, <2>2, <4>2 DEF Bytes
    <3>4. CASE GivenUp(el, ch)
      <4>1. c \in el'.removable
        BY <2>2, <3>4 DEF GivenUp
      <4>2. Accounted(c)'
        BY <3>2, <4>1 DEF Accounted
      <4>3. QED
        BY <1>4, <2>1, <2>2, <4>2 DEF Bytes
    <3>5. QED
      BY <3>1, <3>3, <3>4
  <2>7. QED
    BY <2>5, <2>6
<1>7. CASE HupClosed \/ Invalid \/ Reap
  <2>1. got' = got /\ pc \in {"hup", "tail", "idle"} /\ pc' \in {"tail", "idle", "chan"}
    BY <1>7 DEF HupClosed, Invalid, Reap
  <2>2. sock' = sock \/ sock' = socket_close(sock, ch)
    BY <1>7, StatusOnSocket DEF HupClosed, Invalid, Reap
  <2>3. PICK c : c = ch
    OBVIOUS
  <2>4. Hand(c) = 0 /\ Hand(c)' = 0
    BY <2>1 DEF Hand
  <2>5. c \in Conns => Accounted(c)'
    BY <1>1, <1>2, <1>3, <2>1, <2>2, <2>3, <2>4, ServedAccounted
  <2>6. QED
    BY <1>4, <2>1, <2>3, <2>5 DEF Bytes
<1>8. QED
  BY <1>5, <1>6, <1>7 DEF Continues

LEMMA BytesPeers ==
  ASSUME Types, Lists, Bytes, NEW c \in Conns, Peers(c)
  PROVE  Bytes'
<1>1. UNCHANGED <<el, pc, i, ch, len, revents, told, got>>
  BY DEF Peers, PeerConnects, PeerSends, PeerCloses, SocketBreaks, loopVars, history
<1>2. c \in Chans /\ sock \in [Chans -> Sockets] /\ Conns \subseteq Chans
      /\ sent \in [Conns -> Nat]
  BY DEF Types, Chans
<1>3. ASSUME NEW d \in Conns,
             sock'[d].net = sock[d].net, sock'[d].state # "closed" => sock[d].state # "closed",
             sock[d].err = "none" \/ sock'[d].err = sock[d].err, sent'[d] = sent[d]
      PROVE  Accounted(d)'
  <2>1. Hand(d)' = Hand(d)
    BY <1>1 DEF Hand
  <2>2. InRound' /\ revents'[d] \in {"POLLIN", "POLLHUP"} => Unspoiled(d)
    BY <1>1 DEF Unspoiled, InRound, Serving
  <2>3. Accounted(d)
    BY DEF Bytes
  <2>4. CASE sock'[d].state = "closed"
    BY <1>1, <1>3, <2>1, <2>2, <2>3, <2>4, AccountedStill
  <2>5. CASE sock'[d].state # "closed"
    BY <1>1, <1>3, <2>1, <2>2, <2>3, <2>5, AccountedStill
  <2>6. QED
    BY <2>4, <2>5
<1>4. \A d \in Conns \ {c} : sock'[d] = sock[d] /\ sent'[d] = sent[d]
  BY <1>2 DEF Peers, PeerConnects, PeerSends, PeerCloses, SocketBreaks, history
<1>5. Accounted(c)'
  <2>1. CASE PeerSends(c)
    <3>1. sock'[c].net = sock[c].net + 1 /\ sock'[c].err = sock[c].err
          /\ sock'[c].state = sock[c].state /\ sent'[c] = sent[c] + 1
      BY <1>2, <2>1 DEF PeerSends, Sockets
    <3>2. Hand(c)' = Hand(c) /\ Hand(c) \in Nat
      BY <1>1 DEF Hand, Types
    <3>3. Unspoiled(c)' => Unspoiled(c)
      BY <1>1, <3>1 DEF Unspoiled, InRound, Serving
    <3>4. Accounted(c) /\ sock[c].net \in Nat /\ sent[c] \in Nat /\ Len(got[c]) \in Nat
      BY <1>2, LenProperties DEF Bytes, Sockets, Types
    <3>5. ASSUME c \notin el'.removable \cup el'.freed, sock'[c].state # "closed", Unspoiled(c)'
          PROVE  sent'[c] = Len(got'[c]) + sock'[c].net + Hand(c)'
      <4>1. sent[c] = Len(got[c]) + sock[c].net + Hand(c)
        BY <1>1, <3>1, <3>3, <3>4, <3>5 DEF Accounted
      <4>2. QED
        BY <1>1, <3>1, <3>2, <3>4, <4>1, SMTT(30)
    <3>6. QED
      BY <1>1, <3>4, <3>5 DEF Accounted
  <2>2. CASE PeerConnects(c) \/ PeerCloses(c) \/ SocketBreaks(c)
    <3>1. /\ sock'[c].net = sock[c].net /\ sock[c].state # "closed"
          /\ (sock[c].err = "none" \/ sock'[c].err = sock[c].err) /\ sent'[c] = sent[c]
      BY <1>2, <2>2 DEF PeerConnects, PeerCloses, SocketBreaks, Sockets, history
    <3>2. QED
      BY <1>3, <3>1
  <2>3. QED
    BY <2>1, <2>2 DEF Peers
<1>6. \A d \in Conns : Accounted(d)'
  BY <1>3, <1>4, <1>5
<1>7. QED
  BY <1>1, <1>6 DEF Bytes

LEMMA BytesAccept ==
  ASSUME Types, Lists, Round, Bytes, Accept
  PROVE  Bytes'
<1>0. el \in Loops /\ sock \in [Chans -> Sockets] /\ Conns \subseteq Chans
  BY DEF Types, Chans
<1>1. pc = "monitor" /\ ch' = ch /\ revents' = revents /\ got' = got /\ sent' = sent
      /\ pc' \in {"crashed", "tail"} /\ InRound
  BY DEF Accept, InRound, Serving, Quiet
<1>2. el.removable \cup el.freed \subseteq el'.removable \cup el'.freed
      /\ \A d \in Conns : \/ sock'[d].state = "closed"
                          \/ /\ sock[d].state # "closed" /\ sock'[d].net = sock[d].net
                             /\ sock'[d].err = sock[d].err
  <2>1. CASE UNCHANGED <<el, sock>>
    BY <2>1
  <2>2. ASSUME NEW c \in Conns, sock[c].state = "backlog", Accepted(c)
        PROVE  <1>2!1 /\ <1>2!2
    <3>1. el \in Loops /\ c \in Chans /\ c \notin el.active
          /\ el' = eventloop_on_read_in_channel(el, c)
      BY <1>0, <2>2 DEF Accepted, Lists
    <3>2. Registered(el, c, el')
      BY ONLY <3>1, RegisterFields
    <3>3. el'.removable = el.removable /\ el'.freed = el.freed
      BY <3>2 DEF Registered
    <3>4. \A d \in Conns : sock'[d].net = sock[d].net /\ sock'[d].err = sock[d].err
                           /\ (d # c => sock'[d] = sock[d])
      BY <1>0, <2>2 DEF Accepted, Sockets
    <3>5. QED
      BY <2>2, <3>3, <3>4
  <2>3. ASSUME NEW c \in Conns, Refused(c)
        PROVE  <1>2!1 /\ <1>2!2
    <3>1. sock'[c].state = "closed" /\ \A d \in Chans \ {c} : sock'[d] = sock[d]
      BY <1>0, <2>3, ClosedSocket DEF Refused
    <3>2. QED
      BY <1>0, <2>3, <3>1 DEF Refused
  <2>4. QED
    BY <2>1, <2>2, <2>3 DEF Accept, Accepted, Refused
<1>3. ASSUME NEW d \in Conns PROVE Accounted(d)'
  <2>1. Hand(d) = 0 /\ Hand(d)' = 0
    BY <1>1 DEF Hand
  <2>2. InRound' /\ revents'[d] \in {"POLLIN", "POLLHUP"} => Unspoiled(d)
    BY <1>1 DEF Unspoiled
  <2>3. Accounted(d)
    BY DEF Bytes
  <2>4. QED
    BY <1>1, <1>2, <2>1, <2>2, <2>3, AccountedStill
<1>4. QED
  BY <1>1, <1>3 DEF Bytes

LEMMA BytesOuter ==
  ASSUME Types, Lists, Round, Bytes, Outer
  PROVE  Bytes'
<1>1. Circles
  BY OuterCircles
<1>2. \/ PollReturns
      \/ ~InRound'
      \/ Terminate /\ InRound /\ UNCHANGED <<pc, ch, i, len, revents>>
  BY OuterPlaces
<1>3. pc' \in {"data", "hupdata"} => UNCHANGED <<pc, ch, len>>
  BY <1>2 DEF PollReturns, InRound, Serving
<1>4. pc \in {"data", "hupdata"} => UNCHANGED <<pc, ch, len>>
  BY DEF Outer, LoopExits, LoopTurns, PollCalled, PollReturns, NoEvents, TimerFires,
     TimerNotDue, Sweep, Terminate
<1>5. ASSUME NEW d \in Conns PROVE Accounted(d)'
  <2>1. Hand(d)' = Hand(d)
    BY <1>3, <1>4 DEF Hand
  <2>2. InRound' /\ revents'[d] \in {"POLLIN", "POLLHUP"} => Unspoiled(d)
    <3>1. CASE PollReturns
      <4>1. d \in Chans /\ d # L
        BY EventLoopAssumption DEF Chans
      <4>2. revents'[d] # "none" => revents'[d] \in Events(d)
        BY <3>1, <4>1 DEF PollReturns
      <4>3. revents'[d] \in {"POLLIN", "POLLHUP"} => sock[d].err \in {"none", "notsock"}
        BY <4>1, <4>2 DEF Events
      <4>4. QED
        BY <4>3 DEF Unspoiled
    <3>2. CASE InRound /\ revents' = revents
      BY <3>2 DEF Unspoiled
    <3>3. QED
      BY <1>2, <3>1, <3>2
  <2>3. Accounted(d) /\ got'[d] = got[d] /\ sent'[d] = sent[d]
        /\ el.removable \cup el.freed \subseteq el'.removable \cup el'.freed
    BY <1>1 DEF Bytes, Circles
  <2>4. \/ sock'[d].state = "closed"
        \/ /\ sock[d].state # "closed" /\ sock'[d].net = sock[d].net
           /\ sock'[d].err = sock[d].err
    BY <1>1 DEF Circles
  <2>5. QED
    BY <2>1, <2>2, <2>3, <2>4, AccountedStill
<1>6. QED
  BY <1>3, <1>5 DEF Bytes

LEMMA BytesDropped ==
  ASSUME Types, Lists, Round, Bytes, NEW c \in Chans, InNotSocket(c)
  PROVE  Bytes'
<1>1. Dropped(c)
  BY NotSocketDrops
<1>2. ~InRound' /\ pc' = "undefined" /\ pc = "chan"
  BY <1>1 DEF Dropped, InRound, Serving
<1>3. ASSUME NEW d \in Conns PROVE Accounted(d)'
  <2>1. Hand(d)' = Hand(d) /\ (Unspoiled(d)' => Unspoiled(d))
    BY <1>1, <1>2 DEF Dropped, Hand, Unspoiled
  <2>2. QED
    BY <1>1, <2>1 DEF Bytes, Accounted, Dropped
<1>4. QED
  BY <1>2, <1>3 DEF Bytes

LEMMA BytesNext ==
  ASSUME Owner = "server", Types, Lists, Round, Bytes, [Next]_vars
  PROVE  Bytes'
<1>1. ASSUME UNCHANGED vars \/ Tick PROVE Bytes'
  BY <1>1 DEF vars, loopVars, history, Tick, Bytes, Accounted, Hand, Unspoiled, InRound, Serving
<1>2. QED
  BY <1>1, KindsOfSteps, BytesPeers, BytesBegins, BytesContinues, BytesOuter, BytesAccept,
     BytesDropped

-----------------------------------------------------------------------------
(* Every connection behaves as Connection says.                            *)

Keeping(c) == Promise(c)!Next \/ UNCHANGED Promise(c)!vars

\* A step that a connection does not notice.
LEMMA Unnoticed ==
  ASSUME NEW c \in Conns, told'[c] = told[c], got'[c] = got[c], sent'[c] = sent[c],
         c \in el'.removable \cup el'.freed <=> c \in el.removable \cup el.freed,
         c \in Range(el'.channels) <=> c \in Range(el.channels)
  PROVE  Keeping(c)
<1>1. State(c)' = State(c)
  BY DEF State
<1>2. QED
  BY <1>1 DEF Keeping, Promise!vars

\* Released without a callback.
LEMMA ReleasedQuietly ==
  ASSUME NEW c \in Conns, told'[c] = told[c], got'[c] = got[c], sent'[c] = sent[c],
         c \in Range(el.channels), c \in el'.removable \cup el'.freed
  PROVE  Keeping(c)
<1>1. State(c)' = "released"
  BY DEF State
<1>2. CASE State(c) = "released"
  BY <1>1, <1>2 DEF Keeping, Promise!vars
<1>3. CASE State(c) # "released"
  <2>1. State(c) \in {"open", "failed"}
    BY <1>3 DEF State
  <2>2. QED
    BY <1>1, <2>1 DEF Keeping, Promise!Next, Promise!Release
<1>4. QED
  BY <1>2, <1>3

\* A status callback.
LEMMA StatusKept ==
  ASSUME Types, Lists, NEW l, NEW c \in Conns, NEW st \in Statuses, Told(l, c, st), Handled(c),
         got' = got, sent' = sent, l.removable = el.removable, SameLists(el, l),
         c \in Range(el.channels), st # "SOCKET_IDLE" /\ c \notin el.removable => told[c] = <<>>,
         st = "SOCKET_CONN_CLOSED" /\ c \notin el.removable => sent[c] = Len(got[c])
  PROVE  Keeping(c)
<1>1. c \notin el.freed /\ told \in [Conns -> Seq(Statuses)]
      /\ el'.channels = el.channels /\ el'.freed = el.freed
  BY DEF Lists, Types, Handled, SameLists
<1>2. CASE c \in el.removable
  <2>1. told'[c] = told[c] /\ c \in el'.removable
    BY <1>2 DEF Handled, Told
  <2>2. QED
    BY <2>1, ReleasedQuietly
<1>3. CASE c \notin el.removable
  <2>1. told'[c] = Append(told[c], st)
    BY <1>1, <1>3 DEF Told
  <2>2. State(c) = IF told[c] # <<>> THEN "failed" ELSE "open"
    BY <1>1, <1>3 DEF State
  <2>3. CASE st \in {"SOCKET_CONN_CLOSED", "SOCKET_IDLE"}
    <3>1. c \in el'.removable
      BY <1>3, <2>3 DEF Told, GivenUp
    <3>2. State(c)' = "released"
      BY <3>1 DEF State
    <3>3. CASE st = "SOCKET_IDLE"
      BY <2>1, <2>2, <3>2, <3>3 DEF Keeping, Promise!Next, Promise!Idle
    <3>4. CASE st = "SOCKET_CONN_CLOSED"
      BY <1>3, <2>1, <2>2, <3>2, <3>4 DEF Keeping, Promise!Next, Promise!Closed
    <3>5. QED
      BY <2>3, <3>3, <3>4
  <2>4. CASE st \notin {"SOCKET_CONN_CLOSED", "SOCKET_IDLE"}
    <3>1. el' = l /\ c \notin el'.removable \cup el'.freed
      BY <1>1, <1>3, <2>4 DEF Told, SameLists
    <3>2. told'[c] # <<>>
      BY <1>1, <2>1, AppendProperties
    <3>3. State(c)' = "failed" /\ State(c) = "open"
      BY <1>1, <1>3, <2>2, <2>4, <3>1, <3>2 DEF State
    <3>4. st \in Promise(c)!Errors
      BY <2>4 DEF Promise!Errors, Statuses
    <3>5. QED
      BY <2>1, <3>3, <3>4 DEF Keeping, Promise!Next, Promise!Failed
  <2>5. QED
    BY <2>3, <2>4
<1>4. QED
  BY <1>2, <1>3

LEMMA OthersKept ==
  ASSUME NEW c \in Chans, NEW d \in Conns, d # c, Handled(c), sent' = sent
  PROVE  Keeping(d)
<1>1. told'[d] = told[d] /\ got'[d] = got[d] /\ el'.channels = el.channels
      /\ el'.freed = el.freed /\ (d \in el'.removable <=> d \in el.removable)
  BY DEF Handled, SameLists
<1>2. QED
  BY <1>1, Unnoticed

LEMMA KeptBegins ==
  ASSUME Owner = "server", Types, Lists, Round, Bytes, NEW c \in Chans, Begins(c),
         NEW d \in Conns
  PROVE  Keeping(d)
<1>1. Handled(c)
  BY BeginHandled DEF Begins
<1>2. /\ pc = "chan" /\ InRound /\ i \in 1 .. Len(el.fds) /\ c = el.fds[i]
      /\ c \in Range(el.channels)
  BY BeginAt DEF Begins
<1>3. sent' = sent /\ got' = got
  BY DEF Begins, ErrBytes, ErrStatus, Hup, InRecv, InClosed, InFails, Silent, InListener, At,
     Quiet
<1>4. CASE d # c
  BY <1>1, <1>3, <1>4, OthersKept
<1>5. CASE d = c
  <2>0. el \in Loops /\ c \in Conns /\ c # L /\ el'.channels = el.channels
        /\ el'.freed = el.freed
    BY <1>1, <1>5, EventLoopAssumption DEF Types, Handled, SameLists
  <2>1. told[c] = <<>>
    <3>1. i \in i .. Len(el.fds) /\ Waiting
      BY <1>2 DEF Round
    <3>2. QED
      BY <1>2, <2>0, <3>1 DEF Waiting
  <2>2. CASE ErrStatus(c)
    <3>1. PICK st : st = IF sock[c].err = "refused" THEN "SOCKET_CONN_REFUSED" ELSE "SOCKET_UNKNOWN"
      OBVIOUS
    <3>2. st \in Statuses /\ st \notin {"SOCKET_CONN_CLOSED", "SOCKET_IDLE"}
      BY <3>1 DEF Statuses
    <3>3. PICK l : l = eventloop_socket_activate(el, c, FALSE)
      OBVIOUS
    <3>4. do_status_callback(l, c, st)
      BY <2>2, <3>1, <3>3 DEF ErrStatus
    <3>5. Told(l, c, st)
      BY <1>3, <2>0, <3>2, <3>3, <3>4, ToldAfterDeactivation
    <3>6. SameLists(el, l) /\ l.removable = el.removable
      BY ONLY <2>0, <3>3, c \in Chans, DeactivateFields
    <3>7. QED
      BY <1>1, <1>2, <1>3, <1>5, <2>0, <2>1, <3>2, <3>5, <3>6, StatusKept
  <2>3. CASE InClosed(c)
    <3>1. PICK m : m = eventloop_socket_activate(el, c, FALSE)
      OBVIOUS
    <3>2. /\ m \in Loops /\ SameLists(el, m) /\ m.removable = el.removable
      BY ONLY <2>0, <3>1, c \in Chans, DeactivateFields
    <3>3. PICK l : l = Touched(m, c)
      OBVIOUS
    <3>4. l \in Loops /\ SameLists(m, l) /\ l.removable = m.removable
      BY ONLY <3>2, <3>3, c \in Chans, NotedNow
    <3>5. m.now = el.now
      BY <3>2 DEF SameLists
    <3>6. do_status_callback(l, c, "SOCKET_CONN_CLOSED")
      BY <2>3, <3>1, <3>3, <3>5 DEF InClosed, Touched
    <3>7. Told(l, c, "SOCKET_CONN_CLOSED")
      BY <2>0, <3>4, <3>6, StatusIsTold
    <3>8. SameLists(el, l) /\ l.removable = el.removable
      BY <3>2, <3>4 DEF SameLists
    <3>9. c \notin el.removable => sent[c] = Len(got[c])
      <4>1. HAVE c \notin el.removable
      <4>2. sock[c].net = 0 /\ sock[c].err = "none" /\ sock[c].state # "closed"
            /\ c \notin el.freed /\ Hand(c) = 0 /\ Len(got[c]) \in Nat
        BY <1>2, <2>0, <2>3, <4>1, LenProperties DEF InClosed, Lists, Hand, Types
      <4>3. sent[c] = Len(got[c]) + 0 + 0
        BY <2>0, <4>1, <4>2 DEF Bytes, Accounted, Unspoiled
      <4>4. QED
        BY <4>2, <4>3
    <3>10. QED
      BY <1>1, <1>2, <1>3, <1>5, <2>0, <2>1, <3>7, <3>8, <3>9, StatusKept DEF Statuses
  <2>4. CASE ErrBytes(c) \/ Hup(c) \/ InRecv(c) \/ InFails(c) \/ Silent(c)
    <3>1. told' = told
      BY <2>4 DEF ErrBytes, Hup, InRecv, InFails, Silent
    <3>2. CASE el'.removable = el.removable
      BY <1>3, <1>5, <2>0, <3>1, <3>2, Unnoticed
    <3>3. CASE c \in el'.removable
      BY <1>2, <1>3, <1>5, <3>1, <3>3, ReleasedQuietly
    <3>4. QED
      BY <1>1, <3>2, <3>3 DEF Handled
  <2>5. QED
    BY <2>0, <2>2, <2>3, <2>4 DEF Begins
<1>6. QED
  BY <1>4, <1>5

LEMMA KeptContinues ==
  ASSUME Owner = "server", Types, Lists, Round, Bytes, Continues, NEW d \in Conns
  PROVE  Keeping(d)
<1>1. Handled(ch)
  BY ContinueHandled DEF Continues
<1>2. pc \in {"hup", "hupdata", "data", "tail", "idle"} /\ sent' = sent
  BY DEF Continues, HupRecv, HupClosed, DataRead, Invalid, Reap, Quiet
<1>3. /\ Serving /\ InRound /\ ch \in Range(el.channels) /\ ch \in Chans /\ el \in Loops
      /\ ch \notin el.freed
  BY <1>2 DEF Serving, InRound, Lists, Types
<1>4. CASE d # ch
  BY <1>1, <1>2, <1>3, <1>4, OthersKept
<1>5. CASE d = ch
  <2>0. ch \in Conns /\ el'.channels = el.channels /\ el'.freed = el.freed /\ SameLists(el, el)
    BY <1>1, <1>5 DEF Handled, SameLists
  <2>1. CASE HupRecv
    BY <1>2, <1>5, <2>1, Unnoticed DEF HupRecv
  <2>2. CASE HupClosed
    <3>1. Told(el, ch, "SOCKET_CONN_CLOSED") /\ got' = got
      BY <1>3, <2>0, <2>2, StatusIsTold DEF HupClosed
    <3>2. ch \notin el.removable => told[ch] = <<>> /\ sent[ch] = Len(got[ch])
      <4>1. HAVE ch \notin el.removable
      <4>2. told[ch] = <<>> /\ sock[ch].net = 0 /\ sock[ch].state # "closed" /\ Hand(ch) = 0
            /\ Len(got[ch]) \in Nat /\ Unspoiled(ch)
        BY <1>3, <2>0, <2>2, <4>1, LenProperties DEF HupClosed, Lists, Round, Hand, Types, Unspoiled
      <4>3. sent[ch] = Len(got[ch]) + 0 + 0
        BY <1>3, <2>0, <4>1, <4>2 DEF Bytes, Accounted
      <4>4. QED
        BY <4>2, <4>3
    <3>3. QED
      BY <1>1, <1>2, <1>3, <1>5, <2>0, <3>1, <3>2, StatusKept DEF Statuses
  <2>3. CASE DataRead
    <3>1. told' = told
      BY <2>3 DEF DataRead
    <3>2. CASE ch \in el.removable
      <4>1. got' = got /\ el' = el
        BY <2>3, <3>2 DEF DataRead, do_read_callback
      <4>2. QED
        BY <1>2, <1>5, <3>1, <4>1, Unnoticed
    <3>3. CASE ch \notin el.removable
      <4>1. /\ told[ch] = <<>>
            /\ sent[ch] = Len(got[ch]) + sock[ch].net + len
            /\ len \in Nat \ {0} /\ Len(got[ch]) \in Nat /\ sock[ch].net \in Nat
            /\ got'[ch] = [k \in 1 .. Len(got[ch]) + len |-> k]
            /\ UNCHANGED <<el, sock>> \/ GivenUp(el, ch)
        BY <2>3, <3>3, ReadInOrder
      <4>2. PICK n : n = Len(got[ch]) + len
        OBVIOUS
      <4>3. n \in Len(got[d]) + 1 .. sent[d] /\ got'[d] = [k \in 1 .. n |-> k]
        BY <1>5, <4>1, <4>2
      <4>4. State(d) = "open"
        BY <1>3, <1>5, <3>3, <4>1 DEF State
      <4>5. State(d)' \in {"open", "released"}
        <5>1. d \in Range(el'.channels) /\ told'[d] = <<>>
          BY <1>3, <1>5, <2>0, <3>1, <4>1
        <5>2. QED
          BY <5>1 DEF State
      <4>6. sent'[d] = sent[d] /\ told'[d] = told[d]
        BY <1>2, <3>1
      <4>7. Promise(d)!Read
        BY <4>3, <4>4, <4>5, <4>6 DEF Promise!Read
      <4>8. QED
        BY <4>7 DEF Keeping, Promise!Next
    <3>4. QED
      BY <3>2, <3>3
  <2>4. CASE Invalid
    <3>1. CASE revents[ch] = "POLLNVAL"
      <4>1. PICK l : l = eventloop_socket_activate(el, ch, FALSE)
        OBVIOUS
      <4>2. do_status_callback(l, ch, "SOCKET_DROPPED") /\ got' = got /\ pc = "tail"
        BY <2>4, <3>1, <4>1 DEF Invalid
      <4>3. "SOCKET_DROPPED" \in Statuses
        BY DEF Statuses
      <4>4. Told(l, ch, "SOCKET_DROPPED")
        BY <2>0, <4>1, <4>2, <4>3, ToldAfterDeactivation
      <4>5. SameLists(el, l) /\ l.removable = el.removable
        BY ONLY <1>3, <4>1, DeactivateFields
      <4>6. ch \notin el.removable => told[ch] = <<>>
        BY <3>1, <4>2 DEF Round
      <4>7. QED
        BY <1>1, <1>2, <1>3, <1>5, <2>0, <4>2, <4>3, <4>4, <4>5, <4>6, StatusKept
    <3>2. CASE revents[ch] # "POLLNVAL"
      BY <1>2, <1>5, <2>4, <3>2, Unnoticed DEF Invalid
    <3>3. QED
      BY <3>1, <3>2
  <2>5. CASE Reap
    <3>1. CASE IsIdle(ch)
      <4>1. Told(el, ch, "SOCKET_IDLE") /\ got' = got
        BY <1>3, <2>0, <2>5, <3>1, StatusIsTold DEF Reap
      <4>2. QED
        BY <1>1, <1>2, <1>3, <1>5, <2>0, <4>1, StatusKept DEF Statuses
    <3>2. CASE ~IsIdle(ch)
      BY <1>2, <1>5, <2>5, <3>2, Unnoticed DEF Reap
    <3>3. QED
      BY <3>1, <3>2
  <2>6. QED
    BY <2>1, <2>2, <2>3, <2>4, <2>5 DEF Continues
<1>6. QED
  BY <1>4, <1>5

LEMMA KeptAccept ==
  ASSUME Types, Lists, Round, Accept, NEW d \in Conns
  PROVE  Keeping(d)
<1>1. told' = told /\ got' = got /\ sent' = sent
  BY DEF Accept, Quiet
<1>2. CASE el' = el
  BY <1>1, <1>2, Unnoticed
<1>3. ASSUME NEW c \in Conns, sock[c].state = "backlog", Accepted(c) PROVE Keeping(d)
  <2>1. el \in Loops /\ c \in Chans /\ c \notin el.active
        /\ el' = eventloop_on_read_in_channel(el, c)
    BY <1>3 DEF Accepted, Lists, Types, Chans
  <2>2. Registered(el, c, el')
    BY ONLY <2>1, RegisterFields
  <2>3. el'.removable = el.removable /\ el'.freed = el.freed
        /\ Range(el'.channels) = Range(el.channels) \cup {c}
    BY <2>2 DEF Registered
  <2>4. CASE d # c
    BY <1>1, <2>3, <2>4, Unnoticed
  <2>5. CASE d = c
    <3>1. d \notin Range(el.channels) \cup el.freed /\ d \notin el.removable
      BY <1>3, <2>5 DEF Lists
    <3>2. told[d] = <<>>
      BY <3>1 DEF Round
    <3>3. State(d) = "new" /\ State(d)' = "open"
      BY <1>1, <2>3, <2>5, <3>1, <3>2 DEF State
    <3>4. QED
      BY <1>1, <3>3 DEF Keeping, Promise!Next, Promise!Open
  <2>6. QED
    BY <2>4, <2>5
<1>4. QED
  BY <1>2, <1>3 DEF Accept, Accepted

LEMMA KeptOuter ==
  ASSUME Types, Lists, Outer, NEW d \in Conns
  PROVE  Keeping(d)
<1>1. Circles /\ Lists'
  BY OuterCircles, ListsLoop DEF Outer
<1>2. told' = told /\ got' = got /\ sent' = sent
  BY <1>1 DEF Circles
<1>3. CASE d \in el.removable \cup el.freed
  <2>1. d \in el'.removable \cup el'.freed
    BY <1>1, <1>3 DEF Circles
  <2>2. State(d) = "released" /\ State(d)' = "released"
    BY <1>3, <2>1 DEF State
  <2>3. QED
    BY <1>2, <2>2 DEF Keeping, Promise!vars
<1>4. CASE d \notin el.removable \cup el.freed /\ d \notin el'.removable \cup el'.freed
  BY <1>1, <1>2, <1>4, Unnoticed DEF Circles
<1>5. CASE d \notin el.removable \cup el.freed /\ d \in el'.removable \cup el'.freed
  <2>1. d \in Range(el.channels)
    BY <1>1, <1>5 DEF Circles, Lists
  <2>2. State(d)' = "released" /\ State(d) \in {"open", "failed"}
    BY <1>5, <2>1 DEF State
  <2>3. QED
    BY <1>2, <2>2 DEF Keeping, Promise!Next, Promise!Release
<1>6. QED
  BY <1>3, <1>4, <1>5

LEMMA KeptPeers ==
  ASSUME Types, NEW c \in Conns, Peers(c), NEW d \in Conns
  PROVE  Keeping(d)
<1>1. el' = el /\ told' = told /\ got' = got
  BY DEF Peers, PeerConnects, PeerSends, PeerCloses, SocketBreaks, loopVars, history
<1>2. CASE sent'[d] = sent[d]
  BY <1>1, <1>2, Unnoticed
<1>3. CASE sent'[d] # sent[d]
  <2>1. PeerSends(c)
    BY <1>3 DEF Peers, PeerConnects, PeerCloses, SocketBreaks, history
  <2>2. sent'[d] > sent[d]
    BY <1>3, <2>1 DEF PeerSends, Types
  <2>3. State(d)' = State(d)
    BY <1>1 DEF State
  <2>4. QED
    BY <1>1, <2>2, <2>3 DEF Keeping, Promise!Next, Promise!Send
<1>4. QED
  BY <1>2, <1>3

LEMMA KeptDropped ==
  ASSUME Types, Lists, NEW c \in Chans, InNotSocket(c), NEW d \in Conns
  PROVE  Keeping(d)
<1>1. Dropped(c)
  BY NotSocketDrops
<1>2. CASE d = c
  BY <1>1, <1>2, ReleasedQuietly DEF Dropped
<1>3. CASE d # c
  BY <1>1, <1>3, Unnoticed DEF Dropped
<1>4. QED
  BY <1>2, <1>3

LEMMA KeptNext ==
  ASSUME Owner = "server", Types, Lists, Round, Bytes, [Next]_vars, NEW d \in Conns
  PROVE  Keeping(d)
<1>1. ASSUME UNCHANGED vars \/ Tick PROVE Keeping(d)
  <2>1. UNCHANGED <<el, told, got, sent>>
    BY <1>1 DEF vars, loopVars, history, Tick
  <2>2. QED
    BY <2>1, Unnoticed
<1>2. QED
  BY <1>1, KindsOfSteps, KeptPeers, KeptBegins, KeptContinues, KeptOuter, KeptAccept,
     KeptDropped

LEMMA KeptInit ==
  ASSUME Init, NEW c \in Conns
  PROVE  Promise(c)!Init
<1>1. /\ el = [eventloop_init EXCEPT !.channels = <<L>>, !.active = {L}, !.fds_dirty = TRUE]
      /\ c # L
  BY TypesInit, EventLoopAssumption
<1>2. el.channels = <<L>> /\ el.removable = {} /\ el.freed = {}
  BY <1>1 DEF eventloop_init
<1>3. c \notin Range(el.channels)
  BY <1>1, <1>2 DEF Range
<1>4. State(c) = "new"
  BY <1>2, <1>3 DEF State
<1>5. sent[c] = 0 /\ got[c] = <<>> /\ told[c] = <<>>
  BY DEF Init
<1>6. QED
  BY <1>4, <1>5 DEF Promise!Init

\* The event loop with the callbacks of the server implements Connection for
\* every connection: the owner gets the bytes that the peer sent, in order and
\* once, SOCKET_CONN_CLOSED only after all of them, no data after an error, and
\* nothing after the release, for any interleaving of peers, faults, timers,
\* callbacks that release channels, and signals.
THEOREM LoopKeepsItsPromise ==
  ASSUME Owner = "server"
  PROVE  Spec => ConnectionsBehave
<1>1. Init => Types /\ Lists /\ Round /\ Bytes
  BY TypesInit, ListsInit, RoundInit, BytesInit
<1>2. Types /\ Lists /\ Round /\ Bytes /\ [Next]_vars => (Types /\ Lists /\ Round /\ Bytes)'
  BY ListsNext, RoundNext, BytesNext
<1>3. Init => \A c \in Conns : Promise(c)!Init
  BY KeptInit
<1>4. Types /\ Lists /\ Round /\ Bytes /\ [Next]_vars
      => [\A c \in Conns : Promise(c)!Next \/ UNCHANGED Promise(c)!vars]_vars
  BY KeptNext DEF Keeping
<1>5. QED
  BY <1>1, <1>2, <1>3, <1>4, PTL DEF Spec, ConnectionsBehave

-----------------------------------------------------------------------------
(* The activity of a connection.                                           *)

LEMMA ActivityInit ==
  ASSUME Init
  PROVE  Activity
<1>1. /\ el = [eventloop_init EXCEPT !.channels = <<L>>, !.active = {L}, !.fds_dirty = TRUE]
      /\ \A c \in Conns : c # L
  BY TypesInit, EventLoopAssumption
<1>2. el.channels = <<L>> /\ el.now = 1
  BY <1>1 DEF eventloop_init
<1>3. Range(el.channels) = {L}
  BY <1>2 DEF Range
<1>4. pc = "top" /\ clock = 1 /\ sentAt = [c \in Conns |-> 0]
  BY DEF Init
<1>5. ~InRound /\ \A c \in Conns : ~Live(c)
  BY <1>1, <1>3, <1>4 DEF InRound, Serving, Live
<1>6. QED
  BY <1>2, <1>4, <1>5 DEF Activity, Minded

\* A step that tells c nothing new.
LEMMA MindedStill ==
  ASSUME NEW c \in Conns, Minded(c), sentAt'[c] = sentAt[c], clock' = clock,
         Live(c)' => Live(c),
         Live(c)' /\ c \in el.active => c \in el'.active,
         Live(c)' => /\ sock'[c].net = sock[c].net
                     /\ el'.last_activity[c] = el.last_activity[c]
                     /\ (AtHup(c)' <=> AtHup(c))
                     /\ (InRound' => InRound /\ (Pending(c) => Pending(c)')),
         c \in sentLate => c \in sentLate'
  PROVE  Minded(c)'
<1>1. Live(c)' => (Noted(c)' <=> Noted(c))
  BY DEF Noted
<1>2. Live(c)' /\ c \notin el'.active => AtHup(c)'
  BY DEF Minded
<1>3. Live(c)' /\ sock'[c].net = 0 /\ ~AtHup(c)' => Noted(c)'
  BY <1>1 DEF Minded
<1>4. InRound' /\ Live(c)' /\ c \notin sentLate' /\ sock'[c].net # 0 /\ ~AtHup(c)'
      => Noted(c)' \/ Pending(c)'
  BY <1>1 DEF Minded
<1>5. sentAt'[c] <= clock'
  BY DEF Minded
<1>6. QED
  BY <1>2, <1>3, <1>4, <1>5 DEF Minded

\* A connection that is released, or closed, or broken needs no attention.
LEMMA MindedDead ==
  ASSUME NEW c \in Conns, Minded(c), sentAt'[c] = sentAt[c], clock' = clock, ~Live(c)'
  PROVE  Minded(c)'
BY DEF Minded

\* A connection that has just been read, or accepted.
LEMMA MindedNow ==
  ASSUME NEW c \in Conns, Minded(c), sentAt'[c] = sentAt[c], clock' = clock,
         el'.last_activity[c] = clock, c \in el'.active \/ ~Live(c)'
  PROVE  Minded(c)'
<1>1. Noted(c)'
  BY DEF Noted, Minded
<1>2. QED
  BY <1>1 DEF Minded

\* Serving c is nothing to the other connections, and brings the round nearer.
LEMMA OthersMinded ==
  ASSUME Types, Lists, Activity, NEW c \in Range(el.channels), NEW d \in Conns, d # c,
         Handled(c), revents' = revents, sentAt' = sentAt, sentLate' = sentLate, clock' = clock,
         ch' = c, pc = "chan" \/ ch = c, InRound,
         ~el.force_stop => i <= Len(el.fds) /\ c = el.fds[i],
         (i' = i /\ pc' # "chan") \/ (i' = i + 1 /\ pc' = "chan")
  PROVE  Minded(d)'
<1>1. /\ d \in Chans /\ sock'[d] = sock[d] /\ el'.channels = el.channels /\ el'.fds = el.fds
      /\ (d \in el'.active <=> d \in el.active) /\ (d \in el'.removable <=> d \in el.removable)
  BY DEF Handled, Chans, SameLists
<1>2. Live(d)' <=> Live(d)
  BY <1>1 DEF Live
<1>3. el'.last_activity[d] = el.last_activity[d]
  <2>1. el.last_activity \in [Chans -> Nat]
    BY DEF Types, Loops
  <2>2. QED
    BY <1>1, <2>1 DEF Handled
<1>4. ~AtHup(d) /\ ~AtHup(d)'
  BY DEF AtHup
<1>5. Live(d) /\ Pending(d) => Pending(d)'
  <2>1. HAVE Live(d) /\ Pending(d)
  <2>2. PICK k \in i .. Len(el.fds) : el.fds[k] = d
    BY <2>1 DEF Pending
  <2>3. ~el.force_stop
    BY <2>1 DEF Live, Lists
  <2>4. k # i /\ i \in Nat \ {0} /\ Len(el.fds) \in Nat
    <3>1. el.fds \in Seq(Chans) /\ i \in Nat \ {0}
      BY DEF Types, Loops
    <3>2. QED
      BY <2>2, <2>3, <3>1, LenProperties
  <2>5. k \in i' .. Len(el'.fds) /\ el'.fds[k] = d /\ (pc' = "chan" \/ k # i')
    BY <1>1, <2>2, <2>4
  <2>6. revents'[d] \in {"POLLIN", "POLLHUP"}
    BY <2>1 DEF Pending
  <2>7. QED
    BY <2>5, <2>6 DEF Pending
<1>6. Minded(d)
  BY DEF Activity
<1>7. QED
  BY <1>1, <1>2, <1>3, <1>4, <1>5, <1>6, MindedStill

LEMMA MindedAtHup ==
  ASSUME NEW c \in Conns, Minded(c), sentAt'[c] = sentAt[c], clock' = clock, AtHup(c)'
  PROVE  Minded(c)'
BY DEF Minded

\* A callback that says that the connection is over releases the channel.
LEMMA OverIsDead ==
  ASSUME Owner = "server", NEW l \in Loops, NEW c \in Conns,
         NEW st \in {"SOCKET_CONN_CLOSED", "SOCKET_IDLE"}, do_status_callback(l, c, st)
  PROVE  ~Live(c)'
<1>1. Told(l, c, st)
  BY StatusIsTold
<1>2. c \in el'.removable
  BY <1>1 DEF Told, GivenUp
<1>3. QED
  BY <1>2 DEF Live

\* So does an error that was reported.
LEMMA BrokenIsDead ==
  ASSUME Types, Lists, Round, NEW c \in Conns, c \in Range(el.channels), Handled(c), InRound,
         revents[c] \in {"POLLERR", "POLLNVAL"}
  PROVE  ~Live(c)'
<1>1. CASE c \in el'.removable
  BY <1>1 DEF Live
<1>2. CASE c \notin el'.removable
  <2>1. c \notin el.removable /\ sock'[c].err = sock[c].err
    BY <1>2 DEF Handled
  <2>2. sock[c].err # "none"
    BY <2>1 DEF Lists, Round
  <2>3. QED
    BY <2>1, <2>2 DEF Live
<1>3. QED
  BY <1>1, <1>2

LEMMA ActivityBegins ==
  ASSUME Owner = "server", Types, Lists, Round, Activity, NEW c \in Chans, Begins(c)
  PROVE  Activity'
<1>1. Handled(c)
  BY BeginHandled DEF Begins
<1>2. /\ pc = "chan" /\ InRound /\ i' = i /\ ch' = c /\ c \in Range(el.channels)
      /\ pc' \in {"hup", "data", "tail", "monitor"} /\ i <= Len(el.fds) /\ c = el.fds[i]
  BY BeginAt DEF Begins
<1>3. revents' = revents /\ sentAt' = sentAt /\ sentLate' = sentLate /\ clock' = clock
  BY DEF Begins, ErrBytes, ErrStatus, Hup, InRecv, InClosed, InFails, Silent, InListener, At,
     Quiet
<1>4. \A d \in Conns \ {c} : Minded(d)'
  BY <1>1, <1>2, <1>3, OthersMinded
<1>5. el'.now = el.now /\ el.now = clock /\ clock' = clock
  BY <1>1, <1>2, <1>3 DEF Handled, SameLists, Activity
<1>6. ASSUME c \in Conns PROVE Minded(c)'
  <2>0. el \in Loops /\ c # L /\ Minded(c) /\ clock \in Nat
    BY <1>6, EventLoopAssumption DEF Types, Activity
  <2>1. CASE ErrBytes(c) \/ ErrStatus(c)
    <3>1. revents[c] = "POLLERR"
      BY <2>1 DEF ErrBytes, ErrStatus, At
    <3>2. ~Live(c)'
      BY <1>1, <1>2, <1>6, <3>1, BrokenIsDead
    <3>3. QED
      BY <1>3, <1>6, <2>0, <3>2, MindedDead
  <2>2. CASE Hup(c)
    <3>1. AtHup(c)'
      BY <1>2, <2>2 DEF Hup, AtHup
    <3>2. QED
      BY <1>3, <1>6, <2>0, <3>1, MindedAtHup
  <2>3. CASE InRecv(c) \/ InFails(c)
    <3>1. el' = Touched(el, c)
      BY <2>3 DEF InRecv, InFails, Touched
    <3>2. el'.active = el.active /\ el'.last_activity = [el.last_activity EXCEPT ![c] = el.now]
      BY ONLY <2>0, <3>1, c \in Chans, NotedNow
    <3>3. el'.last_activity[c] = clock
      BY <1>5, <2>0, <3>2 DEF Loops
    <3>4. Live(c)' => Live(c)
      BY <1>1 DEF Handled, SameLists, Live
    <3>5. ~AtHup(c)
      BY <1>2 DEF AtHup
    <3>6. c \in el'.active \/ ~Live(c)'
      BY <2>0, <3>2, <3>4, <3>5 DEF Minded
    <3>7. QED
      BY <1>3, <1>6, <2>0, <3>3, <3>6, MindedNow
  <2>4. CASE InClosed(c)
    <3>1. PICK m : m = eventloop_socket_activate(el, c, FALSE)
      OBVIOUS
    <3>2. m \in Loops /\ SameLists(el, m)
      BY ONLY <2>0, <3>1, c \in Chans, DeactivateFields
    <3>3. PICK l : l = Touched(m, c)
      OBVIOUS
    <3>4. l \in Loops
      BY ONLY <3>2, <3>3, c \in Chans, NotedNow
    <3>5. m.now = el.now
      BY <3>2 DEF SameLists
    <3>6. do_status_callback(l, c, "SOCKET_CONN_CLOSED")
      BY <2>4, <3>1, <3>3, <3>5 DEF InClosed, Touched
    <3>7. ~Live(c)'
      BY <1>6, <3>4, <3>6, OverIsDead
    <3>8. QED
      BY <1>3, <1>6, <2>0, <3>7, MindedDead
  <2>5. CASE Silent(c)
    <3>1. CASE el' = el
      <4>1. sock' = sock /\ revents[c] \in {"none", "POLLNVAL"} /\ pc' = "tail"
        BY <2>5 DEF Silent, At
      <4>2. ~Pending(c) /\ ~AtHup(c) /\ ~AtHup(c)' /\ (Live(c)' => Live(c))
        BY <1>2, <3>1, <4>1 DEF Pending, AtHup, Live
      <4>3. QED
        BY <1>2, <1>3, <1>6, <2>0, <3>1, <4>1, <4>2, MindedStill
    <3>2. CASE el' = eventloop_socket_release(el, c)
      <4>1. el'.removable = el.removable \cup {c}
        BY ONLY <2>0, <3>2, c \in Chans, ReleaseFields
      <4>2. ~Live(c)'
        BY <4>1 DEF Live
      <4>3. QED
        BY <1>3, <1>6, <2>0, <4>2, MindedDead
    <3>3. QED
      BY <2>5, <3>1, <3>2 DEF Silent
  <2>6. QED
    BY <2>0, <2>1, <2>2, <2>3, <2>4, <2>5 DEF Begins
<1>7. QED
  BY <1>2, <1>4, <1>5, <1>6 DEF Activity

\* The round does not come to a channel twice.
LEMMA ServedOnce ==
  ASSUME Types, Lists, Serving, ch \notin el.removable
  PROVE  ~Pending(ch)
<1>1. el.fds \in Seq(Chans) /\ i \in Nat \ {0} /\ Len(el.fds) \in Nat
  <2>1. el.fds \in Seq(Chans) /\ i \in Nat \ {0}
    BY DEF Types, Loops
  <2>2. QED
    BY <2>1, LenProperties
<1>2. i <= Len(el.fds) /\ ch = el.fds[i] /\ Distinct(el.fds)
  BY DEF Lists
<1>3. i \in 1 .. Len(el.fds)
  BY <1>1, <1>2
<1>4. \A k \in i .. Len(el.fds) : el.fds[k] = ch => k = i
  <2>1. \A k \in i .. Len(el.fds) : k \in 1 .. Len(el.fds)
    BY <1>1
  <2>2. QED
    BY <1>2, <1>3, <2>1 DEF Distinct
<1>5. QED
  BY <1>4 DEF Pending, Serving

LEMMA ActivityContinues ==
  ASSUME Owner = "server", Types, Lists, Round, Activity, Continues
  PROVE  Activity'
<1>1. Handled(ch)
  BY ContinueHandled DEF Continues
<1>2. /\ pc \in {"hup", "hupdata", "data", "tail", "idle"} /\ ch' = ch /\ revents' = revents
      /\ pc' \in {"hup", "hupdata", "tail", "idle", "chan"}
      /\ (i' = i /\ pc' # "chan") \/ (i' = i + 1 /\ pc' = "chan")
      /\ sentAt' = sentAt /\ sentLate' = sentLate /\ clock' = clock
  BY DEF Continues, HupRecv, HupClosed, DataRead, Invalid, Reap, Quiet
<1>3. Serving /\ InRound /\ ch \in Range(el.channels) /\ ch \in Chans /\ el \in Loops
      /\ (~el.force_stop => i <= Len(el.fds) /\ ch = el.fds[i])
  BY <1>2 DEF Serving, InRound, Lists, Types
<1>4. \A d \in Conns \ {ch} : Minded(d)'
  BY <1>1, <1>2, <1>3, OthersMinded
<1>5. el'.now = el.now /\ el.now = clock /\ clock' = clock
  BY <1>1, <1>2, <1>3 DEF Handled, SameLists, Activity
<1>6. ASSUME NEW c \in Conns, c = ch PROVE Minded(c)'
  <2>0. Minded(c)
    BY DEF Activity
  <2>1. CASE AtHup(c)'
    BY <1>2, <2>0, <2>1, MindedAtHup
  <2>2. CASE ~Live(c)'
    BY <1>2, <2>0, <2>2, MindedDead
  <2>3. CASE UNCHANGED <<el, sock>> /\ pc # "hup" /\ pc # "hupdata" /\ ~AtHup(c)' /\ Live(c)'
    <3>1. Live(c) /\ c \notin el.removable
      BY <2>3 DEF Live
    <3>2. ~Pending(c) /\ ~AtHup(c)
      BY <1>2, <1>3, <1>6, <2>3, <3>1, ServedOnce DEF AtHup
    <3>3. QED
      BY <1>2, <1>3, <2>0, <2>3, <3>1, <3>2, MindedStill
  <2>4. CASE HupRecv
    <3>1. AtHup(c)'
      BY <1>2, <1>6, <2>4 DEF HupRecv, AtHup
    <3>2. QED
      BY <2>1, <3>1
  <2>5. CASE HupClosed
    <3>1. ~Live(c)'
      BY <1>3, <1>6, <2>5, OverIsDead DEF HupClosed
    <3>2. QED
      BY <2>2, <3>1
  <2>6. CASE DataRead
    <3>1. ReadBy(ch, len)
      BY <1>3, <2>6, ReadIsReadBy DEF DataRead
    <3>2. CASE pc = "hupdata"
      <4>1. AtHup(c)'
        BY <1>2, <1>6, <2>6, <3>2 DEF DataRead, AtHup
      <4>2. QED
        BY <2>1, <4>1
    <3>3. CASE pc = "data" /\ UNCHANGED <<el, sock>>
      BY <2>1, <2>2, <2>3, <3>3
    <3>4. CASE GivenUp(el, ch)
      <4>1. ~Live(c)'
        BY <1>6, <3>4 DEF GivenUp, Live
      <4>2. QED
        BY <2>2, <4>1
    <3>5. QED
      BY <2>6, <3>1, <3>2, <3>3, <3>4 DEF DataRead, ReadBy
  <2>7. CASE Invalid
    <3>1. CASE revents[ch] = "POLLNVAL"
      <4>1. ~Live(c)'
        BY <1>1, <1>3, <1>6, <3>1, BrokenIsDead
      <4>2. QED
        BY <2>2, <4>1
    <3>2. CASE revents[ch] # "POLLNVAL"
      BY <2>1, <2>2, <2>3, <2>7, <3>2 DEF Invalid
    <3>3. QED
      BY <3>1, <3>2
  <2>8. CASE Reap
    <3>1. CASE IsIdle(ch)
      <4>1. ~Live(c)'
        BY <1>3, <1>6, <2>8, <3>1, OverIsDead DEF Reap
      <4>2. QED
        BY <2>2, <4>1
    <3>2. CASE ~IsIdle(ch)
      BY <2>1, <2>2, <2>3, <2>8, <3>2 DEF Reap
    <3>3. QED
      BY <3>1, <3>2
  <2>9. QED
    BY <2>4, <2>5, <2>6, <2>7, <2>8 DEF Continues
<1>7. QED
  BY <1>2, <1>4, <1>5, <1>6 DEF Activity

LEMMA ActivityPeers ==
  ASSUME Types, Lists, Activity, NEW c \in Conns, Peers(c)
  PROVE  Activity'
<1>1. UNCHANGED <<el, pc, i, ch, revents, clock>>
  BY DEF Peers, PeerConnects, PeerSends, PeerCloses, SocketBreaks, loopVars
<1>2. c \in Chans /\ sock \in [Chans -> Sockets] /\ Conns \subseteq Chans /\ clock \in Nat
      /\ sentAt \in [Conns -> Nat]
  BY DEF Types, Chans
<1>3. \A d \in Conns : (AtHup(d)' <=> AtHup(d)) /\ (Pending(d)' <=> Pending(d))
  BY <1>1 DEF AtHup, Pending
<1>4. InRound' <=> InRound
  BY <1>1 DEF InRound, Serving
<1>5. ASSUME NEW d \in Conns, sock'[d].net = sock[d].net, sentAt'[d] = sentAt[d],
             d \in sentLate => d \in sentLate',
             sock'[d].err # "none" \/ sock'[d].err = sock[d].err
      PROVE  Minded(d)'
  <2>1. Live(d)' => Live(d)
    BY <1>1, <1>5 DEF Live
  <2>2. Minded(d)
    BY DEF Activity
  <2>3. QED
    BY <1>1, <1>3, <1>4, <1>5, <2>1, <2>2, MindedStill
<1>6. \A d \in Conns \ {c} : sock'[d] = sock[d] /\ sentAt'[d] = sentAt[d]
                             /\ (d \in sentLate => d \in sentLate')
  BY <1>2 DEF Peers, PeerConnects, PeerSends, PeerCloses, SocketBreaks, history
<1>7. Minded(c)'
  <2>1. CASE PeerSends(c)
    <3>1. sock'[c].net = sock[c].net + 1 /\ sock'[c].err = sock[c].err /\ sock[c].net \in Nat
          /\ sentAt'[c] = clock /\ c \in sentLate'
      BY <1>2, <2>1 DEF PeerSends, Sockets
    <3>2. sock'[c].net # 0 /\ (Live(c)' => Live(c)) /\ clock <= clock
      BY <1>1, <1>2, <3>1 DEF Live
    <3>3. Minded(c)
      BY DEF Activity
    <3>4. QED
      BY <1>1, <1>3, <3>1, <3>2, <3>3 DEF Minded
  <2>2. CASE PeerConnects(c) \/ PeerCloses(c) \/ SocketBreaks(c)
    <3>1. /\ sock'[c].net = sock[c].net /\ sentAt' = sentAt /\ sentLate' = sentLate
          /\ sock'[c].err # "none" \/ sock'[c].err = sock[c].err
      BY <1>2, <2>2 DEF PeerConnects, PeerCloses, SocketBreaks, Sockets, history
    <3>2. QED
      BY <1>5, <3>1
  <2>3. QED
    BY <2>1, <2>2 DEF Peers
<1>8. \A d \in Conns : Minded(d)'
  BY <1>5, <1>6, <1>7
<1>9. QED
  BY <1>1, <1>4, <1>8 DEF Activity

LEMMA ActivityTick ==
  ASSUME Types, Activity, Tick
  PROVE  Activity'
<1>1. UNCHANGED <<el, pc, ch, i, revents, sock, sentAt, sentLate>> /\ clock' = clock + 1
      /\ pc = "polling" /\ clock \in Nat
  BY DEF Tick, loopVars, history, Types
<1>2. ~InRound /\ ~InRound'
  BY <1>1 DEF InRound, Serving
<1>3. el.now \in Nat /\ el'.now <= clock'
  BY <1>1 DEF Types, Loops, Activity
<1>4. ASSUME NEW d \in Conns PROVE Minded(d)'
  <2>1. (Live(d)' <=> Live(d)) /\ (AtHup(d)' <=> AtHup(d)) /\ (Noted(d)' <=> Noted(d))
    BY <1>1 DEF Live, AtHup, Noted
  <2>2. Minded(d)
    BY DEF Activity
  <2>3. sentAt'[d] <= clock'
    BY <1>1, <2>2 DEF Types, Minded
  <2>4. QED
    BY <1>1, <1>2, <2>1, <2>2, <2>3 DEF Minded
<1>5. QED
  BY <1>2, <1>3, <1>4 DEF Activity

LEMMA ActivityAccept ==
  ASSUME Types, Lists, Activity, Accept
  PROVE  Activity'
<1>0. el \in Loops /\ sock \in [Chans -> Sockets] /\ Conns \subseteq Chans
  BY DEF Types, Chans
<1>1. /\ pc = "monitor" /\ UNCHANGED <<ch, i, revents, clock, sentAt, sentLate>>
      /\ pc' \in {"crashed", "tail"} /\ InRound
  BY DEF Accept, InRound, Serving, Quiet
<1>2. el.now = clock
  BY <1>1 DEF Activity
<1>3. ASSUME NEW d \in Conns, sock'[d] = sock[d], el'.fds = el.fds,
             d \in el'.active <=> d \in el.active, d \in el'.removable <=> d \in el.removable,
             d \in Range(el'.channels) <=> d \in Range(el.channels),
             el'.last_activity[d] = el.last_activity[d]
      PROVE  Minded(d)'
  <2>1. ~AtHup(d) /\ ~AtHup(d)' /\ (Live(d)' <=> Live(d)) /\ (Pending(d) => Pending(d)')
    BY <1>1, <1>3 DEF AtHup, Live, Pending
  <2>2. Minded(d)
    BY DEF Activity
  <2>3. QED
    BY <1>1, <1>3, <2>1, <2>2, MindedStill
<1>4. CASE UNCHANGED <<el, sock>>
  BY <1>1, <1>2, <1>3, <1>4 DEF Activity
<1>5. ASSUME NEW c \in Conns, sock[c].state = "backlog", Accepted(c) PROVE Activity'
  <2>1. el \in Loops /\ c \in Chans /\ c \notin el.active
        /\ el' = eventloop_on_read_in_channel(el, c)
    BY <1>0, <1>5 DEF Accepted, Lists
  <2>2. Registered(el, c, el')
    BY ONLY <2>1, RegisterFields
  <2>3. /\ el'.removable = el.removable /\ el'.fds = el.fds /\ el'.now = el.now
        /\ Range(el'.channels) = Range(el.channels) \cup {c}
        /\ el'.active = el.active \cup {c}
        /\ el'.last_activity = [el.last_activity EXCEPT ![c] = el.now]
    BY <2>2 DEF Registered
  <2>4. el'.last_activity[c] = clock
        /\ \A d \in Conns \ {c} : el'.last_activity[d] = el.last_activity[d]
    BY <1>0, <1>2, <2>1, <2>3 DEF Loops
  <2>5. \A d \in Conns \ {c} : sock'[d] = sock[d]
    BY <1>0, <1>5 DEF Accepted
  <2>6. Minded(c)
    BY DEF Activity
  <2>7. Minded(c)'
    BY <1>1, <2>3, <2>4, <2>6, MindedNow
  <2>8. \A d \in Conns : Minded(d)'
    BY <1>3, <2>3, <2>4, <2>5, <2>7
  <2>9. QED
    BY <1>1, <1>2, <2>3, <2>8 DEF Activity
<1>6. ASSUME NEW c \in Conns, sock[c].state = "backlog", Refused(c) PROVE Activity'
  <2>1. el' = el /\ \A d \in Chans \ {c} : sock'[d] = sock[d]
    BY <1>0, <1>6, ClosedSocket DEF Refused
  <2>2. ~Live(c)'
    BY <1>6, <2>1 DEF Lists, Live
  <2>3. Minded(c)
    BY DEF Activity
  <2>4. Minded(c)'
    BY <1>1, <2>2, <2>3, MindedDead
  <2>5. \A d \in Conns : Minded(d)'
    BY <1>0, <1>3, <2>1, <2>4
  <2>6. QED
    BY <1>1, <1>2, <2>1, <2>5 DEF Activity
<1>7. QED
  BY <1>4, <1>5, <1>6 DEF Accept, Accepted, Refused

LEMMA ActivityOuter ==
  ASSUME Types, Lists, Round, Activity, Outer
  PROVE  Activity'
<1>1. Circles /\ Lists'
  BY OuterCircles, ListsLoop DEF Outer
<1>2. sentAt' = sentAt /\ clock' = clock /\ clock \in Nat /\ el'.now <= clock'
  BY <1>1 DEF Circles, Activity, Types
<1>3. pc \in {"hup", "hupdata"} => pc' = pc
  BY DEF Outer, LoopExits, LoopTurns, PollCalled, PollReturns, NoEvents, TimerFires,
     TimerNotDue, Sweep, Terminate
<1>4. CASE ~InRound'
  <2>1. ASSUME NEW d \in Conns PROVE Minded(d)'
    <3>1. ~AtHup(d) /\ ~AtHup(d)'
      BY <1>3, <1>4 DEF AtHup, InRound, Serving
    <3>2. Live(d)' => sock'[d].state # "closed"
      BY <1>1 DEF Live, Lists
    <3>3. Live(d)' => sock'[d].net = sock[d].net /\ sock'[d].err = sock[d].err
      BY <1>1, <3>2 DEF Circles
    <3>4. Live(d)' => Live(d)
      BY <1>1, <3>3 DEF Circles, Live, Lists
    <3>5. Live(d)' /\ d \in el.active => d \in el'.active
      BY <1>1 DEF Circles, Live
    <3>6. sentLate' = sentLate
      BY <1>4 DEF Outer, LoopExits, LoopTurns, PollCalled, PollReturns, NoEvents, TimerFires,
         TimerNotDue, Sweep, Terminate, history, InRound
    <3>7. Minded(d) /\ el'.last_activity = el.last_activity
      BY <1>1 DEF Activity, Circles
    <3>8. QED
      BY <1>2, <1>4, <3>1, <3>3, <3>4, <3>5, <3>6, <3>7, MindedStill
  <2>2. QED
    BY <1>2, <1>4, <2>1 DEF Activity
<1>5. CASE PollReturns
  <2>1. /\ pc = "polling" /\ pc' = "chan" /\ i' = 1 /\ sock' = sock
        /\ el \in Loops /\ sock \in [Chans -> Sockets]
    BY <1>5 DEF PollReturns, Types
  <2>2. /\ el'.fds = el.fds /\ el'.active = el.active /\ el'.channels = el.channels
        /\ el'.removable = el.removable /\ el'.now = clock
    <3>1. clock \in Nat /\ el' = [el EXCEPT !.now = clock]
      BY <1>2, <1>5 DEF PollReturns
    <3>2. QED
      BY ONLY <2>1, <3>1, NowSet
  <2>3. ASSUME NEW d \in Conns PROVE Minded(d)'
    <3>1. (Live(d)' <=> Live(d)) /\ ~AtHup(d) /\ ~AtHup(d)' /\ (Noted(d)' <=> Noted(d))
      BY <1>1, <1>2, <2>1, <2>2 DEF Live, AtHup, Noted, Circles
    <3>2. Minded(d) /\ d \in Chans /\ d # L
      BY EventLoopAssumption DEF Activity, Chans
    <3>3. ASSUME Live(d), sock[d].net # 0 PROVE Pending(d)'
      <4>1. d \in el.active /\ Range(el.fds) = el.active
        BY <2>1, <3>1, <3>2, <3>3 DEF Minded, Lists
      <4>2. revents'[d] \in Events(d)
        BY <1>5, <3>2, <4>1 DEF PollReturns
      <4>3. sock[d].err = "none" /\ sock[d].state \in {"open", "shut"} /\ sock[d].net > 0
        BY <2>1, <3>2, <3>3 DEF Live, Lists, Sockets
      <4>4. revents'[d] \in {"POLLIN", "POLLHUP"}
        BY <3>2, <4>2, <4>3 DEF Events
      <4>5. el.fds \in Seq(Chans)
        BY <2>1 DEF Loops
      <4>6. PICK k \in 1 .. Len(el.fds) : el.fds[k] = d
        BY <4>1, <4>5, LenProperties DEF Range
      <4>7. QED
        BY <2>1, <2>2, <4>4, <4>6 DEF Pending
    <3>4. QED
      BY <1>2, <2>1, <2>2, <3>1, <3>2, <3>3 DEF Minded
  <2>4. QED
    BY <1>2, <2>2, <2>3 DEF Activity
<1>6. CASE /\ Terminate /\ InRound /\ el'.channels = el.channels
           /\ Range(el.channels) \subseteq el'.removable
  <2>1. el'.now = clock'
    BY <1>1, <1>2, <1>6 DEF Circles, Activity
  <2>2. \A d \in Conns : ~Live(d)'
    BY <1>6 DEF Live
  <2>3. \A d \in Conns : Minded(d)
    BY DEF Activity
  <2>4. \A d \in Conns : Minded(d)'
    BY <1>2, <2>2, <2>3, MindedDead
  <2>5. QED
    BY <1>2, <2>1, <2>4 DEF Activity
<1>7. QED
  BY <1>4, <1>5, <1>6, OuterPlaces

LEMMA ActivityDropped ==
  ASSUME Types, Lists, Round, Activity, NEW c \in Chans, InNotSocket(c)
  PROVE  Activity'
<1>1. Dropped(c)
  BY NotSocketDrops
<1>2. ~InRound' /\ pc' = "undefined" /\ pc = "chan"
  BY <1>1 DEF Dropped, InRound, Serving
<1>3. ASSUME NEW d \in Conns PROVE Minded(d)'
  <2>1. CASE d = c
    BY <1>1, <1>2, <2>1 DEF Activity, Minded, Live, Dropped
  <2>2. CASE d # c
    <3>1. /\ (Live(d)' <=> Live(d)) /\ ~AtHup(d) /\ ~AtHup(d)'
          /\ (d \in el'.active <=> d \in el.active)
      BY <1>1, <1>2, <2>2 DEF Live, AtHup, Dropped
    <3>2. Noted(d)' <=> Noted(d)
      BY <1>1, <2>2 DEF Noted, Dropped, Types, Loops, Chans
    <3>3. QED
      BY <1>1, <1>2, <3>1, <3>2 DEF Activity, Minded, Dropped
  <2>3. QED
    BY <2>1, <2>2
<1>4. QED
  BY <1>1, <1>2, <1>3 DEF Activity, Dropped

LEMMA ActivityNext ==
  ASSUME Owner = "server", Types, Lists, Round, Activity, [Next]_vars
  PROVE  Activity'
<1>1. ASSUME UNCHANGED vars PROVE Activity'
  BY <1>1 DEF vars, loopVars, history, Activity, Minded, Live, AtHup, Noted, Pending, InRound,
     Serving
<1>2. QED
  BY <1>1, KindsOfSteps, ActivityPeers, ActivityBegins, ActivityContinues, ActivityOuter,
     ActivityAccept, ActivityTick, ActivityDropped

LEMMA LastTold ==
  ASSUME Types, NEW l, NEW c \in Conns, NEW st \in Statuses, do_status_callback(l, c, st),
         told'[c] # told[c]
  PROVE  Last(told'[c]) = st /\ c \notin l.removable
<1>1. told \in [Conns -> Seq(Statuses)] /\ told[c] \in Seq(Statuses)
  BY DEF Types
<1>2. c \notin l.removable /\ told'[c] = Append(told[c], st)
  BY <1>1 DEF do_status_callback, status_cbk
<1>3. PICK t : t = Append(told[c], st)
  OBVIOUS
<1>4. t[Len(t)] = st
  BY <1>1, <1>3, AppendProperties, LenProperties
<1>5. QED
  BY <1>2, <1>3, <1>4 DEF Last

\* Only the check at the end of eventloop_run()'s loop reports idleness.
LEMMA IdleIsReaped ==
  ASSUME Owner = "server", Types, Lists, Next, NEW c \in Conns, told'[c] # told[c],
         Last(told'[c]) = "SOCKET_IDLE"
  PROVE  Reap /\ IsIdle(ch) /\ c = ch /\ c \notin el.removable
<1>1. CASE told' = told
  BY <1>1
<1>2. ASSUME NEW d \in Chans, Begins(d) PROVE told' = told
  <2>1. CASE ErrBytes(d) \/ Hup(d) \/ InRecv(d) \/ InFails(d) \/ Silent(d) \/ InListener
    BY <2>1 DEF ErrBytes, Hup, InRecv, InFails, Silent, InListener
  <2>2. CASE ErrStatus(d) \/ InClosed(d)
    <3>1. d = c
      BY <1>2, BeginHandled DEF Begins, Handled
    <3>2. PICK st \in Statuses \ {"SOCKET_IDLE"} : \E l : do_status_callback(l, d, st)
      <4>1. CASE InClosed(d)
        BY <4>1 DEF InClosed, Statuses
      <4>2. CASE ErrStatus(d)
        <5>1. PICK st : st = IF sock[d].err = "refused" THEN "SOCKET_CONN_REFUSED"
                             ELSE "SOCKET_UNKNOWN"
          OBVIOUS
        <5>2. st \in Statuses \ {"SOCKET_IDLE"}
          BY <5>1 DEF Statuses
        <5>3. do_status_callback(eventloop_socket_activate(el, d, FALSE), d, st)
          BY <4>2, <5>1 DEF ErrStatus
        <5>4. QED
          BY <5>2, <5>3
      <4>3. QED
        BY <2>2, <4>1, <4>2
    <3>3. QED
      BY <3>1, <3>2, LastTold
  <2>3. QED
    BY <1>2, <2>1, <2>2 DEF Begins
<1>3. ASSUME Continues PROVE Reap /\ IsIdle(ch) /\ c = ch /\ c \notin el.removable
  <2>1. ch = c
    BY <1>3, ContinueHandled DEF Continues, Handled
  <2>2. CASE HupRecv \/ DataRead
    BY <2>2 DEF HupRecv, DataRead
  <2>3. CASE HupClosed
    BY <2>1, <2>3, LastTold DEF HupClosed, Statuses
  <2>4. CASE Invalid
    BY <2>1, <2>4, LastTold DEF Invalid, Statuses
  <2>5. CASE Reap
    BY <2>1, <2>5, LastTold DEF Reap, Statuses
  <2>6. QED
    BY <1>3, <2>2, <2>3, <2>4, <2>5 DEF Continues
<1>4. ASSUME Outer \/ Accept \/ Tick \/ \E d \in Conns : Peers(d) PROVE told' = told
  <2>1. CASE Outer
    BY <2>1, OuterCircles DEF Circles
  <2>2. CASE Accept \/ Tick \/ \E d \in Conns : Peers(d)
    BY <2>2 DEF Accept, Tick, Peers, PeerConnects, PeerSends, PeerCloses, SocketBreaks, history
  <2>3. QED
    BY <1>4, <2>1, <2>2
<1>5. ASSUME NEW d \in Chans, InNotSocket(d) PROVE told' = told
  BY <1>5 DEF InNotSocket
<1>6. QED
  BY <1>1, <1>2, <1>3, <1>4, <1>5, KindsOfSteps

LEMMA ReapedIsSilent ==
  ASSUME Types, Lists, Activity, Reap, IsIdle(ch), ch \in Conns, ch \notin el.removable,
         ch \notin sentLate, sock[ch].err = "none"
  PROVE  el.now - sentAt[ch] > Timeout
<1>1. pc = "idle" /\ Serving /\ InRound /\ ~AtHup(ch)
  BY DEF Reap, Serving, InRound, AtHup
<1>2. Live(ch)
  BY <1>1 DEF Lists, Live
<1>3. ~Pending(ch)
  BY <1>1, ServedOnce
<1>4. Noted(ch)
  BY <1>1, <1>2, <1>3 DEF Activity, Minded
<1>5. sentAt[ch] \in Nat /\ el.now \in Nat /\ el.last_activity[ch] \in Nat /\ Timeout \in Nat
  BY EventLoopAssumption DEF Types, Loops, Chans
<1>6. el.now - el.last_activity[ch] > Timeout /\ sentAt[ch] <= el.last_activity[ch]
  BY <1>4 DEF IsIdle, Noted
<1>7. QED
  BY <1>5, <1>6

\* With the callbacks of the server, a client is dropped as idle only if it has
\* sent nothing for the socket timeout, or sent it after poll() had returned, or
\* its connection is broken: data that poll() has reported counts as activity
\* before the check for idleness, wherever the channel is in the round.
THEOREM OnlySilentClientsAreDropped ==
  ASSUME Owner = "server"
  PROVE  Spec => IdleMeansSilent
<1>1. Init => Types /\ Lists /\ Round /\ Activity
  BY TypesInit, ListsInit, RoundInit, ActivityInit
<1>2. Types /\ Lists /\ Round /\ Activity /\ [Next]_vars
      => (Types /\ Lists /\ Round /\ Activity)'
  BY ListsNext, RoundNext, ActivityNext
<1>3. Types /\ Lists /\ Round /\ Activity /\ [Next]_vars
      => [\A c \in Conns : told'[c] # told[c] /\ Last(told'[c]) = "SOCKET_IDLE"
            => \/ c \in sentLate \/ sock[c].err # "none"
               \/ el.now - sentAt[c] > Timeout]_vars
  <2>1. SUFFICES ASSUME Types, Lists, Round, Activity, Next, NEW c \in Conns,
                        told'[c] # told[c], Last(told'[c]) = "SOCKET_IDLE",
                        c \notin sentLate, sock[c].err = "none"
                 PROVE  el.now - sentAt[c] > Timeout
    OBVIOUS
  <2>2. Reap /\ IsIdle(ch) /\ c = ch /\ c \notin el.removable
    BY <2>1, IdleIsReaped
  <2>3. QED
    BY <2>1, <2>2, ReapedIsSilent
<1>4. QED
  BY <1>1, <1>2, <1>3, PTL DEF Spec, IdleMeansSilent

=============================================================================
