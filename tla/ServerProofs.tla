---------------------------- MODULE ServerProofs ----------------------------
(***************************************************************************)
(* Proofs about the collection server (Server on top of Database) for any  *)
(* number of connections and domains, whatever the peers send.             *)
(***************************************************************************)
EXTENDS Server, SequenceTheorems, FiniteSetTheorems, TLAPS

-----------------------------------------------------------------------------
(* Shapes of the records.                                                  *)

FileFields == {"start_time", "senders", "tables", "rows", "unlisted"}

DomainOK(s) ==
  /\ DOMAIN s = {"db", "file", "saved"}
  /\ DOMAIN s.db = {"gen", "ref_count", "start_time", "tables", "sender_cnt"}
  /\ DOMAIN s.file = FileFields /\ DOMAIN s.saved = FileFields
  /\ s.db.ref_count \in Nat /\ s.db.gen \in Nat

Contents == {"C_TEXT_DATA", "C_BINARY_DATA"}

HandlerOK(h) ==
  /\ DOMAIN h = {"state", "content", "database", "gen", "sender_id", "time_offset", "tables"}
  /\ h.state \in States /\ h.content \in Contents
  /\ h.database \in Domains \cup {NoDb}
  /\ \A i \in DOMAIN h.tables : h.tables[i].domain \in Domains
  /\ h.state # "C_PROTOCOL_ERROR" /\ DOMAIN h.tables # {} => h.database # NoDb

Shapes ==
  /\ DOMAIN store = Domains /\ \A d \in Domains : DomainOK(store[d])
  /\ DOMAIN handler = Conns /\ \A c \in Conns : HandlerOK(handler[c])
  /\ buf \in [Conns -> Seq(Lines)] /\ net \in [Conns -> Seq(Lines)]

-----------------------------------------------------------------------------
(* Pointers.  A client that uses a database is counted in it, also by the  *)
(* tables it has left over from another domain.                            *)

Users(d) ==
  {c \in Conns : \/ handler[c].database = d
                 \/ \E i \in DOMAIN handler[c].tables : handler[c].tables[i].domain = d}

Counted == \A d \in Domains : Cardinality(Users(d)) <= store[d].db.ref_count

MetaRegistered == \A d \in Domains : IsOpen(store[d]) => MetaName \in DOMAIN store[d].db.tables

Pointers == Shapes /\ Counted /\ MetaRegistered /\ NoDanglingPointers

\* What an operation on a database may not do to the pointers into it.
Keeps(s, t) ==
  /\ DomainOK(t)
  /\ t.db.ref_count = s.db.ref_count /\ t.db.gen = s.db.gen
  /\ DOMAIN s.db.tables \subseteq DOMAIN t.db.tables

\* Where the pointers of a handler come from: from itself.
OwnPointers(c) ==
  /\ handler'[c].database \in {handler[c].database, NoDb}
  /\ handler'[c].database # NoDb => handler'[c].gen = handler[c].gen
  /\ \A i \in DOMAIN handler'[c].tables :
       LET t == handler'[c].tables[i]
       IN  \/ \E j \in DOMAIN handler[c].tables : t = handler[c].tables[j]
           \/ /\ handler[c].database # NoDb /\ t.domain = handler[c].database
              /\ t.gen = handler[c].gen
              /\ t.name \in DOMAIN store'[handler[c].database].db.tables

-----------------------------------------------------------------------------
(* What the functions on a database do.                                    *)

\* A file that has grown has lost nothing.
Grown(f, g) ==
  /\ f.rows \subseteq g.rows /\ f.unlisted \subseteq g.unlisted
  /\ f.start_time # 0 => g.start_time = f.start_time
  /\ \A n \in DOMAIN f.senders : n \in DOMAIN g.senders /\ g.senders[n] = f.senders[n]

\* A record that differs neither in what it stores nor in what it has cached.
SameData(s, t) ==
  /\ t.file.rows = s.file.rows /\ t.file.start_time = s.file.start_time
  /\ t.file.senders = s.file.senders /\ t.file.unlisted = s.file.unlisted
  /\ t.saved = s.saved
  /\ t.db.start_time = s.db.start_time /\ t.db.sender_cnt = s.db.sender_cnt

LEMMA ClosedFields ==
  \A gen : /\ Closed(gen).ref_count = 0 /\ Closed(gen).gen = gen
           /\ Closed(gen).start_time = 0 /\ Closed(gen).sender_cnt = 0
  BY DEF Closed

\* A client more, in an object that is new unless the database was open.
LEMMA FindEffect ==
  ASSUME NEW s, DomainOK(s)
  PROVE  LET t == database_find(s)
         IN  /\ DomainOK(t)
             /\ IsOpen(s) => /\ t.db.ref_count = s.db.ref_count + 1 /\ t.db.gen = s.db.gen
                             /\ t.db.tables = s.db.tables /\ SameData(s, t)
             /\ ~IsOpen(s) => /\ t.db.ref_count = 1 /\ MetaName \in DOMAIN t.db.tables
                              /\ t.db.start_time = t.file.start_time /\ t.db.sender_cnt = 0
             /\ t.file.rows = s.file.rows /\ t.file.start_time = s.file.start_time
             /\ t.file.senders = s.file.senders /\ t.file.unlisted = s.file.unlisted
             /\ t.saved = s.saved
<1>1. CASE IsOpen(s)
  BY <1>1 DEF database_find, DomainOK, SameData, IsOpen
<1>2. CASE ~IsOpen(s)
  BY <1>2 DEF database_find, Opened, database_init, Added, DomainOK, IsOpen, FileFields
<1>. QED
  BY <1>1, <1>2

\* A client less; the last one commits.
LEMMA ReleaseEffect ==
  ASSUME NEW s, DomainOK(s)
  PROVE  LET t == database_release(s)
         IN  /\ DomainOK(t) /\ t.file = s.file
             /\ s.db.ref_count > 1 => /\ t.db.ref_count = s.db.ref_count - 1
                                      /\ t.db.gen = s.db.gen /\ t.db.tables = s.db.tables
                                      /\ SameData(s, t)
             /\ ~(s.db.ref_count > 1) => t.db = Closed(s.db.gen) /\ t.saved = s.file
<1>1. CASE s.db.ref_count > 1
  BY <1>1 DEF database_release, DomainOK, SameData
<1>2. CASE ~(s.db.ref_count > 1)
  BY <1>2 DEF database_release, DomainOK, Closed
<1>. QED
  BY <1>1, <1>2

\* What was not committed is gone.
LEMMA RollbackEffect ==
  ASSUME NEW s, DomainOK(s)
  PROVE  LET t == RolledBack(s)
         IN  /\ DomainOK(t) /\ t.file = s.saved /\ t.saved = s.saved
             /\ t.db = Closed(s.db.gen)
  BY DEF RolledBack, DomainOK, Closed

\* A new table, and nothing else.
LEMMA TableEffect ==
  ASSUME NEW s, DomainOK(s), NEW n, NEW fields
  PROVE  LET t == TableCreated(s, n, fields)
         IN  Keeps(s, t) /\ n \in DOMAIN t.db.tables /\ SameData(s, t)
  BY DEF TableCreated, Added, DomainOK, Keeps, SameData, FileFields

\* The origin of time is set once.
LEMMA SeedEffect ==
  ASSUME NEW s, DomainOK(s), NEW time
  PROVE  LET t == SeedStartTime(s, time)
         IN  /\ Keeps(s, t) /\ t.saved = s.saved
             /\ t.file.rows = s.file.rows /\ t.file.senders = s.file.senders
             /\ t.file.unlisted = s.file.unlisted
             /\ t.db.sender_cnt = s.db.sender_cnt
             /\ s.db.start_time # 0 => t.file = s.file /\ t.db.start_time = s.db.start_time
             /\ s.db.start_time = 0 => t.file.start_time = time /\ t.db.start_time = time
  BY DEF SeedStartTime, DomainOK, Keeps, FileFields

\* A sender that has no id gets one; every other keeps its own.
LEMMA SenderEffect ==
  ASSUME NEW s, DomainOK(s), NEW name
  PROVE  LET t == add_sender_id(s, name)
         IN  /\ Keeps(s, t) /\ t.saved = s.saved
             /\ t.file.rows = s.file.rows /\ t.file.start_time = s.file.start_time
             /\ t.file.unlisted = s.file.unlisted
             /\ t.db.start_time = s.db.start_time
             /\ DOMAIN t.file.senders = DOMAIN s.file.senders \cup {name}
             /\ t.file.senders[name] = SenderId(s, name)
             /\ \A n \in DOMAIN s.file.senders : t.file.senders[n] = s.file.senders[n]
             /\ name \in DOMAIN s.file.senders => t.db.sender_cnt = s.db.sender_cnt
             /\ name \notin DOMAIN s.file.senders => t.db.sender_cnt = SenderId(s, name)
<1>1. CASE name \in DOMAIN s.file.senders
  BY <1>1 DEF add_sender_id, SenderId, DomainOK, Keeps
<1>2. CASE name \notin DOMAIN s.file.senders
  <2>. DEFINE id == SenderId(s, name)
  <2>. HIDE DEF id
  <2>1. add_sender_id(s, name) =
          [s EXCEPT !.file.senders = Added(@, name, id), !.db.sender_cnt = id]
    BY <1>2 DEF add_sender_id, id
  <2>. QED
    BY <1>2, <2>1 DEF Added, DomainOK, Keeps, FileFields, id
<1>. QED
  BY <1>1, <1>2

\* The list of senders is as before, and the id is used.
LEMMA NotStoredEffect ==
  ASSUME NEW s, DomainOK(s), NEW name
  PROVE  LET t == SenderNotStored(s, name)
         IN  /\ Keeps(s, t) /\ t.saved = s.saved
             /\ t.file.rows = s.file.rows /\ t.file.start_time = s.file.start_time
             /\ t.file.senders = s.file.senders
             /\ t.file.unlisted = s.file.unlisted \cup {<<name, SenderId(s, name)>>}
             /\ t.db.start_time = s.db.start_time /\ t.db.sender_cnt = SenderId(s, name)
<1>. DEFINE id == SenderId(s, name)
<1>. HIDE DEF id
<1>1. SenderNotStored(s, name) =
        [s EXCEPT !.file.unlisted = @ \cup {<<name, id>>}, !.db.sender_cnt = id]
  BY DEF SenderNotStored, id
<1>. QED
  BY <1>1 DEF DomainOK, Keeps, FileFields, id

\* One row more, and perhaps a COMMIT before it.
LEMMA CommitEffect ==
  ASSUME NEW s, DomainOK(s)
  PROVE  LET t == dba_reopen_transaction(s)
         IN  Keeps(s, t) /\ t.saved = s.file /\ t.file = s.file /\ t.db = s.db
  BY DEF dba_reopen_transaction, DomainOK, Keeps, FileFields

LEMMA InsertEffect ==
  ASSUME NEW s, DomainOK(s), NEW row
  PROVE  LET t == Inserted(s, row)
         IN  /\ Keeps(s, t) /\ t.saved = s.saved /\ t.db = s.db
             /\ t.file.rows = s.file.rows \cup {row}
             /\ t.file.start_time = s.file.start_time /\ t.file.senders = s.file.senders
             /\ t.file.unlisted = s.file.unlisted
  BY DEF Inserted, DomainOK, Keeps, FileFields

-----------------------------------------------------------------------------
\* The number of users is a number, and fewer users are not more.
LEMMA UsersFinite ==
  \A d \in Domains : IsFiniteSet(Users(d)) /\ Cardinality(Users(d)) \in Nat
<1>. SUFFICES ASSUME NEW d \in Domains
              PROVE  IsFiniteSet(Users(d)) /\ Cardinality(Users(d)) \in Nat
  OBVIOUS
<1>1. IsFiniteSet(Conns) /\ Users(d) \in SUBSET Conns
  BY ServerAssumption DEF Users
<1>2. IsFiniteSet(Users(d))
  BY <1>1, FS_Subset
<1>. QED
  BY <1>2, FS_CardinalityType

\* A database that somebody uses is open.
LEMMA UsedIsOpen ==
  ASSUME Shapes, Counted, NEW d \in Domains, NEW c \in Users(d)
  PROVE  IsOpen(store[d])
<1>1. IsFiniteSet(Users(d)) /\ Cardinality(Users(d)) \in Nat /\ Users(d) # {}
  BY UsersFinite
<1>2. Cardinality(Users(d)) # 0
  BY <1>1, FS_EmptySet
<1>. QED
  BY <1>1, <1>2 DEF Counted, IsOpen, Shapes, DomainOK

\* A step that adds no pointer but to what its owner already uses, and closes
\* nothing, leaves no pointer dangling.
LEMMA PointersKept ==
  ASSUME Pointers, Shapes', \A d \in Domains : Keeps(store[d], store'[d]),
         \A c \in Conns : OwnPointers(c)
  PROVE  Pointers'
<1>1. ASSUME NEW d \in Domains PROVE Users(d)' \subseteq Users(d)
  <2>. SUFFICES ASSUME NEW c \in Conns, c \in Users(d)' PROVE c \in Users(d)
    BY DEF Users
  <2>1. d # NoDb
    BY ServerAssumption
  <2>. QED
    BY <2>1 DEF Users, OwnPointers
<1>2. Counted'
  <2>. SUFFICES ASSUME NEW d \in Domains
                PROVE  Cardinality(Users(d)') <= store'[d].db.ref_count
    BY DEF Counted
  <2>1. Cardinality(Users(d)') <= Cardinality(Users(d))
    BY <1>1, UsersFinite, FS_Subset
  <2>2. Users(d)' \in SUBSET Conns /\ IsFiniteSet(Conns)
    BY ServerAssumption DEF Users
  <2>3. Cardinality(Users(d)') \in Nat /\ Cardinality(Users(d)) \in Nat
    BY <2>2, UsersFinite, FS_Subset, FS_CardinalityType
  <2>. QED
    BY <2>1, <2>3 DEF Pointers, Counted, Keeps, Shapes, DomainOK
<1>3. MetaRegistered'
  BY DEF Pointers, MetaRegistered, Keeps, IsOpen
<1>4. NoDanglingPointers'
  <2>. SUFFICES ASSUME NEW c \in Conns
                PROVE  /\ handler'[c].database # NoDb =>
                            PointsTo(handler[c].database, handler[c].gen)'
                       /\ \A i \in DOMAIN handler'[c].tables :
                            LET t == handler'[c].tables[i]
                            IN  /\ IsOpen(store'[t.domain]) /\ store'[t.domain].db.gen = t.gen
                                /\ t.name \in DOMAIN store'[t.domain].db.tables
    BY DEF NoDanglingPointers, PointsTo
  <2>1. ASSUME NEW d \in Domains, IsOpen(store[d])
        PROVE  IsOpen(store'[d]) /\ store'[d].db.gen = store[d].db.gen
               /\ DOMAIN store[d].db.tables \subseteq DOMAIN store'[d].db.tables
    BY <2>1 DEF Keeps, IsOpen
  <2>2. /\ handler[c].database # NoDb =>
             handler[c].database \in Domains /\ PointsTo(handler[c].database, handler[c].gen)
        /\ \A i \in DOMAIN handler[c].tables :
             LET t == handler[c].tables[i]
             IN  /\ t.domain \in Domains /\ PointsTo(t.domain, t.gen)
                 /\ t.name \in DOMAIN store[t.domain].db.tables
    BY DEF Pointers, NoDanglingPointers, Shapes, HandlerOK
  <2>3. handler'[c].database # NoDb => PointsTo(handler[c].database, handler[c].gen)'
    BY <2>1, <2>2 DEF OwnPointers, PointsTo
  <2>4. ASSUME NEW i \in DOMAIN handler'[c].tables
        PROVE  LET t == handler'[c].tables[i]
               IN  /\ IsOpen(store'[t.domain]) /\ store'[t.domain].db.gen = t.gen
                   /\ t.name \in DOMAIN store'[t.domain].db.tables
    <3>. DEFINE t == handler'[c].tables[i]
    <3>1. CASE \E j \in DOMAIN handler[c].tables : t = handler[c].tables[j]
      <4>1. /\ t.domain \in Domains /\ PointsTo(t.domain, t.gen)
            /\ t.name \in DOMAIN store[t.domain].db.tables
        BY <2>2, <3>1
      <4>. QED
        BY <2>1, <4>1 DEF PointsTo
    <3>2. CASE /\ handler[c].database # NoDb /\ t.domain = handler[c].database
               /\ t.gen = handler[c].gen
               /\ t.name \in DOMAIN store'[handler[c].database].db.tables
      BY <2>1, <2>2, <3>2 DEF PointsTo
    <3>. QED
      BY <3>1, <3>2 DEF OwnPointers
  <2>. QED
    BY <2>3, <2>4
<1>. QED
  BY <1>2, <1>3, <1>4 DEF Pointers

\* The same for a step of one handler.
LEMMA OneHandler ==
  ASSUME Pointers, NEW c \in Conns,
         DOMAIN handler' = Conns, \A e \in Conns \ {c} : handler'[e] = handler[e],
         HandlerOK(handler'[c]), OwnPointers(c),
         DOMAIN store' = Domains, \A d \in Domains : Keeps(store[d], store'[d]),
         buf' \in [Conns -> Seq(Lines)], net' \in [Conns -> Seq(Lines)]
  PROVE  Pointers'
<1>1. \A e \in Conns : HandlerOK(handler'[e])
  BY DEF Pointers, Shapes
<1>2. Shapes'
  <2>1. \A d \in Domains : DomainOK(store'[d])
    BY DEF Keeps
  <2>2. (\A e \in Conns : HandlerOK(handler[e]))' /\ (\A d \in Domains : DomainOK(store[d]))'
    BY <1>1, <2>1
  <2>. QED
    BY <2>2 DEF Shapes
<1>3. ASSUME NEW e \in Conns, e # c PROVE OwnPointers(e)
  <2>1. handler'[e] = handler[e]
    BY <1>3
  <2>. QED
    BY <2>1 DEF OwnPointers
<1>. QED
  BY <1>2, <1>3, PointersKept

LEMMA KeepsItself ==
  ASSUME Shapes
  PROVE  \A d \in Domains : Keeps(store[d], store[d])
  BY DEF Shapes, Keeps

\* The next line is one that a peer has sent.
LEMMA LineTaken ==
  ASSUME Shapes, NEW c \in Conns, buf[c] # <<>>
  PROVE  /\ Line(c) \in Lines
         /\ Taken(c) => buf' \in [Conns -> Seq(Lines)]
<1>1. buf[c] \in Seq(Lines)
  BY DEF Shapes
<1>2. Head(buf[c]) \in Lines /\ Tail(buf[c]) \in Seq(Lines)
  BY <1>1
<1>. QED
  BY <1>2 DEF Line, Taken, Shapes

\* What every action of a callback on a line has in common.
LEMMA OnLine ==
  ASSUME Pointers, NEW c \in Conns, NEW states, In(c, states), Taken(c)
  PROVE  /\ Line(c) \in Lines /\ handler[c].state \in states
         /\ buf' \in [Conns -> Seq(Lines)] /\ net' \in [Conns -> Seq(Lines)]
         /\ HandlerOK(handler[c]) /\ DOMAIN handler = Conns /\ DOMAIN store = Domains
         /\ \A d \in Domains : DomainOK(store[d]) /\ Keeps(store[d], store[d])
  BY LineTaken, KeepsItself DEF Pointers, Shapes, In, connVars

LEMMA OnSample ==
  ASSUME Pointers, NEW c \in Conns, In(c, {"C_TEXT_DATA", "C_BINARY_DATA"}), Taken(c)
  PROVE  /\ Line(c) \in Lines /\ handler[c].state # "C_PROTOCOL_ERROR"
         /\ buf' \in [Conns -> Seq(Lines)] /\ net' \in [Conns -> Seq(Lines)]
         /\ HandlerOK(handler[c]) /\ DOMAIN handler = Conns /\ DOMAIN store = Domains
         /\ \A d \in Domains : DomainOK(store[d]) /\ Keeps(store[d], store[d])
<1>. DEFINE states == {"C_TEXT_DATA", "C_BINARY_DATA"}
<1>1. "C_PROTOCOL_ERROR" \notin states
  OBVIOUS
<1>. HIDE DEF states
<1>2. In(c, states)
  BY DEF states
<1>. QED
  BY <1>1, <1>2, OnLine

\* An action that does not touch the databases, and of its handler only what
\* is not a pointer.
LEMMA NoPointerMoved ==
  ASSUME Pointers, NEW c \in Conns, NEW states, In(c, states), Taken(c),
         UNCHANGED store, DOMAIN handler' = Conns,
         \A e \in Conns \ {c} : handler'[e] = handler[e],
         NEW h, handler'[c] = h, HandlerOK(h),
         h.database = handler[c].database, h.gen = handler[c].gen, h.tables = handler[c].tables
  PROVE  Pointers'
<1>1. OwnPointers(c)
  BY OnLine DEF OwnPointers
<1>. QED
  BY <1>1, OnLine, OneHandler

LEMMA FatalPointers ==
  ASSUME Pointers, NEW c \in Conns, NEW states, In(c, states), Taken(c),
         UNCHANGED store, Fatal(c)
  PROVE  Pointers'
<1>. DEFINE h == [handler[c] EXCEPT !.state = "C_PROTOCOL_ERROR"]
<1>1. HandlerOK(handler[c])
  BY OnLine
<1>2. /\ HandlerOK(h) /\ h.database = handler[c].database /\ h.gen = handler[c].gen
      /\ h.tables = handler[c].tables
  BY <1>1 DEF HandlerOK, States
<1>3. /\ DOMAIN handler' = Conns /\ handler'[c] = h
      /\ \A e \in Conns \ {c} : handler'[e] = handler[e]
  BY OnLine DEF Fatal
<1>. QED
  BY <1>2, <1>3, NoPointerMoved

-----------------------------------------------------------------------------
(* One lemma for each action.                                              *)

LEMMA MetaProtocolPointers ==
  ASSUME Pointers, NEW c \in Conns, MetaProtocol(c) PROVE Pointers'
<1>1. In(c, {"C_HEADER"}) /\ Taken(c) /\ UNCHANGED store
  BY DEF MetaProtocol, Header
<1>2. CASE UNCHANGED handler
  <2>1. HandlerOK(handler[c]) /\ DOMAIN handler' = Conns /\ handler' = handler
    BY <1>1, <1>2, OnLine
  <2>. QED
    BY <1>1, <2>1, NoPointerMoved
<1>3. CASE Fatal(c)
  BY <1>1, <1>3, FatalPointers
<1>. QED
  BY <1>2, <1>3 DEF MetaProtocol

LEMMA MetaContentPointers ==
  ASSUME Pointers, NEW c \in Conns, MetaContent(c) PROVE Pointers'
<1>1. In(c, {"C_HEADER"}) /\ Taken(c) /\ UNCHANGED store
  BY DEF MetaContent, Header
<1>2. CASE /\ Line(c).value \in {"C_TEXT_DATA", "C_BINARY_DATA"}
           /\ handler' = [handler EXCEPT ![c].content = Line(c).value]
  <2>. DEFINE h == [handler[c] EXCEPT !.content = Line(c).value]
  <2>1. HandlerOK(handler[c]) /\ DOMAIN handler = Conns
    BY <1>1, OnLine
  <2>2. /\ HandlerOK(h) /\ h.database = handler[c].database /\ h.gen = handler[c].gen
        /\ h.tables = handler[c].tables
    BY <1>2, <2>1 DEF HandlerOK, Contents
  <2>3. /\ DOMAIN handler' = Conns /\ handler'[c] = h
        /\ \A e \in Conns \ {c} : handler'[e] = handler[e]
    BY <1>2, <2>1
  <2>. QED
    BY <1>1, <2>2, <2>3, NoPointerMoved
<1>3. CASE Fatal(c)
  BY <1>1, <1>3, FatalPointers
<1>. QED
  BY <1>2, <1>3 DEF MetaContent

LEMMA HeaderDonePointers ==
  ASSUME Pointers, NEW c \in Conns, HeaderDone(c) PROVE Pointers'
<1>1. In(c, {"C_HEADER"}) /\ Taken(c) /\ UNCHANGED store
  BY DEF HeaderDone, Header
<1>2. HandlerOK(handler[c]) /\ DOMAIN handler = Conns /\ handler[c].state = "C_HEADER"
  BY <1>1, OnLine
<1>. DEFINE h == [handler[c] EXCEPT !.state = handler[c].content]
<1>3. /\ HandlerOK(h) /\ h.database = handler[c].database /\ h.gen = handler[c].gen
      /\ h.tables = handler[c].tables
  BY <1>2 DEF HandlerOK, Contents, States
<1>4. /\ DOMAIN handler' = Conns /\ handler'[c] = h
      /\ \A e \in Conns \ {c} : handler'[e] = handler[e]
  BY <1>2 DEF HeaderDone
<1>. QED
  BY <1>1, <1>3, <1>4, NoPointerMoved

\* A line that is taken and does nothing, or only ends the callback.
LEMMA SkippedPointers ==
  ASSUME Pointers, NEW c \in Conns, MetaOther(c) \/ RowDropped(c) \/ BadLine(c)
  PROVE  Pointers'
<1>1. PICK states : In(c, states) /\ Taken(c) /\ UNCHANGED <<handler, store>>
  BY DEF MetaOther, RowDropped, BadLine, Header, Data
<1>2. HandlerOK(handler[c]) /\ DOMAIN handler' = Conns /\ handler' = handler
  BY <1>1, OnLine
<1>. QED
  BY <1>1, <1>2, NoPointerMoved

LEMMA MetaMalformedPointers ==
  ASSUME Pointers, NEW c \in Conns, MetaMalformed(c) PROVE Pointers'
<1>1. In(c, {"C_HEADER"}) /\ Taken(c) /\ UNCHANGED store /\ Fatal(c)
  BY DEF MetaMalformed, Header
<1>. QED
  BY <1>1, FatalPointers

\* Headers that change the database of their handler: it stays in use.
LEMMA MetaStartTimePointers ==
  ASSUME Pointers, NEW c \in Conns, MetaStartTime(c) PROVE Pointers'
<1>1. In(c, {"C_HEADER"}) /\ Taken(c)
  BY DEF MetaStartTime, Header
<1>2. CASE UNCHANGED store /\ Fatal(c)
  BY <1>1, <1>2, FatalPointers
<1>3. ASSUME NEW d, d = handler[c].database, d # NoDb, NEW t, NEW o,
             handler' = [handler EXCEPT ![c].time_offset = o],
             store' = [store EXCEPT ![d] = SeedStartTime(@, t)]
      PROVE  Pointers'
  <2>1. d \in Domains
    BY <1>1, <1>3, OnLine DEF HandlerOK
  <2>2. \A e \in Domains : Keeps(store[e], store'[e])
    BY <1>1, <1>3, <2>1, OnLine, SeedEffect
  <2>3. HandlerOK(handler'[c]) /\ OwnPointers(c)
    BY <1>1, <1>3, OnLine DEF HandlerOK, OwnPointers
  <2>4. /\ DOMAIN handler' = Conns /\ DOMAIN store' = Domains
        /\ \A e \in Conns \ {c} : handler'[e] = handler[e]
    BY <1>1, <1>3, OnLine
  <2>. QED
    BY <1>1, <2>2, <2>3, <2>4, OnLine, OneHandler
<1>. QED
  BY <1>2, <1>3 DEF MetaStartTime

LEMMA MetaSenderIdPointers ==
  ASSUME Pointers, NEW c \in Conns, MetaSenderId(c) PROVE Pointers'
<1>1. In(c, {"C_HEADER"}) /\ Taken(c)
  BY DEF MetaSenderId, Header
<1>2. CASE UNCHANGED store /\ Fatal(c)
  BY <1>1, <1>2, FatalPointers
<1>3. ASSUME NEW d, d = handler[c].database, d # NoDb, NEW n, NEW id,
             handler' = [handler EXCEPT ![c].sender_id = id],
             \/ store' = [store EXCEPT ![d] = add_sender_id(@, n)]
             \/ store' = [store EXCEPT ![d] = SenderNotStored(@, n)]
      PROVE  Pointers'
  <2>1. d \in Domains
    BY <1>1, <1>3, OnLine DEF HandlerOK
  <2>2. \A e \in Domains : Keeps(store[e], store'[e])
    <3>1. DomainOK(store[d]) /\ DOMAIN store = Domains
          /\ \A e \in Domains : Keeps(store[e], store[e])
      BY <1>1, <2>1, OnLine
    <3>2. Keeps(store[d], add_sender_id(store[d], n)) /\ Keeps(store[d], SenderNotStored(store[d], n))
      BY <3>1, SenderEffect, NotStoredEffect
    <3>3. store'[d] \in {add_sender_id(store[d], n), SenderNotStored(store[d], n)}
          /\ \A e \in Domains \ {d} : store'[e] = store[e]
      BY <1>3, <2>1, <3>1
    <3>. QED
      BY <3>1, <3>2, <3>3
  <2>3. HandlerOK(handler'[c]) /\ OwnPointers(c)
    BY <1>1, <1>3, OnLine DEF HandlerOK, OwnPointers
  <2>4. /\ DOMAIN handler' = Conns /\ DOMAIN store' = Domains
        /\ \A e \in Conns \ {c} : handler'[e] = handler[e]
    BY <1>1, <1>3, OnLine
  <2>. QED
    BY <1>1, <2>2, <2>3, <2>4, OnLine, OneHandler
<1>. QED
  BY <1>2, <1>3 DEF MetaSenderId

\* domain: one client more, in an object that is open from then on.
LEMMA MetaDomainPointers ==
  ASSUME Pointers, NEW c \in Conns, MetaDomain(c) PROVE Pointers'
<1>. DEFINE d == Line(c).value
<1>1. In(c, {"C_HEADER"}) /\ Taken(c) /\ Line(c).key = "domain"
  BY DEF MetaDomain, Header
<1>2. d \in Domains
  BY <1>1, OnLine, ScriptsAssumption
<1>. HIDE DEF d
<1>3. CASE /\ UNCHANGED store
           /\ handler' = [handler EXCEPT ![c].database = NoDb,
                                         ![c].state = "C_PROTOCOL_ERROR"]
  <2>1. HandlerOK(handler'[c]) /\ OwnPointers(c)
    BY <1>1, <1>3, OnLine DEF HandlerOK, OwnPointers, States
  <2>2. /\ DOMAIN handler' = Conns /\ DOMAIN store' = Domains
        /\ \A e \in Conns \ {c} : handler'[e] = handler[e]
        /\ \A e \in Domains : Keeps(store[e], store'[e])
    BY <1>1, <1>3, OnLine
  <2>. QED
    BY <1>1, <2>1, <2>2, OnLine, OneHandler
<1>4. CASE /\ store' = [store EXCEPT ![d] = database_find(@)]
           /\ handler' = [handler EXCEPT ![c].database = d, ![c].gen = store'[d].db.gen]
  <2>. DEFINE s == store[d]  t == store'[d]
  <2>1. DomainOK(s) /\ t = database_find(s)
    BY <1>1, <1>2, <1>4, OnLine
  <2>2. /\ DomainOK(t) /\ IsOpen(t) /\ MetaName \in DOMAIN t.db.tables
        /\ IsOpen(s) => /\ t.db.ref_count = s.db.ref_count + 1 /\ t.db.gen = s.db.gen
                        /\ t.db.tables = s.db.tables
        /\ ~IsOpen(s) => t.db.ref_count = 1
    <3>1. IsOpen(s) => MetaName \in DOMAIN s.db.tables
      BY <1>2 DEF Pointers, MetaRegistered
    <3>2. /\ DomainOK(t)
          /\ IsOpen(s) => /\ t.db.ref_count = s.db.ref_count + 1 /\ t.db.gen = s.db.gen
                          /\ t.db.tables = s.db.tables
          /\ ~IsOpen(s) => t.db.ref_count = 1 /\ MetaName \in DOMAIN t.db.tables
      <4>. HIDE DEF s, t
      <4>. QED
        BY <2>1, FindEffect
    <3>3. s.db.ref_count \in Nat
      BY <2>1 DEF DomainOK
    <3>. QED
      BY <3>1, <3>2, <3>3 DEF IsOpen
  <2>3. /\ DOMAIN store' = Domains /\ DOMAIN handler' = Conns
        /\ \A e \in Domains \ {d} : store'[e] = store[e]
        /\ \A e \in Conns \ {c} : handler'[e] = handler[e]
    BY <1>1, <1>2, <1>4, OnLine
  <2>4. /\ HandlerOK(handler'[c]) /\ handler'[c].database = d /\ handler'[c].gen = t.db.gen
        /\ handler'[c].tables = handler[c].tables
    BY <1>1, <1>2, <1>4, OnLine, ServerAssumption DEF HandlerOK
  <2>. HIDE DEF s, t
  <2>5. Shapes'
    <3>1. (\A e \in Conns : HandlerOK(handler[e]))' /\ (\A e \in Domains : DomainOK(store[e]))'
      BY <1>1, <2>2, <2>3, <2>4 DEF Pointers, Shapes, t
    <3>. QED
      BY <1>1, <2>3, <3>1, OnLine DEF Shapes
  <2>6. ASSUME NEW e \in Domains
        PROVE  Users(e)' \subseteq Users(e) \cup {c} /\ (e # d => Users(e)' \subseteq Users(e))
    <3>1. ASSUME NEW x \in Users(e)', x # c PROVE x \in Users(e)
      BY <2>3, <3>1 DEF Users
    <3>2. ASSUME c \in Users(e)', e # d PROVE c \in Users(e)
      BY <2>4, <3>2 DEF Users
    <3>. QED
      BY <3>1, <3>2
  <2>7. Counted'
    <3>. SUFFICES ASSUME NEW e \in Domains
                  PROVE  Cardinality(Users(e)') <= store'[e].db.ref_count
      BY DEF Counted
    <3>1. Users(e)' \in SUBSET Conns /\ IsFiniteSet(Conns)
      BY ServerAssumption DEF Users
    <3>2. /\ IsFiniteSet(Users(e)) /\ Cardinality(Users(e)) \in Nat
          /\ Cardinality(Users(e)') \in Nat /\ Cardinality(Users(e)) <= store[e].db.ref_count
      BY <3>1, UsersFinite, FS_Subset, FS_CardinalityType DEF Pointers, Counted
    <3>3. CASE e # d
      <4>1. Cardinality(Users(e)') <= Cardinality(Users(e))
        BY <2>6, <3>2, <3>3, FS_Subset
      <4>2. store'[e] = store[e] /\ store[e].db.ref_count \in Nat
        BY <2>3, <3>3 DEF Pointers, Shapes, DomainOK
      <4>. QED
        BY <3>2, <4>1, <4>2
    <3>4. CASE e = d
      <4>1. /\ IsFiniteSet(Users(e) \cup {c})
            /\ Cardinality(Users(e) \cup {c}) <= Cardinality(Users(e)) + 1
        <5>. DEFINE U == Users(e)
        <5>. HIDE DEF U
        <5>1. IsFiniteSet(U) /\ Cardinality(U) \in Nat
          BY <3>2 DEF U
        <5>2. /\ IsFiniteSet(U \cup {c})
              /\ Cardinality(U \cup {c}) = Cardinality(U)
                 \/ Cardinality(U \cup {c}) = Cardinality(U) + 1
          BY <5>1, FS_AddElement
        <5>. QED
          BY <5>1, <5>2 DEF U
      <4>2. /\ Cardinality(Users(e)') <= Cardinality(Users(e) \cup {c})
            /\ Cardinality(Users(e) \cup {c}) \in Nat
        BY <2>6, <4>1, FS_Subset, FS_CardinalityType
      <4>3. s.db.ref_count \in Nat /\ t.db.ref_count = s.db.ref_count + 1
        BY <2>1, <2>2 DEF IsOpen, DomainOK
      <4>. QED
        BY <3>2, <3>4, <4>1, <4>2, <4>3 DEF s, t
    <3>. QED
      BY <3>3, <3>4
  <2>8. MetaRegistered'
    BY <2>2, <2>3 DEF Pointers, MetaRegistered, IsOpen, t
  <2>9. ASSUME NEW e \in Domains, NEW gen, PointsTo(e, gen)
        PROVE  PointsTo(e, gen)' /\ store'[e].db.tables = store[e].db.tables
    BY <2>2, <2>3, <2>9 DEF PointsTo, s, t
  <2>10. NoDanglingPointers'
    <3>. SUFFICES ASSUME NEW x \in Conns
                  PROVE  /\ handler'[x].database # NoDb =>
                              PointsTo(handler[x].database, handler[x].gen)'
                         /\ \A i \in DOMAIN handler'[x].tables :
                              LET p == handler'[x].tables[i]
                              IN  /\ IsOpen(store'[p.domain]) /\ store'[p.domain].db.gen = p.gen
                                  /\ p.name \in DOMAIN store'[p.domain].db.tables
      BY DEF NoDanglingPointers, PointsTo
    <3>1. /\ handler[x].database # NoDb =>
               handler[x].database \in Domains /\ PointsTo(handler[x].database, handler[x].gen)
          /\ \A i \in DOMAIN handler[x].tables :
               LET p == handler[x].tables[i]
               IN  /\ p.domain \in Domains /\ PointsTo(p.domain, p.gen)
                   /\ p.name \in DOMAIN store[p.domain].db.tables
      BY DEF Pointers, NoDanglingPointers, Shapes, HandlerOK
    <3>2. handler'[x].tables = handler[x].tables
      BY <2>3, <2>4
    <3>3. handler'[x].database # NoDb => PointsTo(handler[x].database, handler[x].gen)'
      <4>1. CASE x = c
        BY <2>2, <2>4, <4>1 DEF PointsTo, t
      <4>2. CASE x # c
        BY <2>3, <2>9, <3>1, <4>2 DEF PointsTo
      <4>. QED
        BY <4>1, <4>2
    <3>4. ASSUME NEW i \in DOMAIN handler[x].tables
          PROVE  LET p == handler[x].tables[i]
                 IN  /\ IsOpen(store'[p.domain]) /\ store'[p.domain].db.gen = p.gen
                     /\ p.name \in DOMAIN store'[p.domain].db.tables
      BY <2>9, <3>1 DEF PointsTo
    <3>. QED
      BY <3>2, <3>3, <3>4
  <2>. QED
    BY <2>5, <2>7, <2>8, <2>10 DEF Pointers
<1>. QED
  BY <1>3, <1>4 DEF MetaDomain, d

\* Pointers that a handler has, or could take from its database.
OwnTables(c, tables) ==
  \A i \in DOMAIN tables :
    \/ \E j \in DOMAIN handler[c].tables : tables[i] = handler[c].tables[j]
    \/ /\ handler[c].database # NoDb /\ tables[i].domain = handler[c].database
       /\ tables[i].gen = handler[c].gen
       /\ tables[i].name \in DOMAIN store[handler[c].database].db.tables

\* Stream 0 is found in the database of the handler, which is open: a stream
\* has been declared, and that needs a database.
LEMMA Stream0Own ==
  ASSUME Pointers, NEW c \in Conns, handler[c].state # "C_PROTOCOL_ERROR"
  PROVE  OwnTables(c, WithStream0(c))
<1>1. CASE ~InBounds(c, 0)
  BY <1>1 DEF WithStream0, OwnTables
<1>2. CASE InBounds(c, 0)
  <2>. DEFINE d == handler[c].database  w == WithStream0(c)
  <2>1. d \in Domains /\ d # NoDb
    BY <1>2, ServerAssumption DEF InBounds, Pointers, Shapes, HandlerOK
  <2>2. MetaName \in DOMAIN store[d].db.tables
    BY <2>1 DEF Pointers, NoDanglingPointers, PointsTo, MetaRegistered
  <2>3. w = Added(handler[c].tables, 0, Stream0(c))
    BY <1>2 DEF WithStream0
  <2>4. /\ DOMAIN w = DOMAIN handler[c].tables \cup {0}
        /\ \A i \in DOMAIN handler[c].tables : w[i] = handler[c].tables[i]
        /\ 0 \notin DOMAIN handler[c].tables =>
             w[0] = [domain |-> d, gen |-> handler[c].gen, name |-> MetaName]
    BY <2>3 DEF Added, Stream0
  <2>. HIDE DEF d, w
  <2>5. ASSUME NEW i \in DOMAIN w
        PROVE  \/ \E j \in DOMAIN handler[c].tables : w[i] = handler[c].tables[j]
               \/ /\ w[i].domain = d /\ w[i].gen = handler[c].gen
                  /\ w[i].name \in DOMAIN store[d].db.tables
    <3>1. CASE i \in DOMAIN handler[c].tables
      BY <2>4, <3>1
    <3>2. CASE i \notin DOMAIN handler[c].tables
      <4>1. i = 0 /\ w[i] = [domain |-> d, gen |-> handler[c].gen, name |-> MetaName]
        BY <2>4, <3>2
      <4>. QED
        BY <2>2, <4>1
    <3>. QED
      BY <3>1, <3>2
  <2>. QED
    BY <2>1, <2>5 DEF OwnTables, d, w
<1>. QED
  BY <1>1, <1>2

\* A handler whose tables become tables of its own.
LEMMA OwnTablesKept ==
  ASSUME Pointers, NEW c \in Conns, NEW tables, OwnTables(c, tables),
         \A d \in Domains : Keeps(store[d], store'[d]),
         handler[c].state # "C_PROTOCOL_ERROR",
         handler' = [handler EXCEPT ![c].tables = tables]
  PROVE  OwnPointers(c) /\ HandlerOK(handler'[c])
<1>1. HandlerOK(handler[c]) /\ DOMAIN handler = Conns
  BY DEF Pointers, Shapes
<1>2. handler'[c] = [handler[c] EXCEPT !.tables = tables]
  BY <1>1
<1>3. /\ handler'[c].tables = tables /\ handler'[c].database = handler[c].database
      /\ handler'[c].gen = handler[c].gen
  BY <1>1, <1>2 DEF HandlerOK
<1>4. handler[c].database # NoDb => handler[c].database \in Domains
  BY <1>1 DEF HandlerOK
<1>5. OwnPointers(c)
  BY <1>3, <1>4 DEF OwnTables, OwnPointers, Keeps
<1>6. \A i \in DOMAIN tables : tables[i].domain \in Domains
  BY <1>1, <1>4 DEF OwnTables, HandlerOK
<1>7. DOMAIN tables # {} => handler[c].database # NoDb
  BY <1>1 DEF OwnTables, HandlerOK
<1>8. HandlerOK(handler'[c])
  BY <1>1, <1>2, <1>6, <1>7 DEF HandlerOK
<1>. QED
  BY <1>5, <1>8

LEMMA SchemaPointers ==
  ASSUME Pointers, NEW c \in Conns, NEW states, In(c, states), Taken(c),
         "C_PROTOCOL_ERROR" \notin states,
         NEW line, NEW tables, OwnTables(c, tables), process_schema(c, line, tables)
  PROVE  Pointers'
<1>1. CASE UNCHANGED store /\ Fatal(c)
  BY <1>1, FatalPointers
<1>2. ASSUME NEW d, d = handler[c].database, d # NoDb, NEW n,
             handler' = [handler EXCEPT ![c].tables =
               Bound(tables, line.index, [domain |-> d, gen |-> handler[c].gen, name |-> n])],
             store' = IF n \in DOMAIN store[d].db.tables THEN store
                      ELSE [store EXCEPT ![d] = TableCreated(@, n, line.fields)]
      PROVE  Pointers'
  <2>. DEFINE new == [domain |-> d, gen |-> handler[c].gen, name |-> n]
              b == Bound(tables, line.index, new)
  <2>1. d \in Domains /\ HandlerOK(handler[c]) /\ handler[c].state # "C_PROTOCOL_ERROR"
    BY <1>2, OnLine DEF HandlerOK
  <2>2. (\A e \in Domains : Keeps(store[e], store'[e])) /\ n \in DOMAIN store'[d].db.tables
    BY <1>2, <2>1, OnLine, TableEffect
  <2>3. /\ DOMAIN handler' = Conns /\ DOMAIN store' = Domains
        /\ \A e \in Conns \ {c} : handler'[e] = handler[e]
    BY <1>2, OnLine
  <2>4. DOMAIN b = DOMAIN tables \cup {line.index}
        /\ \A j \in DOMAIN b : b[j] = new \/ (j \in DOMAIN tables /\ b[j] = tables[j])
    BY DEF Bound
  <2>5. new.domain = d /\ new.gen = handler[c].gen /\ new.name = n
    OBVIOUS
  <2>6. handler'[c] = [handler[c] EXCEPT !.tables = b]
    BY <1>2, OnLine
  <2>. HIDE DEF new, b
  <2>7. /\ handler'[c].tables = b /\ handler'[c].database = d
        /\ handler'[c].gen = handler[c].gen
    BY <1>2, <2>1, <2>6 DEF HandlerOK
  <2>8. OwnPointers(c)
    <3>1. ASSUME NEW j \in DOMAIN b
          PROVE  \/ \E k \in DOMAIN handler[c].tables : b[j] = handler[c].tables[k]
                 \/ /\ b[j].domain = d /\ b[j].gen = handler[c].gen
                    /\ b[j].name \in DOMAIN store'[d].db.tables
      BY <1>2, <2>1, <2>2, <2>4, <2>5 DEF OwnTables, Keeps
    <3>. QED
      BY <1>2, <2>7, <3>1 DEF OwnPointers
  <2>9. HandlerOK(handler'[c])
    <3>1. \A j \in DOMAIN b : b[j].domain \in Domains
      BY <1>2, <2>1, <2>4, <2>5 DEF OwnTables, HandlerOK
    <3>. QED
      BY <1>2, <2>1, <2>6, <3>1 DEF HandlerOK
  <2>. QED
    BY <2>2, <2>3, <2>8, <2>9, OnLine, OneHandler
<1>3. Unusable(handler[c].database, line) \/ handler[c].database # NoDb
  BY DEF Unusable
<1>. QED
  BY <1>1, <1>2, <1>3 DEF process_schema, Unusable

LEMMA MetaSchemaPointers ==
  ASSUME Pointers, NEW c \in Conns, MetaSchema(c) PROVE Pointers'
<1>1. In(c, {"C_HEADER"}) /\ Taken(c) /\ process_schema(c, Line(c), handler[c].tables)
  BY DEF MetaSchema, Header
<1>2. OwnTables(c, handler[c].tables)
  BY DEF OwnTables
<1>. QED
  BY <1>1, <1>2, SchemaPointers

LEMMA MetadataSchemaPointers ==
  ASSUME Pointers, NEW c \in Conns, MetadataSchema(c) PROVE Pointers'
<1>1. /\ In(c, {"C_TEXT_DATA", "C_BINARY_DATA"}) /\ Taken(c)
      /\ process_schema(c, Line(c).line, WithStream0(c))
  BY DEF MetadataSchema, Data
<1>2. OwnTables(c, WithStream0(c))
  BY <1>1, OnSample, Stream0Own
<1>. QED
  BY <1>1, <1>2, SchemaPointers

\* The insertion changes files only.
LEMMA InsertKeeps ==
  ASSUME Pointers, NEW c \in Conns, handler[c].database \in Domains,
         NEW p, p.domain \in Domains, NEW row, sq3_insert(c, p, row)
  PROVE  DOMAIN store' = Domains /\ \A d \in Domains : Keeps(store[d], store'[d])
<1>1. DOMAIN store = Domains /\ \A d \in Domains : DomainOK(store[d]) /\ Keeps(store[d], store[d])
  BY KeepsItself DEF Pointers, Shapes
<1>2. PICK s \in {store, Reopened(handler[c].database)} :
        store' = [s EXCEPT ![p.domain] = Inserted(@, row)] \/ store' = s
  BY DEF sq3_insert
<1>3. DOMAIN s = Domains /\ \A d \in Domains : Keeps(store[d], s[d])
  BY <1>1, <1>2, CommitEffect DEF Reopened
<1>4. \A d \in Domains : DomainOK(s[d])
  BY <1>3 DEF Keeps
<1>5. CASE store' = s
  BY <1>3, <1>5
<1>6. CASE store' = [s EXCEPT ![p.domain] = Inserted(@, row)]
  <2>1. DOMAIN store' = Domains /\ \A d \in Domains : Keeps(s[d], store'[d])
    <3>1. Keeps(s[p.domain], Inserted(s[p.domain], row))
      BY <1>4, InsertEffect
    <3>2. \A d \in Domains : Keeps(s[d], s[d])
      BY <1>4 DEF Keeps
    <3>. QED
      BY <1>3, <1>6, <3>1, <3>2
  <2>. QED
    BY <1>3, <2>1 DEF Keeps
<1>. QED
  BY <1>2, <1>5, <1>6

LEMMA RowInsertedPointers ==
  ASSUME Pointers, NEW c \in Conns, RowInserted(c) PROVE Pointers'
<1>. DEFINE p == handler[c].tables[Line(c).index]
<1>1. /\ In(c, {"C_TEXT_DATA", "C_BINARY_DATA"}) /\ Taken(c) /\ UNCHANGED handler
      /\ Line(c).index \in DOMAIN handler[c].tables
      /\ sq3_insert(c, p, StoredRow(c, Line(c), p))
  BY DEF RowInserted, Data, Accepted
<1>2. /\ HandlerOK(handler[c]) /\ handler[c].state # "C_PROTOCOL_ERROR"
      /\ DOMAIN handler' = Conns
  BY <1>1, OnSample
<1>3. p.domain \in Domains /\ handler[c].database \in Domains
  BY <1>1, <1>2 DEF HandlerOK
<1>4. DOMAIN store' = Domains /\ \A d \in Domains : Keeps(store[d], store'[d])
  BY <1>1, <1>3, InsertKeeps
<1>5. OwnPointers(c)
  BY <1>1 DEF OwnPointers
<1>. QED
  BY <1>1, <1>2, <1>4, <1>5, OnSample, OneHandler

LEMMA MetadataStoredPointers ==
  ASSUME Pointers, NEW c \in Conns, MetadataStored(c) PROVE Pointers'
<1>1. /\ In(c, {"C_TEXT_DATA", "C_BINARY_DATA"}) /\ Taken(c) /\ InBounds(c, 0)
      /\ handler' = [handler EXCEPT ![c].tables = WithStream0(c)]
      /\ sq3_insert(c, Stream0(c), StoredRow(c, Line(c), Stream0(c)))
  BY DEF MetadataStored, Data
<1>2. /\ HandlerOK(handler[c]) /\ handler[c].state # "C_PROTOCOL_ERROR"
      /\ DOMAIN handler' = Conns /\ \A e \in Conns \ {c} : handler'[e] = handler[e]
  BY <1>1, OnSample
<1>3. Stream0(c).domain \in Domains /\ handler[c].database \in Domains
  BY <1>1, <1>2 DEF HandlerOK, InBounds, Stream0
<1>4. DOMAIN store' = Domains /\ \A d \in Domains : Keeps(store[d], store'[d])
  BY <1>1, <1>3, InsertKeeps
<1>5. OwnPointers(c) /\ HandlerOK(handler'[c])
  BY <1>1, <1>2, <1>4, Stream0Own, OwnTablesKept
<1>. QED
  BY <1>1, <1>2, <1>4, <1>5, OnSample, OneHandler

LEMMA MetadataIgnoredPointers ==
  ASSUME Pointers, NEW c \in Conns, MetadataIgnored(c) PROVE Pointers'
<1>1. /\ In(c, {"C_TEXT_DATA", "C_BINARY_DATA"}) /\ Taken(c) /\ UNCHANGED store
      /\ handler' = [handler EXCEPT ![c].tables = WithStream0(c)]
  BY DEF MetadataIgnored, Data
<1>2. /\ handler[c].state # "C_PROTOCOL_ERROR" /\ DOMAIN store' = Domains
      /\ DOMAIN handler' = Conns /\ \A e \in Conns \ {c} : handler'[e] = handler[e]
      /\ \A d \in Domains : Keeps(store[d], store'[d])
  BY <1>1, OnSample
<1>3. OwnPointers(c) /\ HandlerOK(handler'[c])
  BY <1>1, <1>2, Stream0Own, OwnTablesKept
<1>. QED
  BY <1>1, <1>2, <1>3, OnSample, OneHandler

-----------------------------------------------------------------------------
(* Peers, and the ends of connections and of the process.                  *)

\* A step that leaves handlers and databases alone.
LEMMA OnlyInput ==
  ASSUME Pointers, UNCHANGED <<handler, store>>,
         buf' \in [Conns -> Seq(Lines)], net' \in [Conns -> Seq(Lines)]
  PROVE  Pointers'
<1>1. Shapes'
  BY DEF Pointers, Shapes, HandlerOK
<1>2. \A c \in Conns : OwnPointers(c)
  BY DEF OwnPointers
<1>3. \A d \in Domains : Keeps(store[d], store'[d])
  BY KeepsItself DEF Pointers
<1>. QED
  BY <1>1, <1>2, <1>3, PointersKept

LEMMA NewHandlerOK == HandlerOK(NewHandler) /\ HandlerOK(FreeHandler)
  BY DEF HandlerOK, NewHandler, FreeHandler, States, Contents

LEMMA ConnectPointers ==
  ASSUME Pointers, NEW c \in Conns, Connect(c) PROVE Pointers'
<1>1. DOMAIN handler = Conns /\ buf \in [Conns -> Seq(Lines)] /\ net \in [Conns -> Seq(Lines)]
  BY DEF Pointers, Shapes
<1>2. buf' \in [Conns -> Seq(Lines)]
  BY <1>1 DEF Connect
<1>3. net' \in [Conns -> Seq(Lines)]
  BY <1>1, ScriptsAssumption DEF Connect
<1>4. /\ DOMAIN handler' = Conns /\ handler'[c] = NewHandler /\ store' = store
      /\ \A e \in Conns \ {c} : handler'[e] = handler[e]
  BY <1>1 DEF Connect
<1>5. OwnPointers(c)
  BY <1>4 DEF OwnPointers, NewHandler
<1>6. DOMAIN store' = Domains /\ \A d \in Domains : Keeps(store[d], store'[d])
  BY <1>4, KeepsItself DEF Pointers, Shapes
<1>. QED
  BY <1>2, <1>3, <1>4, <1>5, <1>6, NewHandlerOK, OneHandler

LEMMA InputPointers ==
  ASSUME Pointers, NEW c \in Conns,
         PeerCloses(c) \/ Recv(c) \/ CallbackEnds(c) \/ SocketFails(c)
  PROVE  Pointers'
<1>1. buf \in [Conns -> Seq(Lines)] /\ net \in [Conns -> Seq(Lines)]
  BY DEF Pointers, Shapes
<1>2. UNCHANGED <<handler, store>>
  BY DEF PeerCloses, Recv, CallbackEnds, SocketFails
<1>3. CASE Recv(c)
  <2>1. PICK n \in 0 .. MaxRecv :
          /\ n <= Len(net[c])
          /\ buf' = [buf EXCEPT ![c] = @ \o SubSeq(net[c], 1, n)]
          /\ net' = [net EXCEPT ![c] = SubSeq(@, n + 1, Len(@))]
    BY <1>3 DEF Recv
  <2>2. n \in Nat /\ net[c] \in Seq(Lines) /\ buf[c] \in Seq(Lines)
    BY <1>1, <2>1, ServerAssumption
  <2>3. SubSeq(net[c], 1, n) \in Seq(Lines)
    BY <2>1, <2>2, SubSeqProperties
  <2>4. SubSeq(net[c], n + 1, Len(net[c])) \in Seq(Lines)
    <3>1. \A i \in n + 1 .. Len(net[c]) : net[c][i] \in Lines
      BY <2>2, ElementOfSeq
    <3>. QED
      BY <2>2, <3>1, SubSeqProperties
  <2>5. buf[c] \o SubSeq(net[c], 1, n) \in Seq(Lines)
    BY <2>2, <2>3, ConcatProperties
  <2>6. buf' \in [Conns -> Seq(Lines)] /\ net' \in [Conns -> Seq(Lines)]
    BY <1>1, <2>1, <2>4, <2>5
  <2>. QED
    BY <1>2, <2>6, OnlyInput
<1>4. CASE PeerCloses(c) \/ CallbackEnds(c) \/ SocketFails(c)
  <2>1. buf' = buf /\ \/ net' = net
                       \/ \E rest \in {net[c], <<>>} : net' = [net EXCEPT ![c] = rest]
    BY <1>4 DEF PeerCloses, CallbackEnds, SocketFails, Reset
  <2>2. net[c] \in Seq(Lines) /\ <<>> \in Seq(Lines)
    BY <1>1
  <2>3. net' \in [Conns -> Seq(Lines)]
    BY <1>1, <2>1, <2>2
  <2>. QED
    BY <1>1, <1>2, <2>1, <2>3, OnlyInput
<1>. QED
  BY <1>3, <1>4

\* The client that goes was counted, so the database is freed only when no
\* other client has a pointer into it.
LEMMA FreePointers ==
  ASSUME Pointers, NEW c \in Conns, client_handler_free(c) PROVE Pointers'
<1>. DEFINE d == handler[c].database
<1>1. /\ DOMAIN handler' = Conns /\ handler'[c] = FreeHandler
      /\ \A e \in Conns \ {c} : handler'[e] = handler[e]
  BY DEF client_handler_free, Reset, Pointers, Shapes
<1>2. handler'[c].database = NoDb /\ DOMAIN handler'[c].tables = {}
  BY <1>1 DEF FreeHandler, NewHandler
<1>3. buf' \in [Conns -> Seq(Lines)] /\ net' \in [Conns -> Seq(Lines)]
  BY DEF client_handler_free, Reset, Pointers, Shapes
<1>4. CASE d = NoDb
  <2>1. store' = store
    BY <1>4 DEF client_handler_free, ReleaseDatabase
  <2>2. DOMAIN store' = Domains /\ \A e \in Domains : Keeps(store[e], store'[e])
    BY <2>1, KeepsItself DEF Pointers, Shapes
  <2>3. OwnPointers(c)
    BY <1>2 DEF OwnPointers
  <2>. QED
    BY <1>1, <1>3, <2>2, <2>3, NewHandlerOK, OneHandler
<1>5. CASE d # NoDb
  <2>1. d \in Domains /\ c \in Users(d)
    BY <1>5 DEF Pointers, Shapes, HandlerOK, Users
  <2>2. store' = [store EXCEPT ![d] = database_release(@)]
    BY <1>5 DEF client_handler_free, ReleaseDatabase
  <2>. DEFINE s == store[d]  t == store'[d]
  <2>3. /\ DOMAIN store' = Domains /\ t = database_release(s) /\ DomainOK(s)
        /\ \A e \in Domains \ {d} : store'[e] = store[e]
    BY <2>1, <2>2 DEF Pointers, Shapes
  <2>. HIDE DEF d, s, t
  <2>4. /\ DomainOK(t)
        /\ s.db.ref_count > 1 => /\ t.db.ref_count = s.db.ref_count - 1
                                 /\ t.db.gen = s.db.gen /\ t.db.tables = s.db.tables
        /\ ~(s.db.ref_count > 1) => t.db.ref_count = 0
    BY <2>3, ReleaseEffect, ClosedFields
  <2>5. Shapes'
    <3>1. (\A e \in Conns : HandlerOK(handler[e]))'
      BY <1>1, NewHandlerOK DEF Pointers, Shapes
    <3>2. (\A e \in Domains : DomainOK(store[e]))'
      BY <2>3, <2>4 DEF Pointers, Shapes, t
    <3>. QED
      BY <1>1, <1>3, <2>3, <3>1, <3>2 DEF Shapes
  <2>6. ASSUME NEW e \in Domains
        PROVE  Users(e)' \subseteq Users(e) \ {c}
    <3>1. c \notin Users(e)'
      BY <1>2, ServerAssumption DEF Users
    <3>2. ASSUME NEW x \in Users(e)', x # c PROVE x \in Users(e)
      BY <1>1, <3>2 DEF Users
    <3>. QED
      BY <3>1, <3>2
  <2>7. ASSUME NEW e \in Domains
        PROVE  /\ IsFiniteSet(Users(e)') /\ Cardinality(Users(e)') \in Nat
               /\ Cardinality(Users(e)') <= Cardinality(Users(e))
               /\ e = d => Cardinality(Users(e)') <= Cardinality(Users(e)) - 1
    <3>1. /\ Users(e)' \in SUBSET Conns /\ IsFiniteSet(Conns) /\ IsFiniteSet(Users(e))
          /\ Cardinality(Users(e)) \in Nat
      BY UsersFinite, ServerAssumption DEF Users
    <3>2. IsFiniteSet(Users(e)') /\ Cardinality(Users(e)') \in Nat
      BY <3>1, FS_Subset, FS_CardinalityType
    <3>3. Cardinality(Users(e)') <= Cardinality(Users(e))
      BY <2>6, <3>1, FS_Subset
    <3>4. e = d => Cardinality(Users(e)') <= Cardinality(Users(e)) - 1
      <4>. DEFINE U == Users(e)
      <4>. HIDE DEF U
      <4>. HAVE e = d
      <4>1. IsFiniteSet(U) /\ c \in U
        BY <2>1, <3>1 DEF U
      <4>2. IsFiniteSet(U \ {c}) /\ Cardinality(U \ {c}) = Cardinality(U) - 1
        BY <4>1, FS_RemoveElement
      <4>3. Users(e)' \subseteq U \ {c}
        BY <2>6 DEF U
      <4>4. Cardinality(Users(e)') <= Cardinality(U \ {c})
        BY <4>2, <4>3, FS_Subset
      <4>. QED
        BY <4>2, <4>4 DEF U
    <3>. QED
      BY <3>2, <3>3, <3>4
  <2>8. Counted'
    <3>. SUFFICES ASSUME NEW e \in Domains
                  PROVE  Cardinality(Users(e)') <= store'[e].db.ref_count
      BY DEF Counted
    <3>1. /\ Cardinality(Users(e)) <= store[e].db.ref_count
          /\ Cardinality(Users(e)) \in Nat /\ store[e].db.ref_count \in Nat
      BY UsersFinite DEF Pointers, Counted, Shapes, DomainOK
    <3>2. CASE e # d
      BY <2>3, <2>7, <3>1, <3>2
    <3>3. CASE e = d
      BY <2>4, <2>7, <3>1, <3>3 DEF s, t
    <3>. QED
      BY <3>2, <3>3
  <2>9. MetaRegistered'
    <3>. SUFFICES ASSUME NEW e \in Domains, IsOpen(store'[e])
                  PROVE  MetaName \in DOMAIN store'[e].db.tables
      BY DEF MetaRegistered
    <3>1. CASE e # d
      BY <2>3, <3>1 DEF Pointers, MetaRegistered
    <3>2. CASE e = d
      <4>1. s.db.ref_count > 1 /\ t.db.tables = s.db.tables /\ s.db.ref_count \in Nat
        BY <2>3, <2>4, <3>2 DEF IsOpen, t, DomainOK
      <4>. QED
        BY <2>1, <3>2, <4>1 DEF Pointers, MetaRegistered, IsOpen, s, t
    <3>. QED
      BY <3>1, <3>2
  <2>10. ASSUME NEW x \in Conns, NEW e \in Domains, x \in Users(e)', NEW gen, PointsTo(e, gen)
         PROVE  PointsTo(e, gen)' /\ store'[e].db.tables = store[e].db.tables
    <3>1. IsOpen(store'[e])
      <4>1. Shapes' /\ Counted'
        BY <2>5, <2>8
      <4>2. Cardinality(Users(e)') # 0
        BY <2>7, <2>10, FS_EmptySet
      <4>. QED
        BY <2>7, <4>1, <4>2 DEF Counted, Shapes, DomainOK, IsOpen
    <3>2. CASE e # d
      BY <2>3, <2>10, <3>2 DEF PointsTo
    <3>3. CASE e = d
      <4>1. s.db.ref_count > 1
        BY <2>4, <3>1, <3>3 DEF IsOpen, t
      <4>. QED
        BY <2>4, <2>10, <3>1, <3>3, <4>1 DEF PointsTo, s, t
    <3>. QED
      BY <3>2, <3>3
  <2>11. NoDanglingPointers'
    <3>. SUFFICES ASSUME NEW x \in Conns
                  PROVE  /\ handler'[x].database # NoDb =>
                              PointsTo(handler[x].database, handler[x].gen)'
                         /\ \A i \in DOMAIN handler'[x].tables :
                              LET p == handler'[x].tables[i]
                              IN  /\ IsOpen(store'[p.domain]) /\ store'[p.domain].db.gen = p.gen
                                  /\ p.name \in DOMAIN store'[p.domain].db.tables
      BY DEF NoDanglingPointers, PointsTo
    <3>1. CASE x = c
      BY <1>2, <3>1
    <3>2. CASE x # c
      <4>1. handler'[x] = handler[x]
        BY <1>1, <3>2
      <4>2. /\ handler[x].database # NoDb =>
                 handler[x].database \in Domains /\ PointsTo(handler[x].database, handler[x].gen)
            /\ \A i \in DOMAIN handler[x].tables :
                 LET p == handler[x].tables[i]
                 IN  /\ p.domain \in Domains /\ PointsTo(p.domain, p.gen)
                     /\ p.name \in DOMAIN store[p.domain].db.tables
        BY DEF Pointers, NoDanglingPointers, Shapes, HandlerOK
      <4>3. handler[x].database # NoDb => x \in Users(handler[x].database)'
        BY <4>1 DEF Users
      <4>4. \A i \in DOMAIN handler[x].tables, e \in Domains :
              e = handler[x].tables[i].domain => x \in Users(e)'
        BY <4>1 DEF Users
      <4>5. handler'[x].database # NoDb => PointsTo(handler[x].database, handler[x].gen)'
        BY <2>10, <4>1, <4>2, <4>3 DEF PointsTo
      <4>6. ASSUME NEW i \in DOMAIN handler[x].tables
            PROVE  LET p == handler[x].tables[i]
                   IN  /\ IsOpen(store'[p.domain]) /\ store'[p.domain].db.gen = p.gen
                       /\ p.name \in DOMAIN store'[p.domain].db.tables
        <5>1. PICK e \in Domains, gen \in {handler[x].tables[i].gen} :
                e = handler[x].tables[i].domain /\ gen = handler[x].tables[i].gen
          BY <4>2
        <5>2. /\ PointsTo(e, gen) /\ x \in Users(e)'
              /\ handler[x].tables[i].name \in DOMAIN store[e].db.tables
          BY <4>2, <4>4, <5>1
        <5>3. PointsTo(e, gen)' /\ store'[e].db.tables = store[e].db.tables
          BY <2>10, <5>2
        <5>. QED
          BY <5>1, <5>2, <5>3 DEF PointsTo
      <4>. QED
        BY <4>1, <4>5, <4>6
    <3>. QED
      BY <3>1, <3>2
  <2>. QED
    BY <2>5, <2>8, <2>9, <2>11 DEF Pointers
<1>. QED
  BY <1>4, <1>5

\* The process takes its pointers with it.
LEMMA EndPointers ==
  ASSUME Pointers, ProcessEnds PROVE Pointers'
<1>1. /\ DOMAIN handler' = Conns /\ \A c \in Conns : handler'[c] = FreeHandler
      /\ buf' \in [Conns -> Seq(Lines)] /\ net' \in [Conns -> Seq(Lines)]
      /\ DOMAIN store' = Domains /\ \A d \in Domains : store'[d] = RolledBack(store[d])
  BY DEF ProcessEnds
<1>2. \A d \in Domains : DomainOK(store'[d]) /\ store'[d].db.ref_count = 0
  <2>1. \A d \in Domains : DomainOK(store[d])
    BY DEF Pointers, Shapes
  <2>. QED
    BY <1>1, <2>1, RollbackEffect, ClosedFields
<1>3. Shapes'
  <2>1. (\A e \in Conns : HandlerOK(handler[e]))' /\ (\A e \in Domains : DomainOK(store[e]))'
    BY <1>1, <1>2, NewHandlerOK
  <2>. QED
    BY <1>1, <2>1 DEF Shapes
<1>4. \A c \in Conns : handler'[c].database = NoDb /\ DOMAIN handler'[c].tables = {}
  BY <1>1 DEF FreeHandler, NewHandler
<1>5. ASSUME NEW d \in Domains PROVE Cardinality(Users(d)') <= store'[d].db.ref_count
  <2>1. Users(d)' = {}
    BY <1>4, ServerAssumption DEF Users
  <2>2. Cardinality(Users(d)') = 0
    BY <2>1, FS_EmptySet
  <2>. QED
    BY <1>2, <2>2
<1>6. Counted'
  BY <1>5 DEF Counted
<1>7. MetaRegistered'
  BY <1>2 DEF MetaRegistered, IsOpen
<1>8. NoDanglingPointers'
  BY <1>4 DEF NoDanglingPointers
<1>. QED
  BY <1>3, <1>6, <1>7, <1>8 DEF Pointers

-----------------------------------------------------------------------------
LEMMA InitPointers == Init => Pointers
<1>. SUFFICES ASSUME Init PROVE Pointers
  OBVIOUS
<1>1. \A c \in Conns : handler[c] = FreeHandler
  BY DEF Init
<1>2. \A d \in Domains : store[d] = NewDomain
  BY DEF Init
<1>3. DomainOK(NewDomain) /\ NewDomain.db.ref_count = 0
  BY DEF DomainOK, NewDomain, Closed, EmptyFile, FileFields
<1>4. Shapes
  BY <1>1, <1>2, <1>3, NewHandlerOK DEF Init, Shapes
<1>5. \A c \in Conns : handler[c].database = NoDb /\ DOMAIN handler[c].tables = {}
  BY <1>1 DEF FreeHandler, NewHandler
<1>6. ASSUME NEW d \in Domains PROVE Cardinality(Users(d)) <= store[d].db.ref_count
  <2>1. Users(d) = {}
    BY <1>5, ServerAssumption DEF Users
  <2>2. Cardinality(Users(d)) = 0
    BY <2>1, FS_EmptySet
  <2>. QED
    BY <1>2, <1>3, <2>2
<1>7. MetaRegistered
  BY <1>2, <1>3 DEF MetaRegistered, IsOpen
<1>8. NoDanglingPointers
  BY <1>5 DEF NoDanglingPointers
<1>. QED
  BY <1>4, <1>6, <1>7, <1>8 DEF Pointers, Counted

LEMMA NextPointers == Pointers /\ [Next]_vars => Pointers'
<1>. SUFFICES ASSUME Pointers, [Next]_vars PROVE Pointers'
  OBVIOUS
<1>0. buf \in [Conns -> Seq(Lines)] /\ net \in [Conns -> Seq(Lines)]
  BY DEF Pointers, Shapes
<1>1. CASE UNCHANGED vars
  BY <1>0, <1>1, OnlyInput DEF vars
<1>2. ASSUME NEW c \in Conns, Meta(c) PROVE Pointers'
  BY <1>2, MetaProtocolPointers, MetaDomainPointers, MetaStartTimePointers,
     MetaSenderIdPointers, MetaContentPointers, SkippedPointers, MetaMalformedPointers,
     MetaSchemaPointers, HeaderDonePointers DEF Meta
<1>3. ASSUME NEW c \in Conns, Sample(c) PROVE Pointers'
  BY <1>3, RowInsertedPointers, SkippedPointers, MetadataSchemaPointers,
     MetadataStoredPointers, MetadataIgnoredPointers DEF Sample
<1>4. ASSUME NEW c \in Conns, Connect(c) PROVE Pointers'
  BY <1>4, ConnectPointers
<1>5. ASSUME NEW c \in Conns, PeerCloses(c) \/ Recv(c) \/ CallbackEnds(c) \/ SocketFails(c)
      PROVE  Pointers'
  BY <1>5, InputPointers
<1>6. ASSUME NEW c \in Conns, Disconnect(c) \/ PeerClosed(c) \/ Idle(c) PROVE Pointers'
  BY <1>6, FreePointers DEF Disconnect, PeerClosed, Idle
<1>7. CASE Signalled
  <2>1. net' \in [Conns -> Seq(Lines)] /\ buf' = buf /\ UNCHANGED <<handler, store>>
    BY <1>7 DEF Signalled
  <2>. QED
    BY <1>0, <2>1, OnlyInput
<1>8. CASE Exit \/ Killed
  BY <1>8, EndPointers DEF Exit, Killed
<1>9. CASE Restart
  BY <1>0, <1>9, OnlyInput DEF Restart
<1>. QED
  BY <1>1, <1>2, <1>3, <1>4, <1>5, <1>6, <1>7, <1>8, <1>9 DEF Next, Callback

LEMMA PointersInvariant == Spec => []Pointers
  BY InitPointers, NextPointers, PTL DEF Spec

\* Whatever the clients send and in whatever order the callbacks of their
\* connections, failures, signals and restarts happen: no ClientHandler keeps
\* a pointer to a Database that database_release() has freed, or to one of its
\* tables.
THEOREM PointersAreValid == Spec => []NoDanglingPointers
  BY PointersInvariant, PTL DEF Pointers

-----------------------------------------------------------------------------
(* Files.  Every step but the end of the process applies at most one       *)
(* function of Database to a domain; an insertion may commit first.        *)

Changed(s, t) ==
  \/ t = s
  \/ t = database_find(s) \/ t = database_release(s)
  \/ \E n, fields : t = TableCreated(s, n, fields)
  \/ IsOpen(s) /\ \E line \in Lines :
       \/ line.key = "start-time" /\ t = SeedStartTime(s, line.value)
       \/ line.key = "sender-id" /\ t = add_sender_id(s, line.value)
       \/ /\ line.key = "sender-id" /\ line.value \notin DOMAIN s.file.senders
          /\ t = SenderNotStored(s, line.value)
  \/ t = dba_reopen_transaction(s)

Stored(s, t, row) == t = Inserted(s, row) \/ t = Inserted(dba_reopen_transaction(s), row)

\* The tables that a handler can insert into, and the rows that the next
\* line of some handler can become.
Targets(c) == {handler[c].tables[i] : i \in DOMAIN handler[c].tables} \cup {Stream0(c)}

Arrives(d, row) ==
  \E c \in Conns :
    /\ handler[c].state \in {"C_TEXT_DATA", "C_BINARY_DATA"} /\ buf[c] # <<>>
    /\ Line(c).key \in {"row", "meta"} /\ DOMAIN handler[c].tables # {}
    /\ \E p \in Targets(c) : p.domain = d /\ row = StoredRow(c, Line(c), p)

Moved(d) ==
  \/ Changed(store[d], store'[d])
  \/ \E row : Arrives(d, row) /\ Stored(store[d], store'[d], row)

LEMMA InsertMoves ==
  ASSUME Pointers, NEW c \in Conns, NEW p \in Targets(c), NEW row,
         handler[c].state \in {"C_TEXT_DATA", "C_BINARY_DATA"}, buf[c] # <<>>,
         Line(c).key \in {"row", "meta"}, DOMAIN handler[c].tables # {},
         row = StoredRow(c, Line(c), p), sq3_insert(c, p, row)
  PROVE  \A d \in Domains : Moved(d)
<1>1. DOMAIN store = Domains
  BY DEF Pointers, Shapes
<1>2. PICK s \in {store, Reopened(handler[c].database)} :
        store' = [s EXCEPT ![p.domain] = Inserted(@, row)] \/ store' = s
  BY DEF sq3_insert
<1>3. DOMAIN s = Domains /\ \A d \in Domains :
        s[d] = store[d] \/ s[d] = dba_reopen_transaction(store[d])
  BY <1>1, <1>2 DEF Reopened
<1>4. \A d \in Domains : store'[d] = s[d] \/ (d = p.domain /\ store'[d] = Inserted(s[d], row))
  BY <1>2, <1>3
<1>5. Arrives(p.domain, row)
  BY DEF Arrives
<1>. QED
  BY <1>3, <1>4, <1>5 DEF Moved, Changed, Stored

LEMMA SchemaMoves ==
  ASSUME Pointers, NEW c \in Conns, NEW line, NEW tables, process_schema(c, line, tables)
  PROVE  \A d \in Domains : Moved(d)
<1>1. DOMAIN store = Domains
  BY DEF Pointers, Shapes
<1>2. \/ store' = store
      \/ \E d, n, fields : store' = [store EXCEPT ![d] = TableCreated(@, n, fields)]
  BY DEF process_schema
<1>3. \A d \in Domains : \/ store'[d] = store[d]
                         \/ \E n, fields : store'[d] = TableCreated(store[d], n, fields)
  BY <1>1, <1>2
<1>. QED
  BY <1>3 DEF Moved, Changed

\* The database of a handler is open.
LEMMA OwnIsOpen ==
  ASSUME Pointers, NEW c \in Conns, handler[c].database # NoDb
  PROVE  handler[c].database \in Domains /\ IsOpen(store[handler[c].database])
  BY DEF Pointers, Shapes, HandlerOK, NoDanglingPointers, PointsTo

LEMMA MetaMoves ==
  ASSUME Pointers, NEW c \in Conns, Meta(c)
  PROVE  \A d \in Domains : Moved(d)
<1>1. DOMAIN store = Domains
  BY DEF Pointers, Shapes
<1>2. CASE \/ MetaProtocol(c) \/ MetaContent(c) \/ MetaOther(c) \/ MetaMalformed(c)
           \/ HeaderDone(c)
  BY <1>2 DEF Moved, Changed, MetaProtocol, MetaContent, MetaOther, MetaMalformed, HeaderDone
<1>3. CASE MetaDomain(c)
  <2>1. store' = store \/ \E d : store' = [store EXCEPT ![d] = database_find(@)]
    BY <1>3 DEF MetaDomain
  <2>2. \A d \in Domains : store'[d] = store[d] \/ store'[d] = database_find(store[d])
    BY <1>1, <2>1
  <2>. QED
    BY <2>2 DEF Moved, Changed
<1>4. CASE MetaStartTime(c)
  <2>. DEFINE own == handler[c].database
  <2>1. Line(c) \in Lines /\ Line(c).key = "start-time"
    BY <1>4, OnLine DEF MetaStartTime, Header
  <2>2. \/ store' = store
        \/ own # NoDb /\ store' = [store EXCEPT ![own] = SeedStartTime(@, Line(c).value)]
    BY <1>4 DEF MetaStartTime
  <2>3. \A d \in Domains :
          \/ store'[d] = store[d]
          \/ IsOpen(store[d]) /\ store'[d] = SeedStartTime(store[d], Line(c).value)
    BY <1>1, <2>2, OwnIsOpen
  <2>. QED
    BY <2>1, <2>3 DEF Moved, Changed
<1>5. CASE MetaSenderId(c)
  <2>. DEFINE own == handler[c].database
  <2>1. Line(c) \in Lines /\ Line(c).key = "sender-id"
    BY <1>5, OnLine DEF MetaSenderId, Header
  <2>2. \/ store' = store
        \/ own # NoDb /\ store' = [store EXCEPT ![own] = add_sender_id(@, Line(c).value)]
        \/ /\ own # NoDb /\ Line(c).value \notin DOMAIN store[own].file.senders
           /\ store' = [store EXCEPT ![own] = SenderNotStored(@, Line(c).value)]
    BY <1>5 DEF MetaSenderId
  <2>3. \A d \in Domains :
          \/ store'[d] = store[d]
          \/ IsOpen(store[d]) /\ store'[d] = add_sender_id(store[d], Line(c).value)
          \/ /\ IsOpen(store[d]) /\ Line(c).value \notin DOMAIN store[d].file.senders
             /\ store'[d] = SenderNotStored(store[d], Line(c).value)
    BY <1>1, <2>2, OwnIsOpen
  <2>. QED
    BY <2>1, <2>3 DEF Moved, Changed
<1>6. CASE MetaSchema(c)
  BY <1>6, SchemaMoves DEF MetaSchema
<1>. QED
  BY <1>2, <1>3, <1>4, <1>5, <1>6 DEF Meta

LEMMA SampleMoves ==
  ASSUME Pointers, NEW c \in Conns, Sample(c)
  PROVE  \A d \in Domains : Moved(d)
<1>1. CASE RowDropped(c) \/ MetadataIgnored(c) \/ BadLine(c)
  BY <1>1 DEF Moved, Changed, RowDropped, MetadataIgnored, BadLine
<1>2. CASE RowInserted(c)
  <2>1. /\ handler[c].state \in {"C_TEXT_DATA", "C_BINARY_DATA"} /\ buf[c] # <<>>
        /\ Line(c).key = "row" /\ Line(c).index \in DOMAIN handler[c].tables
    BY <1>2 DEF RowInserted, Data, In, Accepted
  <2>2. handler[c].tables[Line(c).index] \in Targets(c)
    BY <2>1 DEF Targets
  <2>. QED
    BY <1>2, <2>1, <2>2, InsertMoves DEF RowInserted
<1>3. CASE MetadataStored(c)
  <2>1. /\ handler[c].state \in {"C_TEXT_DATA", "C_BINARY_DATA"} /\ buf[c] # <<>>
        /\ Line(c).key = "meta" /\ DOMAIN handler[c].tables # {}
    BY <1>3 DEF MetadataStored, Data, In, InBounds
  <2>2. Stream0(c) \in Targets(c)
    BY DEF Targets
  <2>. QED
    BY <1>3, <2>1, <2>2, InsertMoves DEF MetadataStored
<1>4. CASE MetadataSchema(c)
  BY <1>4, SchemaMoves DEF MetadataSchema
<1>. QED
  BY <1>1, <1>2, <1>3, <1>4 DEF Sample

LEMMA Moves ==
  ASSUME Pointers, [Next]_vars, ~ProcessEnds
  PROVE  \A d \in Domains : Moved(d)
<1>1. CASE store' = store
  BY <1>1 DEF Moved, Changed
<1>2. ASSUME NEW c \in Conns, client_handler_free(c)
      PROVE  \A d \in Domains : Moved(d)
  <2>1. DOMAIN store = Domains
    BY DEF Pointers, Shapes
  <2>2. store' = store \/ \E d : store' = [store EXCEPT ![d] = database_release(@)]
    BY <1>2 DEF client_handler_free, ReleaseDatabase
  <2>3. \A d \in Domains : store'[d] = store[d] \/ store'[d] = database_release(store[d])
    BY <2>1, <2>2
  <2>. QED
    BY <2>3 DEF Moved, Changed
<1>3. ASSUME NEW c \in Conns,
             Connect(c) \/ PeerCloses(c) \/ Recv(c) \/ CallbackEnds(c) \/ SocketFails(c)
      PROVE  store' = store
  BY <1>3 DEF Connect, PeerCloses, Recv, CallbackEnds, SocketFails
<1>4. ASSUME NEW c \in Conns, Disconnect(c) \/ PeerClosed(c) \/ Idle(c)
      PROVE  client_handler_free(c)
  BY <1>4 DEF Disconnect, PeerClosed, Idle
<1>5. ASSUME Signalled \/ Restart \/ UNCHANGED vars PROVE store' = store
  BY <1>5 DEF Signalled, Restart, vars
<1>6. ~Exit /\ ~Killed
  BY DEF Exit, Killed
<1>. QED
  BY <1>1, <1>2, <1>3, <1>4, <1>5, <1>6, MetaMoves, SampleMoves DEF Next, Callback

\* What is committed is in the file, and the cached origin of time is right.
Growing(s) == Grown(s.saved, s.file) /\ (IsOpen(s) => s.db.start_time = s.file.start_time)

\* What a function does to the files: the file grows, and may be committed
\* before it does.
LEMMA FileMoves ==
  ASSUME NEW s, DomainOK(s), Growing(s), NEW t, Changed(s, t) \/ \E row : Stored(s, t, row)
  PROVE  Growing(t) /\ Grown(s.file, t.file) /\ t.saved \in {s.saved, s.file}
<1>0. Grown(s.file, s.file) /\ Grown(s.saved, s.saved)
  BY DEF Grown
<1>1. CASE t = s
  BY <1>0, <1>1
<1>2. CASE t = database_find(s)
  <2>1. t.saved = s.saved /\ Grown(s.file, t.file) /\ Grown(s.saved, t.file)
    BY <1>2, FindEffect DEF Grown, Growing
  <2>2. t.db.start_time = t.file.start_time
    BY <1>2, FindEffect DEF Growing, SameData
  <2>. QED
    BY <2>1, <2>2 DEF Growing
<1>3. CASE t = database_release(s)
  <2>1. t.file = s.file /\ t.saved \in {s.saved, s.file}
    BY <1>3, ReleaseEffect DEF SameData
  <2>2. IsOpen(t) => t.db.start_time = t.file.start_time
    <3>1. CASE s.db.ref_count > 1
      BY <1>3, <3>1, ReleaseEffect DEF SameData, Growing, IsOpen, DomainOK
    <3>2. CASE ~(s.db.ref_count > 1)
      BY <1>3, <3>2, ReleaseEffect, ClosedFields DEF IsOpen
    <3>. QED
      BY <3>1, <3>2
  <2>. QED
    BY <1>0, <2>1, <2>2 DEF Growing
<1>5. CASE \E n, fields : t = TableCreated(s, n, fields)
  <2>1. SameData(s, t) /\ Keeps(s, t)
    BY <1>5, TableEffect
  <2>. QED
    BY <2>1 DEF SameData, Keeps, Growing, Grown, IsOpen
<1>6. ASSUME IsOpen(s), NEW time, t = SeedStartTime(s, time) PROVE
         /\ Growing(t) /\ Grown(s.file, t.file) /\ t.saved = s.saved
  <2>1. /\ t.saved = s.saved /\ t.file.rows = s.file.rows /\ t.file.senders = s.file.senders
        /\ t.file.unlisted = s.file.unlisted
        /\ s.db.start_time # 0 => t.file = s.file /\ t.db.start_time = s.db.start_time
        /\ s.db.start_time = 0 => t.file.start_time = time /\ t.db.start_time = time
    BY <1>6, SeedEffect
  <2>2. t.db.start_time = t.file.start_time /\ (s.file.start_time # 0 => t.file = s.file)
    BY <1>6, <2>1 DEF Growing
  <2>. QED
    BY <2>1, <2>2 DEF Growing, Grown
<1>7. ASSUME IsOpen(s), NEW name, t = add_sender_id(s, name) PROVE
         /\ Growing(t) /\ Grown(s.file, t.file) /\ t.saved = s.saved
  <2>1. /\ t.saved = s.saved /\ t.file.rows = s.file.rows
        /\ t.file.unlisted = s.file.unlisted
        /\ t.file.start_time = s.file.start_time /\ t.db.start_time = s.db.start_time
        /\ DOMAIN t.file.senders = DOMAIN s.file.senders \cup {name}
        /\ \A n \in DOMAIN s.file.senders : t.file.senders[n] = s.file.senders[n]
    BY <1>7, SenderEffect
  <2>. QED
    BY <1>7, <2>1 DEF Growing, Grown
<1>11. ASSUME IsOpen(s), NEW name, t = SenderNotStored(s, name) PROVE
         /\ Growing(t) /\ Grown(s.file, t.file) /\ t.saved = s.saved
  <2>1. /\ t.saved = s.saved /\ t.file.rows = s.file.rows
        /\ t.file.start_time = s.file.start_time /\ t.db.start_time = s.db.start_time
        /\ t.file.senders = s.file.senders /\ s.file.unlisted \subseteq t.file.unlisted
    BY <1>11, NotStoredEffect
  <2>. QED
    BY <1>11, <2>1 DEF Growing, Grown
<1>8. CASE t = dba_reopen_transaction(s)
  <2>1. t.saved = s.file /\ t.file = s.file /\ t.db = s.db
    BY <1>8, CommitEffect
  <2>. QED
    BY <1>0, <2>1 DEF Growing, IsOpen
<1>9. ASSUME NEW u, DomainOK(u), Growing(u), u.file = s.file, u.saved \in {s.saved, s.file},
             NEW row, t = Inserted(u, row)
      PROVE  Growing(t) /\ Grown(s.file, t.file) /\ t.saved \in {s.saved, s.file}
  <2>1. /\ t.saved = u.saved /\ t.db = u.db /\ t.file.rows = u.file.rows \cup {row}
        /\ t.file.start_time = u.file.start_time /\ t.file.senders = u.file.senders
        /\ t.file.unlisted = u.file.unlisted
    BY <1>9, InsertEffect
  <2>. QED
    BY <1>9, <2>1 DEF Growing, Grown, IsOpen
<1>10. CASE \E row : Stored(s, t, row)
  <2>. DEFINE u == dba_reopen_transaction(s)
  <2>1. /\ DomainOK(u) /\ u.saved = s.file /\ u.file = s.file /\ u.db = s.db
    BY CommitEffect DEF Keeps
  <2>2. Growing(u)
    BY <1>0, <2>1 DEF Growing, IsOpen
  <2>. QED
    BY <1>9, <1>10, <2>1, <2>2 DEF Stored
<1>. QED
  BY <1>1, <1>2, <1>3, <1>5, <1>6, <1>7, <1>8, <1>10, <1>11 DEF Changed

Saved == Pointers /\ \A d \in Domains : Growing(store[d])

LEMMA SavedStep ==
  ASSUME Saved, [Next]_vars
  PROVE  /\ Saved'
         /\ ~ProcessEnds => \A d \in Domains :
              /\ Moved(d) /\ Grown(store[d].file, store'[d].file)
              /\ store'[d].saved \in {store[d].saved, store[d].file}
         /\ ProcessEnds => \A d \in Domains : store'[d] = RolledBack(store[d])
<1>1. Pointers' /\ \A d \in Domains : DomainOK(store[d]) /\ Growing(store[d])
  BY NextPointers DEF Saved, Pointers, Shapes
<1>2. CASE ProcessEnds
  <2>1. \A d \in Domains : store'[d] = RolledBack(store[d])
    BY <1>2 DEF ProcessEnds
  <2>2. ASSUME NEW d \in Domains PROVE Growing(store'[d])
    <3>1. Grown(store[d].saved, store[d].saved)
      BY DEF Grown
    <3>. QED
      BY <1>1, <2>1, <3>1, RollbackEffect, ClosedFields DEF Growing, IsOpen
  <2>3. (\A d \in Domains : Growing(store[d]))'
    BY <2>2
  <2>. QED
    BY <1>1, <1>2, <2>1, <2>3 DEF Saved
<1>3. CASE ~ProcessEnds
  <2>1. \A d \in Domains : Moved(d)
    BY <1>3, Moves DEF Saved
  <2>2. ASSUME NEW d \in Domains
        PROVE  /\ Growing(store'[d]) /\ Grown(store[d].file, store'[d].file)
               /\ store'[d].saved \in {store[d].saved, store[d].file}
    BY <1>1, <2>1, FileMoves DEF Moved
  <2>3. (\A d \in Domains : Growing(store[d]))'
    BY <2>2
  <2>. QED
    BY <1>1, <1>3, <2>1, <2>2, <2>3 DEF Saved
<1>. QED
  BY <1>2, <1>3

LEMMA SavedInvariant == Spec => []Saved
<1>1. Init => Saved
  <2>. SUFFICES ASSUME Init PROVE \A d \in Domains : Growing(store[d])
    BY InitPointers DEF Saved
  <2>1. Growing(NewDomain)
    BY DEF Growing, Grown, NewDomain, EmptyFile, Closed, IsOpen
  <2>. QED
    BY <2>1 DEF Init
<1>2. Saved /\ [Next]_vars => Saved'
  BY SavedStep
<1>. QED
  BY <1>1, <1>2, PTL DEF Spec

\* A step never changes or loses what has been committed.
CommittedStays ==
  \A d \in Domains :
    LET old == store[d].saved
        new == store'[d].saved
    IN  /\ old.rows \subseteq new.rows
        /\ old.start_time # 0 => new.start_time = old.start_time
        /\ \A n \in DOMAIN old.senders : new.senders[n] = old.senders[n]

\* No step of the server, its signals and its restarts included, changes or
\* loses a row, a sender id or the start time that a COMMIT has saved.
THEOREM CommittedIsKept == Spec => CommittedIsPermanent
<1>1. Saved /\ [Next]_vars => CommittedStays
  <2>. SUFFICES ASSUME Saved, [Next]_vars, NEW d \in Domains
                PROVE  Grown(store[d].saved, store'[d].saved)
    BY DEF CommittedStays, Grown
  <2>1. Grown(store[d].saved, store[d].saved) /\ Grown(store[d].saved, store[d].file)
    BY DEF Saved, Growing, Grown
  <2>2. CASE ProcessEnds
    <3>1. store'[d] = RolledBack(store[d]) /\ DomainOK(store[d])
      BY <2>2, SavedStep DEF Saved, Pointers, Shapes
    <3>. QED
      BY <2>1, <3>1, RollbackEffect
  <2>3. CASE ~ProcessEnds
    BY <2>1, <2>3, SavedStep
  <2>. QED
    BY <2>2, <2>3
<1>. QED
  BY <1>1, SavedInvariant, PTL DEF Spec, CommittedIsPermanent, CommittedStays

-----------------------------------------------------------------------------
(* Senders and rows.                                                       *)

Ids(f) == {f.senders[n] : n \in DOMAIN f.senders} \cup {0}

\* The sender n has this id in the file: it is listed with it, or has been
\* given it without being listed.
Known(f, n, id) ==
  \/ n \in DOMAIN f.senders /\ f.senders[n] = id
  \/ <<n, id>> \in f.unlisted

\* A row is that of its sender, and relative to the origin of the file.
RowOK(f, r) ==
  /\ Known(f, r.sender, r.id)
  /\ f.start_time # 0 /\ r.ts + f.start_time = r.at

\* Ids are positive, different, and one of them is the largest.
SendersOK(f) ==
  /\ \A n \in DOMAIN f.senders : f.senders[n] \in Nat \ {0}
  /\ \A m, n \in DOMAIN f.senders : f.senders[m] = f.senders[n] => m = n
  /\ \E m \in Ids(f) : \A i \in Ids(f) : i <= m

FileOK(f) == SendersOK(f) /\ f.start_time \in Int /\ \A r \in f.rows : RowOK(f, r)

\* The counter of a Database is not set, or no id is beyond it.
CounterOK(s) ==
  /\ s.db.sender_cnt \in Nat
  /\ s.db.sender_cnt = 0 \/ \A i \in Ids(s.file) : i <= s.db.sender_cnt

FilesOK(s) == FileOK(s.file) /\ FileOK(s.saved) /\ CounterOK(s)

\* A new sender gets an id that no other has, also after a restart, when the
\* counter has been forgotten.
LEMMA FreshId ==
  ASSUME NEW s, SendersOK(s.file), CounterOK(s), NEW name, name \notin DOMAIN s.file.senders
  PROVE  SenderId(s, name) \in Nat \ {0} /\ \A i \in Ids(s.file) : i < SenderId(s, name)
<1>1. \A i \in Ids(s.file) : i \in Nat
  BY DEF Ids, SendersOK
<1>2. LargestId(s.file.senders) = CHOOSE m \in Ids(s.file) : \A i \in Ids(s.file) : i <= m
  BY DEF LargestId, Ids
<1>3. /\ LargestId(s.file.senders) \in Nat
      /\ \A i \in Ids(s.file) : i <= LargestId(s.file.senders)
  BY <1>1, <1>2 DEF SendersOK
<1>. DEFINE largest == LargestId(s.file.senders)
<1>. HIDE DEF largest
<1>4. \/ SenderId(s, name) = 1 + largest
      \/ SenderId(s, name) = 1 + s.db.sender_cnt /\ s.db.sender_cnt # 0
  BY DEF SenderId, largest
<1>. QED
  BY <1>1, <1>3, <1>4 DEF CounterOK, largest

LEMMA SenderAdded ==
  ASSUME NEW s, DomainOK(s), FilesOK(s), NEW name
  PROVE  FilesOK(add_sender_id(s, name))
<1>. DEFINE t == add_sender_id(s, name)  id == SenderId(s, name)
<1>1. /\ t.saved = s.saved /\ t.file.rows = s.file.rows
      /\ t.file.start_time = s.file.start_time /\ t.file.unlisted = s.file.unlisted
      /\ DOMAIN t.file.senders = DOMAIN s.file.senders \cup {name}
      /\ t.file.senders[name] = id
      /\ \A n \in DOMAIN s.file.senders : t.file.senders[n] = s.file.senders[n]
      /\ name \notin DOMAIN s.file.senders => t.db.sender_cnt = id
  BY SenderEffect
<1>2. CASE name \in DOMAIN s.file.senders
  BY <1>2 DEF add_sender_id
<1>3. CASE name \notin DOMAIN s.file.senders
  <2>. HIDE DEF t, id
  <2>1. id \in Nat \ {0} /\ \A i \in Ids(s.file) : i < id
    BY <1>3, FreshId DEF FilesOK, FileOK, id
  <2>2. Ids(t.file) = Ids(s.file) \cup {id}
    BY <1>1 DEF Ids
  <2>3. \A i \in Ids(s.file) : i \in Nat
    BY DEF Ids, FilesOK, FileOK, SendersOK
  <2>4. \A i \in Ids(t.file) : i <= id
    BY <2>1, <2>2, <2>3
  <2>5. \A n \in DOMAIN t.file.senders : t.file.senders[n] \in Nat \ {0}
    BY <1>1, <2>1 DEF FilesOK, FileOK, SendersOK
  <2>6. \A n \in DOMAIN s.file.senders : s.file.senders[n] # id
    BY <2>1, <2>3 DEF Ids
  <2>7. \A m, n \in DOMAIN t.file.senders : t.file.senders[m] = t.file.senders[n] => m = n
    BY <1>1, <2>6 DEF FilesOK, FileOK, SendersOK
  <2>8. SendersOK(t.file)
    BY <2>2, <2>4, <2>5, <2>7 DEF SendersOK
  <2>9. \A r \in t.file.rows : RowOK(t.file, r)
    BY <1>1 DEF FilesOK, FileOK, RowOK, Known
  <2>10. CounterOK(t)
    BY <1>1, <1>3, <2>1, <2>4 DEF CounterOK
  <2>. QED
    BY <1>1, <2>8, <2>9, <2>10 DEF FilesOK, FileOK, t
<1>. QED
  BY <1>2, <1>3

\* An id that is not listed is beyond those that are.
LEMMA SenderLeftOut ==
  ASSUME NEW s, DomainOK(s), FilesOK(s), NEW name, name \notin DOMAIN s.file.senders
  PROVE  FilesOK(SenderNotStored(s, name))
<1>. DEFINE t == SenderNotStored(s, name)  id == SenderId(s, name)
<1>1. /\ t.saved = s.saved /\ t.file.rows = s.file.rows
      /\ t.file.start_time = s.file.start_time /\ t.file.senders = s.file.senders
      /\ s.file.unlisted \subseteq t.file.unlisted /\ t.db.sender_cnt = id
  BY NotStoredEffect
<1>2. id \in Nat \ {0} /\ \A i \in Ids(s.file) : i < id
  BY FreshId DEF FilesOK, FileOK
<1>. HIDE DEF t, id
<1>3. Ids(t.file) = Ids(s.file) /\ \A i \in Ids(s.file) : i \in Nat
  BY <1>1 DEF Ids, FilesOK, FileOK, SendersOK
<1>4. SendersOK(t.file)
  BY <1>1, <1>3 DEF FilesOK, FileOK, SendersOK
<1>5. \A r \in t.file.rows : RowOK(t.file, r)
  BY <1>1 DEF FilesOK, FileOK, RowOK, Known
<1>6. CounterOK(t)
  BY <1>1, <1>2, <1>3 DEF CounterOK
<1>. QED
  BY <1>1, <1>4, <1>5, <1>6 DEF FilesOK, FileOK, t

\* Files with the same content are as good.
LEMMA SameFiles ==
  ASSUME NEW f, NEW g, FileOK(f), g.rows = f.rows, g.senders = f.senders,
         g.start_time = f.start_time, g.unlisted = f.unlisted
  PROVE  FileOK(g) /\ Ids(g) = Ids(f)
<1>1. Ids(g) = Ids(f)
  BY DEF Ids
<1>2. SendersOK(g)
  BY <1>1 DEF FileOK, SendersOK
<1>. QED
  BY <1>1, <1>2 DEF FileOK, RowOK, Known

\* No function of Database spoils the files, provided that the row that is
\* inserted is a good one.
LEMMA FilesMove ==
  ASSUME NEW s, DomainOK(s), Growing(s), FilesOK(s), NEW t,
         Changed(s, t) \/ \E row : Stored(s, t, row) /\ RowOK(s.file, row)
  PROVE  FilesOK(t)
<1>1. CASE t = s
  BY <1>1
<1>2. CASE t = database_find(s)
  <2>1. /\ t.file.rows = s.file.rows /\ t.file.start_time = s.file.start_time
        /\ t.file.senders = s.file.senders /\ t.file.unlisted = s.file.unlisted
        /\ t.saved = s.saved
    BY <1>2, FindEffect
  <2>2. t.db.sender_cnt = s.db.sender_cnt \/ t.db.sender_cnt = 0
    BY <1>2, FindEffect DEF SameData
  <2>3. FileOK(t.file) /\ Ids(t.file) = Ids(s.file)
    BY <2>1, SameFiles DEF FilesOK
  <2>. QED
    BY <2>1, <2>2, <2>3 DEF FilesOK, CounterOK
<1>3. CASE t = database_release(s)
  <2>1. t.file = s.file /\ t.saved \in {s.saved, s.file}
    BY <1>3, ReleaseEffect DEF SameData
  <2>2. t.db.sender_cnt = s.db.sender_cnt \/ t.db.sender_cnt = 0
    BY <1>3, ReleaseEffect, ClosedFields DEF SameData
  <2>. QED
    BY <2>1, <2>2 DEF FilesOK, CounterOK
<1>4. CASE \E n, fields : t = TableCreated(s, n, fields)
  <2>1. SameData(s, t)
    BY <1>4, TableEffect
  <2>2. FileOK(t.file) /\ Ids(t.file) = Ids(s.file)
    BY <2>1, SameFiles DEF FilesOK, SameData
  <2>. QED
    BY <2>1, <2>2 DEF SameData, FilesOK, CounterOK
<1>5. ASSUME IsOpen(s), NEW line \in Lines, line.key = "start-time",
             t = SeedStartTime(s, line.value)
      PROVE  FilesOK(t)
  <2>1. /\ t.saved = s.saved /\ t.file.rows = s.file.rows /\ t.file.senders = s.file.senders
        /\ t.db.sender_cnt = s.db.sender_cnt
        /\ s.db.start_time # 0 => t.file = s.file
        /\ s.db.start_time = 0 => t.file.start_time = line.value
    BY <1>5, SeedEffect
  <2>2. CASE s.db.start_time # 0
    BY <2>1, <2>2 DEF FilesOK, CounterOK
  <2>3. CASE s.db.start_time = 0
    <3>1. s.file.start_time = 0
      BY <1>5, <2>3 DEF Growing
    <3>2. s.file.rows = {}
      BY <3>1 DEF FilesOK, FileOK, RowOK
    <3>3. line.value \in Int
      BY <1>5, ScriptsAssumption
    <3>4. Ids(t.file) = Ids(s.file)
      BY <2>1 DEF Ids
    <3>5. SendersOK(t.file)
      BY <2>1, <3>4 DEF FilesOK, FileOK, SendersOK
    <3>6. FileOK(t.file)
      BY <2>1, <2>3, <3>2, <3>3, <3>5 DEF FileOK
    <3>. QED
      BY <2>1, <3>4, <3>6 DEF FilesOK, CounterOK
  <2>. QED
    BY <2>2, <2>3
<1>6. CASE \E name : t = add_sender_id(s, name)
  BY <1>6, SenderAdded
<1>10. CASE \E name : name \notin DOMAIN s.file.senders /\ t = SenderNotStored(s, name)
  BY <1>10, SenderLeftOut
<1>7. CASE t = dba_reopen_transaction(s)
  BY <1>7, CommitEffect DEF FilesOK, CounterOK
<1>8. ASSUME NEW u, DomainOK(u), FilesOK(u), NEW row, RowOK(u.file, row), t = Inserted(u, row)
      PROVE  FilesOK(t)
  <2>1. /\ t.saved = u.saved /\ t.db = u.db /\ t.file.rows = u.file.rows \cup {row}
        /\ t.file.start_time = u.file.start_time /\ t.file.senders = u.file.senders
        /\ t.file.unlisted = u.file.unlisted
    BY <1>8, InsertEffect
  <2>2. Ids(t.file) = Ids(u.file)
    BY <2>1 DEF Ids
  <2>3. SendersOK(t.file)
    BY <1>8, <2>1, <2>2 DEF FilesOK, FileOK, SendersOK
  <2>4. \A r \in t.file.rows : RowOK(t.file, r)
    BY <1>8, <2>1 DEF FilesOK, FileOK, RowOK, Known
  <2>. QED
    BY <1>8, <2>1, <2>2, <2>3, <2>4 DEF FilesOK, FileOK, CounterOK
<1>9. CASE \E row : Stored(s, t, row) /\ RowOK(s.file, row)
  <2>. DEFINE u == dba_reopen_transaction(s)
  <2>1. DomainOK(u) /\ u.saved = s.file /\ u.file = s.file /\ u.db = s.db
    BY CommitEffect DEF Keeps
  <2>2. FilesOK(u)
    BY <2>1 DEF FilesOK, CounterOK
  <2>. QED
    BY <1>8, <1>9, <2>1, <2>2 DEF Stored
<1>. QED
  BY <1>1, <1>2, <1>3, <1>4, <1>5, <1>6, <1>7, <1>9, <1>10 DEF Changed

LEMMA FilesRollBack ==
  ASSUME NEW s, DomainOK(s), FilesOK(s)
  PROVE  FilesOK(RolledBack(s))
<1>. DEFINE t == RolledBack(s)
<1>1. t.file = s.saved /\ t.saved = s.saved /\ t.db.sender_cnt = 0
  BY RollbackEffect, ClosedFields
<1>. QED
  BY <1>1 DEF FilesOK, CounterOK

-----------------------------------------------------------------------------
(* Sessions.  A client is known by a name and a start time; whether its    *)
(* handler has been told of either (id, time), and what is still to come   *)
(* of its input, go together.                                              *)

Told(q, n, t) ==
  \A i \in 1 .. Len(q) :
    /\ q[i].key = "sender-id" => q[i].value = n
    /\ q[i].key = "start-time" => q[i].value = t
    /\ q[i].key \in {"row", "meta"} =>
         q[i].sender = n /\ q[i].ts \in Int /\ q[i].at = q[i].ts + t

Ordered(q, id, time) ==
  \A i \in 1 .. Len(q) :
    /\ q[i].key = "schema" => /\ id \/ \E j \in 1 .. i - 1 : q[j].key = "sender-id"
                              /\ time \/ \E j \in 1 .. i - 1 : q[j].key = "start-time"
    /\ q[i].key = "domain" => /\ ~id /\ \A j \in 1 .. i - 1 : q[j].key # "sender-id"
                              /\ ~time /\ \A j \in 1 .. i - 1 : q[j].key # "start-time"

\* A handler h, its input q and the file f of its database.
Session(h, q, f, n, t, id, time) ==
  /\ t \in Int \ {0} /\ id \in BOOLEAN /\ time \in BOOLEAN
  /\ Told(q, n, t)
  /\ h.state = "C_HEADER" => Ordered(q, id, time)
  /\ id => h.database # NoDb /\ Known(f, n, h.sender_id)
  /\ time => /\ h.database # NoDb /\ f.start_time # 0
             /\ h.time_offset = t - f.start_time
  /\ h.state # "C_PROTOCOL_ERROR" =>
       \A i \in DOMAIN h.tables : id /\ time /\ h.tables[i].domain = h.database

Input(c) == buf[c] \o net[c]
File(h) == store[h.database].file

InSession(c) ==
  \E n, t, id, time : Session(handler[c], Input(c), File(handler[c]), n, t, id, time)

\* Some lines first and the rest later are all the lines.
LEMMA SplitInput ==
  ASSUME NEW S, NEW a \in Seq(S), NEW b \in Seq(S), NEW n \in Nat, n <= Len(b)
  PROVE  (a \o SubSeq(b, 1, n)) \o SubSeq(b, n + 1, Len(b)) = a \o b
<1>. DEFINE x == SubSeq(b, 1, n)  y == SubSeq(b, n + 1, Len(b))
<1>1. /\ x \in Seq(S) /\ Len(x) = n /\ \A i \in 1 .. n : x[i] = b[i]
  BY SubSeqProperties
<1>2. /\ y \in Seq(S) /\ Len(y) = Len(b) - n /\ \A i \in 1 .. Len(b) - n : y[i] = b[n + i]
  <2>1. \A i \in n + 1 .. Len(b) : b[i] \in S
    BY ElementOfSeq
  <2>2. y \in Seq(S) /\ Len(y) = IF n + 1 <= Len(b) THEN Len(b) - (n + 1) + 1 ELSE 0
    BY <2>1, SubSeqProperties
  <2>3. \A i \in 1 .. Len(b) - n : y[i] = b[(n + 1) + i - 1]
    BY <2>1, <2>2, SubSeqProperties
  <2>. QED
    BY <2>2, <2>3
<1>. HIDE DEF x, y
<1>3. x \o y \in Seq(S) /\ Len(x \o y) = Len(b)
  <2>1. x \o y \in Seq(S) /\ Len(x \o y) = Len(x) + Len(y) /\ Len(b) \in Nat
    BY <1>1, <1>2, ConcatProperties, LenProperties
  <2>. QED
    BY <1>1, <1>2, <2>1
<1>4. ASSUME NEW i \in 1 .. Len(b) PROVE (x \o y)[i] = b[i]
  <2>1. Len(b) \in Nat
    BY LenProperties
  <2>2. \A k \in 1 .. Len(x) + Len(y) :
          (x \o y)[k] = IF k <= Len(x) THEN x[k] ELSE y[k - Len(x)]
    BY <1>1, <1>2, ConcatProperties
  <2>3. i \in 1 .. Len(x) + Len(y)
    BY <1>1, <1>2, <2>1
  <2>4. CASE i <= n
    BY <1>1, <2>2, <2>3, <2>4
  <2>5. CASE ~(i <= n)
    <3>1. i - n \in 1 .. Len(b) - n /\ n + (i - n) = i
      BY <2>1, <2>5
    <3>. QED
      BY <1>1, <1>2, <2>2, <2>3, <2>5, <3>1
  <2>. QED
    BY <2>4, <2>5
<1>5. x \o y = b
  BY <1>3, <1>4, SeqEqual
<1>6. (a \o x) \o y = a \o (x \o y)
  BY <1>1, <1>2, ConcatAssociative
<1>. QED
  BY <1>5, <1>6 DEF x, y

\* Part of the input is as consistent as all of it.
LEMMA Prefix ==
  ASSUME NEW q, NEW p, Len(q) \in Nat, Len(p) \in Nat, Len(p) <= Len(q),
         \A i \in 1 .. Len(p) : p[i] = q[i], NEW n, NEW t, NEW id, NEW time
  PROVE  /\ Told(q, n, t) => Told(p, n, t)
         /\ Ordered(q, id, time) => Ordered(p, id, time)
<1>1. 1 .. Len(p) \subseteq 1 .. Len(q) /\ \A i \in 1 .. Len(p) : 1 .. i - 1 \subseteq 1 .. Len(p)
  OBVIOUS
<1>2. Told(q, n, t) => Told(p, n, t)
  BY <1>1 DEF Told
<1>3. ASSUME Ordered(q, id, time) PROVE Ordered(p, id, time)
  <2>. SUFFICES ASSUME NEW i \in 1 .. Len(p)
       PROVE  /\ p[i].key = "schema" => /\ id \/ \E j \in 1 .. i - 1 : p[j].key = "sender-id"
                                        /\ time \/ \E j \in 1 .. i - 1 : p[j].key = "start-time"
              /\ p[i].key = "domain" => /\ ~id /\ \A j \in 1 .. i - 1 : p[j].key # "sender-id"
                                        /\ ~time /\ \A j \in 1 .. i - 1 : p[j].key # "start-time"
    BY DEF Ordered
  <2>1. i \in 1 .. Len(q) /\ p[i] = q[i] /\ \A j \in 1 .. i - 1 : p[j] = q[j]
    BY <1>1
  <2>. QED
    BY <1>3, <2>1 DEF Ordered
<1>. QED
  BY <1>2, <1>3

\* What is left after a line, and what the handler has then been told.
LEMMA AfterLine ==
  ASSUME NEW q \in Seq(Lines), q # <<>>, NEW n, NEW t, NEW id \in BOOLEAN, NEW time \in BOOLEAN,
         NEW id2 \in BOOLEAN, id2 <=> id \/ q[1].key = "sender-id",
         NEW time2 \in BOOLEAN, time2 <=> time \/ q[1].key = "start-time"
  PROVE  /\ Told(q, n, t) => Told(Tail(q), n, t)
         /\ Ordered(q, id, time) => Ordered(Tail(q), id2, time2)
<1>. DEFINE p == Tail(q)
<1>1. /\ Len(q) \in Nat /\ Len(q) # 0 /\ Len(p) = Len(q) - 1
      /\ \A i \in 1 .. Len(p) : p[i] = q[i + 1]
  BY HeadTailProperties, EmptySeq
<1>. HIDE DEF p
<1>2. \A i \in 1 .. Len(p) : i + 1 \in 1 .. Len(q)
  BY <1>1
<1>3. Told(q, n, t) => Told(p, n, t)
  BY <1>1, <1>2 DEF Told
<1>4. ASSUME Ordered(q, id, time) PROVE Ordered(p, id2, time2)
  <2>. SUFFICES ASSUME NEW i \in 1 .. Len(p)
       PROVE  /\ p[i].key = "schema" => /\ id2 \/ \E j \in 1 .. i - 1 : p[j].key = "sender-id"
                                        /\ time2 \/ \E j \in 1 .. i - 1 : p[j].key = "start-time"
              /\ p[i].key = "domain" => /\ ~id2 /\ \A j \in 1 .. i - 1 : p[j].key # "sender-id"
                                        /\ ~time2 /\ \A j \in 1 .. i - 1 : p[j].key # "start-time"
    BY DEF Ordered
  <2>1. i + 1 \in 1 .. Len(q) /\ p[i] = q[i + 1] /\ i \in Nat
    BY <1>1, <1>2
  <2>2. ASSUME NEW j \in 1 .. (i + 1) - 1 PROVE j = 1 \/ (j - 1 \in 1 .. i - 1 /\ q[j] = p[j - 1])
    BY <1>1, <2>1
  <2>3. ASSUME NEW j \in 1 .. i - 1 PROVE j + 1 \in 1 .. (i + 1) - 1 /\ q[j + 1] = p[j]
    BY <1>1, <2>1
  <2>4. 1 \in 1 .. (i + 1) - 1
    BY <2>1
  <2>5. p[i].key = "schema" => /\ id2 \/ \E j \in 1 .. i - 1 : p[j].key = "sender-id"
                               /\ time2 \/ \E j \in 1 .. i - 1 : p[j].key = "start-time"
    BY <1>4, <2>1, <2>2 DEF Ordered
  <2>6. p[i].key = "domain" => /\ ~id2 /\ \A j \in 1 .. i - 1 : p[j].key # "sender-id"
                               /\ ~time2 /\ \A j \in 1 .. i - 1 : p[j].key # "start-time"
    BY <1>4, <2>1, <2>3, <2>4 DEF Ordered
  <2>. QED
    BY <2>5, <2>6
<1>. QED
  BY <1>3, <1>4 DEF p

\* A session in which the handler does not change: the file may grow, and
\* input may be lost.
LEMMA SessionFrame ==
  ASSUME NEW h, NEW q, NEW p, NEW f, NEW g, NEW n, NEW t, NEW id, NEW time,
         Session(h, q, f, n, t, id, time), h.database = NoDb \/ Grown(f, g),
         Len(q) \in Nat, Len(p) \in Nat, Len(p) <= Len(q), \A i \in 1 .. Len(p) : p[i] = q[i]
  PROVE  Session(h, p, g, n, t, id, time)
<1>1. Told(p, n, t) /\ (h.state = "C_HEADER" => Ordered(p, id, time))
  BY Prefix DEF Session
<1>2. /\ id => h.database # NoDb /\ Known(g, n, h.sender_id)
      /\ time => /\ h.database # NoDb /\ g.start_time # 0
                 /\ h.time_offset = t - g.start_time
  BY DEF Session, Grown, Known
<1>. QED
  BY <1>1, <1>2 DEF Session

\* A line that tells the handler nothing about its client.
LEMMA QuietLine ==
  ASSUME NEW h, NEW h2, NEW q \in Seq(Lines), q # <<>>, NEW f, NEW g, NEW n, NEW t,
         NEW id, NEW time, Session(h, q, f, n, t, id, time),
         h.database = NoDb \/ Grown(f, g),
         h2.database = h.database, h2.sender_id = h.sender_id, h2.time_offset = h.time_offset,
         h2.state = "C_HEADER" => /\ h.state = "C_HEADER"
                                  /\ q[1].key # "sender-id" /\ q[1].key # "start-time",
         \A i \in DOMAIN h2.tables : id /\ time /\ h2.tables[i].domain = h2.database
  PROVE  Session(h2, Tail(q), g, n, t, id, time)
<1>1. Told(Tail(q), n, t) /\ (h2.state = "C_HEADER" => Ordered(Tail(q), id, time))
  BY AfterLine DEF Session
<1>2. /\ id => h.database # NoDb /\ Known(g, n, h.sender_id)
      /\ time => /\ h.database # NoDb /\ g.start_time # 0
                 /\ h.time_offset = t - g.start_time
  BY DEF Session, Grown, Known
<1>. QED
  BY <1>1, <1>2 DEF Session

\* A handler in error has no session to speak of.
LEMMA FailedLine ==
  ASSUME NEW h, NEW h2, NEW q \in Seq(Lines), q # <<>>, NEW f, NEW g, NEW n, NEW t,
         NEW id, NEW time, Session(h, q, f, n, t, id, time), h2.state = "C_PROTOCOL_ERROR"
  PROVE  Session(h2, Tail(q), g, n, t, FALSE, FALSE)
<1>1. Told(Tail(q), n, t)
  BY AfterLine DEF Session
<1>. QED
  BY <1>1 DEF Session

LEMMA InputType ==
  ASSUME Pointers, NEW c \in Conns
  PROVE  Input(c) \in Seq(Lines) /\ Len(Input(c)) \in Nat
<1>1. buf[c] \in Seq(Lines) /\ net[c] \in Seq(Lines)
  BY DEF Pointers, Shapes
<1>2. Input(c) \in Seq(Lines)
  BY <1>1, ConcatProperties DEF Input
<1>. QED
  BY <1>2, LenProperties

\* The first line comes from the first part.
LEMMA TailOfConcat ==
  ASSUME NEW S, NEW b \in Seq(S), NEW r \in Seq(S), b # <<>>
  PROVE  b \o r # <<>> /\ (b \o r)[1] = Head(b) /\ Tail(b) \o r = Tail(b \o r)
<1>. DEFINE lb == Len(b)  lr == Len(r)  x == Tail(b)  y == Tail(b \o r)
<1>1. lb \in Nat \ {0} /\ lr \in Nat
  BY EmptySeq, LenProperties
<1>2. /\ x \in Seq(S) /\ Len(x) = lb - 1 /\ \A i \in 1 .. Len(x) : x[i] = b[i + 1]
  BY HeadTailProperties
<1>3. /\ b \o r \in Seq(S) /\ Len(b \o r) = lb + lr
      /\ \A i \in 1 .. lb + lr : (b \o r)[i] = IF i <= lb THEN b[i] ELSE r[i - lb]
  BY ConcatProperties
<1>4. b \o r # <<>>
  BY <1>1, <1>3, EmptySeq
<1>5. /\ y \in Seq(S) /\ Len(y) = Len(b \o r) - 1
      /\ \A i \in 1 .. Len(y) : y[i] = (b \o r)[i + 1]
  BY <1>3, <1>4, HeadTailProperties
<1>6. Head(b) = b[1]
  OBVIOUS
<1>. HIDE DEF x, y, lb
<1>7. /\ x \o r \in Seq(S) /\ Len(x \o r) = Len(x) + lr
      /\ \A i \in 1 .. Len(x) + lr : (x \o r)[i] = IF i <= Len(x) THEN x[i] ELSE r[i - Len(x)]
  BY <1>2, ConcatProperties
<1>. HIDE DEF lr
<1>8. Len(x \o r) = lb + lr - 1 /\ Len(y) = lb + lr - 1
  BY <1>1, <1>2, <1>3, <1>5, <1>7
<1>9. ASSUME NEW i \in 1 .. lb + lr - 1 PROVE (x \o r)[i] = y[i]
  <2>1. i + 1 \in 1 .. lb + lr /\ i \in Nat
    BY <1>1
  <2>2. y[i] = IF i + 1 <= lb THEN b[i + 1] ELSE r[(i + 1) - lb]
    BY <1>3, <1>5, <1>8, <2>1
  <2>3. (x \o r)[i] = IF i <= lb - 1 THEN x[i] ELSE r[i - (lb - 1)]
    BY <1>1, <1>2, <1>7
  <2>4. CASE i <= lb - 1
    <3>1. i + 1 <= lb /\ i \in 1 .. lb - 1
      BY <1>1, <2>1, <2>4
    <3>. QED
      BY <1>2, <2>2, <2>3, <2>4, <3>1
  <2>5. CASE ~(i <= lb - 1)
    <3>1. ~(i + 1 <= lb) /\ (i + 1) - lb = i - (lb - 1)
      BY <1>1, <2>1, <2>5
    <3>. QED
      BY <2>2, <2>3, <2>5, <3>1
  <2>. QED
    BY <2>4, <2>5
<1>10. x \o r = y
  BY <1>5, <1>7, <1>8, <1>9, SeqEqual
<1>11. 1 \in 1 .. lb + lr /\ 1 <= lb
  BY <1>1
<1>12. (b \o r)[1] = b[1]
  BY <1>3, <1>11
<1>. QED
  BY <1>4, <1>6, <1>10, <1>12 DEF x, y

LEMMA InputTaken ==
  ASSUME Pointers, NEW c \in Conns, NEW states, In(c, states), Taken(c)
  PROVE  /\ Input(c) \in Seq(Lines) /\ Input(c) # <<>> /\ Input(c)[1] = Line(c)
         /\ buf'[c] \o net'[c] = Tail(Input(c))
         /\ \A e \in Conns \ {c} : buf'[e] = buf[e] /\ net'[e] = net[e]
<1>1. buf[c] \in Seq(Lines) /\ net[c] \in Seq(Lines) /\ DOMAIN buf = Conns
  BY DEF Pointers, Shapes
<1>2. buf[c] # <<>> /\ net' = net /\ buf' = [buf EXCEPT ![c] = Tail(buf[c])]
  BY DEF In, Taken, connVars
<1>3. /\ Input(c) # <<>> /\ Input(c)[1] = Line(c)
      /\ Tail(buf[c]) \o net[c] = Tail(Input(c))
  BY <1>1, <1>2, TailOfConcat DEF Input, Line
<1>. QED
  BY <1>1, <1>2, <1>3, InputType

-----------------------------------------------------------------------------
(* Every step keeps every session.                                         *)

Sound ==
  /\ Saved
  /\ \A d \in Domains : FilesOK(store[d])
  /\ \A c \in Conns : InSession(c)

\* A step that files survive does not disturb the sessions of the handlers
\* that it leaves alone.
LEMMA OtherSession ==
  ASSUME Sound, NEW e \in Conns, handler'[e] = handler[e],
         \A d \in Domains : Grown(store[d].file, store'[d].file),
         Len(buf'[e] \o net'[e]) \in Nat, Len(buf'[e] \o net'[e]) <= Len(Input(e)),
         \A i \in 1 .. Len(buf'[e] \o net'[e]) : (buf'[e] \o net'[e])[i] = Input(e)[i]
  PROVE  InSession(e)'
<1>1. PICK n, t, id, time :
        Session(handler[e], Input(e), File(handler[e]), n, t, id, time)
  BY DEF Sound, InSession
<1>2. handler[e].database = NoDb \/ handler[e].database \in Domains
  BY DEF Sound, Saved, Pointers, Shapes, HandlerOK
<1>3. Len(Input(e)) \in Nat
  BY InputType DEF Sound, Saved
<1>4. handler[e].database = NoDb \/ Grown(File(handler[e]), store'[handler[e].database].file)
  BY <1>2 DEF File
<1>5. Session(handler[e], buf'[e] \o net'[e], store'[handler[e].database].file, n, t, id, time)
  BY <1>1, <1>3, <1>4, SessionFrame
<1>. QED
  BY <1>5 DEF InSession, Input, File

\* A step of the callback of c on a line: the other sessions go on.
LEMMA OnlySession ==
  ASSUME Sound, NEW c \in Conns, NEW states, In(c, states), Taken(c),
         \A e \in Conns \ {c} : handler'[e] = handler[e],
         \A d \in Domains : Grown(store[d].file, store'[d].file),
         NEW n, NEW t, NEW id, NEW time,
         Session(handler'[c], Tail(Input(c)), store'[handler'[c].database].file, n, t, id, time)
  PROVE  \A e \in Conns : InSession(e)'
<1>1. InSession(c)'
  BY InputTaken DEF InSession, Input, File, Sound, Saved
<1>2. ASSUME NEW e \in Conns, e # c PROVE InSession(e)'
  <2>1. buf'[e] = buf[e] /\ net'[e] = net[e]
    BY <1>2, InputTaken DEF Sound, Saved
  <2>2. Len(Input(e)) \in Nat
    BY InputType DEF Sound, Saved
  <2>3. buf'[e] \o net'[e] = Input(e) /\ handler'[e] = handler[e]
    BY <1>2, <2>1 DEF Input
  <2>. QED
    <3>1. /\ Len(buf'[e] \o net'[e]) \in Nat /\ Len(buf'[e] \o net'[e]) <= Len(Input(e))
          /\ \A i \in 1 .. Len(buf'[e] \o net'[e]) : (buf'[e] \o net'[e])[i] = Input(e)[i]
      BY <2>2, <2>3
    <3>. QED
      BY <2>3, <3>1, OtherSession
<1>. QED
  BY <1>1, <1>2

\* The handler of a line fails.
LEMMA FailedStep ==
  ASSUME Sound, NEW c \in Conns, NEW states, In(c, states), Taken(c),
         \A e \in Conns \ {c} : handler'[e] = handler[e],
         \A d \in Domains : Grown(store[d].file, store'[d].file),
         handler'[c].state = "C_PROTOCOL_ERROR"
  PROVE  \A e \in Conns : InSession(e)'
<1>1. PICK n, t, id, time :
        Session(handler[c], Input(c), File(handler[c]), n, t, id, time)
  BY DEF Sound, InSession
<1>2. Input(c) \in Seq(Lines) /\ Input(c) # <<>>
  BY InputTaken DEF Sound, Saved
<1>3. Session(handler'[c], Tail(Input(c)), store'[handler'[c].database].file, n, t, FALSE, FALSE)
  BY <1>1, <1>2, FailedLine
<1>. QED
  BY <1>3, OnlySession

\* A line that leaves database, sender and time of its handler alone; a new
\* table is one of the database, and somebody has declared a stream.
LEMMA QuietStep ==
  ASSUME Sound, NEW c \in Conns, NEW states, In(c, states), Taken(c),
         \A e \in Conns \ {c} : handler'[e] = handler[e],
         \A d \in Domains : Grown(store[d].file, store'[d].file),
         NEW h, h = handler'[c], handler[c].state # "C_PROTOCOL_ERROR",
         h.database = handler[c].database, h.sender_id = handler[c].sender_id,
         h.time_offset = handler[c].time_offset,
         h.state = "C_HEADER" => /\ handler[c].state = "C_HEADER"
                                 /\ Line(c).key # "sender-id" /\ Line(c).key # "start-time",
         \A i \in DOMAIN h.tables :
           \/ \E j \in DOMAIN handler[c].tables : h.tables[i] = handler[c].tables[j]
           \/ /\ h.tables[i].domain = handler[c].database
              /\ \/ DOMAIN handler[c].tables # {}
                 \/ handler[c].state = "C_HEADER" /\ Line(c).key = "schema"
  PROVE  \A e \in Conns : InSession(e)'
<1>1. PICK n, t, id, time :
        Session(handler[c], Input(c), File(handler[c]), n, t, id, time)
  BY DEF Sound, InSession
<1>2. Input(c) \in Seq(Lines) /\ Input(c) # <<>> /\ Input(c)[1] = Line(c)
  BY InputTaken DEF Sound, Saved
<1>3. handler[c].database = NoDb \/ Grown(File(handler[c]), store'[h.database].file)
  BY DEF Sound, Saved, Pointers, Shapes, HandlerOK, File
<1>4. /\ \A j \in DOMAIN handler[c].tables :
           id /\ time /\ handler[c].tables[j].domain = handler[c].database
  BY <1>1 DEF Session
<1>5. handler[c].state = "C_HEADER" /\ Line(c).key = "schema" => id /\ time
  <2>. HAVE handler[c].state = "C_HEADER" /\ Line(c).key = "schema"
  <2>1. Ordered(Input(c), id, time) /\ Input(c)[1].key = "schema"
    BY <1>1, <1>2 DEF Session
  <2>2. 1 \in 1 .. Len(Input(c)) /\ 1 .. 1 - 1 = {}
    BY <1>2, EmptySeq
  <2>. QED
    BY <2>1, <2>2 DEF Ordered
<1>6. \A i \in DOMAIN h.tables : id /\ time /\ h.tables[i].domain = h.database
  BY <1>4, <1>5
<1>7. Session(h, Tail(Input(c)), store'[h.database].file, n, t, id, time)
  BY <1>1, <1>2, <1>3, <1>6, QuietLine
<1>. QED
  BY <1>7, OnlySession

\* domain: the client has not identified itself yet.
LEMMA DomainStep ==
  ASSUME Sound, NEW c \in Conns, MetaDomain(c),
         \A d \in Domains : Grown(store[d].file, store'[d].file)
  PROVE  \A e \in Conns : InSession(e)'
<1>1. In(c, {"C_HEADER"}) /\ Taken(c) /\ Line(c).key = "domain"
  BY DEF MetaDomain, Header
<1>2. DOMAIN handler = Conns /\ HandlerOK(handler[c]) /\ handler[c].state = "C_HEADER"
  BY <1>1, OnLine DEF Sound, Saved
<1>3. \A e \in Conns \ {c} : handler'[e] = handler[e]
  BY <1>2 DEF MetaDomain
<1>4. \/ handler'[c].state = "C_PROTOCOL_ERROR"
      \/ handler'[c].state = "C_HEADER" /\ handler'[c].tables = handler[c].tables
  BY <1>2 DEF MetaDomain, HandlerOK
<1>5. CASE handler'[c].state = "C_PROTOCOL_ERROR"
  BY <1>1, <1>3, <1>5, FailedStep
<1>6. CASE handler'[c].state = "C_HEADER" /\ handler'[c].tables = handler[c].tables
  <2>1. PICK n, t, id, time :
          Session(handler[c], Input(c), File(handler[c]), n, t, id, time)
    BY DEF Sound, InSession
  <2>2. Input(c) \in Seq(Lines) /\ Input(c) # <<>> /\ Input(c)[1] = Line(c)
    BY <1>1, InputTaken DEF Sound, Saved
  <2>3. 1 \in 1 .. Len(Input(c))
    BY <2>2, EmptySeq
  <2>4. Ordered(Input(c), id, time) /\ id \in BOOLEAN /\ time \in BOOLEAN
    BY <1>2, <2>1 DEF Session
  <2>5. ~id /\ ~time
    BY <1>1, <2>2, <2>3, <2>4 DEF Ordered
  <2>6. DOMAIN handler[c].tables = {}
    BY <1>2, <2>1, <2>5 DEF Session
  <2>7. Told(Tail(Input(c)), n, t) /\ Ordered(Tail(Input(c)), id, time)
    BY <1>1, <2>1, <2>2, <2>4, AfterLine DEF Session
  <2>8. Session(handler'[c], Tail(Input(c)), store'[handler'[c].database].file, n, t, id, time)
    BY <1>6, <2>1, <2>4, <2>5, <2>6, <2>7 DEF Session
  <2>. QED
    BY <1>1, <1>3, <2>8, OnlySession
<1>. QED
  BY <1>4, <1>5, <1>6

\* start-time: from here on the offset of the handler is right.
LEMMA StartTimeStep ==
  ASSUME Sound, NEW c \in Conns, MetaStartTime(c),
         \A d \in Domains : Grown(store[d].file, store'[d].file)
  PROVE  \A e \in Conns : InSession(e)'
<1>. DEFINE own == handler[c].database  v == Line(c).value
<1>1. In(c, {"C_HEADER"}) /\ Taken(c) /\ Line(c).key = "start-time"
  BY DEF MetaStartTime, Header
<1>2. DOMAIN handler = Conns /\ DOMAIN store = Domains /\ HandlerOK(handler[c])
      /\ handler[c].state = "C_HEADER"
  BY <1>1, OnLine DEF Sound, Saved
<1>3. \A e \in Conns \ {c} : handler'[e] = handler[e]
  BY <1>2 DEF MetaStartTime, Fatal
<1>4. CASE Fatal(c)
  <2>1. handler'[c].state = "C_PROTOCOL_ERROR"
    BY <1>2, <1>4 DEF Fatal, HandlerOK
  <2>. QED
    BY <1>1, <1>3, <2>1, FailedStep
<1>5. CASE /\ own # NoDb
           /\ handler' = [handler EXCEPT ![c].time_offset = TimeOffset(store[own], v)]
           /\ store' = [store EXCEPT ![own] = SeedStartTime(@, v)]
  <2>1. PICK n, t, id, time :
          Session(handler[c], Input(c), File(handler[c]), n, t, id, time)
    BY DEF Sound, InSession
  <2>2. Input(c) \in Seq(Lines) /\ Input(c) # <<>> /\ Input(c)[1] = Line(c)
    BY <1>1, InputTaken DEF Sound, Saved
  <2>3. 1 \in 1 .. Len(Input(c))
    BY <2>2, EmptySeq
  <2>4. v = t /\ t \in Int \ {0} /\ id \in BOOLEAN /\ time \in BOOLEAN
    BY <1>1, <2>1, <2>2, <2>3 DEF Session, Told
  <2>5. own \in Domains /\ IsOpen(store[own]) /\ DomainOK(store[own]) /\ Growing(store[own])
    BY <1>5, OwnIsOpen DEF Sound, Saved, Pointers, Shapes
  <2>. DEFINE s == store[own]  s2 == SeedStartTime(s, t)
  <2>6. store'[own] = s2 /\ s.db.start_time = s.file.start_time
    BY <1>2, <1>5, <2>4, <2>5 DEF Growing
  <2>7. s2.db.start_time = s2.file.start_time /\ s2.file.start_time # 0
    BY <2>4, <2>5, <2>6, SeedEffect
  <2>. HIDE DEF s, s2
  <2>8. /\ handler'[c].state = "C_HEADER" /\ handler'[c].tables = handler[c].tables
        /\ handler'[c].sender_id = handler[c].sender_id /\ handler'[c].database = own
        /\ handler'[c].time_offset = t - s2.db.start_time
    BY <1>2, <1>5, <2>4 DEF HandlerOK, TimeOffset, s, s2
  <2>9. Told(Tail(Input(c)), n, t) /\ Ordered(Tail(Input(c)), id, TRUE)
    BY <1>1, <1>2, <2>1, <2>2, <2>4, AfterLine DEF Session
  <2>10. Grown(s.file, s2.file)
    BY <2>5, <2>6 DEF s
  <2>11. id => own # NoDb /\ Known(s2.file, n, handler[c].sender_id)
    BY <2>1, <2>10 DEF Session, Grown, File, Known, s
  <2>12. \A i \in DOMAIN handler[c].tables : id /\ handler[c].tables[i].domain = own
    BY <1>2, <2>1 DEF Session
  <2>13. Session(handler'[c], Tail(Input(c)), s2.file, n, t, id, TRUE)
    BY <1>5, <2>4, <2>7, <2>8, <2>9, <2>11, <2>12 DEF Session
  <2>. QED
    BY <1>1, <1>3, <2>6, <2>8, <2>13, OnlySession
<1>. QED
  BY <1>4, <1>5 DEF MetaStartTime

\* sender-id: from here on the id of the handler is that of its client.
LEMMA SenderIdStep ==
  ASSUME Sound, NEW c \in Conns, MetaSenderId(c),
         \A d \in Domains : Grown(store[d].file, store'[d].file)
  PROVE  \A e \in Conns : InSession(e)'
<1>. DEFINE own == handler[c].database  v == Line(c).value
<1>1. In(c, {"C_HEADER"}) /\ Taken(c) /\ Line(c).key = "sender-id"
  BY DEF MetaSenderId, Header
<1>2. DOMAIN handler = Conns /\ DOMAIN store = Domains /\ HandlerOK(handler[c])
      /\ handler[c].state = "C_HEADER"
  BY <1>1, OnLine DEF Sound, Saved
<1>3. \A e \in Conns \ {c} : handler'[e] = handler[e]
  BY <1>2 DEF MetaSenderId, Fatal
<1>4. CASE Fatal(c)
  <2>1. handler'[c].state = "C_PROTOCOL_ERROR"
    BY <1>2, <1>4 DEF Fatal, HandlerOK
  <2>. QED
    BY <1>1, <1>3, <2>1, FailedStep
<1>5. CASE /\ own # NoDb
           /\ handler' = [handler EXCEPT ![c].sender_id = SenderId(store[own], v)]
           /\ \/ store' = [store EXCEPT ![own] = add_sender_id(@, v)]
              \/ store' = [store EXCEPT ![own] = SenderNotStored(@, v)]
  <2>1. PICK n, t, id, time :
          Session(handler[c], Input(c), File(handler[c]), n, t, id, time)
    BY DEF Sound, InSession
  <2>2. Input(c) \in Seq(Lines) /\ Input(c) # <<>> /\ Input(c)[1] = Line(c)
    BY <1>1, InputTaken DEF Sound, Saved
  <2>3. 1 \in 1 .. Len(Input(c))
    BY <2>2, EmptySeq
  <2>4. v = n /\ t \in Int \ {0} /\ id \in BOOLEAN /\ time \in BOOLEAN
    BY <1>1, <2>1, <2>2, <2>3 DEF Session, Told
  <2>5. own \in Domains /\ DomainOK(store[own])
    BY <1>5, OwnIsOpen DEF Sound, Saved, Pointers, Shapes
  <2>. DEFINE s == store[own]  s2 == store'[own]
  <2>6. s2 = add_sender_id(s, n) \/ s2 = SenderNotStored(s, n)
    BY <1>2, <1>5, <2>4, <2>5
  <2>7. Known(s2.file, n, SenderId(s, n))
    BY <2>5, <2>6, SenderEffect, NotStoredEffect DEF Known
  <2>. HIDE DEF s, s2
  <2>8. /\ handler'[c].state = "C_HEADER" /\ handler'[c].tables = handler[c].tables
        /\ handler'[c].time_offset = handler[c].time_offset /\ handler'[c].database = own
        /\ handler'[c].sender_id = SenderId(s, n)
    BY <1>2, <1>5, <2>4 DEF HandlerOK, s
  <2>9. Told(Tail(Input(c)), n, t) /\ Ordered(Tail(Input(c)), TRUE, time)
    BY <1>1, <1>2, <2>1, <2>2, <2>4, AfterLine DEF Session
  <2>10. Grown(s.file, s2.file)
    BY <2>5 DEF s, s2
  <2>11. time => /\ own # NoDb /\ s2.file.start_time # 0
                 /\ handler[c].time_offset = t - s2.file.start_time
    BY <2>1, <2>10 DEF Session, Grown, File, s
  <2>12. \A i \in DOMAIN handler[c].tables : time /\ handler[c].tables[i].domain = own
    BY <1>2, <2>1 DEF Session
  <2>13. Session(handler'[c], Tail(Input(c)), s2.file, n, t, TRUE, time)
    BY <1>5, <2>4, <2>7, <2>8, <2>9, <2>11, <2>12 DEF Session
  <2>. QED
    BY <1>1, <1>3, <2>8, <2>13, OnlySession DEF s2
<1>. QED
  BY <1>4, <1>5 DEF MetaSenderId

LEMMA SchemaStep ==
  ASSUME Sound, NEW c \in Conns, NEW states, In(c, states), Taken(c),
         "C_PROTOCOL_ERROR" \notin states,
         \A d \in Domains : Grown(store[d].file, store'[d].file),
         NEW line, NEW tables, process_schema(c, line, tables),
         handler[c].state = "C_HEADER" => Line(c).key = "schema",
         handler[c].state # "C_HEADER" => DOMAIN handler[c].tables # {},
         \A i \in DOMAIN tables :
           \/ \E j \in DOMAIN handler[c].tables : tables[i] = handler[c].tables[j]
           \/ DOMAIN handler[c].tables # {} /\ tables[i].domain = handler[c].database
  PROVE  \A e \in Conns : InSession(e)'
<1>1. /\ DOMAIN handler = Conns /\ HandlerOK(handler[c])
      /\ handler[c].state # "C_PROTOCOL_ERROR"
  BY OnLine DEF Sound, Saved
<1>2. CASE Fatal(c)
  <2>1. handler'[c].state = "C_PROTOCOL_ERROR" /\ \A e \in Conns \ {c} : handler'[e] = handler[e]
    BY <1>1, <1>2 DEF Fatal, HandlerOK
  <2>. QED
    BY <2>1, FailedStep
<1>3. ASSUME NEW name,
             handler' = [handler EXCEPT ![c].tables = Bound(tables, line.index,
               [domain |-> handler[c].database, gen |-> handler[c].gen, name |-> name])]
      PROVE  \A e \in Conns : InSession(e)'
  <2>. DEFINE new == [domain |-> handler[c].database, gen |-> handler[c].gen, name |-> name]
              b == Bound(tables, line.index, new)  h == [handler[c] EXCEPT !.tables = b]
  <2>1. h = handler'[c] /\ \A e \in Conns \ {c} : handler'[e] = handler[e]
    BY <1>1, <1>3
  <2>2. new.domain = handler[c].database
    OBVIOUS
  <2>3. \A j \in DOMAIN b : b[j] = new \/ (j \in DOMAIN tables /\ b[j] = tables[j])
    BY DEF Bound
  <2>. HIDE DEF new, b
  <2>4. /\ h.database = handler[c].database /\ h.sender_id = handler[c].sender_id
        /\ h.time_offset = handler[c].time_offset /\ h.state = handler[c].state
        /\ h.tables = b
    BY <1>1 DEF HandlerOK
  <2>. HIDE DEF h
  <2>5. \A i \in DOMAIN h.tables :
           \/ \E j \in DOMAIN handler[c].tables : h.tables[i] = handler[c].tables[j]
           \/ /\ h.tables[i].domain = handler[c].database
              /\ \/ DOMAIN handler[c].tables # {}
                 \/ handler[c].state = "C_HEADER" /\ Line(c).key = "schema"
    BY <2>2, <2>3, <2>4
  <2>6. h.state = "C_HEADER" => /\ handler[c].state = "C_HEADER"
                                /\ Line(c).key # "sender-id" /\ Line(c).key # "start-time"
    BY <2>4
  <2>. QED
    BY <1>1, <2>1, <2>4, <2>5, <2>6, QuietStep
<1>. QED
  BY <1>2, <1>3 DEF process_schema

\* Stream 0 belongs to the database of the handler.
LEMMA Stream0Domain ==
  ASSUME NEW c \in Conns
  PROVE  \A i \in DOMAIN WithStream0(c) :
           \/ \E j \in DOMAIN handler[c].tables : WithStream0(c)[i] = handler[c].tables[j]
           \/ /\ DOMAIN handler[c].tables # {}
              /\ WithStream0(c)[i].domain = handler[c].database
<1>1. CASE ~InBounds(c, 0)
  BY <1>1 DEF WithStream0
<1>2. CASE InBounds(c, 0)
  <2>. DEFINE w == WithStream0(c)
  <2>1. w = Added(handler[c].tables, 0, Stream0(c)) /\ DOMAIN handler[c].tables # {}
    BY <1>2 DEF WithStream0, InBounds
  <2>2. /\ DOMAIN w = DOMAIN handler[c].tables \cup {0}
        /\ \A i \in DOMAIN handler[c].tables : w[i] = handler[c].tables[i]
        /\ 0 \notin DOMAIN handler[c].tables => w[0].domain = handler[c].database
    BY <2>1 DEF Added, Stream0
  <2>. HIDE DEF w
  <2>3. \A i \in DOMAIN w :
           \/ \E j \in DOMAIN handler[c].tables : w[i] = handler[c].tables[j]
           \/ DOMAIN handler[c].tables # {} /\ w[i].domain = handler[c].database
    BY <2>1, <2>2
  <2>. QED
    BY <2>3 DEF w
<1>. QED
  BY <1>1, <1>2

LEMMA MetaSession ==
  ASSUME Sound, NEW c \in Conns, Meta(c),
         \A d \in Domains : Grown(store[d].file, store'[d].file)
  PROVE  \A e \in Conns : InSession(e)'
<1>1. ASSUME In(c, {"C_HEADER"}), Taken(c), Fatal(c) PROVE \A e \in Conns : InSession(e)'
  <2>1. DOMAIN handler = Conns /\ HandlerOK(handler[c])
    BY <1>1, OnLine DEF Sound, Saved
  <2>2. handler'[c].state = "C_PROTOCOL_ERROR" /\ \A e \in Conns \ {c} : handler'[e] = handler[e]
    BY <1>1, <2>1 DEF Fatal, HandlerOK
  <2>. QED
    BY <1>1, <2>2, FailedStep
<1>2. ASSUME In(c, {"C_HEADER"}), Taken(c), Line(c).key # "sender-id", Line(c).key # "start-time",
             \/ UNCHANGED handler
             \/ \E v : handler' = [handler EXCEPT ![c].content = v]
             \/ handler' = [handler EXCEPT ![c].state = handler[c].content]
      PROVE  \A e \in Conns : InSession(e)'
  <2>1. DOMAIN handler = Conns /\ HandlerOK(handler[c]) /\ handler[c].state = "C_HEADER"
    BY <1>2, OnLine DEF Sound, Saved
  <2>2. PICK h : h = handler'[c]
    OBVIOUS
  <2>3. /\ h.database = handler[c].database /\ h.sender_id = handler[c].sender_id
        /\ h.time_offset = handler[c].time_offset /\ h.tables = handler[c].tables
        /\ \A e \in Conns \ {c} : handler'[e] = handler[e]
    BY <1>2, <2>1, <2>2 DEF HandlerOK
  <2>4. \A i \in DOMAIN h.tables : \E j \in DOMAIN handler[c].tables : h.tables[i] = handler[c].tables[j]
    BY <2>3
  <2>. QED
    BY <1>2, <2>1, <2>2, <2>3, <2>4, QuietStep
<1>3. CASE MetaProtocol(c)
  BY <1>1, <1>2, <1>3 DEF MetaProtocol, Header
<1>4. CASE MetaContent(c)
  BY <1>1, <1>2, <1>4 DEF MetaContent, Header
<1>5. CASE MetaOther(c)
  BY <1>2, <1>5 DEF MetaOther, Header
<1>6. CASE MetaMalformed(c)
  BY <1>1, <1>6 DEF MetaMalformed, Header
<1>7. CASE HeaderDone(c)
  BY <1>2, <1>7 DEF HeaderDone, Header
<1>8. CASE MetaSchema(c)
  <2>1. /\ In(c, {"C_HEADER"}) /\ Taken(c) /\ Line(c).key = "schema"
        /\ process_schema(c, Line(c), handler[c].tables)
    BY <1>8 DEF MetaSchema, Header
  <2>2. handler[c].state = "C_HEADER"
    BY <2>1 DEF In
  <2>. QED
    BY <2>1, <2>2, SchemaStep
<1>. QED
  BY <1>3, <1>4, <1>5, <1>6, <1>7, <1>8, DomainStep, StartTimeStep, SenderIdStep DEF Meta

LEMMA SampleSession ==
  ASSUME Sound, NEW c \in Conns, Sample(c),
         \A d \in Domains : Grown(store[d].file, store'[d].file)
  PROVE  \A e \in Conns : InSession(e)'
<1>. DEFINE states == {"C_TEXT_DATA", "C_BINARY_DATA"}
<1>1. In(c, states) /\ Taken(c)
  BY DEF Sample, RowInserted, RowDropped, MetadataSchema, MetadataStored, MetadataIgnored,
         BadLine, Data
<1>2. "C_PROTOCOL_ERROR" \notin states /\ "C_HEADER" \notin states
  OBVIOUS
<1>. HIDE DEF states
<1>3. /\ DOMAIN handler = Conns /\ HandlerOK(handler[c])
      /\ handler[c].state # "C_PROTOCOL_ERROR" /\ handler[c].state # "C_HEADER"
  BY <1>1, <1>2, OnLine DEF Sound, Saved
<1>4. CASE UNCHANGED handler \/ handler' = [handler EXCEPT ![c].tables = WithStream0(c)]
  <2>1. PICK h : h = handler'[c]
    OBVIOUS
  <2>2. /\ h.database = handler[c].database /\ h.sender_id = handler[c].sender_id
        /\ h.time_offset = handler[c].time_offset /\ h.state = handler[c].state
        /\ h.tables = handler[c].tables \/ h.tables = WithStream0(c)
        /\ \A e \in Conns \ {c} : handler'[e] = handler[e]
    BY <1>3, <1>4, <2>1 DEF HandlerOK
  <2>3. \A i \in DOMAIN h.tables :
           \/ \E j \in DOMAIN handler[c].tables : h.tables[i] = handler[c].tables[j]
           \/ DOMAIN handler[c].tables # {} /\ h.tables[i].domain = handler[c].database
    <3>1. CASE h.tables = handler[c].tables
      BY <3>1
    <3>2. CASE h.tables = WithStream0(c)
      BY <3>2, Stream0Domain
    <3>. QED
      BY <2>2, <3>1, <3>2
  <2>. QED
    BY <1>1, <1>3, <2>1, <2>2, <2>3, QuietStep
<1>5. CASE MetadataSchema(c)
  <2>1. process_schema(c, Line(c).line, WithStream0(c)) /\ DOMAIN handler[c].tables # {}
    BY <1>5 DEF MetadataSchema, InBounds
  <2>. QED
    BY <1>1, <1>2, <1>3, <2>1, Stream0Domain, SchemaStep
<1>. QED
  BY <1>4, <1>5 DEF Sample, RowInserted, RowDropped, MetadataStored, MetadataIgnored, BadLine

\* No handler: nothing to be consistent with.
LEMMA FreeSession ==
  ASSUME NEW h, h = NewHandler \/ h = FreeHandler, NEW f, NEW n, NEW t \in Int \ {0},
         NEW q, Told(q, n, t), Ordered(q, FALSE, FALSE)
  PROVE  Session(h, q, f, n, t, FALSE, FALSE)
<1>1. DOMAIN h.tables = {}
  BY DEF NewHandler, FreeHandler
<1>. QED
  BY <1>1 DEF Session

LEMMA NoInput == /\ <<>> \o <<>> = <<>> /\ Len(<<>>) = 0
                 /\ Told(<<>>, 0, 1) /\ Ordered(<<>>, FALSE, FALSE)
<1>1. <<>> \o <<>> = <<>> /\ Len(<<>>) = 0
  BY ConcatEmptySeq, EmptySeq
<1>2. 1 .. Len(<<>>) = {}
  BY <1>1
<1>. QED
  BY <1>1, <1>2 DEF Told, Ordered

LEMMA EmptySession ==
  ASSUME NEW h, h = FreeHandler, NEW a, a = <<>>, NEW b, b = <<>>, NEW f
  PROVE  Session(h, a \o b, f, 0, 1, FALSE, FALSE)
<1>1. a \o b = <<>> /\ Told(<<>>, 0, 1) /\ Ordered(<<>>, FALSE, FALSE)
  BY NoInput
<1>2. 1 \in Int \ {0}
  OBVIOUS
<1>3. Session(h, <<>>, f, 0, 1, FALSE, FALSE)
  BY <1>1, <1>2, FreeSession
<1>. QED
  BY <1>1, <1>3

\* What a client sends begins with nothing said.
LEMMA ConnectSession ==
  ASSUME Sound, NEW c \in Conns, Connect(c),
         \A d \in Domains : Grown(store[d].file, store'[d].file)
  PROVE  \A e \in Conns : InSession(e)'
<1>0. DOMAIN handler = Conns /\ DOMAIN buf = Conns /\ DOMAIN net = Conns
  BY DEF Sound, Saved, Pointers, Shapes
<1>1. PICK s \in Scripts : net' = [net EXCEPT ![c] = s]
  BY DEF Connect
<1>2. /\ handler'[c] = NewHandler /\ buf'[c] = <<>> /\ net'[c] = s
      /\ \A e \in Conns \ {c} :
           handler'[e] = handler[e] /\ buf'[e] = buf[e] /\ net'[e] = net[e]
  BY <1>0, <1>1 DEF Connect
<1>3. s \in Seq(Lines) /\ \E n \in Names \cup {NoOne}, t \in Times \cup {1} : Speaks(s, n, t)
  BY ScriptsAssumption
<1>4. PICK n \in Names \cup {NoOne}, t \in Times \cup {1} : Speaks(s, n, t)
  BY <1>3
<1>5. t \in Int \ {0}
  BY <1>4, ScriptsAssumption DEF Times
<1>6. Told(s, n, t)
  BY <1>4 DEF Speaks, Told
<1>7. Ordered(s, FALSE, FALSE)
  BY <1>4 DEF Speaks, Ordered
<1>8. buf'[c] \o net'[c] = s
  BY <1>2, <1>3, ConcatEmptySeq
<1>9. InSession(c)'
  <2>1. Session(handler'[c], buf'[c] \o net'[c], store'[handler'[c].database].file,
                n, t, FALSE, FALSE)
    BY <1>2, <1>5, <1>6, <1>7, <1>8, FreeSession
  <2>. QED
    BY <2>1 DEF InSession, Input, File
<1>10. ASSUME NEW e \in Conns, e # c PROVE InSession(e)'
  <2>1. handler'[e] = handler[e] /\ buf'[e] \o net'[e] = Input(e)
    BY <1>2, <1>10 DEF Input
  <2>2. Len(Input(e)) \in Nat
    BY InputType DEF Sound, Saved
  <2>3. /\ Len(buf'[e] \o net'[e]) \in Nat /\ Len(buf'[e] \o net'[e]) <= Len(Input(e))
        /\ \A i \in 1 .. Len(buf'[e] \o net'[e]) : (buf'[e] \o net'[e])[i] = Input(e)[i]
    BY <2>1, <2>2
  <2>. QED
    BY <2>1, <2>3, OtherSession
<1>. QED
  BY <1>9, <1>10

\* The handler that is freed, and the ones that are not.
LEMMA FreedSession ==
  ASSUME Sound, NEW c \in Conns, client_handler_free(c),
         \A d \in Domains : Grown(store[d].file, store'[d].file)
  PROVE  \A e \in Conns : InSession(e)'
<1>0. DOMAIN handler = Conns /\ DOMAIN buf = Conns /\ DOMAIN net = Conns
  BY DEF Sound, Saved, Pointers, Shapes
<1>1. /\ handler'[c] = FreeHandler /\ buf'[c] = <<>> /\ net'[c] = <<>>
      /\ \A e \in Conns \ {c} :
           handler'[e] = handler[e] /\ buf'[e] = buf[e] /\ net'[e] = net[e]
  BY <1>0 DEF client_handler_free, Reset
<1>2. InSession(c)'
  <2>1. Session(handler'[c], buf'[c] \o net'[c], store'[handler'[c].database].file,
                0, 1, FALSE, FALSE)
    BY <1>1, EmptySession
  <2>. QED
    BY <2>1 DEF InSession, Input, File
<1>3. ASSUME NEW e \in Conns, e # c PROVE InSession(e)'
  <2>1. handler'[e] = handler[e] /\ buf'[e] \o net'[e] = Input(e)
    BY <1>1, <1>3 DEF Input
  <2>2. Len(Input(e)) \in Nat
    BY InputType DEF Sound, Saved
  <2>3. /\ Len(buf'[e] \o net'[e]) \in Nat /\ Len(buf'[e] \o net'[e]) <= Len(Input(e))
        /\ \A i \in 1 .. Len(buf'[e] \o net'[e]) : (buf'[e] \o net'[e])[i] = Input(e)[i]
    BY <2>1, <2>2
  <2>. QED
    BY <2>1, <2>3, OtherSession
<1>. QED
  BY <1>2, <1>3

LEMMA ConcatPrefix ==
  ASSUME NEW S, NEW a \in Seq(S), NEW b \in Seq(S)
  PROVE  /\ Len(a) \in Nat /\ Len(a) <= Len(a \o b)
         /\ \A i \in 1 .. Len(a) : a[i] = (a \o b)[i]
<1>1. Len(a) \in Nat /\ Len(b) \in Nat
  BY LenProperties
<1>2. /\ Len(a \o b) = Len(a) + Len(b)
      /\ \A i \in 1 .. Len(a) + Len(b) :
           (a \o b)[i] = IF i <= Len(a) THEN a[i] ELSE b[i - Len(a)]
  BY ConcatProperties
<1>3. \A i \in 1 .. Len(a) : i \in 1 .. Len(a) + Len(b) /\ i <= Len(a)
  BY <1>1
<1>4. Len(a) <= Len(a \o b)
  BY <1>1, <1>2
<1>. QED
  BY <1>1, <1>2, <1>3, <1>4

\* Input that arrives, or never does.
LEMMA InputSession ==
  ASSUME Sound, UNCHANGED handler, NEW e \in Conns,
         \A d \in Domains : Grown(store[d].file, store'[d].file),
         \/ buf'[e] = buf[e] /\ net'[e] \in {net[e], <<>>}
         \/ \E n \in Nat : /\ n <= Len(net[e]) /\ buf'[e] = buf[e] \o SubSeq(net[e], 1, n)
                           /\ net'[e] = SubSeq(net[e], n + 1, Len(net[e]))
  PROVE  InSession(e)'
<1>1. buf[e] \in Seq(Lines) /\ net[e] \in Seq(Lines)
  BY DEF Sound, Saved, Pointers, Shapes
<1>2. Len(Input(e)) \in Nat
  BY InputType DEF Sound, Saved
<1>. DEFINE p == buf'[e] \o net'[e]
<1>3. p = Input(e) \/ p = buf[e]
  <2>1. CASE \E n \in Nat : /\ n <= Len(net[e]) /\ buf'[e] = buf[e] \o SubSeq(net[e], 1, n)
                            /\ net'[e] = SubSeq(net[e], n + 1, Len(net[e]))
    BY <1>1, <2>1, SplitInput DEF Input
  <2>2. CASE buf'[e] = buf[e] /\ net'[e] = net[e]
    BY <2>2 DEF Input
  <2>3. CASE buf'[e] = buf[e] /\ net'[e] = <<>>
    BY <1>1, <2>3, ConcatEmptySeq
  <2>. QED
    BY <2>1, <2>2, <2>3
<1>4. /\ Len(buf[e]) \in Nat /\ Len(buf[e]) <= Len(Input(e))
      /\ \A i \in 1 .. Len(buf[e]) : buf[e][i] = Input(e)[i]
  BY <1>1, ConcatPrefix DEF Input
<1>. HIDE DEF p
<1>5. Len(p) \in Nat /\ Len(p) <= Len(Input(e)) /\ \A i \in 1 .. Len(p) : p[i] = Input(e)[i]
  <2>1. CASE p = Input(e)
    BY <1>2, <2>1
  <2>2. CASE p = buf[e]
    BY <1>4, <2>2
  <2>. QED
    BY <1>3, <2>1, <2>2
<1>. QED
  BY <1>5, OtherSession DEF p

LEMMA SessionStep ==
  ASSUME Sound, [Next]_vars, ~ProcessEnds
  PROVE  \A e \in Conns : InSession(e)'
<1>0. \A d \in Domains : Grown(store[d].file, store'[d].file)
  BY SavedStep DEF Sound
<1>1. DOMAIN handler = Conns /\ DOMAIN buf = Conns /\ DOMAIN net = Conns
  BY DEF Sound, Saved, Pointers, Shapes
<1>2. ASSUME NEW c \in Conns, Recv(c) PROVE \A e \in Conns : InSession(e)'
  <2>. SUFFICES ASSUME NEW e \in Conns PROVE InSession(e)'
    OBVIOUS
  <2>1. PICK n \in 0 .. MaxRecv :
          /\ n <= Len(net[c])
          /\ buf' = [buf EXCEPT ![c] = @ \o SubSeq(net[c], 1, n)]
          /\ net' = [net EXCEPT ![c] = SubSeq(@, n + 1, Len(@))]
    BY <1>2 DEF Recv
  <2>2. n \in Nat /\ UNCHANGED handler
    BY <1>2, ServerAssumption DEF Recv
  <2>3. CASE e = c
    <3>1. /\ buf'[e] = buf[e] \o SubSeq(net[e], 1, n)
          /\ net'[e] = SubSeq(net[e], n + 1, Len(net[e])) /\ n <= Len(net[e])
      BY <1>1, <2>1, <2>3
    <3>. QED
      BY <1>0, <2>2, <3>1, InputSession
  <2>4. CASE e # c
    <3>1. buf'[e] = buf[e] /\ net'[e] = net[e]
      BY <1>1, <2>1, <2>4
    <3>. QED
      BY <1>0, <2>2, <3>1, InputSession
  <2>. QED
    BY <2>3, <2>4
<1>3. ASSUME UNCHANGED <<handler, buf>>, \A e \in Conns : net'[e] \in {net[e], <<>>}
      PROVE  \A e \in Conns : InSession(e)'
  BY <1>0, <1>3, InputSession
<1>4. ASSUME NEW c \in Conns, PeerCloses(c) \/ CallbackEnds(c) \/ SocketFails(c)
      PROVE  \A e \in Conns : InSession(e)'
  <2>1. UNCHANGED <<handler, buf>>
    BY <1>4 DEF PeerCloses, CallbackEnds, SocketFails
  <2>2. net' = net \/ \E rest \in {net[c], <<>>} : net' = [net EXCEPT ![c] = rest]
    BY <1>4 DEF PeerCloses, CallbackEnds, SocketFails, Reset
  <2>3. \A e \in Conns : net'[e] \in {net[e], <<>>}
    BY <1>1, <2>2
  <2>. QED
    BY <1>3, <2>1, <2>3
<1>5. CASE Signalled \/ Restart \/ UNCHANGED vars
  <2>1. UNCHANGED <<handler, buf>> /\ \A e \in Conns : net'[e] \in {net[e], <<>>}
    BY <1>5 DEF Signalled, Restart, vars
  <2>. QED
    BY <1>3, <2>1
<1>6. ASSUME NEW c \in Conns, Disconnect(c) \/ PeerClosed(c) \/ Idle(c)
      PROVE  \A e \in Conns : InSession(e)'
  BY <1>0, <1>6, FreedSession DEF Disconnect, PeerClosed, Idle
<1>7. ASSUME NEW c \in Conns, Meta(c) \/ Sample(c) \/ Connect(c)
      PROVE  \A e \in Conns : InSession(e)'
  BY <1>0, <1>7, MetaSession, SampleSession, ConnectSession
<1>8. ~Exit /\ ~Killed
  BY DEF Exit, Killed
<1>. QED
  BY <1>2, <1>4, <1>5, <1>6, <1>7, <1>8 DEF Next, Callback

\* A row that is inserted fits the file that it goes to.
LEMMA ArrivalIsGood ==
  ASSUME Sound, NEW d \in Domains, NEW row, Arrives(d, row)
  PROVE  RowOK(store[d].file, row)
<1>1. PICK c \in Conns :
        /\ handler[c].state \in {"C_TEXT_DATA", "C_BINARY_DATA"} /\ buf[c] # <<>>
        /\ Line(c).key \in {"row", "meta"} /\ DOMAIN handler[c].tables # {}
        /\ \E p \in Targets(c) : p.domain = d /\ row = StoredRow(c, Line(c), p)
  BY DEF Arrives
<1>2. PICK p \in Targets(c) : p.domain = d /\ row = StoredRow(c, Line(c), p)
  BY <1>1
<1>3. PICK n, t, id, time :
        Session(handler[c], Input(c), File(handler[c]), n, t, id, time)
  BY DEF Sound, InSession
<1>4. handler[c].state # "C_PROTOCOL_ERROR"
  BY <1>1
<1>5. /\ id /\ time /\ t \in Int
      /\ \A i \in DOMAIN handler[c].tables : handler[c].tables[i].domain = handler[c].database
  BY <1>1, <1>3, <1>4 DEF Session
<1>6. handler[c].database = d
  BY <1>2, <1>5 DEF Targets, Stream0
<1>. DEFINE f == store[d].file
<1>7. /\ Known(f, n, handler[c].sender_id)
      /\ f.start_time # 0 /\ handler[c].time_offset = t - f.start_time
      /\ Told(Input(c), n, t)
  BY <1>3, <1>5, <1>6 DEF Session, File
<1>8. buf[c] \in Seq(Lines) /\ net[c] \in Seq(Lines)
  BY DEF Sound, Saved, Pointers, Shapes
<1>9. Input(c) \in Seq(Lines) /\ Input(c) # <<>> /\ Input(c)[1] = Line(c)
  BY <1>1, <1>8, TailOfConcat, ConcatProperties DEF Input, Line
<1>10. 1 \in 1 .. Len(Input(c))
  BY <1>9, EmptySeq
<1>. DEFINE line == Line(c)
<1>. HIDE DEF line
<1>11. line.sender = n /\ line.ts \in Int /\ line.at = line.ts + t
  BY <1>1, <1>7, <1>9, <1>10 DEF Told, line
<1>12. /\ row.sender = line.sender /\ row.at = line.at /\ row.id = handler[c].sender_id
       /\ row.ts = line.ts + handler[c].time_offset
  BY <1>2 DEF StoredRow, line
<1>13. f.start_time \in Int
  BY DEF Sound, FilesOK, FileOK
<1>. HIDE DEF f
<1>14. row.ts + f.start_time = row.at
  BY <1>5, <1>7, <1>11, <1>12, <1>13
<1>15. RowOK(f, row)
  BY <1>7, <1>11, <1>12, <1>14 DEF RowOK
<1>. QED
  BY <1>15 DEF f

LEMMA SoundStep == Sound /\ [Next]_vars => Sound'
<1>. SUFFICES ASSUME Sound, [Next]_vars PROVE Sound'
  OBVIOUS
<1>1. Saved' /\ \A d \in Domains : DomainOK(store[d]) /\ Growing(store[d]) /\ FilesOK(store[d])
  BY SavedStep DEF Sound, Saved, Pointers, Shapes
<1>2. CASE ProcessEnds
  <2>1. \A d \in Domains : FilesOK(store'[d])
    BY <1>1, <1>2, SavedStep, FilesRollBack DEF Sound
  <2>2. ASSUME NEW c \in Conns PROVE InSession(c)'
    <3>1. handler'[c] = FreeHandler /\ buf'[c] = <<>> /\ net'[c] = <<>>
      BY <1>2 DEF ProcessEnds
    <3>2. Session(handler'[c], buf'[c] \o net'[c], store'[handler'[c].database].file,
                  0, 1, FALSE, FALSE)
      BY <3>1, EmptySession
    <3>. QED
      BY <3>2 DEF InSession, Input, File
  <2>3. (\A d \in Domains : FilesOK(store[d]))' /\ (\A c \in Conns : InSession(c))'
    BY <2>1, <2>2
  <2>. QED
    BY <1>1, <2>3 DEF Sound
<1>3. CASE ~ProcessEnds
  <2>1. \A d \in Domains : Moved(d)
    BY <1>3, SavedStep DEF Sound
  <2>2. ASSUME NEW d \in Domains PROVE FilesOK(store'[d])
    <3>1. Changed(store[d], store'[d])
          \/ \E row : Stored(store[d], store'[d], row) /\ RowOK(store[d].file, row)
      BY <2>1, ArrivalIsGood DEF Moved
    <3>. QED
      BY <1>1, <3>1, FilesMove
  <2>3. (\A d \in Domains : FilesOK(store[d]))' /\ (\A c \in Conns : InSession(c))'
    BY <1>3, <2>2, SessionStep
  <2>. QED
    BY <1>1, <2>3 DEF Sound
<1>. QED
  BY <1>2, <1>3

LEMMA SoundInit == Init => Sound
<1>. SUFFICES ASSUME Init PROVE Sound
  OBVIOUS
<1>1. Saved
  <2>1. Growing(NewDomain)
    BY DEF Growing, Grown, NewDomain, EmptyFile, Closed, IsOpen
  <2>. QED
    BY <2>1, InitPointers DEF Init, Saved
<1>2. FilesOK(NewDomain)
  <2>1. DOMAIN EmptyFile.senders = {} /\ EmptyFile.rows = {} /\ EmptyFile.start_time = 0
    BY DEF EmptyFile
  <2>2. Ids(EmptyFile) = {0}
    BY <2>1 DEF Ids
  <2>3. FileOK(EmptyFile)
    BY <2>1, <2>2 DEF FileOK, SendersOK
  <2>4. /\ NewDomain.file = EmptyFile /\ NewDomain.saved = EmptyFile
        /\ NewDomain.db = Closed(0)
    BY DEF NewDomain
  <2>. QED
    BY <2>3, <2>4, ClosedFields DEF FilesOK, CounterOK
<1>3. ASSUME NEW c \in Conns PROVE InSession(c)
  <2>1. handler[c] = FreeHandler /\ buf[c] = <<>> /\ net[c] = <<>>
    BY DEF Init
  <2>2. Session(handler[c], buf[c] \o net[c], File(handler[c]), 0, 1, FALSE, FALSE)
    BY <2>1, EmptySession
  <2>. QED
    BY <2>2 DEF InSession, Input
<1>. QED
  BY <1>1, <1>2, <1>3 DEF Sound, Init

LEMMA SoundInvariant == Spec => []Sound
  BY SoundInit, SoundStep, PTL DEF Spec

\* Clients that keep to the protocol: the sender id of every stored row,
\* committed or not, leads back to the client that sent it and to no other,
\* whatever the order in which clients of a domain come and go, and whatever
\* is rolled back when the process ends, unless the row was stored under an
\* id that the database had refused to list.
THEOREM RowsAreAttributed == Spec => []RowsAttributed
<1>1. Sound => RowsAttributed
  BY DEF Sound, FilesOK, FileOK, SendersOK, RowOK, Known, RowsAttributed, Files
<1>. QED
  BY <1>1, SoundInvariant, PTL

\* In the same way every stored time stamp, added to the start time of its
\* file, is the time at which the sample was taken.
THEOREM RowsAreRebased == Spec => []RowsRebased
<1>1. Sound => RowsRebased
  BY DEF Sound, FilesOK, FileOK, RowOK, RowsRebased, Files
<1>. QED
  BY <1>1, SoundInvariant, PTL
=============================================================================
