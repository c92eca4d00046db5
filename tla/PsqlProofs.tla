----------------------------- MODULE PsqlProofs -----------------------------
(***************************************************************************)
(* Proofs about the server over PostgreSQL (PsqlAdapter) for any number of *)
(* clients, tables, values, openings and crashes.                          *)
(***************************************************************************)
EXTENDS PsqlAdapter, TLAPS

-----------------------------------------------------------------------------
(* The inductive invariant.                                                *)

Names == Tables \cup {Meta, Senders}

Rows == [by : Clients, id : Nat \cup {-1}, origin : Nat, no : Nat,
         table : Tables \cup {NoTable}]

SenderMaps == UNION {[D -> Nat] : D \in SUBSET Clients}

Contents == [tables : SUBSET Names, schemas : SUBSET Names, start : Nat,
             senders : SenderMaps, rows : SUBSET Rows]

Connection == [saved : Contents, file : Contents, aborted : BOOLEAN,
               prepared : SUBSET Names]

TypeOK ==
  /\ pg \in Connection
  /\ pc \in {"closed", "create", "prepare", "metadata", "finish", "open"}
  /\ creating \in [table : Tables \cup {Meta, NoTable}, by : Clients \cup {NoTable}]
  /\ start_time \in Nat
  /\ session \in [Clients -> [id : Nat \cup {-1}, table : Tables \cup {NoTable}]]
  /\ sent \in Nat /\ kept \subseteq Rows /\ refused \in BOOLEAN /\ torn \subseteq Names

\* A stream's table is being created.
CreatingStream == creating.table \in Tables /\ creating.by \in Clients

\* What holds of the connection and of the handlers in each phase.
Phases ==
  /\ pc \in {"open", "closed"} => creating = Idle
  /\ pc \notin {"open", "closed"} =>
       CreatingStream \/ (creating.table = Meta /\ pc # "finish")
  /\ CreatingStream => session[creating.by].id # -1
  /\ pc = "closed" \/ creating.table = Meta => \A c \in Clients : session[c] = NoSession
  /\ pc = "closed" => pg.file = pg.saved
  /\ pg.aborted => refused /\ (pc = "open" \/ (pc = "create" /\ CreatingStream))
  /\ pc \in {"metadata", "finish"} => creating.table \in pg.prepared
  /\ \A c \in Clients : session[c].table # NoTable =>
       session[c].id # -1 /\ session[c].table \in pg.prepared

\* Every table has its schema, but _senders, those that a crash has left
\* without, and those in "extra".
Complete(file, extra) == file.tables \subseteq file.schemas \cup torn \cup {Senders} \cup extra

\* The schema of _experiment_metadata is stored in a transaction that nothing
\* commits before the first stream is created: until then there are only the
\* two default tables, and nothing can abort the transaction.
Catalogue ==
  /\ Complete(pg.file, IF pc \in {"prepare", "metadata"} THEN {creating.table} ELSE {})
  /\ pc = "closed" \/ (pc \in {"create", "prepare"} /\ creating.table = Meta) =>
       Complete(pg.saved, {})
  /\ pc \in {"metadata", "finish"} => Complete(pg.saved, {creating.table})
  /\ pc = "open" \/ (pc \in {"create", "prepare"} /\ CreatingStream) =>
       Complete(pg.saved, {Meta})
  /\ (pc = "open" \/ (pc = "create" /\ CreatingStream)) =>
       \/ Complete(pg.saved, {})
       \/ ~pg.aborted /\ pg.prepared \subseteq {Meta} /\ pg.file.tables \subseteq {Meta, Senders}
  /\ \A file \in {pg.file, pg.saved} : Meta \notin file.tables => file.tables \subseteq {Senders}
  /\ pc \in {"open", "metadata"} \/ CreatingStream =>
       Meta \in pg.file.tables /\ Meta \in pg.saved.tables
  /\ pc = "create" /\ creating.table = Meta /\ Meta \notin pg.file.tables => pg.prepared = {}
  /\ pc \in {"prepare", "metadata"} /\ creating.table = Meta =>
       /\ Meta \in pg.file.tables /\ pg.file.tables \subseteq {Meta, Senders}
       /\ pg.prepared \subseteq {Meta}

\* Names and ids of senders are unique, and there is a largest id.
SendersOK(senders) ==
  /\ \A m, n \in DOMAIN senders : senders[m] = senders[n] => m = n
  /\ \E m \in Range(senders) \cup {0} : \A i \in Range(senders) \cup {0} : i <= m

Attributed(file) ==
  \A r \in file.rows :
    /\ r.by \in DOMAIN file.senders /\ file.senders[r.by] = r.id
    /\ r.origin = file.start /\ r.origin # 0

\* The handlers know what the database has.
Attribution ==
  /\ SendersOK(pg.file.senders) /\ SendersOK(pg.saved.senders)
  /\ \A c \in Clients : session[c].id # -1 => start_time # 0
  /\ ~refused =>
       /\ Attributed(pg.file) /\ Attributed(pg.saved)
       /\ pc = "open" \/ CreatingStream => start_time = pg.file.start
       /\ \A c \in Clients : session[c].id # -1 =>
            c \in DOMAIN pg.file.senders /\ pg.file.senders[c] = session[c].id
       /\ kept \subseteq pg.file.rows

Inv == TypeOK /\ Phases /\ Catalogue /\ Attribution

-----------------------------------------------------------------------------
(* What the adapter's functions do to the connection.                      *)

\* Reopening commits, or rolls back a transaction that was aborted.
LEMMA ReopenEffect ==
  ASSUME NEW s \in Connection
  PROVE  /\ dba_reopen_transaction(s) \in Connection
         /\ dba_reopen_transaction(s).saved = IF s.aborted THEN s.saved ELSE s.file
         /\ dba_reopen_transaction(s).file = IF s.aborted THEN s.saved ELSE s.file
         /\ dba_reopen_transaction(s).aborted = FALSE
         /\ dba_reopen_transaction(s).prepared = s.prepared
BY DEF dba_reopen_transaction, Connection

\* psql_table_create() leaves a transaction that is not aborted, with
\* everything before it committed and the statement prepared.
LEMMA PrepareEffect ==
  ASSUME NEW s \in Connection, NEW t \in Names, ~s.aborted
  PROVE  /\ psql_table_create(s, t) \in Connection
         /\ psql_table_create(s, t).saved = s.file
         /\ psql_table_create(s, t).file = s.file
         /\ psql_table_create(s, t).aborted = FALSE
         /\ psql_table_create(s, t).prepared = s.prepared \cup {t}
<1>. DEFINE s1 == dba_reopen_transaction(s)
            s2 == [s1 EXCEPT !.aborted = TRUE]
            s3 == dba_reopen_transaction(s2)
<1>1. s1 \in Connection /\ s1.saved = s.file /\ s1.file = s.file
      /\ s1.aborted = FALSE /\ s1.prepared = s.prepared
  BY ReopenEffect
<1>. HIDE DEF s1
<1>2. s2 \in Connection /\ s2.saved = s.file /\ s2.aborted = TRUE
      /\ s2.prepared = s.prepared
  BY <1>1 DEF Connection
<1>. HIDE DEF s2
<1>3. s3 \in Connection /\ s3.saved = s.file /\ s3.file = s.file
      /\ s3.aborted = FALSE /\ s3.prepared = s.prepared
  BY <1>2, ReopenEffect
<1>. HIDE DEF s3
<1>4. psql_table_create(s, t) =
        IF t \in s1.prepared THEN s1 ELSE [s3 EXCEPT !.prepared = @ \cup {t}]
  BY DEF psql_table_create, s1, s2, s3
<1>5. CASE t \in s1.prepared
  BY <1>1, <1>4, <1>5
<1>6. CASE t \notin s1.prepared
  BY <1>3, <1>4, <1>6 DEF Connection
<1>. QED
  BY <1>5, <1>6

\* CREATE TABLE aborts the transaction when the table exists.
LEMMA CreateEffect ==
  ASSUME NEW s \in Connection, NEW t \in Names
  PROVE  /\ CREATE_TABLE(s, t) \in Connection
         /\ CREATE_TABLE(s, t).saved = s.saved
         /\ CREATE_TABLE(s, t).prepared = s.prepared
         /\ CREATE_TABLE(s, t).aborted = (s.aborted \/ t \in s.file.tables)
         /\ CREATE_TABLE(s, t).file.tables =
              IF s.aborted \/ t \in s.file.tables THEN s.file.tables ELSE s.file.tables \cup {t}
         /\ CREATE_TABLE(s, t).file.schemas = s.file.schemas
         /\ CREATE_TABLE(s, t).file.start = s.file.start
         /\ CREATE_TABLE(s, t).file.senders = s.file.senders
         /\ CREATE_TABLE(s, t).file.rows = s.file.rows
<1>1. CASE s.aborted
  BY <1>1 DEF CREATE_TABLE, sql_stmt, Connection
<1>2. CASE ~s.aborted /\ t \in s.file.tables
  BY <1>2 DEF CREATE_TABLE, sql_stmt, Connection
<1>3. CASE ~s.aborted /\ t \notin s.file.tables
  <2>1. s.file \in Contents
    BY DEF Connection
  <2>. DEFINE f == [s.file EXCEPT !.tables = @ \cup {t}]
  <2>2. f \in Contents /\ f.tables = s.file.tables \cup {t} /\ f.schemas = s.file.schemas
        /\ f.start = s.file.start /\ f.senders = s.file.senders /\ f.rows = s.file.rows
    BY <2>1 DEF Contents
  <2>3. CREATE_TABLE(s, t) = [s EXCEPT !.file = f]
    BY <1>3 DEF CREATE_TABLE, sql_stmt
  <2>. HIDE DEF f
  <2>. QED
    BY <1>3, <2>2, <2>3 DEF Connection
<1>. QED
  BY <1>1, <1>2, <1>3

\* A map of senders is a function from some clients to numbers.
LEMMA SenderMap ==
  /\ \A m \in SenderMaps :
       DOMAIN m \subseteq Clients /\ \A n \in DOMAIN m : m[n] \in Nat
  /\ \A D \in SUBSET Clients : \A m \in [D -> Nat] : m \in SenderMaps
BY DEF SenderMaps

-----------------------------------------------------------------------------
(* One lemma per action.                                                   *)

LEMMA InitOK == Init => Inv
<1>. SUFFICES ASSUME Init PROVE Inv
  OBVIOUS
<1>1. Empty.senders \in SenderMaps /\ DOMAIN Empty.senders = {}
  <2>1. Empty.senders \in [{} -> Nat] /\ {} \in SUBSET Clients
    BY DEF Empty
  <2>. QED
    BY <2>1, SenderMap
<1>2. Empty \in Contents
  BY <1>1 DEF Empty, Contents
<1>3. TypeOK
  BY <1>2, TablesAssumption DEF Init, TypeOK, Connection, Idle, NoSession
<1>4. Phases
  BY TablesAssumption DEF Init, Phases, CreatingStream, Idle, NoSession, Meta, NoTable
<1>5. Catalogue
  <2>1. /\ pg.file.tables = {} /\ pg.saved.tables = {} /\ pc = "closed"
        /\ creating.table = NoTable /\ NoTable \notin Tables
    BY TablesAssumption DEF Init, Empty, Idle
  <2>. QED
    BY <2>1 DEF Catalogue, Complete, CreatingStream
<1>6. SendersOK(Empty.senders)
  BY <1>1 DEF SendersOK, Range
<1>7. Attribution
  BY <1>6, TablesAssumption
     DEF Init, Attribution, Attributed, CreatingStream, Empty, Idle, NoSession, Meta, NoTable
<1>. QED
  BY <1>3, <1>4, <1>5, <1>7 DEF Inv

LEMMA CrashKeepsInv == Inv /\ Crash => Inv'
<1>. SUFFICES ASSUME Inv, Crash PROVE Inv'
  OBVIOUS
<1>0. TypeOK /\ Phases /\ Catalogue /\ Attribution
  BY DEF Inv
<1>1. /\ pg'.file = pg.saved /\ pg'.saved = pg.saved /\ ~pg'.aborted
      /\ pg'.prepared = pg.prepared /\ pg' \in Connection
  BY <1>0 DEF Crash, TypeOK, Connection
<1>2. /\ pc' = "closed" /\ creating' = Idle /\ start_time' = 0
      /\ session' = [c \in Clients |-> NoSession]
      /\ kept' = kept \cap pg.saved.rows /\ refused' = refused /\ sent' = sent
  BY DEF Crash, Closed
<1>3. torn \subseteq torn' /\ torn' \subseteq Names
  BY <1>0 DEF Crash, TypeOK, Phases, CreatingStream, Names
<1>4. TypeOK'
  BY <1>0, <1>1, <1>2, <1>3 DEF TypeOK, Idle, NoSession
<1>5. Phases'
  BY <1>1, <1>2, TablesAssumption DEF Phases, CreatingStream, Idle, NoSession
<1>6. Complete(pg.saved, {})'
  <2>1. CASE pc = "metadata" \/ pc = "finish"
    <3>1. Complete(pg.saved, {creating.table})
      BY <1>0, <2>1 DEF Catalogue
    <3>2. torn' = torn \cup {creating.table}
      BY <2>1 DEF Crash
    <3>. QED
      BY <1>1, <3>1, <3>2 DEF Complete
  <2>2. CASE ~(pc = "metadata" \/ pc = "finish")
    <3>1. Complete(pg.saved, {Meta})
      BY <1>0, <2>2 DEF Catalogue, Complete, TypeOK, Phases, Crash
    <3>2. Meta \in pg.saved.tables /\ Meta \notin pg.saved.schemas => Meta \in torn'
      BY <2>2 DEF Crash
    <3>. QED
      BY <1>1, <1>3, <3>1, <3>2 DEF Complete
  <2>. QED
    BY <2>1, <2>2
<1>7. Catalogue'
  BY <1>0, <1>1, <1>2, <1>6, TablesAssumption
     DEF Catalogue, Complete, CreatingStream, Idle
<1>8. Attribution'
  BY <1>0, <1>1, <1>2, TablesAssumption
     DEF Attribution, Attributed, CreatingStream, Idle, NoSession
<1>. QED
  BY <1>4, <1>5, <1>7, <1>8 DEF Inv

LEMMA OpenKeepsInv == Inv /\ Open => Inv'
<1>. SUFFICES ASSUME Inv, Open PROVE Inv'
  OBVIOUS
<1>0. TypeOK /\ Phases /\ Catalogue /\ Attribution
  BY DEF Inv
<1>a. /\ pc = "closed" /\ pg.file = pg.saved /\ ~pg.aborted /\ pg \in Connection
      /\ creating = Idle /\ \A c \in Clients : session[c] = NoSession
  BY <1>0 DEF Open, Phases, TypeOK, CreatingStream
<1>1. CASE UNCHANGED <<pg, server>>
  BY <1>0, <1>1
     DEF Open, server, Inv, TypeOK, Phases, Catalogue, Complete, Attribution, CreatingStream
<1>2. CASE ~(UNCHANGED <<pg, server>>)
  <2>. DEFINE listed == psql_get_table_list(pg.saved)
              s == [pg EXCEPT !.prepared = listed \ {Senders}]
              s1 == IF Senders \in listed THEN s ELSE CREATE_TABLE(s, Senders)
  <2>1. listed \subseteq Names /\ (Meta \in listed => Meta \in pg.saved.tables)
        /\ (Meta \notin pg.saved.tables => listed = {})
    BY <1>a DEF psql_get_table_list, Connection, Contents, Names, Meta, Senders
  <2>2. s \in Connection /\ s.file = pg.saved /\ s.saved = pg.saved
        /\ s.prepared = listed \ {Senders} /\ ~s.aborted
    BY <1>a, <2>1 DEF Connection
  <2>. HIDE DEF listed, s
  <2>3. /\ s1 \in Connection /\ s1.saved = pg.saved
        /\ s1.prepared = listed \ {Senders}
        /\ pg.saved.tables \subseteq s1.file.tables
        /\ s1.file.tables \subseteq pg.saved.tables \cup {Senders}
        /\ s1.file.schemas = pg.saved.schemas /\ s1.file.start = pg.saved.start
        /\ s1.file.senders = pg.saved.senders /\ s1.file.rows = pg.saved.rows
    <3>1. CASE Senders \in listed
      BY <2>2, <3>1
    <3>2. CASE Senders \notin listed
      <4>. DEFINE r == CREATE_TABLE(s, Senders)
      <4>1. s1 = r
        BY <3>2
      <4>2. Senders \in Names
        BY DEF Names
      <4>3. /\ r \in Connection /\ r.saved = s.saved /\ r.prepared = s.prepared
            /\ r.file.tables = IF s.aborted \/ Senders \in s.file.tables THEN s.file.tables
                               ELSE s.file.tables \cup {Senders}
            /\ r.file.schemas = s.file.schemas /\ r.file.start = s.file.start
            /\ r.file.senders = s.file.senders /\ r.file.rows = s.file.rows
        BY <2>2, <4>2, CreateEffect
      <4>. HIDE DEF r
      <4>. QED
        BY <2>2, <4>1, <4>3
    <3>. QED
      BY <3>1, <3>2
  <2>. HIDE DEF s1
  <2>4. /\ ~s1.aborted /\ pg' = s1 /\ session' = session
        /\ \/ Meta \in listed /\ pc' = "open" /\ start_time' = s1.file.start /\ creating' = creating
           \/ /\ Meta \notin listed /\ pc' = "create" /\ creating' = [Idle EXCEPT !.table = Meta]
              /\ start_time' = start_time
        /\ sent' = sent /\ kept' = kept /\ refused' = refused /\ torn' = torn
    BY <1>2 DEF Open, s1, s, listed
  <2>5. creating'.table = (IF pc' = "open" THEN NoTable ELSE Meta) /\ creating'.by = NoTable
    BY <1>a, <2>4 DEF Idle
  <2>6. ~CreatingStream'
    BY <2>5, TablesAssumption DEF CreatingStream
  <2>7. TypeOK'
    BY <1>0, <2>3, <2>4 DEF TypeOK, Idle, Connection, Contents
  <2>8. Phases'
    <3>1. pc' = "open" \/ (pc' = "create" /\ creating'.table = Meta)
      BY <2>4, <2>5
    <3>. QED
      BY <1>a, <2>4, <2>6, <3>1 DEF Phases, NoSession
  <2>9. Catalogue'
    <3>1. Complete(pg.saved, {}) /\ torn' = torn
      BY <1>0, <1>a, <2>4 DEF Catalogue
    <3>2. Complete(pg.saved, {})' /\ Complete(pg.file, {})'
      BY <2>3, <2>4, <3>1 DEF Complete
    <3>3. Meta \notin pg.saved.tables => pg.saved.tables \subseteq {Senders}
      BY <1>0 DEF Catalogue
    <3>4. /\ Meta \notin pg'.saved.tables => pg'.saved.tables \subseteq {Senders}
          /\ Meta \notin pg'.file.tables => pg'.file.tables \subseteq {Senders}
      BY <2>3, <2>4, <3>3
    <3>5. pc' = "open" => Meta \in pg'.file.tables /\ Meta \in pg'.saved.tables
      BY <2>1, <2>3, <2>4
    <3>6. pc' \in {"open", "create"}
      BY <2>4
    <3>7. Meta \notin pg'.file.tables => pg'.prepared = {}
      BY <2>1, <2>3, <2>4
    <3>. QED
      BY <2>6, <3>2, <3>4, <3>5, <3>6, <3>7 DEF Catalogue, Complete
  <2>10. Attribution'
    BY <1>0, <1>a, <2>3, <2>4, <2>6 DEF Attribution, Attributed, NoSession
  <2>. QED
    BY <2>7, <2>8, <2>9, <2>10 DEF Inv
<1>. QED
  BY <1>1, <1>2

\* A stream that is refused, or an opening that fails.
LEMMA CreateTableKeepsInv == Inv /\ CreateTable => Inv'
<1>. SUFFICES ASSUME Inv, CreateTable PROVE Inv'
  OBVIOUS
<1>0. TypeOK /\ Phases /\ Catalogue /\ Attribution
  BY DEF Inv
<1>. DEFINE s == CREATE_TABLE(pg, creating.table)
<1>a. /\ pc = "create" /\ pg \in Connection /\ creating.table \in Names
      /\ CreatingStream \/ creating.table = Meta
  BY <1>0 DEF CreateTable, TypeOK, Phases, CreatingStream, Names
<1>b. /\ s \in Connection /\ s.saved = pg.saved /\ s.prepared = pg.prepared
      /\ s.aborted = (pg.aborted \/ creating.table \in pg.file.tables)
      /\ s.file.tables = IF s.aborted THEN pg.file.tables
                         ELSE pg.file.tables \cup {creating.table}
      /\ s.file.schemas = pg.file.schemas /\ s.file.start = pg.file.start
      /\ s.file.senders = pg.file.senders /\ s.file.rows = pg.file.rows
  BY <1>a, CreateEffect
<1>. HIDE DEF s
<1>c. /\ sent' = sent /\ kept' = kept /\ torn' = torn /\ refused' = (refused \/ s.aborted)
  BY DEF CreateTable, s
<1>1. CASE ~s.aborted /\ pg' = s /\ pc' = "prepare" /\ UNCHANGED <<creating, start_time, session>>
  <2>1. CreatingStream' = CreatingStream
    BY <1>1 DEF CreatingStream
  <2>2. TypeOK'
    BY <1>0, <1>1, <1>b, <1>c DEF TypeOK, Connection
  <2>3. Phases'
    BY <1>0, <1>1, <1>a, <1>b, <1>c, <2>1 DEF Phases
  <2>4. Catalogue'
    BY <1>0, <1>1, <1>a, <1>b, <1>c, <2>1, ZenonT(30) DEF Catalogue, Complete
  <2>5. Attribution'
    BY <1>0, <1>1, <1>b, <1>c, <2>1 DEF Attribution, Attributed
  <2>. QED
    BY <2>2, <2>3, <2>4, <2>5 DEF Inv
<1>2. CASE s.aborted /\ CreateFails(s) /\ creating.table = Meta
  <2>1. /\ pc' = "closed" /\ creating' = Idle /\ start_time' = 0 /\ session' = session
        /\ pg'.file = pg.saved /\ pg'.saved = pg.saved /\ ~pg'.aborted /\ pg' \in Connection
    BY <1>2, <1>b DEF CreateFails, Closed, Connection
  <2>2. refused' /\ ~CreatingStream' /\ \A c \in Clients : session'[c] = NoSession
    BY <1>0, <1>2, <1>c, <2>1, TablesAssumption DEF CreatingStream, Idle, Phases
  <2>3. TypeOK'
    BY <1>0, <1>c, <2>1, <2>2 DEF TypeOK, Idle
  <2>4. Phases'
    BY <2>1, <2>2 DEF Phases, NoSession
  <2>5. Catalogue'
    <3>1. Complete(pg.saved, {})
      BY <1>0, <1>2, <1>a DEF Catalogue
    <3>. QED
      BY <1>0, <1>c, <2>1, <2>2, <3>1 DEF Catalogue, Complete
  <2>6. Attribution'
    BY <1>0, <2>1, <2>2 DEF Attribution, NoSession
  <2>. QED
    BY <2>3, <2>4, <2>5, <2>6 DEF Inv
<1>3. CASE s.aborted /\ CreateFails(s) /\ creating.table # Meta
  <2>1. /\ pc' = "open" /\ creating' = Idle /\ start_time' = start_time
        /\ session' = [session EXCEPT ![creating.by] = NoSession] /\ pg' = s
    BY <1>3 DEF CreateFails
  <2>2. refused' /\ ~CreatingStream' /\ CreatingStream
    BY <1>3, <1>a, <1>c, <2>1, TablesAssumption DEF CreatingStream, Idle
  <2>3. /\ \A c \in Clients : session'[c] = session[c] \/ session'[c] = NoSession
        /\ session' \in [Clients -> [id : Nat \cup {-1}, table : Tables \cup {NoTable}]]
    BY <1>0, <2>1 DEF TypeOK, NoSession
  <2>4. TypeOK'
    BY <1>0, <1>b, <1>c, <2>1, <2>2, <2>3 DEF TypeOK, Idle
  <2>5. Phases'
    <3>1. creating'.table # Meta
      BY <2>1 DEF Idle, Meta, NoTable
    <3>. QED
      BY <1>0, <1>b, <1>c, <2>1, <2>2, <2>3, <3>1 DEF Phases, NoSession
  <2>6. Catalogue'
    <3>1. Complete(pg.saved, {})
      <4>1. creating.table \notin {Meta, Senders}
        BY <2>2, TablesAssumption DEF CreatingStream
      <4>2. pg.aborted \/ ~(pg.file.tables \subseteq {Meta, Senders})
        BY <1>3, <1>b, <4>1
      <4>. QED
        BY <1>0, <1>a, <2>2, <4>2 DEF Catalogue
    <3>. QED
      BY <1>0, <1>3, <1>a, <1>b, <1>c, <2>1, <2>2, <3>1 DEF Catalogue, Complete
  <2>7. Attribution'
    BY <1>0, <1>b, <2>1, <2>2, <2>3 DEF Attribution, NoSession
  <2>. QED
    BY <2>4, <2>5, <2>6, <2>7 DEF Inv
<1>. QED
  BY <1>1, <1>2, <1>3 DEF CreateTable, s

LEMMA PrepareKeepsInv == Inv /\ Prepare => Inv'
<1>. SUFFICES ASSUME Inv, Prepare PROVE Inv'
  OBVIOUS
<1>0. TypeOK /\ Phases /\ Catalogue /\ Attribution
  BY DEF Inv
<1>. DEFINE s == psql_table_create(pg, creating.table)
<1>a. /\ pc = "prepare" /\ pg \in Connection /\ creating.table \in Names /\ ~pg.aborted
      /\ CreatingStream \/ creating.table = Meta
  BY <1>0 DEF Prepare, TypeOK, Phases, CreatingStream, Names
<1>b. /\ s \in Connection /\ s.saved = pg.file /\ s.file = pg.file /\ ~s.aborted
      /\ s.prepared = pg.prepared \cup {creating.table}
  BY <1>a, PrepareEffect
<1>. HIDE DEF s
<1>c. /\ pg' = s /\ pc' = "metadata" /\ creating' = creating /\ start_time' = start_time
      /\ session' = session /\ sent' = sent /\ kept' = kept /\ refused' = refused
      /\ torn' = torn
  BY <1>b DEF Prepare, s, history
<1>1. CreatingStream' = CreatingStream
  BY <1>c DEF CreatingStream
<1>2. TypeOK'
  BY <1>0, <1>b, <1>c DEF TypeOK
<1>3. Phases'
  BY <1>0, <1>a, <1>b, <1>c, <1>1 DEF Phases
<1>4. Catalogue'
  <2>1. Meta \in pg.file.tables
    BY <1>0, <1>a DEF Catalogue, Complete
  <2>. QED
    BY <1>0, <1>a, <1>b, <1>c, <1>1, <2>1 DEF Catalogue, Complete
<1>5. Attribution'
  BY <1>0, <1>b, <1>c, <1>1 DEF Attribution, Attributed
<1>. QED
  BY <1>2, <1>3, <1>4, <1>5 DEF Inv

LEMMA SetMetadataKeepsInv == Inv /\ SetMetadata => Inv'
<1>. SUFFICES ASSUME Inv, SetMetadata PROVE Inv'
  OBVIOUS
<1>0. TypeOK /\ Phases /\ Catalogue /\ Attribution
  BY DEF Inv
<1>a. /\ pc = "metadata" /\ pg \in Connection /\ creating.table \in Names /\ ~pg.aborted
      /\ CreatingStream \/ creating.table = Meta
  BY <1>0 DEF SetMetadata, TypeOK, Phases, CreatingStream, Names
<1>. DEFINE f == [pg.file EXCEPT !.schemas = @ \cup {creating.table}]
<1>b. /\ f \in Contents /\ f.schemas = pg.file.schemas \cup {creating.table}
      /\ f.tables = pg.file.tables /\ f.start = pg.file.start
      /\ f.senders = pg.file.senders /\ f.rows = pg.file.rows
  BY <1>a DEF Connection, Contents
<1>. HIDE DEF f
<1>c. /\ pg' \in Connection /\ pg'.saved = pg.saved /\ pg'.file = f /\ ~pg'.aborted
      /\ pg'.prepared = pg.prepared
  BY <1>a, <1>b DEF SetMetadata, sql_stmt, Connection, f
<1>d. /\ session' = session /\ sent' = sent /\ kept' = kept /\ refused' = refused
      /\ torn' = torn
  BY DEF SetMetadata, history
<1>1. CASE creating.table = Meta
  <2>1. pc' = "open" /\ creating' = Idle /\ start_time' = pg.file.start
    BY <1>1 DEF SetMetadata
  <2>2. /\ ~CreatingStream' /\ creating'.table # Meta
        /\ \A c \in Clients : session[c] = NoSession
    BY <1>0, <1>1, <2>1, TablesAssumption
       DEF CreatingStream, Idle, Phases, Meta, NoTable
  <2>3. TypeOK'
    BY <1>0, <1>a, <1>c, <1>d, <2>1 DEF TypeOK, Idle, Connection, Contents
  <2>4. Phases'
    BY <1>c, <1>d, <2>1, <2>2 DEF Phases, NoSession
  <2>5. Catalogue'
    <3>1. Complete(pg.file, {})'
      BY <1>0, <1>1, <1>a, <1>b, <1>c, <1>d DEF Catalogue, Complete
    <3>2. Complete(pg.saved, {Meta})'
      BY <1>0, <1>1, <1>a, <1>c, <1>d DEF Catalogue, Complete
    <3>3. Complete(pg.saved, {})' \/ (/\ ~pg'.aborted /\ pg'.prepared \subseteq {Meta}
                                      /\ pg'.file.tables \subseteq {Meta, Senders})
      BY <1>0, <1>1, <1>a, <1>b, <1>c, <1>d DEF Catalogue, Complete
    <3>4. /\ Meta \in pg'.file.tables /\ Meta \in pg'.saved.tables
      BY <1>0, <1>a, <1>b, <1>c DEF Catalogue
    <3>. QED
      BY <2>1, <2>2, <3>1, <3>2, <3>3, <3>4 DEF Catalogue
  <2>6. Attribution'
    BY <1>0, <1>b, <1>c, <1>d, <2>1, <2>2 DEF Attribution, Attributed, NoSession
  <2>. QED
    BY <2>3, <2>4, <2>5, <2>6 DEF Inv
<1>2. CASE creating.table # Meta
  <2>1. pc' = "finish" /\ creating' = creating /\ start_time' = start_time
    BY <1>2 DEF SetMetadata
  <2>2. CreatingStream' /\ CreatingStream
    BY <1>2, <1>a, <2>1 DEF CreatingStream
  <2>3. TypeOK'
    BY <1>0, <1>c, <1>d, <2>1 DEF TypeOK
  <2>4. Phases'
    BY <1>0, <1>2, <1>a, <1>c, <1>d, <2>1, <2>2 DEF Phases
  <2>5. Catalogue'
    BY <1>0, <1>2, <1>a, <1>b, <1>c, <1>d, <2>1, <2>2 DEF Catalogue, Complete
  <2>6. Attribution'
    BY <1>0, <1>b, <1>c, <1>d, <2>1, <2>2 DEF Attribution, Attributed
  <2>. QED
    BY <2>3, <2>4, <2>5, <2>6 DEF Inv
<1>. QED
  BY <1>1, <1>2

LEMMA FinishKeepsInv == Inv /\ Finish => Inv'
<1>. SUFFICES ASSUME Inv, Finish PROVE Inv'
  OBVIOUS
<1>0. TypeOK /\ Phases /\ Catalogue /\ Attribution
  BY DEF Inv
<1>. DEFINE s == psql_table_create(pg, creating.table)
<1>a. /\ pc = "finish" /\ pg \in Connection /\ creating.table \in Names /\ ~pg.aborted
      /\ CreatingStream /\ creating.table \in Tables /\ creating.by \in Clients
  BY <1>0 DEF Finish, TypeOK, Phases, CreatingStream, Names
<1>b. /\ s \in Connection /\ s.saved = pg.file /\ s.file = pg.file /\ ~s.aborted
      /\ s.prepared = pg.prepared \cup {creating.table}
  BY <1>a, PrepareEffect
<1>. HIDE DEF s
<1>c. /\ pg' = s /\ pc' = "open" /\ creating' = Idle /\ start_time' = start_time
      /\ session' = [session EXCEPT ![creating.by].table = creating.table]
      /\ sent' = sent /\ kept' = kept /\ refused' = refused /\ torn' = torn
  BY DEF Finish, s, history
<1>d. /\ session' \in [Clients -> [id : Nat \cup {-1}, table : Tables \cup {NoTable}]]
      /\ \A c \in Clients : session'[c].id = session[c].id
      /\ \A c \in Clients : c # creating.by => session'[c] = session[c]
      /\ session'[creating.by].table = creating.table
  BY <1>0, <1>a, <1>c DEF TypeOK
<1>e. ~CreatingStream' /\ creating'.table # Meta
  BY <1>c, TablesAssumption DEF CreatingStream, Idle, Meta, NoTable
<1>1. TypeOK'
  BY <1>0, <1>b, <1>c, <1>d DEF TypeOK, Idle
<1>2. Phases'
  <2>1. ASSUME NEW c \in Clients, session'[c].table # NoTable
        PROVE  session'[c].id # -1 /\ session'[c].table \in pg'.prepared
    BY <1>0, <1>a, <1>b, <1>c, <1>d, <2>1 DEF Phases
  <2>. QED
    BY <1>b, <1>c, <1>e, <2>1 DEF Phases
<1>3. Catalogue'
  BY <1>0, <1>a, <1>b, <1>c, <1>e DEF Catalogue, Complete
<1>4. Attribution'
  BY <1>0, <1>a, <1>b, <1>c, <1>d, <1>e DEF Attribution, Attributed
<1>. QED
  BY <1>1, <1>2, <1>3, <1>4 DEF Inv

LEMMA DeclareKeepsInv ==
  ASSUME Inv, NEW c \in Clients, NEW t \in Tables, Declare(c, t)
  PROVE  Inv'
<1>0. TypeOK /\ Phases /\ Catalogue /\ Attribution
  BY DEF Inv
<1>a. /\ pc = "open" /\ session[c].id # -1 /\ pg' = pg /\ start_time' = start_time
      /\ sent' = sent /\ kept' = kept /\ refused' = refused /\ torn' = torn
  BY DEF Declare, history
<1>b. creating.table # Meta
  <2>1. creating = Idle
    BY <1>0, <1>a DEF Phases
  <2>. QED
    BY <2>1 DEF Idle, Meta, NoTable
<1>1. CASE /\ t \in pg.prepared /\ session' = [session EXCEPT ![c].table = t]
           /\ UNCHANGED <<pc, creating>>
  <2>1. /\ session' \in [Clients -> [id : Nat \cup {-1}, table : Tables \cup {NoTable}]]
        /\ \A d \in Clients : session'[d].id = session[d].id
        /\ \A d \in Clients : d # c => session'[d] = session[d]
        /\ session'[c].table = t
    BY <1>0, <1>1 DEF TypeOK
  <2>2. CreatingStream' = CreatingStream /\ ~CreatingStream
    BY <1>0, <1>1, <1>a, TablesAssumption DEF CreatingStream, Phases, Idle
  <2>3. TypeOK'
    BY <1>0, <1>1, <1>a, <1>b, <2>1 DEF TypeOK
  <2>4. Phases'
    <3>1. ASSUME NEW d \in Clients, session'[d].table # NoTable
          PROVE  session'[d].id # -1 /\ session'[d].table \in pg'.prepared
      BY <1>0, <1>1, <1>a, <1>b, <2>1, <3>1 DEF Phases
    <3>. QED
      BY <1>0, <1>1, <1>a, <1>b, <2>2, <3>1 DEF Phases
  <2>5. Catalogue'
    BY <1>0, <1>1, <1>a, <1>b, <2>2 DEF Catalogue, Complete
  <2>6. Attribution'
    BY <1>0, <1>1, <1>a, <1>b, <2>1, <2>2 DEF Attribution, Attributed
  <2>. QED
    BY <2>3, <2>4, <2>5, <2>6 DEF Inv
<1>2. CASE /\ pc' = "create" /\ creating' = [table |-> t, by |-> c] /\ UNCHANGED session
  <2>1. CreatingStream' /\ creating'.table # Meta
    BY <1>2, TablesAssumption DEF CreatingStream
  <2>2. TypeOK'
    BY <1>0, <1>2, <1>a DEF TypeOK
  <2>3. Phases'
    BY <1>0, <1>2, <1>a, <1>b, <2>1 DEF Phases
  <2>4. Catalogue'
    BY <1>0, <1>2, <1>a, <1>b, <2>1 DEF Catalogue, Complete
  <2>5. Attribution'
    BY <1>0, <1>2, <1>a, <1>b, <2>1 DEF Attribution, Attributed
  <2>. QED
    BY <2>2, <2>3, <2>4, <2>5 DEF Inv
<1>. QED
  BY <1>1, <1>2 DEF Declare

\* The largest id plus one is nobody's, and the largest one from then on.
LEMMA AddSender ==
  ASSUME NEW old \in SenderMaps, SendersOK(old), NEW c \in Clients, c \notin DOMAIN old
  PROVE  LET ids == Range(old) \cup {0}
             id  == (CHOOSE m \in ids : \A i \in ids : i <= m) + 1
             new == [n \in DOMAIN old \cup {c} |-> IF n = c THEN id ELSE old[n]]
         IN  /\ id \in Nat /\ \A n \in DOMAIN old : n # c => old[n] # id
             /\ new \in SenderMaps /\ SendersOK(new)
<1>. DEFINE ids == Range(old) \cup {0}
            m   == CHOOSE m \in ids : \A i \in ids : i <= m
            id  == m + 1
            new == [n \in DOMAIN old \cup {c} |-> IF n = c THEN id ELSE old[n]]
<1>1. DOMAIN old \subseteq Clients /\ \A n \in DOMAIN old : old[n] \in Nat
  BY SenderMap
<1>2. ids \subseteq Nat /\ \A n \in DOMAIN old : old[n] \in ids
  BY <1>1 DEF Range
<1>3. m \in ids /\ \A i \in ids : i <= m
  BY DEF SendersOK
<1>4. m \in Nat
  BY <1>2, <1>3
<1>. HIDE DEF m, ids
<1>5. id \in Nat /\ \A n \in DOMAIN old : old[n] < id
  <2>1. ASSUME NEW n \in DOMAIN old PROVE old[n] < m + 1
    <3>1. old[n] \in Nat /\ old[n] <= m
      BY <1>1, <1>2, <1>3
    <3>. QED
      BY <1>4, <3>1
  <2>. QED
    BY <1>4, <2>1
<1>6. new \in [DOMAIN old \cup {c} -> Nat]
  BY <1>1, <1>5
<1>7. new \in SenderMaps
  BY <1>1, <1>6, SenderMap
<1>8. /\ DOMAIN new = DOMAIN old \cup {c} /\ new[c] = id
      /\ \A n \in DOMAIN old : new[n] = old[n]
  OBVIOUS
<1>. HIDE DEF id, new
<1>9. \A a, b \in DOMAIN new : new[a] = new[b] => a = b
  <2>. SUFFICES ASSUME NEW a \in DOMAIN new, NEW b \in DOMAIN new, new[a] = new[b]
                PROVE  a = b
    OBVIOUS
  <2>1. CASE a \in DOMAIN old /\ b \in DOMAIN old
    BY <1>8, <2>1 DEF SendersOK
  <2>2. CASE a = c /\ b \in DOMAIN old
    <3>1. old[b] \in Nat /\ id \in Nat /\ old[b] < id
      BY <1>1, <1>5, <2>2
    <3>2. old[b] # id
      BY <3>1
    <3>. QED
      BY <1>8, <2>2, <3>2
  <2>3. CASE b = c /\ a \in DOMAIN old
    <3>1. old[a] \in Nat /\ id \in Nat /\ old[a] < id
      BY <1>1, <1>5, <2>3
    <3>2. old[a] # id
      BY <3>1
    <3>. QED
      BY <1>8, <2>3, <3>2
  <2>. QED
    BY <1>8, <2>1, <2>2, <2>3
<1>10. \E k \in Range(new) \cup {0} : \A i \in Range(new) \cup {0} : i <= k
  <2>1. id \in Range(new)
    BY <1>8 DEF Range
  <2>2. \A i \in Range(new) \cup {0} : i <= id
    <3>1. \A n \in DOMAIN new : new[n] <= id
      BY <1>1, <1>5, <1>8
    <3>. QED
      BY <1>5, <3>1 DEF Range
  <2>. QED
    BY <2>1, <2>2
<1>11. SendersOK(new)
  BY <1>9, <1>10 DEF SendersOK
<1>12. \A n \in DOMAIN old : n # c => old[n] # id
  BY <1>1, <1>5
<1>. QED
  BY <1>5, <1>7, <1>11, <1>12 DEF id, new, m, ids

\* What the two headers do: nothing in a transaction that is aborted;
\* otherwise the client gets its id, and no other client's id changes.
LEMMA HelloEffect ==
  ASSUME Inv, NEW c \in Clients, Hello(c)
  PROVE  /\ pg' \in Connection /\ pg'.saved = pg.saved /\ pg'.prepared = pg.prepared
         /\ pg'.aborted = pg.aborted
         /\ pg'.file.tables = pg.file.tables /\ pg'.file.schemas = pg.file.schemas
         /\ pg'.file.rows = pg.file.rows
         /\ SendersOK(pg'.file.senders)
         /\ session' \in [Clients -> [id : Nat \cup {-1}, table : Tables \cup {NoTable}]]
         /\ \A d \in Clients : d # c => session'[d] = session[d]
         /\ session'[c].table = NoTable /\ session'[c].id \in Nat
         /\ ~pg.aborted =>
              /\ pg'.file.start = IF start_time = 0 THEN Start[c] ELSE pg.file.start
              /\ c \in DOMAIN pg'.file.senders /\ pg'.file.senders[c] = session'[c].id
              /\ \A n \in DOMAIN pg.file.senders :
                   n \in DOMAIN pg'.file.senders
                   /\ pg'.file.senders[n] = pg.file.senders[n]
<1>. DEFINE id == psql_add_sender_id(pg, c)
            s == IF psql_get_sender_id(pg, c) # NULL THEN pg ELSE psql_set_sender_id(pg, c, id)
<1>0. /\ TypeOK /\ pg \in Connection /\ pg.file \in Contents
      /\ pg.file.senders \in SenderMaps /\ SendersOK(pg.file.senders)
  BY DEF Inv, TypeOK, Attribution, Connection, Contents
<1>1. \A n \in DOMAIN pg.file.senders : pg.file.senders[n] \in Nat
  BY <1>0, SenderMap
<1>2. /\ s \in Connection /\ s.saved = pg.saved /\ s.prepared = pg.prepared
      /\ s.aborted = pg.aborted /\ s.file.start = pg.file.start
      /\ s.file.tables = pg.file.tables /\ s.file.schemas = pg.file.schemas
      /\ s.file.rows = pg.file.rows /\ SendersOK(s.file.senders) /\ id \in Nat
      /\ ~pg.aborted =>
           /\ c \in DOMAIN s.file.senders /\ s.file.senders[c] = id
           /\ \A n \in DOMAIN pg.file.senders :
                n \in DOMAIN s.file.senders /\ s.file.senders[n] = pg.file.senders[n]
  <2>1. CASE pg.aborted
    <3>1. psql_get_sender_id(pg, c) = NULL /\ id = 0
      BY <2>1 DEF psql_get_sender_id, psql_add_sender_id
    <3>2. s = pg
      BY <2>1, <3>1 DEF psql_set_sender_id, sql_stmt
    <3>. HIDE DEF s, id
    <3>. QED
      BY <1>0, <2>1, <3>1, <3>2
  <2>2. CASE ~pg.aborted /\ c \in DOMAIN pg.file.senders
    <3>1. psql_get_sender_id(pg, c) = pg.file.senders[c]
      BY <2>2 DEF psql_get_sender_id
    <3>2. pg.file.senders[c] \in Nat /\ pg.file.senders[c] # NULL
      BY <1>1, <2>2 DEF NULL
    <3>3. id = pg.file.senders[c] /\ s = pg
      BY <3>1, <3>2 DEF psql_add_sender_id
    <3>. QED
      BY <1>0, <2>2, <3>2, <3>3
  <2>3. CASE ~pg.aborted /\ c \notin DOMAIN pg.file.senders
    <3>. DEFINE old == pg.file.senders
                ids == Range(old) \cup {0}
                i == (CHOOSE m \in ids : \A j \in ids : j <= m) + 1
                new == [n \in DOMAIN old \cup {c} |-> IF n = c THEN i ELSE old[n]]
                f == [pg.file EXCEPT !.senders = new]
    <3>1. psql_get_sender_id(pg, c) = NULL /\ id = i
      BY <2>3 DEF psql_get_sender_id, psql_add_sender_id
    <3>2. /\ i \in Nat /\ \A n \in DOMAIN old : n # c => old[n] # i
          /\ new \in SenderMaps /\ SendersOK(new)
      BY <1>0, <2>3, AddSender
    <3>3. s = [pg EXCEPT !.file = f]
      BY <2>3, <3>1, <3>2 DEF psql_set_sender_id, sql_stmt
    <3>4. c \in DOMAIN new /\ new[c] = i
          /\ \A n \in DOMAIN old : n \in DOMAIN new /\ new[n] = old[n]
      BY <2>3
    <3>. HIDE DEF new, i
    <3>5. /\ f \in Contents /\ f.tables = pg.file.tables /\ f.schemas = pg.file.schemas
          /\ f.start = pg.file.start /\ f.rows = pg.file.rows /\ f.senders = new
      BY <1>0, <3>2 DEF Contents
    <3>. HIDE DEF f
    <3>6. /\ s \in Connection /\ s.saved = pg.saved /\ s.prepared = pg.prepared
          /\ s.aborted = pg.aborted /\ s.file = f
      BY <1>0, <3>3, <3>5 DEF Connection
    <3>. HIDE DEF s
    <3>. QED
      BY <2>3, <3>1, <3>2, <3>4, <3>5, <3>6
  <2>. QED
    BY <2>1, <2>2, <2>3
<1>. HIDE DEF s, id
<1>3. /\ session' = [session EXCEPT ![c].id = id]
      /\ pg' = IF start_time = 0 THEN sql_stmt(s, TRUE, [s.file EXCEPT !.start = Start[c]]) ELSE s
      /\ session[c] = NoSession
  BY DEF Hello, s, id
<1>4. /\ session' \in [Clients -> [id : Nat \cup {-1}, table : Tables \cup {NoTable}]]
      /\ \A d \in Clients : d # c => session'[d] = session[d]
      /\ session'[c].table = NoTable /\ session'[c].id = id
  BY <1>0, <1>2, <1>3 DEF TypeOK, NoSession
<1>5. CASE start_time # 0 \/ s.aborted
  <2>1. pg' = s
    BY <1>3, <1>5 DEF sql_stmt
  <2>. QED
    BY <1>2, <1>4, <1>5, <2>1
<1>6. CASE start_time = 0 /\ ~s.aborted
  <2>. DEFINE f == [s.file EXCEPT !.start = Start[c]]
  <2>1. /\ f \in Contents /\ f.tables = s.file.tables /\ f.schemas = s.file.schemas
        /\ f.start = Start[c] /\ f.rows = s.file.rows /\ f.senders = s.file.senders
    BY <1>2, PsqlAssumption DEF Connection, Contents
  <2>2. pg' = [s EXCEPT !.file = f]
    BY <1>3, <1>6 DEF sql_stmt
  <2>. HIDE DEF f
  <2>3. /\ pg' \in Connection /\ pg'.saved = s.saved /\ pg'.prepared = s.prepared
        /\ pg'.aborted = s.aborted /\ pg'.file = f
    BY <1>2, <2>1, <2>2 DEF Connection
  <2>. QED
    BY <1>2, <1>4, <1>6, <2>1, <2>3
<1>. QED
  BY <1>5, <1>6

LEMMA HelloKeepsInv ==
  ASSUME Inv, NEW c \in Clients, Hello(c)
  PROVE  Inv'
<1>0. TypeOK /\ Phases /\ Catalogue /\ Attribution
  BY DEF Inv
<1>a. /\ pc = "open" /\ pc' = pc /\ creating' = creating /\ creating = Idle
      /\ session[c] = NoSession
      /\ start_time' = (IF start_time = 0 THEN Start[c] ELSE start_time)
      /\ sent' = sent /\ kept' = kept /\ refused' = refused /\ torn' = torn
  BY <1>0 DEF Hello, history, Phases
<1>b. ~CreatingStream /\ ~CreatingStream' /\ creating.table # Meta
  BY <1>a, TablesAssumption DEF CreatingStream, Idle, Meta, NoTable
<1>c. start_time' \in Nat /\ start_time' # 0
  BY <1>0, <1>a, PsqlAssumption DEF TypeOK
<1>1. TypeOK'
  BY <1>0, <1>a, <1>c, HelloEffect DEF TypeOK
<1>2. Phases'
  <2>1. ASSUME NEW d \in Clients, session'[d].table # NoTable
        PROVE  session'[d].id # -1 /\ session'[d].table \in pg'.prepared
    <3>1. d # c
      BY <2>1, HelloEffect
    <3>2. session'[d] = session[d] /\ pg'.prepared = pg.prepared
      BY <3>1, HelloEffect
    <3>. QED
      BY <1>0, <2>1, <3>2 DEF Phases
  <2>2. pg'.aborted = pg.aborted
    BY HelloEffect
  <2>. QED
    BY <1>0, <1>a, <1>b, <2>1, <2>2 DEF Phases
<1>3. Catalogue'
  BY <1>0, <1>a, <1>b, HelloEffect DEF Catalogue, Complete
<1>4. Attribution'
  <2>1. SendersOK(pg'.file.senders) /\ SendersOK(pg'.saved.senders)
    BY <1>0, HelloEffect DEF Attribution
  <2>2. ASSUME ~refused
        PROVE  /\ Attributed(pg.file)' /\ Attributed(pg.saved)'
               /\ start_time' = pg'.file.start
               /\ \A d \in Clients : session'[d].id # -1 =>
                    d \in DOMAIN pg'.file.senders /\ pg'.file.senders[d] = session'[d].id
               /\ kept' \subseteq pg'.file.rows
    <3>1. ~pg.aborted /\ start_time = pg.file.start
      BY <1>0, <1>a, <2>2 DEF Phases, Attribution
    <3>2. start_time' = pg'.file.start
      BY <1>a, <3>1, HelloEffect
    <3>3. Attributed(pg.saved)'
      BY <1>0, <2>2, HelloEffect DEF Attribution, Attributed
    <3>4. Attributed(pg.file)'
      <4>. SUFFICES ASSUME NEW r \in pg'.file.rows
                    PROVE  /\ r.by \in DOMAIN pg'.file.senders
                           /\ pg'.file.senders[r.by] = r.id
                           /\ r.origin = pg'.file.start /\ r.origin # 0
        BY DEF Attributed
      <4>1. /\ r.by \in DOMAIN pg.file.senders /\ pg.file.senders[r.by] = r.id
            /\ r.origin = pg.file.start /\ r.origin # 0
        BY <1>0, <2>2, HelloEffect DEF Attribution, Attributed
      <4>2. pg'.file.start = pg.file.start
        BY <1>a, <3>1, <3>2, <4>1
      <4>. QED
        BY <3>1, <4>1, <4>2, HelloEffect
    <3>5. ASSUME NEW d \in Clients, session'[d].id # -1
          PROVE  d \in DOMAIN pg'.file.senders /\ pg'.file.senders[d] = session'[d].id
      <4>1. CASE d = c
        BY <3>1, <4>1, HelloEffect
      <4>2. CASE d # c
        <5>1. session'[d] = session[d]
          BY <4>2, HelloEffect
        <5>2. d \in DOMAIN pg.file.senders /\ pg.file.senders[d] = session[d].id
          BY <1>0, <2>2, <3>5, <5>1 DEF Attribution
        <5>. QED
          BY <3>1, <5>1, <5>2, HelloEffect
      <4>. QED
        BY <4>1, <4>2
    <3>6. kept' \subseteq pg'.file.rows
      BY <1>0, <1>a, <2>2, HelloEffect DEF Attribution
    <3>. QED
      BY <3>2, <3>3, <3>4, <3>5, <3>6
  <2>. QED
    BY <1>a, <1>b, <1>c, <2>1, <2>2 DEF Attribution
<1>. QED
  BY <1>1, <1>2, <1>3, <1>4 DEF Inv

LEMMA ByeKeepsInv ==
  ASSUME Inv, NEW c \in Clients, Bye(c)
  PROVE  Inv'
<1>0. TypeOK /\ Phases /\ Catalogue /\ Attribution
  BY DEF Inv
<1>a. /\ pc = "open" /\ creating = Idle /\ session' = [session EXCEPT ![c] = NoSession]
      /\ sent' = sent /\ kept' = kept /\ refused' = refused /\ torn' = torn
  BY <1>0 DEF Bye, history, Phases
<1>b. /\ session' \in [Clients -> [id : Nat \cup {-1}, table : Tables \cup {NoTable}]]
      /\ \A d \in Clients : session'[d] = session[d] \/ session'[d] = NoSession
  BY <1>0, <1>a DEF TypeOK, NoSession
<1>1. CASE UNCHANGED <<pg, pc, creating, start_time>>
  <2>1. ~CreatingStream' /\ ~CreatingStream /\ creating'.table # Meta /\ creating.table # Meta
    BY <1>1, <1>a, TablesAssumption DEF CreatingStream, Idle, Meta, NoTable
  <2>2. TypeOK'
    BY <1>0, <1>1, <1>a, <1>b DEF TypeOK
  <2>3. Phases'
    BY <1>0, <1>1, <1>a, <1>b, <2>1 DEF Phases, NoSession
  <2>4. Catalogue'
    BY <1>0, <1>1, <1>a, <2>1 DEF Catalogue, Complete
  <2>5. Attribution'
    BY <1>0, <1>1, <1>a, <1>b, <2>1 DEF Attribution, Attributed, NoSession
  <2>. QED
    BY <2>2, <2>3, <2>4, <2>5 DEF Inv
<1>2. CASE /\ {d \in Clients \ {c} : session[d] # NoSession} = {}
           /\ pg' = psql_release(pg) /\ Closed
  <2>1. pc' = "closed" /\ creating' = Idle /\ start_time' = 0
    BY <1>2 DEF Closed
  <2>2. /\ pg' \in Connection /\ pg'.aborted = FALSE /\ pg'.prepared = pg.prepared
        /\ pg'.saved = IF pg.aborted THEN pg.saved ELSE pg.file
        /\ pg'.file = IF pg.aborted THEN pg.saved ELSE pg.file
    BY <1>0, <1>2, ReopenEffect DEF psql_release, TypeOK
  <2>3. ~CreatingStream' /\ creating'.table # Meta
    BY <2>1, TablesAssumption DEF CreatingStream, Idle, Meta, NoTable
  <2>4. \A d \in Clients : session'[d] = NoSession
    BY <1>0, <1>2, <1>a DEF TypeOK
  <2>5. TypeOK'
    BY <1>0, <1>a, <1>b, <2>1, <2>2 DEF TypeOK, Idle
  <2>6. Phases'
    BY <2>1, <2>2, <2>3, <2>4 DEF Phases, NoSession
  <2>7. Catalogue'
    <3>1. IF pg.aborted THEN Complete(pg.saved, {}) ELSE Complete(pg.file, {})
      BY <1>0, <1>a DEF Catalogue
    <3>2. Complete(pg.saved, {})' /\ Complete(pg.file, {})'
      BY <1>a, <2>2, <3>1 DEF Complete
    <3>. QED
      BY <1>0, <2>1, <2>2, <2>3, <3>2 DEF Catalogue, Complete
  <2>8. Attribution'
    <3>1. ~refused => ~pg.aborted
      BY <1>0 DEF Phases
    <3>. QED
      BY <1>0, <1>a, <2>1, <2>2, <2>3, <2>4, <3>1 DEF Attribution, Attributed, NoSession
  <2>. QED
    BY <2>5, <2>6, <2>7, <2>8 DEF Inv
<1>. QED
  BY <1>1, <1>2 DEF Bye

LEMMA InsertKeepsInv ==
  ASSUME Inv, NEW c \in Clients, NEW val \in Values, NEW late \in BOOLEAN,
         Insert(c, val, late)
  PROVE  Inv'
<1>0. TypeOK /\ Phases /\ Catalogue /\ Attribution
  BY DEF Inv
<1>a. /\ pc = "open" /\ creating = Idle /\ session[c].table # NoTable /\ session[c].id # -1
      /\ pc' = pc /\ creating' = creating /\ start_time' = start_time /\ session' = session
      /\ sent' = sent + 1 /\ torn' = torn
  BY <1>0 DEF Insert, server, Phases
<1>b. /\ ~CreatingStream /\ ~CreatingStream' /\ creating.table # Meta
  BY <1>a, TablesAssumption DEF CreatingStream, Idle, Meta, NoTable
\* Something but _experiment_metadata is prepared, so its schema is committed.
<1>c. Complete(pg.saved, {})
  <2>1. session[c].table \in pg.prepared /\ session[c].table \in Tables
    BY <1>0, <1>a DEF Phases, TypeOK
  <2>2. session[c].table # Meta
    BY <2>1, TablesAssumption
  <2>. QED
    BY <1>0, <1>a, <2>1, <2>2 DEF Catalogue
<1>. DEFINE s == IF late THEN dba_reopen_transaction(pg) ELSE pg
            row == [by |-> c, id |-> session[c].id, origin |-> start_time,
                    no |-> sent + 1, table |-> session[c].table]
            f == [s.file EXCEPT !.rows = @ \cup {row}]
<1>d. /\ row \in Rows /\ row.by = c /\ row.id = session[c].id /\ row.origin = start_time
  BY <1>0 DEF TypeOK, Rows
<1>e. /\ s \in Connection /\ s.prepared = pg.prepared
      /\ s = pg \/ (/\ ~s.aborted /\ s.file = s.saved
                    /\ s.saved = IF pg.aborted THEN pg.saved ELSE pg.file)
  <2>1. CASE late
    BY <1>0, <2>1, ReopenEffect DEF TypeOK
  <2>2. CASE ~late
    BY <1>0, <2>2 DEF TypeOK
  <2>. QED
    BY <2>1, <2>2
<1>f. /\ pg' = sql_stmt(s, Accepts(val), f)
      /\ kept' = IF s.aborted \/ ~Accepts(val) THEN kept ELSE kept \cup {row}
      /\ refused' = (refused \/ ~Accepts(val))
  BY DEF Insert, psql_insert
<1>. HIDE DEF s, row
<1>g. /\ f \in Contents /\ f.tables = s.file.tables /\ f.schemas = s.file.schemas
      /\ f.start = s.file.start /\ f.senders = s.file.senders
      /\ f.rows = s.file.rows \cup {row}
  BY <1>d, <1>e DEF Connection, Contents
<1>. HIDE DEF f
<1>h. /\ pg' \in Connection /\ pg'.saved = s.saved /\ pg'.prepared = pg.prepared
      /\ pg'.aborted = (s.aborted \/ ~Accepts(val))
      /\ pg'.file = IF s.aborted \/ ~Accepts(val) THEN s.file ELSE f
  <2>1. CASE s.aborted
    BY <1>e, <1>f, <2>1 DEF sql_stmt, Connection
  <2>2. CASE ~s.aborted /\ Accepts(val)
    BY <1>e, <1>f, <1>g, <2>2 DEF sql_stmt, Connection
  <2>3. CASE ~s.aborted /\ ~Accepts(val)
    BY <1>e, <1>f, <2>3 DEF sql_stmt, Connection
  <2>. QED
    BY <2>1, <2>2, <2>3
<1>i. Complete(s.saved, {}) /\ Complete(s.file, {})
  BY <1>0, <1>a, <1>c, <1>e DEF Catalogue
<1>1. TypeOK'
  BY <1>0, <1>a, <1>d, <1>f, <1>h DEF TypeOK
<1>2. Phases'
  <2>1. pg'.aborted => refused'
    BY <1>0, <1>e, <1>f, <1>h DEF Phases
  <2>. QED
    BY <1>0, <1>a, <1>b, <1>h, <2>1 DEF Phases
<1>3. Catalogue'
  <2>1. pg'.file.tables = s.file.tables /\ pg'.file.schemas = s.file.schemas
    BY <1>g, <1>h
  <2>2. Complete(pg.saved, {})' /\ Complete(pg.file, {})'
    BY <1>a, <1>h, <1>i, <2>1 DEF Complete
  <2>3. Meta \in s.saved.tables /\ Meta \in s.file.tables
    BY <1>0, <1>a, <1>e DEF Catalogue
  <2>. QED
    BY <1>a, <1>b, <1>h, <2>1, <2>2, <2>3 DEF Catalogue, Complete
<1>4. Attribution'
  <2>1. SendersOK(s.file.senders) /\ SendersOK(s.saved.senders)
    BY <1>0, <1>e DEF Attribution
  <2>2. SendersOK(pg'.file.senders) /\ SendersOK(pg'.saved.senders)
    BY <1>g, <1>h, <2>1
  <2>3. ASSUME ~refused'
        PROVE  /\ Attributed(pg.file)' /\ Attributed(pg.saved)'
               /\ start_time' = pg'.file.start
               /\ \A d \in Clients : session'[d].id # -1 =>
                    d \in DOMAIN pg'.file.senders /\ pg'.file.senders[d] = session'[d].id
               /\ kept' \subseteq pg'.file.rows
    <3>1. ~refused /\ Accepts(val) /\ ~pg.aborted /\ ~s.aborted /\ s.file = pg.file
      BY <1>0, <1>e, <1>f, <2>3 DEF Phases
    <3>2. pg'.file = f /\ kept' = kept \cup {row}
      BY <1>f, <1>h, <3>1
    <3>3. Attributed(pg.file) /\ Attributed(s.saved) /\ start_time = pg.file.start
      BY <1>0, <1>a, <1>e, <3>1 DEF Attribution
    <3>4. /\ c \in DOMAIN pg.file.senders /\ pg.file.senders[c] = session[c].id
          /\ start_time # 0
      BY <1>0, <1>a, <3>1 DEF Attribution
    <3>5. Attributed(pg.file)'
      BY <1>d, <1>g, <3>1, <3>2, <3>3, <3>4 DEF Attributed
    <3>6. Attributed(pg.saved)'
      BY <1>h, <3>3 DEF Attributed
    <3>. QED
      BY <1>0, <1>a, <1>g, <3>1, <3>2, <3>3, <3>5, <3>6 DEF Attribution
  <2>. QED
    BY <1>0, <1>a, <1>b, <2>2, <2>3 DEF Attribution
<1>. QED
  BY <1>1, <1>2, <1>3, <1>4 DEF Inv

-----------------------------------------------------------------------------
LEMMA PsqlInvariant == Spec => []Inv
<1>1. Inv /\ [Next]_vars => Inv'
  <2>. SUFFICES ASSUME Inv, [Next]_vars PROVE Inv'
    OBVIOUS
  <2>1. CASE Open \/ CreateTable \/ Prepare \/ SetMetadata \/ Finish \/ Crash
    BY <2>1, OpenKeepsInv, CreateTableKeepsInv, PrepareKeepsInv, SetMetadataKeepsInv,
       FinishKeepsInv, CrashKeepsInv
  <2>2. CASE \E c \in Clients : Hello(c) \/ Bye(c) \/ \E t \in Tables : Declare(c, t)
    BY <2>2, HelloKeepsInv, ByeKeepsInv, DeclareKeepsInv
  <2>3. CASE \E c \in Clients, val \in Values, late \in BOOLEAN : Insert(c, val, late)
    BY <2>3, InsertKeepsInv
  <2>4. CASE UNCHANGED vars
    BY <2>4 DEF vars, server, history, Inv, TypeOK, Phases, Catalogue, Complete,
                Attribution, Attributed, SendersOK, CreatingStream
  <2>. QED
    BY <2>1, <2>2, <2>3, <2>4 DEF Next
<1>. QED
  BY <1>1, InitOK, PTL DEF Spec

\* A table without a schema in _experiment_metadata was left by a crash,
\* whatever statements PostgreSQL refuses: none of the several transactions in
\* which psql_table_create() creates a table can lose the schema and keep the
\* table, not even that of _experiment_metadata, which is committed late.
THEOREM CatalogueIsComplete == Spec => []CatalogueComplete
<1>1. Inv => CatalogueComplete
  BY DEF Inv, Catalogue, Complete, CatalogueComplete
<1>. QED
  BY <1>1, PsqlInvariant, PTL

\* As long as no statement has been refused, what psql_insert() has reported
\* inserted stays, through the transactions that other clients' tables take.
THEOREM InsertedStays == Spec => []InsertedIsKept
<1>1. Inv => InsertedIsKept
  BY DEF Inv, Attribution, InsertedIsKept
<1>. QED
  BY <1>1, PsqlInvariant, PTL

\* As long as no statement has been refused, rows lead back to their senders
\* and to the experiment's origin of time in what is committed and in what is
\* not, for any number of clients, restarts and crashes.
THEOREM RowsAreAttributed == Spec => []AttributedUntilRefused
<1>1. Inv => AttributedUntilRefused
  <2>. SUFFICES ASSUME Inv, ~refused
                PROVE  /\ \A file \in {pg.file, pg.saved} : Attributed(file)
                       /\ \A c, d \in Clients :
                            c # d /\ session[c].id # -1 => session[c].id # session[d].id
    BY DEF AttributedUntilRefused, Attributed
  <2>1. \A file \in {pg.file, pg.saved} : Attributed(file)
    BY DEF Inv, Attribution
  <2>2. ASSUME NEW c \in Clients, NEW d \in Clients, c # d, session[c].id # -1,
               session[c].id = session[d].id
        PROVE  FALSE
    <3>1. /\ c \in DOMAIN pg.file.senders /\ pg.file.senders[c] = session[c].id
          /\ d \in DOMAIN pg.file.senders /\ pg.file.senders[d] = session[d].id
      BY <2>2 DEF Inv, Attribution
    <3>. QED
      BY <2>2, <3>1 DEF Inv, Attribution, SendersOK
  <2>. QED
    BY <2>1, <2>2
<1>. QED
  BY <1>1, PsqlInvariant, PTL
=============================================================================
