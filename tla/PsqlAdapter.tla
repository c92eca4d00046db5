----------------------------- MODULE PsqlAdapter -----------------------------
(***************************************************************************)
(* The collection server over PostgreSQL: server/psql_adapter.c below      *)
(* server/database.c and server/database_adapter.c, for one experiment.    *)
(*                                                                         *)
(* A transaction is open at all times and is reopened at most once a       *)
(* second, when a sample is inserted.  Three things differ from SQLite: a  *)
(* statement that fails aborts the transaction, every later statement in   *)
(* it fails and its END rolls it back; a column may refuse a value; and    *)
(* creating a table takes several transactions, because asking for a       *)
(* prepared statement that does not exist aborts one.  The server may      *)
(* crash between any two steps.                                            *)
(*                                                                         *)
(* pg is the database: what is committed, what the connection sees,        *)
(* whether its transaction is aborted, and its prepared statements.        *)
(***************************************************************************)
EXTENDS Integers, FiniteSets, Functions

CONSTANTS
  Clients,     \* names of senders
  Tables,      \* tables of their streams
  Start,       \* Start[c]: the start time that c sends
  Values,      \* values of samples: type and number
  Bits32, Bits64,   \* bits of the integer types
  MaxRows,     \* bound on the samples of a behaviour
  MaxCrashes,  \* bound on crashes
  MaxOpens     \* bound on openings of the database

ASSUME PsqlAssumption ==
  /\ Start \in [Clients -> Nat \ {0}]
  /\ Bits32 \in Nat \ {0} /\ Bits64 \in Nat /\ Bits32 < Bits64

VARIABLES
  pg,
  pc,          \* "closed", "create", "prepare", "metadata", "finish" or "open"
  creating,    \* the table that is being created, and for whom
  start_time,  \* of the Database object
  session,     \* what a client's handler knows: its sender id and its table
  sent,        \* number of samples received
  kept,        \* history: the samples whose insertion was reported successful
               \* and that no crash has undone
  refused,     \* history: a statement was reported to have failed
  torn,        \* history: tables whose creation a crash has interrupted
  crashes, opens

server == <<pc, creating, start_time, session>>
history == <<sent, kept, refused, torn, crashes, opens>>
vars == <<pg, server, history>>

Meta == "_experiment_metadata"
Senders == "_senders"

Empty == [tables |-> {}, schemas |-> {}, start |-> 0,
          senders |-> [n \in {} |-> 0], rows |-> {}]
NoTable == ""

\* Streams' tables are named after applications and measurement points.
ASSUME TablesAssumption == {Meta, Senders, NoTable} \cap Tables = {}

NoSession == [id |-> -1, table |-> NoTable]
Idle == [table |-> NoTable, by |-> NoTable]

Init ==
  /\ pg = [saved |-> Empty, file |-> Empty, aborted |-> FALSE, prepared |-> {}]
  /\ pc = "closed" /\ creating = Idle
  /\ start_time = 0 /\ session = [c \in Clients |-> NoSession]
  /\ sent = 0 /\ kept = {} /\ refused = FALSE /\ torn = {}
  /\ crashes = 0 /\ opens = 0

-----------------------------------------------------------------------------
(* PostgreSQL, as the adapter uses it.                                     *)

\* A statement that succeeds gives the connection a new view.
sql_stmt(s, ok, file) ==
  IF s.aborted THEN s
  ELSE IF ok THEN [s EXCEPT !.file = file] ELSE [s EXCEPT !.aborted = TRUE]

\* BEGIN follows; the END of an aborted transaction succeeds, as a rollback.
dba_reopen_transaction(s) ==
  [s EXCEPT !.saved = IF s.aborted THEN @ ELSE s.file,
            !.file = IF s.aborted THEN s.saved ELSE @,
            !.aborted = FALSE]

\* The columns there are for the types, and what each can hold; a guid is
\* printed as a signed number, a uint64 is not.
psql_type_pair ==
  [int32 |-> "INT4", uint32 |-> "INT8", int64 |-> "INT8", uint64 |-> "BIGINT",
   guid |-> "BIGINT", string |-> "TEXT"]

Accepts(val) ==
  LET half(bits) == 2^(bits - 1)
      n == IF val.t = "guid" /\ val.n >= half(Bits64) THEN val.n - 2^Bits64 ELSE val.n
  IN CASE psql_type_pair[val.t] = "INT4" -> n \in (-half(Bits32))..(half(Bits32) - 1)
       [] psql_type_pair[val.t] \in {"INT8", "BIGINT"} ->
            n \in (-half(Bits64))..(half(Bits64) - 1)
       [] OTHER -> TRUE

-----------------------------------------------------------------------------
(* Key-value tables: NULL when the key is not there, and also when the     *)
(* SELECT fails.                                                           *)

NULL == -1

psql_get_sender_id(s, name) ==
  IF ~s.aborted /\ name \in DOMAIN s.file.senders THEN s.file.senders[name] ELSE NULL

\* INSERT for a new name, with names and ids unique.
psql_set_sender_id(s, name, id) ==
  LET old == s.file.senders
  IN sql_stmt(s, \A n \in DOMAIN old : n # name => old[n] # id,
              [s.file EXCEPT !.senders = [n \in DOMAIN old \cup {name} |->
                                            IF n = name THEN id ELSE old[n]]])

\* Variant: the new id is the largest one there is.
AddSenderMax(s, name) ==
  LET id == psql_get_sender_id(s, name)
      ids == Range(s.file.senders) \cup {0}
  IN IF id # NULL THEN id ELSE CHOOSE m \in ids : \A i \in ids : i <= m

\* When MAX(id) cannot be had, "restarting at 0".
psql_add_sender_id(s, name) ==
  LET id == psql_get_sender_id(s, name)
      ids == Range(s.file.senders) \cup {0}
  IN IF id # NULL THEN id
     ELSE IF s.aborted THEN 0
     ELSE (CHOOSE m \in ids : \A i \in ids : i <= m) + 1

-----------------------------------------------------------------------------
(* Opening: psql_create_database(), database_init().                       *)

\* The tables whose schema can be read; without _experiment_metadata there are
\* none.
psql_get_table_list(file) ==
  IF Meta \notin file.tables THEN {}
  ELSE (file.tables \cap {Senders}) \cup (file.tables \cap file.schemas)

CREATE_TABLE(s, t) ==
  sql_stmt(s, t \notin s.file.tables, [s.file EXCEPT !.tables = @ \cup {t}])

\* database_find() for the first client.  The connection may be refused.
Open ==
  LET listed == psql_get_table_list(pg.saved)
      s == [pg EXCEPT !.prepared = listed \ {Senders}]
      s1 == IF Senders \in listed THEN s ELSE CREATE_TABLE(s, Senders)
  IN /\ pc = "closed" /\ opens < MaxOpens
     /\ opens' = opens + 1
     /\ \/ UNCHANGED <<pg, server>>
        \/ /\ ~s1.aborted
           /\ pg' = s1
           /\ \/ Meta \in listed /\ pc' = "open" /\ start_time' = s1.file.start
                 /\ UNCHANGED creating
              \/ /\ Meta \notin listed
                 /\ pc' = "create" /\ creating' = [Idle EXCEPT !.table = Meta]
                 /\ UNCHANGED start_time
           /\ UNCHANGED session
     /\ UNCHANGED <<sent, kept, refused, torn, crashes>>

\* By the last client: the transaction ends with the connection.
psql_release(s) == dba_reopen_transaction(s)

Closed == /\ pc' = "closed" /\ creating' = Idle /\ start_time' = 0

-----------------------------------------------------------------------------
(* Creating a table: dba_table_create_from_schema(), which calls           *)
(* psql_table_create() for the prepared statement before it stores the     *)
(* schema; for a stream it is called by psql_table_create(), which then    *)
(* looks for the prepared statement again.                                 *)

\* A stream is refused and its client disconnected; without
\* _experiment_metadata the database cannot be opened.
CreateFails(s) ==
  IF creating.table = Meta
    THEN /\ Closed /\ UNCHANGED session
         /\ pg' = [s EXCEPT !.file = s.saved, !.aborted = FALSE]
    ELSE /\ pc' = "open" /\ creating' = Idle
         /\ session' = [session EXCEPT ![creating.by] = NoSession]
         /\ pg' = s
         /\ UNCHANGED start_time

CreateTable ==
  LET s == CREATE_TABLE(pg, creating.table)
  IN /\ pc = "create"
     /\ \/ ~s.aborted /\ pg' = s /\ pc' = "prepare"
           /\ UNCHANGED <<creating, start_time, session>>
        \/ s.aborted /\ CreateFails(s)
     /\ refused' = (refused \/ s.aborted)
     /\ UNCHANGED <<sent, kept, torn, crashes, opens>>

\* Variant: the transaction that the question has aborted is not reopened, so
\* that the statement cannot be prepared.
PrepareInAborted(s, t) ==
  IF t \in s.prepared THEN dba_reopen_transaction(s)
  ELSE [dba_reopen_transaction(s) EXCEPT !.aborted = TRUE]

\* Asking for a statement that is not there aborts a transaction, so one is
\* opened for the question and another one after it.
psql_table_create(s, t) ==
  LET s1 == dba_reopen_transaction(s)
  IN IF t \in s1.prepared THEN s1
     ELSE [dba_reopen_transaction([s1 EXCEPT !.aborted = TRUE])
             EXCEPT !.prepared = @ \cup {t}]

Prepare ==
  LET s == psql_table_create(pg, creating.table)
  IN /\ pc = "prepare"
     /\ \/ creating.table \in s.prepared /\ pg' = s /\ pc' = "metadata"
           /\ UNCHANGED <<creating, start_time, session>>
        \/ creating.table \notin s.prepared /\ CreateFails(s)
     /\ UNCHANGED history

\* db->set_metadata(): whether it succeeds is not looked at.
SetMetadata ==
  /\ pc = "metadata"
  /\ pg' = sql_stmt(pg, TRUE, [pg.file EXCEPT !.schemas = @ \cup {creating.table}])
  /\ \/ /\ creating.table = Meta
        /\ pc' = "open" /\ creating' = Idle
        /\ start_time' = pg.file.start
     \/ /\ creating.table # Meta
        /\ pc' = "finish" /\ UNCHANGED <<creating, start_time>>
  /\ UNCHANGED <<session, history>>

Finish ==
  /\ pc = "finish"
  /\ pg' = psql_table_create(pg, creating.table)
  /\ session' = [session EXCEPT ![creating.by].table = creating.table]
  /\ pc' = "open" /\ creating' = Idle
  /\ UNCHANGED <<start_time, history>>

-----------------------------------------------------------------------------
(* Clients.                                                                *)

\* The sender-id and start-time headers.
Hello(c) ==
  LET id == psql_add_sender_id(pg, c)
      s == IF psql_get_sender_id(pg, c) # NULL THEN pg ELSE psql_set_sender_id(pg, c, id)
      first == start_time = 0
  IN /\ pc = "open" /\ session[c] = NoSession
     /\ session' = [session EXCEPT ![c].id = id]
     /\ start_time' = IF first THEN Start[c] ELSE start_time
     /\ pg' = IF first THEN sql_stmt(s, TRUE, [s.file EXCEPT !.start = Start[c]]) ELSE s
     /\ UNCHANGED <<pc, creating, history>>

\* The schema header: the table is found among those that are registered, or
\* created.
Declare(c, t) ==
  /\ pc = "open" /\ session[c].id # -1 /\ session[c].table = NoTable
  /\ \/ /\ t \in pg.prepared
        /\ session' = [session EXCEPT ![c].table = t]
        /\ UNCHANGED <<pc, creating>>
     \/ /\ t \notin pg.prepared
        /\ pc' = "create" /\ creating' = [table |-> t, by |-> c]
        /\ UNCHANGED session
  /\ UNCHANGED <<pg, start_time, history>>

\* Variant: the result of the statement is not looked at.
InsertUnchecked(c, val, late) ==
  LET s == IF late THEN dba_reopen_transaction(pg) ELSE pg
      row == [by |-> c, id |-> session[c].id, origin |-> start_time,
              no |-> sent + 1, table |-> session[c].table]
  IN /\ pg' = sql_stmt(s, Accepts(val), [s.file EXCEPT !.rows = @ \cup {row}])
     /\ kept' = kept \cup {row}
     /\ UNCHANGED refused

\* late: a second has passed since the transaction was opened.
psql_insert(c, val, late) ==
  LET s == IF late THEN dba_reopen_transaction(pg) ELSE pg
      row == [by |-> c, id |-> session[c].id, origin |-> start_time,
              no |-> sent + 1, table |-> session[c].table]
  IN /\ pg' = sql_stmt(s, Accepts(val), [s.file EXCEPT !.rows = @ \cup {row}])
     /\ kept' = IF s.aborted \/ ~Accepts(val) THEN kept ELSE kept \cup {row}
     /\ refused' = (refused \/ ~Accepts(val))

Insert(c, val, late) ==
  /\ pc = "open" /\ session[c].table # NoTable /\ sent < MaxRows
  /\ psql_insert(c, val, late)
  /\ sent' = sent + 1
  /\ UNCHANGED <<server, torn, crashes, opens>>

Bye(c) ==
  LET others == {d \in Clients \ {c} : session[d] # NoSession}
  IN /\ pc = "open" /\ session[c] # NoSession
     /\ session' = [session EXCEPT ![c] = NoSession]
     /\ \/ others # {} /\ UNCHANGED <<pg, pc, creating, start_time>>
        \/ others = {} /\ pg' = psql_release(pg) /\ Closed
     /\ UNCHANGED history

Crash ==
  /\ pc # "closed" /\ crashes < MaxCrashes
  /\ crashes' = crashes + 1
  /\ pg' = [pg EXCEPT !.file = pg.saved, !.aborted = FALSE]
  /\ Closed /\ session' = [c \in Clients |-> NoSession]
  /\ kept' = kept \cap pg.saved.rows
  /\ torn' = IF pc = "metadata" \/ pc = "finish" THEN torn \cup {creating.table}
             ELSE IF Meta \in pg.saved.tables /\ Meta \notin pg.saved.schemas
               THEN torn \cup {Meta} ELSE torn
  /\ UNCHANGED <<sent, refused, opens>>

Next ==
  \/ Open \/ CreateTable \/ Prepare \/ SetMetadata \/ Finish
  \/ \E c \in Clients : Hello(c) \/ Bye(c) \/ \E t \in Tables : Declare(c, t)
  \/ \E c \in Clients, val \in Values, late \in BOOLEAN : Insert(c, val, late)
  \/ Crash

Spec == Init /\ [][Next]_vars

-----------------------------------------------------------------------------

\* Unless PostgreSQL has refused a statement, samples are attributed: the
\* sender id and the time origin of every row are those that the database has
\* for its sender and for the experiment, before and after crashes, and the
\* clients connected have different ids.
AttributedUntilRefused ==
  ~refused =>
    /\ \A file \in {pg.file, pg.saved} : \A r \in file.rows :
         /\ r.by \in DOMAIN file.senders /\ file.senders[r.by] = r.id
         /\ r.origin = file.start
    /\ \A c, d \in Clients :
         c # d /\ session[c].id # -1 => session[c].id # session[d].id

\* Unless a statement has been refused, a sample that was reported inserted is
\* in the database, and a crash undoes only those of the open transaction: that
\* tables are created meanwhile, in transactions of their own, undoes none.
InsertedIsKept == ~refused => kept \subseteq pg.file.rows

\* Between two clients' requests every table but _senders has its schema in
\* _experiment_metadata, where the next opening looks for it, except those
\* whose creation a crash has interrupted.
CatalogueComplete ==
  pc \in {"open", "closed"} =>
    pg.file.tables \subseteq pg.file.schemas \cup torn \cup {Senders}

=============================================================================
