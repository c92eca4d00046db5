------------------------------ MODULE Database ------------------------------
(***************************************************************************)
(* Databases of the collection server: server/database.c over the SQLite   *)
(* adapter (server/database_adapter.c, server/sqlite_adapter.c).           *)
(*                                                                         *)
(* Everything about one experimental domain is a record with three parts:  *)
(*   db     the Database object: how many clients use it, the cached start *)
(*          time and sender counter, and the registered tables.  It is in  *)
(*          the list of open databases while ref_count > 0.  gen numbers   *)
(*          the successive objects, so that a pointer to a freed one can   *)
(*          be told from a pointer to its successor;                       *)
(*   file   what a query on the connection sees;                           *)
(*   saved  what survives the process: the state at the last COMMIT.       *)
(* The operators are the functions of the code; each maps such a record to *)
(* its successor.                                                          *)
(***************************************************************************)
EXTENDS Integers, Sequences, FiniteSets

CONSTANTS
  MaxRename,    \* MAX_TABLE_RENAME
  MetaTable     \* columns of _experiment_metadata

ASSUME DatabaseAssumption == MaxRename \in Nat /\ MaxRename >= 2

\* Names are sequences, so that suffixing "t" gives "t_2" and suffixing
\* that gives "t_2_2".
Suffixed(name, i) == IF i = 1 THEN name ELSE Append(name, i)
MetaName == <<"_experiment_metadata">>

\* A map with one more entry, unless the key has one.
Added(map, key, value) ==
  [k \in DOMAIN map \cup {key} |-> IF k \in DOMAIN map THEN map[k] ELSE value]

\* A file that holds nothing.  unlisted is history, like the sender of a row:
\* the ids under which rows may be stored although the list of senders does
\* not have them.
EmptyFile ==
  [start_time |-> 0, senders |-> <<>>, tables |-> <<>>, rows |-> {}, unlisted |-> {}]

Closed(gen) ==
  [gen |-> gen, ref_count |-> 0, start_time |-> 0, tables |-> <<>>, sender_cnt |-> 0]

NewDomain == [db |-> Closed(0), file |-> EmptyFile, saved |-> EmptyFile]

IsOpen(s) == s.db.ref_count > 0

-----------------------------------------------------------------------------
(* Opening and closing.                                                    *)

\* database_init(): the default tables of a new file.  They are created
\* inside the transaction opened by sq3_create_database().
database_init(file) == [file EXCEPT !.tables = Added(@, MetaName, MetaTable)]

\* The part of database_find() for a database that is not open: the tables
\* that the file describes are registered and its start time is cached.
\* Variant: a start time that is not read back.
OpenForgetsStart(s) ==
  LET file == database_init(s.file)
  IN  [s EXCEPT !.file = file,
                !.db = [gen |-> s.db.gen + 1, ref_count |-> 1, start_time |-> 0,
                        tables |-> file.tables, sender_cnt |-> 0]]
Opened(s) ==
  LET file == database_init(s.file)
  IN  [s EXCEPT !.file = file,
                !.db = [gen |-> s.db.gen + 1, ref_count |-> 1,
                        start_time |-> file.start_time,
                        tables |-> file.tables, sender_cnt |-> 0]]

database_find(s) ==
  IF IsOpen(s) THEN [s EXCEPT !.db.ref_count = @ + 1] ELSE Opened(s)

\* The last client ends the transaction, closes the file and frees the
\* tables and the object.
\* Variant: any client closes the database.
ReleaseCloses(s) == [s EXCEPT !.db = Closed(s.db.gen), !.saved = s.file]
database_release(s) ==
  IF s.db.ref_count > 1
  THEN [s EXCEPT !.db.ref_count = @ - 1]
  ELSE [s EXCEPT !.db = Closed(s.db.gen), !.saved = s.file]

\* The process ends without database_release(): SQLite rolls the open
\* transaction back when the file is next opened.
RolledBack(s) == [s EXCEPT !.db = Closed(s.db.gen), !.file = s.saved]

-----------------------------------------------------------------------------
(* Tables.                                                                 *)

\* May a stream of these columns use the i-th name?  Either no table has it
\* or the table that has it has the same columns (schema_diff() = 0).
Fits(s, name, fields, i) ==
  LET n == Suffixed(name, i)
  IN  n \in DOMAIN s.db.tables => s.db.tables[n] = fields

Usable(s, name, fields) ==
  {i \in 1 .. MaxRename - 1 : Fits(s, name, fields, i)}

\* The name under which database_find_or_create_table() files a stream.
TableName(s, name, fields) ==
  LET usable == Usable(s, name, fields)
  IN  Suffixed(name, CHOOSE i \in usable : \A j \in usable : i <= j)

\* CREATE TABLE, the table_<name> metadata from which the columns are read
\* back, and the registration, when the table does not exist yet.
TableCreated(s, n, fields) ==
  [s EXCEPT !.file.tables = Added(@, n, fields), !.db.tables = Added(@, n, fields)]

-----------------------------------------------------------------------------
(* Senders, start time, rows.                                              *)

LargestId(senders) ==
  LET ids == {senders[n] : n \in DOMAIN senders} \cup {0}
  IN  CHOOSE m \in ids : \A i \in ids : i <= m

\* sq3_add_sender_id(): the id that a name gets.
\* Variant: a counter that always starts at 0.
NextIdFromZero(s, name) ==
  IF name \in DOMAIN s.file.senders THEN s.file.senders[name] ELSE s.db.sender_cnt + 1
SenderId(s, name) ==
  IF name \in DOMAIN s.file.senders
  THEN s.file.senders[name]
  ELSE 1 + (IF s.db.sender_cnt = 0 THEN LargestId(s.file.senders) ELSE s.db.sender_cnt)

add_sender_id(s, name) ==
  IF name \in DOMAIN s.file.senders
  THEN s
  ELSE [s EXCEPT !.file.senders = Added(@, name, SenderId(s, name)),
                 !.db.sender_cnt = SenderId(s, name)]

\* The same when sq3_set_sender_id() fails (a statement that is too long for
\* its buffer, or that the database refuses): nobody looks at its result, so
\* the id is used all the same, and only the object remembers it.
SenderNotStored(s, name) ==
  [s EXCEPT !.file.unlisted = @ \cup {<<name, SenderId(s, name)>>},
            !.db.sender_cnt = SenderId(s, name)]

\* The first start-time of an experiment becomes its origin and is stored.
SeedStartTime(s, t) ==
  IF s.db.start_time = 0
  THEN [s EXCEPT !.db.start_time = t, !.file.start_time = t]
  ELSE s

dba_reopen_transaction(s) == [s EXCEPT !.saved = s.file]

\* The prepared INSERT of a table.
Inserted(s, row) == [s EXCEPT !.file.rows = @ \cup {row}]
=============================================================================
