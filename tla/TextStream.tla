----------------------------- MODULE TextStream ------------------------------
(***************************************************************************)
(* A client that declares its streams and writes samples in the text       *)
(* protocol (lib/client/text_writer.c), a connection that hands the text   *)
(* over in pieces, and one of the two programs that read it: the server    *)
(* (process_schema(), process_text_message() in server/client_handler.c),  *)
(* which finds or creates a table for each stream and decodes the samples, *)
(* or the proxy (text_read_msg_start() in lib/shared/text.c), which stores *)
(* the lines.  The server keeps the schema of every table in the           *)
(* _experiment_metadata table of its database, and reads it from there     *)
(* when it is restarted (sq3_get_table_list(), database_init()).           *)
(*                                                                         *)
(* Header keys, senders and reference counts are Server's business.        *)
(***************************************************************************)
EXTENDS Text

CONSTANTS
  Lines,             \* streams a client may declare: idx, name and fields
  InvalidNames,      \* names that are no identifiers
  Rows,              \* samples: time and columns, in one part per filter
  Renamed,           \* Renamed[name][i] is name_i
  MAX_TABLE_RENAME,
  DEF_NUM_VALUES,    \* most parameters of a line
  MaxLines,          \* bound on the declarations of a behaviour
  MaxRows,           \* bound on the samples of a behaviour
  MaxRestarts,       \* bound on the server's restarts
  MaxRefused,        \* bound on the tables without an entry in the catalogue
  Cuts,              \* sizes of the pieces recv() returns, 0 for all there is
  Readers            \* who reads: a subset of {"server", "proxy"}

ASSUME MAX_TABLE_RENAME \in Nat /\ DEF_NUM_VALUES \in Nat

VARIABLES
  sent,        \* the samples sent, each with the line that declared its stream
  wire,        \* text on its way
  reader, pc,  \* who reads; "idle", "processing" a callback, "error"
  b,           \* what is in the reader's MBuffer
  tables,      \* the server's tables: names to schemas
  catalog,     \* the tables in the database: names to table_<name> metadata,
               \* or NoEntry for a table that has none
  committed,   \* those before the transaction that is open
  stream,      \* the tables of the session's streams
  found,       \* history: the lines declared, each with its table
  restarts,    \* history: restarts of the server
  rows,        \* what the server inserted
  stored       \* what the proxy queued

database == <<tables, catalog, committed, stream, found, restarts>>
vars == <<sent, wire, reader, pc, b, database, rows, stored>>

None == [n \in {} |-> n]

Init ==
  /\ sent = <<>> /\ wire = <<>>
  /\ reader \in Readers /\ pc = "idle"
  /\ b = <<>>
  /\ tables = None /\ catalog = None /\ committed = None
  /\ stream = None /\ found = <<>> /\ restarts = 0
  /\ rows = <<>> /\ stored = <<>>

-----------------------------------------------------------------------------
(* Tables.                                                                 *)

validate_schema_names(s) ==
  /\ s.name \notin InvalidNames
  /\ \A i \in 1..Len(s.fields) : s.fields[i].name \notin InvalidNames

\* The names a schema may get: its own, name_2 to name_9.
Candidates(name) ==
  <<name>> \o [i \in 1..(MAX_TABLE_RENAME - 2) |-> Renamed[name][i + 1]]

\* The first of them that is free or is taken by the same schema; "" if there
\* is none.
TableFor(s) ==
  LET names == Candidates(s.name)
      fits == {i \in 1..Len(names) :
                 \/ names[i] \notin DOMAIN tables
                 \/ schema_diff([schema_copy(s) EXCEPT !.name = names[i]],
                                tables[names[i]]) = 0}
  IN IF fits = {} THEN ""
     ELSE names[CHOOSE i \in fits : \A j \in fits : i <= j]

MetaColumns ==
  {"oml_tuple_id", "oml_sender_id", "oml_seq", "oml_ts_client", "oml_ts_server"}

\* There is no statement for a table without columns, and the database takes
\* none with two columns of the same name.
schema_to_sql(s) ==
  LET column == [i \in 1..Len(s.fields) |-> s.fields[i].name]
  IN s.fields # <<>> /\ IsInjective(column) /\ MetaColumns \cap Range(column) = {}

\* CREATE TABLE fails for a table that is in the database, registered or not.
CanCreate(name, s) == schema_to_sql(s) /\ name \notin DOMAIN catalog

NoEntry == [name |-> "", fields |-> <<>>]

\* The table is created and registered.  Its schema is then entered in
\* _experiment_metadata, unless the statement is too long for the buffer of
\* sq3_set_key_value() or is refused by the database; nobody asks.
dba_table_create_from_schema(s) ==
  /\ tables' = (s.name :> s) @@ tables
  /\ \/ catalog' = (s.name :> schema_to_meta(s)) @@ catalog
     \/ /\ Cardinality({n \in DOMAIN catalog : catalog[n] = NoEntry}) < MaxRefused
        /\ catalog' = (s.name :> NoEntry) @@ catalog

\* A header line that does not parse, an invalid name, too many tables of the
\* name and a table that cannot be created all end the session.
process_schema(line) ==
  LET s == schema_from_meta(line)
      name == TableFor(s)
      new == name \notin DOMAIN tables
      ok == s.ok /\ validate_schema_names(s) /\ name # ""
            /\ (new => CanCreate(name, s))
  IN /\ found' = Append(found, [line |-> line, table |-> IF ok THEN name ELSE ""])
     /\ \/ /\ ok
           /\ \/ new /\ dba_table_create_from_schema([s EXCEPT !.name = name])
              \/ ~new /\ UNCHANGED <<tables, catalog>>
           /\ stream' = (line.idx :> [table |-> name, line |-> line]) @@ stream
           /\ UNCHANGED pc
        \/ ~ok /\ pc' = "error" /\ UNCHANGED <<tables, catalog, stream>>
     /\ UNCHANGED <<committed, restarts>>

Declare(line) ==
  /\ reader = "server" /\ pc = "idle"
  /\ Len(found) < MaxLines /\ line.idx \notin DOMAIN stream
  /\ process_schema(line)
  /\ UNCHANGED <<sent, wire, reader, b, rows, stored>>

\* Once a second, what was inserted and created is committed.
Commit ==
  /\ reader = "server" /\ committed # catalog
  /\ committed' = catalog
  /\ UNCHANGED <<sent, wire, reader, pc, b, tables, catalog, stream, found,
                 restarts, rows, stored>>

\* The server goes, at any time, and comes back with the schemas it finds in
\* the database; the client opens a new session.  A session that ended in an
\* error is followed by another one too.
\* A table without an entry is ignored.
sq3_get_table_list(metas) ==
  [n \in {m \in DOMAIN metas : metas[m] # NoEntry} |-> schema_from_meta(metas[n])]

database_init(schemas) == [n \in DOMAIN schemas |-> schema_copy(schemas[n])]

NewSession ==
  /\ pc' = "idle" /\ wire' = <<>> /\ b' = <<>> /\ stream' = None
  /\ UNCHANGED <<sent, reader, rows, stored>>

Restart ==
  /\ reader = "server" /\ restarts < MaxRestarts
  /\ restarts' = restarts + 1
  /\ catalog' = committed
  /\ tables' = database_init(sq3_get_table_list(committed))
  /\ found' = SelectSeq(found, LAMBDA f : f.table \in DOMAIN committed)
  /\ UNCHANGED committed
  /\ NewSession

Reconnect ==
  /\ reader = "server" /\ pc = "error"
  /\ UNCHANGED <<tables, catalog, committed, found, restarts>>
  /\ NewSession

-----------------------------------------------------------------------------
(* The client: a line for a sample.                                        *)

owt_row_start(idx, seqno, now) ==
  <<Fix(Round(now, Fine)), TAB, Num(idx), TAB, Num(seqno)>>

owt_row_end(line) == Append(line, NL)

\* The values of a sample are those of its stream's fields.
Fits(row, line) ==
  LET vals == FlattenSeq(row.cols)
  IN /\ Len(vals) = Len(line.fields)
     /\ \A i \in 1..Len(vals) : vals[i].t = oml_type_from_s(line.fields[i].type)

SendRow(idx, row) ==
  LET seqno == Len(sent) + 1
      text == owt_row_end(FoldLeft(owt_row_cols,
                                   owt_row_start(idx, seqno, row.ts), row.cols))
  IN /\ seqno <= MaxRows /\ pc = "idle"
     /\ sent' = Append(sent, [row |-> row, idx |-> idx, text |-> text])
     /\ wire' = wire \o text
     /\ UNCHANGED <<reader, pc, b, database, rows, stored>>

Sample ==
  \E row \in Rows :
    \/ /\ reader = "server"
       /\ \E i \in DOMAIN stream : Fits(row, stream[i].line) /\ SendRow(i, row)
    \/ /\ reader = "proxy"
       /\ \E line \in Lines : Fits(row, line) /\ SendRow(line.idx, row)

Recv(n) ==
  LET len == IF n = 0 \/ n > Len(wire) THEN Len(wire) ELSE n
  IN /\ pc = "idle" /\ wire # <<>>
     /\ b' = b \o SubSeq(wire, 1, len)
     /\ wire' = SubSeq(wire, len + 1, Len(wire))
     /\ pc' = "processing"
     /\ UNCHANGED <<sent, reader, database, rows, stored>>

-----------------------------------------------------------------------------
(* The server.                                                             *)

\* The length of the first line, -1 if there is none.
LineLength(text) ==
  LET ends == {i \in 1..Len(text) : text[i] = NL}
  IN IF ends = {} THEN -1 ELSE (CHOOSE i \in ends : \A j \in ends : i <= j) - 1

\* Variant: an empty parameter at the end of the line is not one.
SplitDropsEmpty(line) ==
  LET cut(a, sym) == IF sym = TAB THEN Append(a, <<>>)
                     ELSE [a EXCEPT ![Len(a)] = Append(@, sym)]
      all == FoldLeft(cut, <<<<>>>>, line)
  IN IF Last(all) = <<>> THEN Front(all) ELSE all

\* The parameters of a line, between its tabs; none for an empty line.
split(line) ==
  LET cut(a, sym) == IF sym = TAB THEN Append(a, <<>>)
                     ELSE [a EXCEPT ![Len(a)] = Append(@, sym)]
  IN IF line = <<>> THEN <<>> ELSE FoldLeft(cut, <<<<>>>>, line)

ReadLine ==
  /\ reader = "server" /\ pc = "processing"
  /\ LineLength(b) # -1
  /\ b' = SubSeq(b, LineLength(b) + 2, Len(b))
  /\ UNCHANGED <<sent, wire, reader, database, stored>>

NoLine ==
  /\ reader = "server" /\ pc = "processing"
  /\ LineLength(b) = -1
  /\ pc' = "idle"
  /\ UNCHANGED <<sent, wire, reader, b, database, rows, stored>>

\* Too many or too few parameters end the callback, whatever is behind them.
BadLine ==
  /\ ReadLine
  /\ LET n == Len(split(SubSeq(b, 1, LineLength(b))))
     IN n >= DEF_NUM_VALUES \/ n < 3
  /\ pc' = "idle" /\ UNCHANGED rows

\* Nothing is inserted for an unknown stream, another number of values than the
\* table has columns, or a value that cannot be read.
process_text_data_message(msg) ==
  LET idx == strto(msg[2])
      known == idx \in DOMAIN stream
      fields == tables[stream[idx].table].fields
      vals == [i \in 1..Len(fields) |->
                 oml_value_from_s(fields[i].type, msg[i + 3])]
      inserts == /\ known
                 /\ Len(fields) = Len(msg) - 3
                 /\ \A i \in 1..Len(fields) : vals[i].ok
  IN rows' = IF ~inserts THEN rows
             ELSE Append(rows,
               [table |-> stream[idx].table, seqno |-> strto(msg[3]),
                ts |-> msg[1][1][2] * Fine,
                values |-> [i \in 1..Len(fields) |->
                              [t |-> fields[i].type, v |-> vals[i].v]]])

DataLine ==
  /\ ReadLine
  /\ LET msg == split(SubSeq(b, 1, LineLength(b)))
     IN /\ Len(msg) \in 3..(DEF_NUM_VALUES - 1)
        /\ process_text_data_message(msg)
  /\ UNCHANGED pc

-----------------------------------------------------------------------------
(* The proxy stores one line per callback.                                 *)

text_read_value(t, text, from) ==
  LET stops == {i \in from..Len(text) : text[i] \in {TAB, NL}}
      end == CHOOSE i \in stops : \A j \in stops : i <= j
  IN [v |-> oml_value_from_s(t, SubSeq(text, from, end - 1)).v, next |-> end + 1]

\* length is 0 for "no whole line yet".
text_read_msg_start(text) ==
  LET ts == text_read_value("double", text, 1)
      idx == text_read_value("uint32", text, ts.next)
      seqno == text_read_value("uint32", text, idx.next)
  IN IF LineLength(text) = -1
       THEN [length |-> 0, ts |-> <<>>, stream |-> <<>>, seqno |-> <<>>]
       ELSE [length |-> LineLength(text) + 1, ts |-> ts.v, stream |-> idx.v,
             seqno |-> seqno.v]

ProxyLine ==
  LET msg == text_read_msg_start(b)
  IN /\ reader = "proxy" /\ pc = "processing"
     /\ pc' = "idle"
     /\ b' = SubSeq(b, msg.length + 1, Len(b))
     /\ stored' = IF msg.length = 0 THEN stored
                  ELSE Append(stored, [msg |-> msg,
                                       text |-> SubSeq(b, 1, msg.length)])
     /\ UNCHANGED <<sent, wire, reader, database, rows>>

-----------------------------------------------------------------------------

Next ==
  \/ \E line \in Lines : Declare(line)
  \/ Commit \/ Restart \/ Reconnect
  \/ Sample \/ \E n \in Cuts : Recv(n)
  \/ NoLine \/ BadLine \/ DataLine
  \/ ProxyLine

Spec == Init /\ [][Next]_vars

-----------------------------------------------------------------------------
(* What is left of a value on its way.                                     *)

Carried(val) ==
  CASE val.t = "long" ->
         LET max == 2^(Bits32 - 1) - 1
         IN [t |-> "int32",
             v |-> <<CHOOSE n \in {val.v[1], max, -max - 1} :
                       n \in (-max - 1)..max /\ (n # val.v[1] => n * val.v[1] > 0)>>]
    [] val.t = "double" /\ val.v # <<>> ->
         [val EXCEPT !.v[1] = Round(@, Fine) * Fine]
    [] val.t = "[double]" ->
         [val EXCEPT !.v = [i \in DOMAIN @ |-> Significant(@[i])]]
    [] OTHER -> val

\* What the server inserts was measured: the row of the sequence number it
\* gives, value for value up to the decimals that are printed, in the order in
\* which they were sent; so no separator in a string, no empty column, no cut of
\* the stream and no other stream's schema is mistaken for something else.
TextDecodedWasSent ==
  /\ \A k \in 1..Len(rows) :
       /\ rows[k].seqno \in 1..Len(sent)
       /\ LET row == sent[rows[k].seqno].row
              vals == FlattenSeq(row.cols)
          IN /\ rows[k].ts = Round(row.ts, Fine) * Fine
             /\ rows[k].values = [i \in 1..Len(vals) |-> Carried(vals[i])]
  /\ \A j, k \in 1..Len(rows) : j < k => rows[j].seqno < rows[k].seqno

\* A vector of doubles that are normal, and still are when printed.
Readable(val) ==
  val.t = "[double]" => \A i \in 1..Len(val.v) : ~OutOfRange(Significant(val.v[i]))

\* As long as the server stays up and no line was refused, a sample that was
\* received has been inserted: none is dropped for the number of its columns,
\* an empty string at the end of its line or a value that reads badly.  The
\* exceptions are a line of too many parameters and a vector with a double that
\* its DBL_DIG digits put beyond the range of strtod(): the largest doubles,
\* rounded up, and those that are not normal.
EveryLineInserted ==
  reader = "server" /\ pc = "idle" /\ wire = <<>> /\ b = <<>> /\ restarts = 0
    /\ (\A k \in 1..Len(found) : found[k].table # "")
    => \A i \in 1..Len(sent) :
         \/ Len(FlattenSeq(sent[i].row.cols)) + 3 >= DEF_NUM_VALUES
         \/ \E val \in Range(FlattenSeq(sent[i].row.cols)) : ~Readable(val)
         \/ \E k \in 1..Len(rows) : rows[k].seqno = i

\* No table that a stream of this name may have lacks its entry.
Entered(name) ==
  \A n \in Range(Candidates(name)) \cap DOMAIN catalog : catalog[n] # NoEntry

\* A stream that comes back gets its table back: whatever was declared since,
\* and although the catalogue keeps no concepts, a line that was given a table
\* is given the same one again, before and after a restart, and not a renamed
\* copy of it.  The exception are names under which a table was created and not
\* entered in the catalogue: after a restart the server takes such a name for a
\* free one, and cannot create the table that exists.
TableFoundAgain ==
  \A k \in 1..Len(found) :
    found[k].table # "" /\ Entered(found[k].line.name)
      => TableFor(schema_from_meta(found[k].line)) = found[k].table

=============================================================================
