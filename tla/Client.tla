-------------------------------- MODULE Client --------------------------------
(***************************************************************************)
(* The life cycle of the client library: lib/client/init.c, api.c,         *)
(* filter.c and parse_config.c, for one application.                       *)
(*                                                                         *)
(* The application's thread initialises the library, registers             *)
(* measurement points (MPs) before or after omlc_start(), injects samples  *)
(* and metadata, and closes.  Every stream (MS) with an interval has a     *)
(* sampling thread, which is started while the configuration is read, runs *)
(* under the lock of the MP and outlives the stream that it works on.      *)
(*                                                                         *)
(* c is the OmlClient and all that hangs off it: lists of the C code are   *)
(* sequences in the same order, pointers to MPs and writers are positions  *)
(* in them; only the writers are in the order of their creation, which is  *)
(* the reverse of their list, whose order nothing depends on.  mpoints[1] is schema0 and mpoints[2] the instrumentation,     *)
(* each with one field for the several it has.  A writer records what it   *)
(* is given: its header and its rows; BufferedWriter says what becomes of  *)
(* them.  Names, URIs and strings are opaque; the application's name is    *)
(* not prepended to the names of streams.                                  *)
(***************************************************************************)
EXTENDS Filters

CONSTANTS
  MPDefs,         \* MPs of the application: name -> sequence of <<field, type>>
  IllegalNames,   \* names with blanks or dashes
  Samples,        \* Samples[name]: what is injected into an MP
  Settings,       \* command line, environment, configuration file, and the
                  \* bound on events
  FileURIs, BadURIs

VARIABLES
  c,
  pc,             \* where the application is in the life cycle
  file,           \* the configuration file
  asked,          \* history: metadata that omlc_inject_metadata() accepted
  twice,          \* history: names that were given to a second MP
  mps,            \* bound: MPs that may still be added
  events          \* bound: injections, the library's own included, and times
                  \* that sampling threads wake up, that are left

added == <<twice, mps>>
vars == <<c, pc, file, asked, added, events>>

Schema0Def == <<<<"metadata", "string">>>>
InstrDef == <<<<"counters", "int32">>>>

-----------------------------------------------------------------------------
(***************************************************************************)
(* omlc_init(): options, then environment, then a default                  *)
(***************************************************************************)
NoOptions == [id |-> "", domain |-> "", data |-> "", collect |-> "",
              config |-> FALSE, encoding |-> "none", count |-> 0,
              interval |-> 0, instr |-> TRUE, ret |-> 0]

ArgOptions == {"--oml-id", "--oml-domain", "--oml-file", "--oml-collect",
               "--oml-config", "--oml-samples", "--oml-interval",
               "--oml-instr-interval"}

\* An option is <<name, argument>>, or <<name>> if its argument is missing
Option(s, o) ==
  CASE s.ret # 0 -> s
    [] o[1] \in ArgOptions /\ Len(o) = 1 -> [s EXCEPT !.ret = -1]
    [] o[1] = "--oml-id"       -> [s EXCEPT !.id = o[2]]
    [] o[1] = "--oml-domain"   -> [s EXCEPT !.domain = o[2]]
    [] o[1] = "--oml-file"     -> [s EXCEPT !.data = o[2]]
    [] o[1] = "--oml-collect"  -> [s EXCEPT !.collect = o[2]]
    [] o[1] = "--oml-config"   -> [s EXCEPT !.config = TRUE]
    [] o[1] = "--oml-samples"  -> [s EXCEPT !.count = o[2]]
    [] o[1] = "--oml-interval" -> [s EXCEPT !.interval = o[2]]
    [] o[1] = "--oml-text"     -> [s EXCEPT !.encoding = "text"]
    [] o[1] = "--oml-binary"   -> [s EXCEPT !.encoding = "binary"]
    [] o[1] = "--oml-instr-interval" -> [s EXCEPT !.instr = o[2] # 0]
    [] o[1] = "--oml-noop"     -> [s EXCEPT !.ret = 1]
    [] OTHER -> s

Or(x, y) == IF x = "" THEN y ELSE x

\* The environment counts where the command line is silent; a data file
\* keeps OML_COLLECT out and takes the place of any collection URI.
Environment(s, env) ==
  LET collect == IF s.data = "" THEN Or(s.collect, env.collect) ELSE s.collect
  IN  [s EXCEPT !.id = Or(@, env.id), !.domain = Or(@, env.domain),
                !.config = @ \/ env.config,
                !.collect = Or(s.data, Or(collect, "file:default"))]

NewMP(name, params) ==
  [name |-> name, params |-> params, active |-> TRUE, mutex |-> FALSE,
   streams |-> <<>>, default_ms |-> ""]

\* The client that omlc_init() leaves: the two MPs of the library
OmlClient(s) ==
  [live |-> TRUE, started |-> FALSE, announced |-> FALSE,
   id |-> s.id, domain |-> s.domain, uri |-> s.collect, config |-> s.config,
   encoding |-> s.encoding, count |-> s.count, interval |-> s.interval,
   instr |-> s.instr, default_writer |-> 0, next_ms_idx |-> 0, err |-> FALSE,
   mpoints |-> <<NewMP("_experiment_metadata", Schema0Def),
                 NewMP("_client_instrumentation", InstrDef)>>,
   writers |-> <<>>, threads |-> <<>>, injected |-> <<>>,
   crashed |-> FALSE, freed_used |-> FALSE, freed_read |-> FALSE]

Failed(x) == [x EXCEPT !.err = TRUE]
-----------------------------------------------------------------------------
(***************************************************************************)
(* Building streams                                                        *)
(***************************************************************************)
\* A writer is created at the end of the list, or not at all
create_writer(x, uri, encoding) ==
  IF uri = "" \/ x.id = "" \/ x.domain = "" \/ uri \in BadURIs THEN Failed(x)
  ELSE [x EXCEPT !.writers = Append(@,
          [uri |-> uri, header |-> <<>>, done |-> FALSE, open |-> TRUE,
           rows |-> <<>>,
           encoding |-> CASE encoding # "none" -> encoding
                          [] uri \in FileURIs -> "text"
                          [] OTHER -> "binary"])]

LastWriter(x) == Len(x.writers)

find_mp(x, name) == {m \in DOMAIN x.mpoints : x.mpoints[m].name = name}

find_mp_field(name, mp) == {j \in DOMAIN mp.params : mp.params[j][1] = name}

\* Where the stream of a name is: among the streams of every MP
find_mstream(x, table) ==
  UNION {{<<m, k>> : k \in {i \in DOMAIN x.mpoints[m].streams :
                             x.mpoints[m].streams[i].table = table}} :
         m \in DOMAIN x.mpoints}

oml_ms_add_writer(x, at, w) ==
  [x EXCEPT !.mpoints[at[1]].streams[at[2]].writers = Append(@, w)]

\* A stream that exists is given one more writer and keeps its parameters
create_mstream(x, name, m, w, interval, thres) ==
  LET table == Or(name, x.mpoints[m].name)
      found == find_mstream(x, table)
      ms == [table |-> table, thres |-> IF interval > 0 THEN 0 ELSE thres,
             interval |-> interval, filters |-> <<>>, index |-> 0,
             writers |-> IF w = 0 THEN <<>> ELSE <<w>>,
             size |-> 0, seq |-> 0, written |-> 0]
  IN  IF found # {}
      THEN IF w = 0 THEN x ELSE oml_ms_add_writer(x, CHOOSE a \in found : TRUE, w)
      ELSE [x EXCEPT !.mpoints[m].streams = <<ms>> \o @,
                     !.mpoints[m].mutex = @ \/ interval > 0,
                     !.injected = Append(@, [table |-> table, late |-> x.announced,
                                             thres |-> ms.thres, samples |-> <<>>])]

create_default_filter(def, ms, index) ==
  LET several == ms.thres > 1 \/ ms.interval > 0
  IN  create_filter(IF several /\ def[2] \in NumericTypes THEN "avg" ELSE "first",
                    def[1], def[2], index)

create_default_filters(x, m, at) ==
  LET ms == x.mpoints[at[1]].streams[at[2]]
      defs == x.mpoints[m].params
  IN  [x EXCEPT !.mpoints[at[1]].streams[at[2]].filters =
         [j \in DOMAIN defs |-> create_default_filter(defs[j], ms, j)]]

filter_engine_start(x, at) ==
  [x EXCEPT !.threads = Append(@,
     [mp |-> at[1], table |-> x.mpoints[at[1]].streams[at[2]].table,
      begun |-> FALSE, done |-> FALSE])]

\* The default stream of an MP is the one that was first in its list when
\* it was asked for; it is created if there is none.
oml_mp_get_default_ms(x, m) ==
  LET y == create_mstream(x, "", m, x.default_writer, x.interval, x.count)
      z == create_default_filters(y, m, <<m, 1>>)
      made == IF x.mpoints[m].streams # <<>> THEN x
              ELSE IF y.mpoints[m].streams = <<>> THEN Failed(y)
              ELSE IF x.interval > 0 THEN filter_engine_start(z, <<m, 1>>)
              ELSE z
  IN  IF x.mpoints[m].default_ms # "" \/ made.err THEN made
      ELSE [made EXCEPT !.mpoints[m].default_ms = made.mpoints[m].streams[1].table]

AddToDefault(x, m, w) ==
  oml_ms_add_writer(x, CHOOSE a \in find_mstream(x, x.mpoints[m].default_ms) : TRUE, w)

-----------------------------------------------------------------------------
(***************************************************************************)
(* parse_config(): a file is [root, id, domain, collects]; a collect       *)
(* element is [uri, encoding, empty, streams], a stream [mp, name, samples,       *)
(* interval, filters] and a filter [field, oper, rename].  An absent       *)
(* attribute is "" or -1.                                                  *)
(***************************************************************************)
\* A filter that cannot be made is <<>>
parse_filter(e, ms, mp) ==
  LET found == find_mp_field(e.field, mp)
      j == CHOOSE i \in found : \A k \in found : i <= k
      def == mp.params[j]
  IN  CASE found = {} -> <<>>
        [] e.oper = "" -> <<create_default_filter(def, ms, j)>>
        [] e.oper \in Operations ->
             <<create_filter(e.oper, Or(e.rename, def[1]), def[2], j)>>
        [] OTHER -> <<>>

\* Filters are put in front of those that the stream has
AddFilter(x, m, at, e) ==
  LET f == parse_filter(e, x.mpoints[at[1]].streams[at[2]], x.mpoints[m])
  IN  IF x.err \/ f = <<>> THEN Failed(x)
      ELSE [x EXCEPT !.mpoints[at[1]].streams[at[2]].filters = f \o @]

parse_stream_filters(x, e, w) ==
  LET found == find_mp(x, e.mp)
      m == CHOOSE i \in found : \A k \in found : i <= k
      y == create_mstream(x, e.name, m, w, e.interval,
                          IF e.samples = 0 THEN 1 ELSE e.samples)
      at == CHOOSE a \in find_mstream(y, Or(e.name, e.mp)) : TRUE
      z == FoldLeft(LAMBDA a, f : AddFilter(a, m, at, f), y, e.filters)
      d == IF z.mpoints[at[1]].streams[at[2]].filters = <<>>
           THEN create_default_filters(z, m, at) ELSE z
  IN  IF \/ found = {}
         \/ (e.samples = -1) = (e.interval = -1)
      THEN Failed(x)
      ELSE IF z.err THEN z
      ELSE IF e.interval > 0 THEN filter_engine_start(d, at) ELSE d

add_metadata_stream(x, w) == AddToDefault(oml_mp_get_default_ms(x, 1), 1, w)

\* An empty element sends the default stream of every MP to its collector
CollectAll(x, w) ==
  LET y == IF x.interval = 0 /\ x.count = 0 THEN [x EXCEPT !.count = 1] ELSE x
      One(a, m) == LET b == oml_mp_get_default_ms(a, m)
                   IN  IF b.err THEN [b EXCEPT !.err = FALSE]
                       ELSE AddToDefault(b, m, w)
  IN  FoldLeft(One, y, [m \in DOMAIN x.mpoints |-> m])

\* No encoding attribute means binary, for a file as well
parse_collector(x, e) ==
  LET y == create_writer(x, e.uri, Or(e.encoding, "binary"))
      w == LastWriter(y)
  IN  IF x.err \/ e.uri = "" \/ e.encoding \notin {"", "binary", "text"} THEN Failed(x)
      ELSE IF y.err THEN y
      ELSE IF e.empty THEN CollectAll(y, w)
      ELSE FoldLeft(LAMBDA a, s : IF a.err THEN a ELSE parse_stream_filters(a, s, w),
                    add_metadata_stream(y, w), e.streams)

parse_config(x, doc) ==
  IF ~doc.root THEN Failed(x)
  ELSE FoldLeft(parse_collector,
                [x EXCEPT !.id = Or(@, doc.id), !.domain = Or(@, doc.domain)],
                doc.collects)

\* Without a file: one writer, and the default stream of every MP
default_configuration(x) ==
  LET y == create_writer(x, x.uri, x.encoding)
      z == [y EXCEPT !.default_writer = LastWriter(y),
                     !.count = IF @ = 0 THEN 1 ELSE @]
      One(a, m) == [oml_mp_get_default_ms(a, m) EXCEPT !.err = FALSE]
  IN  IF y.err THEN y ELSE FoldLeft(One, z, [m \in DOMAIN x.mpoints |-> m])

-----------------------------------------------------------------------------
(***************************************************************************)
(* Reporting                                                               *)
(***************************************************************************)
History(x, table) == CHOOSE i \in DOMAIN x.injected : x.injected[i].table = table

\* One row for every writer of the stream, then a new window.  A filter
\* without instance data dereferences a null pointer.
filter_process(x, m, k) ==
  LET ms == x.mpoints[m].streams[k]
      row == [index |-> ms.index, seq |-> ms.seq + 1, table |-> ms.table,
              cols |-> FlattenSeq([j \in DOMAIN ms.filters |-> Output(ms.filters[j])]),
              by |-> [j \in DOMAIN ms.filters |->
                       [ms.filters[j] EXCEPT !.data = <<>>]],
              early |-> ~x.announced,
              upto |-> Len(x.injected[History(x, ms.table)].samples)]
      Write(ws, w) == [ws EXCEPT ![w].rows = Append(@, row)]
  IN  CASE ~x.live \/ ms.writers = <<>> -> x
        [] \E j \in DOMAIN ms.filters : ms.filters[j].data = <<>> ->
             [x EXCEPT !.crashed = TRUE]
        [] OTHER ->
             [x EXCEPT
                !.writers = FoldLeft(Write, @, ms.writers),
                !.mpoints[m].streams[k] =
                   [@ EXCEPT !.seq = @ + 1, !.size = 0,
                             !.written = @ + Len(ms.writers),
                             !.filters = [j \in DOMAIN @ |-> NewWindow(@[j])]]]

\* A stream that counts samples reports when it has enough of them
omlc_ms_process(x, m, k) ==
  LET ms == x.mpoints[m].streams[k]
      y == [x EXCEPT !.mpoints[m].streams[k].size = @ + 1]
  IN  CASE ms.thres <= 0 -> x
        [] ms.size + 1 >= ms.thres -> filter_process(y, m, k)
        [] OTHER -> y

\* omlc_inject() under the lock of the MP: every filter of every stream.  They
\* are given the same v, one after the other, and nobody looks at whether a
\* field could be copied into it.
Feed(x, m, tuple) ==
  LET Give(a, f) ==
        LET v == oml_value_set(a.v, tuple[f.index])
        IN  [v |-> v, fed |-> Append(a.fed, Input(f, v))]
      One(a, k) ==
        LET ms == a.x.mpoints[m].streams[k]
            given == FoldLeft(Give, [v |-> a.v, fed |-> <<>>], ms.filters)
        IN  [v |-> given.v,
             x |-> omlc_ms_process(
                     [a.x EXCEPT
                        !.mpoints[m].streams[k].filters = given.fed,
                        !.injected[History(a.x, ms.table)].samples = Append(@, tuple)],
                     m, k)]
  IN  FoldLeft(One, [v |-> Blank("double"), x |-> x],
               [k \in DOMAIN x.mpoints[m].streams |-> k]).x

\* The counters that the instrumentation reports after an injection into m
omlc_inject_client_instr(x, m) ==
  LET s == x.mpoints[m].streams
      written == FoldLeft(LAMBDA n, ms : n + ms.written, 0, s)
  IN  Feed(x, 2, <<<<"int32", written>>>>)

\* due: a second has passed since the instrumentation last reported
Inject(x, m, tuple, due) ==
  LET y == Feed(x, m, tuple)
  IN  IF due THEN omlc_inject_client_instr(y, m) ELSE y

\* Metadata is one more sample, of schema0
omlc_inject_metadata(x, what, due) == Inject(x, 1, <<<<"string", what>>>>, due)

\* The columns that the filters of a stream announce: their names and types
Columns(filters) ==
  FlattenSeq([j \in DOMAIN filters |->
    LET def == Definition(filters[j].oper, filters[j].type)
    IN  [i \in DOMAIN def |-> <<filters[j].name, def[i][1], def[i][2]>>]])

schemastr_from_mpdef(params) == [j \in DOMAIN params |-> <<params[j][1], "", params[j][2]>>]

\* The schema of a stream, to all its writers
write_schema(x, at, index) ==
  LET ms == x.mpoints[at[1]].streams[at[2]]
      schema == <<"schema", index, ms.table, Columns(ms.filters)>>
      Meta(ws, w) == [ws EXCEPT ![w].header = Append(@, schema)]
  IN  [x EXCEPT !.mpoints[at[1]].streams[at[2]].index = index,
                !.writers = FoldLeft(Meta, @, ms.writers)]

AllStreams(x) ==
  FlattenSeq([m \in DOMAIN x.mpoints |->
    [k \in DOMAIN x.mpoints[m].streams |-> <<m, k>>]])

write_meta(x) ==
  LET at == AllStreams(x)
      numbered == [i \in DOMAIN at |-> <<at[i], i - 1>>]
      y == FoldLeft(LAMBDA a, n : write_schema(a, n[1], n[2]), x, numbered)
  IN  [y EXCEPT !.next_ms_idx = Len(at), !.announced = TRUE,
                !.writers = [w \in DOMAIN @ |-> [@[w] EXCEPT !.done = TRUE]]]

-----------------------------------------------------------------------------
(***************************************************************************)
(* The application's thread                                                *)
(***************************************************************************)
NoClient == [OmlClient(NoOptions) EXCEPT !.live = FALSE, !.mpoints = <<>>]

\* An injection is possible; due: the instrumentation reports after it
MayInject(due) == events >= (IF due THEN 2 ELSE 1) /\ (due => c.instr)
Injected(due) == events' = events - (IF due THEN 2 ELSE 1)

Init ==
  /\ c = NoClient
  /\ pc = "new"
  /\ file = [root |-> FALSE]
  /\ asked = <<>>
  /\ twice = {} /\ mps = 0
  /\ events = 0

omlc_init(s) ==
  /\ pc = "new"
  /\ LET o == FoldLeft(Option, NoOptions, s.args)
     IN  IF s.app \in IllegalNames \/ o.ret # 0 THEN c' = c /\ pc' = "end"
         ELSE c' = OmlClient(Environment(o, s.env)) /\ pc' = "init"
  /\ file' = s.file /\ events' = s.events /\ mps' = s.mps
  /\ UNCHANGED <<asked, twice>>

\* Before omlc_start() an MP is only remembered
AddBeforeStart(name) == c' = [c EXCEPT !.mpoints = Append(@, NewMP(name, MPDefs[name]))]

\* Afterwards its schema is sent as metadata, and its default stream made
LateSchema(name) == <<"schema", c.next_ms_idx, name, schemastr_from_mpdef(MPDefs[name])>>

\* Variant: the stream keeps index 0
AddWithoutIndex(name, due) ==
  LET x == omlc_inject_metadata(c, LateSchema(name), due)
      m == Len(c.mpoints) + 1
      y == oml_mp_get_default_ms(
             [x EXCEPT !.mpoints = Append(@, NewMP(name, MPDefs[name]))], m)
  IN  c' = IF y.err THEN x ELSE [y EXCEPT !.next_ms_idx = @ + 1]

\* An MP without a stream of its own is freed; if its name was taken, the
\* writer has been added once more to the stream of that name.
AddAfterStart(name, due) ==
  LET x == omlc_inject_metadata(c, LateSchema(name), due)
      m == Len(c.mpoints) + 1
      y == oml_mp_get_default_ms(
             [x EXCEPT !.mpoints = Append(@, NewMP(name, MPDefs[name]))], m)
  IN  c' = IF y.err THEN [y EXCEPT !.err = FALSE, !.mpoints = SubSeq(@, 1, m - 1)]
           ELSE [y EXCEPT !.mpoints[m].streams[1].index = c.next_ms_idx,
                          !.next_ms_idx = @ + 1]

omlc_add_mp(name, due) ==
  /\ pc \in {"init", "started"} /\ ~c.crashed
  /\ name \notin IllegalNames /\ mps > 0
  /\ mps' = mps - 1
  /\ twice' = IF find_mp(c, name) = {} THEN twice ELSE twice \cup {name}
  /\ IF c.started THEN MayInject(due) /\ Injected(due) /\ AddAfterStart(name, due)
     ELSE ~due /\ AddBeforeStart(name) /\ UNCHANGED events
  /\ asked' = IF c.started THEN Append(asked, LateSchema(name)) ELSE asked
  /\ UNCHANGED <<pc, file>>

\* omlc_start() up to write_meta(): sampling threads run from here on
StartConfigure ==
  /\ pc = "init"
  /\ LET x == [c EXCEPT !.started = TRUE]
         y == IF c.config THEN parse_config(x, file) ELSE default_configuration(x)
     IN  c' = y /\ pc' = IF y.err THEN "close" ELSE "meta"
  /\ UNCHANGED <<file, asked, added, events>>

StartMeta ==
  /\ pc = "meta"
  /\ c' = write_meta(c)
  /\ pc' = "started"
  /\ UNCHANGED <<file, asked, added, events>>

omlc_inject(m, tuple, due) ==
  /\ pc = "started" /\ ~c.crashed
  /\ MayInject(due)
  /\ c' = Inject(c, m, tuple, due)
  /\ Injected(due)
  /\ UNCHANGED <<pc, file, asked, added>>

Metadata(due) ==
  /\ pc = "started" /\ ~c.crashed
  /\ MayInject(due)
  /\ LET value == <<"value", Len(asked) + 1>>
     IN  c' = omlc_inject_metadata(c, value, due) /\ asked' = Append(asked, value)
  /\ Injected(due)
  /\ UNCHANGED <<pc, file, added>>

\* The end of the application, or a signal once the handler is installed
omlc_close ==
  /\ pc \in {"init", "meta", "started"} /\ ~c.crashed
  /\ pc' = "close"
  /\ UNCHANGED <<c, file, asked, added, events>>

\* Variant: an incomplete window is dropped
DropsPartial(x, m, k) == x

\* The streams of an MP end with a row for an incomplete window
destroy_ms(x, m, k) ==
  IF x.mpoints[m].streams[k].size > 0 THEN filter_process(x, m, k) ELSE x

\* Variant: active is not cleared
StaysActive(x, m) ==
  [FoldLeft(LAMBDA a, k : destroy_ms(a, m, k), x,
            [k \in DOMAIN x.mpoints[m].streams |-> k])
     EXCEPT !.mpoints[m].streams = <<>>]

destroy_mp(x, m) ==
  LET y == FoldLeft(LAMBDA a, k : destroy_ms(a, m, k), x,
                    [k \in DOMAIN x.mpoints[m].streams |-> k])
  IN  [y EXCEPT !.mpoints[m].active = FALSE, !.mpoints[m].streams = <<>>]

\* One MP after the other; its lock is free in between
DestroyNext ==
  /\ pc = "close" /\ ~c.crashed
  /\ \E m \in DOMAIN c.mpoints :
       /\ c.mpoints[m].active /\ \A i \in 1 .. m - 1 : ~c.mpoints[i].active
       /\ c' = destroy_mp(c, m)
  /\ UNCHANGED <<pc, file, asked, added, events>>

CloseWriters ==
  /\ pc = "close" /\ ~c.crashed
  /\ \A m \in DOMAIN c.mpoints : ~c.mpoints[m].active
  /\ c' = [c EXCEPT !.live = FALSE,
                    !.writers = [w \in DOMAIN @ |-> [@[w] EXCEPT !.open = FALSE]]]
  /\ pc' = "end"
  /\ UNCHANGED <<file, asked, added, events>>

(***************************************************************************)
(* A sampling thread wakes up: it leaves when its MP is not active, or when*)
(* the stream has no writer.                                               *)
(***************************************************************************)
StreamOf(x, th) ==
  {i \in DOMAIN x.mpoints[th.mp].streams : x.mpoints[th.mp].streams[i].table = th.table}

\* Under the lock of the MP, with a stream that is not freed
Sample(x, t, i) ==
  LET th == x.threads[t]
  IN  IF x.mpoints[th.mp].streams[i].writers = <<>>
      THEN [x EXCEPT !.threads[t].done = TRUE]
      ELSE filter_process([x EXCEPT !.threads[t].begun = TRUE], th.mp, i)

\* Variant: it sleeps again when its MP is not active
ThreadSleepsOn(x, t) ==
  LET k == StreamOf(x, x.threads[t])
  IN  IF k = {} THEN x ELSE Sample(x, t, CHOOSE i \in k : TRUE)

ThreadStep(x, t) ==
  LET th == x.threads[t]
      k == StreamOf(x, th)
  IN  CASE ~x.mpoints[th.mp].active -> [x EXCEPT !.threads[t].done = TRUE]
        [] x.mpoints[th.mp].active /\ k = {} -> [x EXCEPT !.freed_used = TRUE]
        [] OTHER -> Sample(x, t, CHOOSE i \in k : TRUE)

\* Before its first sleep a thread reads the stream without any lock.  That
\* read tells nothing apart while the stream exists; a thread that has not
\* sampled yet may do it after destroy_ms(), with an undefined result.
LateRead(x, t) ==
  /\ ~x.threads[t].begun /\ StreamOf(x, x.threads[t]) = {}
  /\ c' = [x EXCEPT !.freed_read = TRUE, !.crashed = TRUE]

thread_start(t) ==
  /\ ~c.crashed /\ ~c.freed_used
  /\ ~c.threads[t].done
  /\ LET active == c.mpoints[c.threads[t].mp].active
     IN  /\ active => events > 0
         /\ events' = IF active THEN events - 1 ELSE events
  /\ LateRead(c, t) \/ c' = ThreadStep(c, t)
  /\ UNCHANGED <<pc, file, asked, added>>

Terminated ==
  /\ pc = "end" \/ c.crashed
  /\ UNCHANGED vars

Next ==
  \/ \E s \in Settings : omlc_init(s)
  \/ \E n \in DOMAIN MPDefs, due \in BOOLEAN : omlc_add_mp(n, due)
  \/ StartConfigure
  \/ StartMeta
  \/ \E m \in DOMAIN c.mpoints \ {1, 2}, due \in BOOLEAN :
       \E s \in Samples[c.mpoints[m].name] : omlc_inject(m, s, due)
  \/ \E due \in BOOLEAN : Metadata(due)
  \/ omlc_close
  \/ DestroyNext
  \/ CloseWriters
  \/ \E t \in DOMAIN c.threads : thread_start(t)
  \/ Terminated

\* The application ends what it began to close; a sampling thread wakes up
\* again and again.
Fairness ==
  /\ WF_vars(DestroyNext) /\ WF_vars(CloseWriters)
  /\ \A t \in 1 .. 4 : WF_vars(t \in DOMAIN c.threads /\ thread_start(t))

Spec == Init /\ [][Next]_vars /\ Fairness

-----------------------------------------------------------------------------
(***************************************************************************)
(* Properties                                                              *)
(***************************************************************************)
\* The rows of a stream; one that was given the same writer twice, because a
\* second MP was given its name, writes every row several times.
RowsOf(w, table) ==
  LET New(s, r) == IF table \in twice /\ s # <<>> /\ s[Len(s)].seq = r.seq
                   THEN s ELSE Append(s, r)
  IN  FoldLeft(New, <<>>, SelectSeq(c.writers[w].rows, LAMBDA r : r.table = table))
InjectedInto(table) == c.injected[History(c, table)].samples
Field(tuples, j) == [i \in DOMAIN tuples |-> tuples[i][j]]

\* The columns of the row before that filter j wrote
Shown(row, j) ==
  LET widths == [i \in 1 .. j |-> Len(Definition(row.by[i].oper, row.by[i].type))]
      upto == Total(widths)
  IN  SubSeq(row.cols, upto - widths[j] + 1, upto)

\* The samples of the field of filter j, before the window of row i and in it
Before(rows, i, j) ==
  SubSeq(Field(InjectedInto(rows[i].table), rows[i].by[j].index), 1,
         IF i = 1 THEN 0 ELSE rows[i - 1].upto)
Window(rows, i, j) ==
  SubSeq(Field(InjectedInto(rows[i].table), rows[i].by[j].index),
         (IF i = 1 THEN 0 ELSE rows[i - 1].upto) + 1, rows[i].upto)

Expected(rows, i, j) ==
  Aggregate(rows[i].by[j].oper, rows[i].by[j].type,
            Before(rows, i, j), Window(rows, i, j),
            IF i = 1 THEN <<>> ELSE Shown(rows[i - 1], j))

\* What every writer of a stream is given is what the filters promise of
\* the samples injected since the row before, and of no others: windows do
\* not overlap, and the rows of a stream are numbered without a gap
\* (omlc_inject(), filter_process() and the filters).  Not so for the column
\* of a "first" or "last" whose sample is a NULL string: it is not copied, and
\* the row shows an older value or that of a neighbouring field.
RowsAggregate ==
  \A w \in DOMAIN c.writers : \A h \in DOMAIN c.injected :
    LET rows == RowsOf(w, c.injected[h].table)
    IN  \A i \in DOMAIN rows :
          /\ rows[i].seq = i
          /\ \A j \in DOMAIN rows[i].by :
               \/ NullDecides(rows[i].by[j].oper, Before(rows, i, j), Window(rows, i, j))
               \/ SameColumns(Shown(rows[i], j), Expected(rows, i, j))

\* What a collector knows of the schemas before row i: the header, and the
\* metadata that came before it
Declared(w, i) ==
  ToSet(c.writers[w].header)
    \cup {c.writers[w].rows[j].cols[1][2] :
            j \in {k \in 1 .. i - 1 :
                    /\ c.writers[w].rows[k].table = "_experiment_metadata"
                    /\ c.writers[w].rows[k].cols[1][2] # <<>>
                    /\ c.writers[w].rows[k].cols[1][2][1] = "schema"}}

ColumnType(v) == IF v[1] = "sqrt" THEN "double" ELSE v[1]

SamplesSeveral == c.count > 1 \/ c.interval > 0
LateTable(table) == c.injected[History(c, table)].late

\* A collector has been told the index, the name and the columns of a
\* stream before its first row, and no index is told of two streams
\* (write_meta(), omlc_add_mp()).  Not so for a row that a sampling thread
\* writes before write_meta(), nor for an MP that is added to a client that
\* samples several at a time: its declaration may be sampled away, and has
\* the columns of its fields and not those of "avg".  An index that was told
\* of a second MP of a name is told again of the next MP.
RowsDeclared ==
  \A w \in DOMAIN c.writers : \A i \in DOMAIN c.writers[w].rows :
    LET row == c.writers[w].rows[i]
        known == Declared(w, i)
    IN  \/ row.early
        \/ LateTable(row.table) /\ SamplesSeveral
        \/ /\ \E d \in known :
                /\ d[2] = row.index /\ d[3] = row.table
                /\ [j \in DOMAIN d[4] |-> d[4][j][3]]
                     = [j \in DOMAIN row.cols |-> ColumnType(row.cols[j])]
           /\ \A d, e \in known : d[2] = e[2] => d = e \/ {d[3], e[3]} \cap twice # {}

\* Streams of a writer
Reports(w, h) ==
  \/ \E d \in ToSet(c.writers[w].header) : d[3] = c.injected[h].table
  \/ c.injected[h].late /\ c.default_writer = w

\* After omlc_close() every sample of a stream that counts samples is in a
\* row of each of its writers, those of the last, incomplete window too
\* (destroy_ms()).  The last window of a stream with an interval is lost.
SamplesReported ==
  pc = "end" /\ ~c.crashed =>
    \A w \in DOMAIN c.writers : \A h \in DOMAIN c.injected :
      LET rows == RowsOf(w, c.injected[h].table)
      IN  c.injected[h].thres > 0 /\ c.injected[h].samples # <<>> /\ Reports(w, h) =>
            rows # <<>> /\ rows[Len(rows)].upto = Len(c.injected[h].samples)

\* Metadata that was accepted, the schemas of MPs added late included, is
\* in a row of the metadata stream of every writer.  The stream has the
\* parameters of the default streams (oml_mp_get_default_ms()): with
\* --oml-samples or --oml-interval it is sampled like a measurement, and a
\* configuration file that lists streams leaves it without any trigger.
MetadataSent ==
  pc = "end" /\ ~c.crashed =>
    \A w \in DOMAIN c.writers : \A i \in DOMAIN asked :
      \E r \in ToSet(RowsOf(w, "_experiment_metadata")) :
        r.cols = <<<<"string", asked[i]>>>>

\* A sampling thread that has begun never works on a stream that
\* destroy_ms() has freed, also when omlc_start() fails half-way.  A freed
\* stream is read only by a thread that had not begun when it was freed,
\* and a null filter is used only when the configuration file asks for the
\* average of a string.
MemorySafe ==
  /\ ~c.freed_used
  /\ c.freed_read => pc \in {"close", "end"} /\ \E t \in DOMAIN c.threads : ~c.threads[t].begun
  /\ c.crashed /\ ~c.freed_read =>
       \E h \in ToSet(file.collects) : \E e \in ToSet(h.streams) :
         \E f \in ToSet(e.filters) : \E n \in DOMAIN MPDefs :
           /\ f.oper \in Operations \ {"first", "last"}
           /\ <<f.field, "string">> \in ToSet(MPDefs[n])

\* Every sampling thread ends after omlc_close(), without being joined
\* (thread_start(), destroy_mp()).
SamplersStop ==
  pc = "close" ~> c.crashed \/ \A t \in DOMAIN c.threads : c.threads[t].done
=============================================================================
