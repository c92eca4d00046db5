------------------------------ MODULE MCClient ------------------------------
(* An MP with a number and a string, another that may be added before or   *)
(* after the start, and the settings under which the library is started.   *)
EXTENDS Client, TLC

MCMPDefs == ("a" :> <<<<"x", "int32">>, <<"s", "string">>>>)
              @@ ("b" :> <<<<"r", "string">>, <<"s", "string">>>>)
              @@ ("c d" :> <<>>)

NULL == <<>>

MCSamples == ("a" :> {<<<<"int32", 1>>, <<"string", <<"u">>>>>>,
                      <<<<"int32", 4>>, <<"string", NULL>>>>})
               @@ ("b" :> {<<<<"string", <<"w">>>>, <<"string", NULL>>>>})

NoEnv == [id |-> "", domain |-> "", config |-> FALSE, collect |-> ""]
Env == [NoEnv EXCEPT !.id = "n", !.domain = "d", !.collect = "tcp:h"]
Ids == <<<<"--oml-id", "n">>, <<"--oml-domain", "d">>>>
NoInstr == <<<<"--oml-instr-interval", 0>>>>

NoFile == [root |-> FALSE, id |-> "", domain |-> "", collects |-> <<>>]
File(collects) == [NoFile EXCEPT !.root = TRUE, !.collects = collects]
Collect(uri, streams) ==
  [uri |-> uri, encoding |-> "", empty |-> streams = <<>>, streams |-> streams]
Stream(name, samples, interval, filters) ==
  [mp |-> "a", name |-> name, samples |-> samples, interval |-> interval,
   filters |-> filters]
Filter(field, oper) == [field |-> field, oper |-> oper, rename |-> ""]

Set(args, env, doc) ==
  [app |-> "app", args |-> args, env |-> env, file |-> doc, mps |-> 2,
   events |-> 5]
WithFile(collects) ==
  Set(Ids \o NoInstr \o <<<<"--oml-config", "c">>>>, NoEnv, File(collects))

\* Two streams, one of them towards both collectors
TwoCollectors ==
  <<Collect("tcp:h", <<Stream("", 3, -1, <<Filter("x", "stddev"), Filter("s", "")>>),
                       Stream("t", -1, 1, <<Filter("x", "delta"), Filter("x", "first")>>)>>),
    Collect("file:f", <<Stream("t", -1, 1, <<>>)>>)>>

\* A stream, and then every MP
ThenAll ==
  <<Collect("tcp:h", <<Stream("t", 2, -1, <<Filter("x", "sum"), Filter("s", "last"),
                                            Filter("x", "last")>>)>>),
    Collect("file:f", <<>>)>>

Rejected ==
  {File(<<Collect("tcp:h", <<Stream("t", -1, 1, <<Filter("x", "")>>),
                             Stream("u", 1, -1, <<Filter("x", "median")>>)>>)>>),
   File(<<Collect("tcp:h", <<Stream("u", 1, -1, <<Filter("y", "")>>)>>)>>),
   File(<<Collect("tcp:h", <<Stream("u", 1, 1, <<>>)>>)>>),
   File(<<Collect("none", <<>>)>>),
   File(<<[Collect("tcp:h", <<>>) EXCEPT !.encoding = "xml"]>>),
   NoFile}

MCSettings ==
  {Set(<<>>, Env, NoFile),
   Set(Ids \o NoInstr \o <<<<"--oml-samples", 2>>, <<"--oml-collect", "tcp:h">>>>, NoEnv, NoFile),
   [Set(NoInstr \o <<<<"--oml-interval", 1>>, <<"--oml-file", "file:f">>>>, Env, NoFile)
      EXCEPT !.events = 3],
   WithFile(TwoCollectors),
   WithFile(ThenAll),
   WithFile(<<Collect("tcp:h", <<Stream("t", 0, -1, <<Filter("s", "avg")>>)>>)>>),
   \* nothing but blanks in the element
   WithFile(<<[Collect("tcp:h", <<>>) EXCEPT !.empty = FALSE]>>),
   \* a name for two MPs, and another MP
   [Set(NoInstr, Env, NoFile) EXCEPT !.mps = 3, !.events = 4],
   Set(<<<<"--oml-noop">>>>, Env, NoFile),
   Set(<<<<"--oml-id">>>>, NoEnv, NoFile),
   Set(NoInstr \o <<<<"--oml-text">>>>, NoEnv, NoFile),
   [Set(<<>>, Env, NoFile) EXCEPT !.app = "c d"]}
  \cup {Set(NoInstr, [Env EXCEPT !.config = TRUE], doc) : doc \in Rejected}

\* Only a file that lists streams
MCFileSettings == {WithFile(TwoCollectors)}
=============================================================================
