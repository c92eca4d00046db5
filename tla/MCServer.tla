------------------------------ MODULE MCServer ------------------------------
(* Server on small instances: the lines that peers send.                   *)
EXTENDS Server, TLC

CONSTANTS c1, c2, d1

Meta0 == <<"subject", "key", "value">>
V1 == <<"int32">>
V2 == <<"string">>
V3 == <<"double">>

H(k, v) == [key |-> k, value |-> v]
Other == [key |-> "other"]
End == [key |-> "end"]
Junk == [key |-> "junk"]
Sch(i, n, f) == [key |-> "schema", index |-> i, name |-> <<n>>, fields |-> f]
Row(i, f, s, start, at) ==
  [key |-> "row", index |-> i, fields |-> f, sender |-> s, ts |-> at - start,
   at |-> at, seq |-> at]
MetaRow(subject, line, s, start, at) ==
  [key |-> "meta", subject |-> subject, line |-> line, fields |-> Meta0, sender |-> s,
   ts |-> at - start, at |-> at, seq |-> at]

Ids(d, t, n) == << H("domain", d), H("start-time", t), H("sender-id", n) >>

\* A text client.
TextClient(d) ==
  Ids(d, 5, "n1") \o << Sch(1, "t", V1), End, Row(1, V1, "n1", 5, 6) >>

\* A binary client that uses the same name for other columns and sends a
\* value of the wrong type.
BinaryClient(d) ==
  Ids(d, 7, "n2") \o << H("content", "C_BINARY_DATA"), Sch(1, "t", V2), End,
     Row(1, V2, "n2", 7, 9), Row(1, V1, "n2", 7, 10) >>

\* A client that changes the columns of its stream, and sends a bad line.
ChangingClient(d) ==
  Ids(d, 4, "n3") \o << Sch(1, "t", V1), End,
     MetaRow(".", Sch(1, "t", V2), "n3", 4, 6), Junk, Row(1, V2, "n3", 4, 8) >>

\* A client that sends metadata, and a row of a stream it did not declare.
MetaClient(d) ==
  << H("protocol", 4) >> \o Ids(d, 6, "n1") \o << Other, Sch(1, "t", V1), End,
     MetaRow(".t", Other, "n1", 6, 7), MetaRow(".", H("domain", d), "n1", 6, 8),
     Row(2, V1, "n1", 6, 9) >>

\* Clients that are turned away: headers out of order, a version or a
\* content that is not known, no colon, too many tables of one name.
BadClients(d) ==
  { << H("start-time", 5) >>, << H("protocol", 9) >>, << H("sender-id", "n1") >>,
    << H("domain", d), H("content", "xml") >>, << H("domain", d), Junk >>,
    Ids(d, 3, "n4") \o << Sch(1, "t", V2), Sch(2, "t", V3), Sch(3, "t", V1) >> }

MCScripts ==
  {TextClient(d1), BinaryClient(d1), ChangingClient(d1), MetaClient(d1)} \cup BadClients(d1)
TextOnly == {TextClient(d1)}

\* Slots are interchangeable; safety only.
Slots == Permutations(Conns)
=============================================================================
