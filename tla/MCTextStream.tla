---------------------------- MODULE MCTextStream -----------------------------
(* Streams and samples for TextStream: streams of the same name with        *)
(* different fields, lines the server refuses, and values with separators,  *)
(* at the limits of their types, beyond those of strtod() and with more     *)
(* digits than are printed.                                                 *)
EXTENDS TextStream

Field(name, type, concepts) ==
  [name |-> name, type |-> type, concepts |-> concepts]
Line(idx, name, fields) == [idx |-> idx, name |-> name, fields |-> fields]
Val(t, v) == [t |-> t, v |-> v]

Text1 == Field("s", "string", <<"length", "unit", "note">>)

MCLines ==
  { Line(1, "n", <<Text1, Field("d", "float", <<"unit">>)>>),
    Line(2, "n", <<Field("x", "long", <<>>), Field("s", "string", <<>>)>>),
    Line(1, "n_2", <<Field("x", "integer", <<"count">>), Text1>>),
    Line(2, "n", <<Field("w", "[double]", <<>>), Field("f", "blob", <<>>)>>),
    Line(2, "m", <<Field("b", "bool", <<>>), Field("g", "guid", <<>>),
                   Field("f", "blob", <<>>), Field("s", "string", <<>>)>>),
    Line(1, "n", <<>>),
    Line(1, "m", <<Field("x", "no type", <<>>)>>),
    Line(1, "m", <<Field("oml_seq", "int32", <<>>)>>),
    Line(2, "9", <<Field("x", "int32", <<>>)>>) }

MCRenamed ==
  [n |-> <<"n", "n_2", "n_3">>, m |-> <<"m", "m_2", "m_3">>] @@
  ("n_2" :> <<"n_2", "n_2_2", "n_2_3">>) @@ ("9" :> <<"9", "9_2", "9_3">>)

Data(ts, cols) == [ts |-> ts, cols |-> cols]

MCRows ==
  { Data(1234, <<<<Val("string", <<"a", "tab", "\\", "t">>)>>,
                 <<Val("double", <<-1237>>)>>>>),
    Data(-5, <<<<Val("string", <<"\\", "n", "newline">>), Val("double", <<>>)>>>>),
    Data(7, <<<<Val("long", <<1000>>), Val("string", <<>>)>>>>),
    Data(7, <<<<Val("int32", <<-128>>), Val("string", <<"\\">>)>>>>),
    Data(9, <<<<Val("[double]", <<12345, -67>>)>>,
              <<Val("blob", <<255, 0, 62, 9>>)>>>>),
    Data(9, <<<<Val("[double]", <<99990, -2>>)>>, <<Val("blob", <<>>)>>>>),
    Data(9, <<<<Val("bool", <<1>>), Val("guid", <<65535>>)>>,
              <<Val("blob", <<>>), Val("string", <<"return">>)>>>>) }
=============================================================================
