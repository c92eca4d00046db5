------------------------------- MODULE Filters -------------------------------
(***************************************************************************)
(* The filters that the client library registers (lib/client/filter/):     *)
(* avg, stddev, sum, delta, first and last.  A filter is fed one field of  *)
(* every sample of its stream, writes its columns when the stream reports, *)
(* and starts a new window after that.                                     *)
(*                                                                         *)
(* A value is <<type, content>>.  A double is an exact fraction            *)
(* <<numerator, denominator>>: NaN is 0/0 and spreads as NaN does.  The    *)
(* streaming state of a filter is data[...]; null data is what create()    *)
(* returns for a type that it does not handle.                             *)
(***************************************************************************)
EXTENDS Integers, Sequences, SequencesExt

NumericTypes == {"int32", "double"}
Operations == {"avg", "stddev", "sum", "delta", "first", "last"}

NaN == <<0, 0>>
Plus(p, q) == <<p[1] * q[2] + q[1] * p[2], p[2] * q[2]>>
Minus(p, q) == Plus(p, <<-q[1], q[2]>>)
Times(p, q) == <<p[1] * q[1], p[2] * q[2]>>
Less(p, q) == p[1] * q[2] < q[1] * p[2]
Over(p, n) == <<p[1], p[2] * n>>

\* sample_count is unsigned: one less than none is the largest number
UINT_MAX == 2^15 - 1
OneLess(n) == IF n = 0 THEN UINT_MAX ELSE n - 1

\* Two fractions that are the same double
SameDouble(p, q) ==
  /\ p[1] * q[2] = q[1] * p[2]
  /\ (p[2] = 0) = (q[2] = 0)

SameValue(u, v) ==
  /\ u[1] = v[1]
  /\ IF u[1] = "double" THEN SameDouble(u[2], v[2]) ELSE u[2] = v[2]

oml_value_to_double(v) == IF v[1] = "double" THEN v[2] ELSE <<v[2], 1>>
Double(q) == <<"double", q>>

\* What a value of a type holds before anything is stored in it: a string is
\* then a NULL pointer
Blank(type) ==
  CASE type = "string" -> <<"string", <<>>>>
    [] type = "double" -> Double(<<0, 1>>)
    [] OTHER -> <<type, 0>>

IsNull(v) == v = Blank("string")

\* A NULL string is not copied: what is there stays if it is a string
oml_value_set(to, v) ==
  CASE ~IsNull(v) -> v
    [] to[1] = v[1] -> to
    [] OTHER -> Blank(v[1])

-----------------------------------------------------------------------------
\* The columns of an operation: the suffix of their names and their types.
\* "first" names its only column after the field.
Definition(oper, type) ==
  CASE oper = "avg"    -> <<<<"avg", "double">>, <<"min", "double">>,
                            <<"max", "double">>>>
    [] oper = "stddev" -> <<<<"stddev", "double">>, <<"variance", "double">>>>
    [] oper = "sum"    -> <<<<"sum", "double">>>>
    [] oper = "delta"  -> <<<<"delta", "double">>, <<"last", "double">>>>
    [] oper = "first"  -> <<<<"", type>>>>
    [] oper = "last"   -> <<<<"last", type>>>>

AverageNew == [sum |-> NaN, min |-> NaN, max |-> NaN, n |-> 0]
StddevNew  == [m |-> <<0, 1>>, s |-> <<0, 1>>, n |-> 0]
SumNew     == [sum |-> <<0, 1>>, n |-> 0]
DeltaNew   == [previous |-> <<0, 1>>, current |-> <<0, 1>>, n |-> 0]
FirstNew(type) == [is_first |-> TRUE, result |-> Blank(type), n |-> 0]
LastNew(type)  == [result |-> Blank(type), n |-> 0]

\* avg, stddev, sum and delta refuse a field that is not a number; the
\* filter exists all the same, without instance data.
HasData(oper, type) == oper \in {"first", "last"} \/ type \in NumericTypes

create_filter(oper, name, type, index) ==
  [oper |-> oper, name |-> name, type |-> type, index |-> index,
   data |-> CASE ~HasData(oper, type) -> <<>>
              [] oper = "avg"    -> AverageNew
              [] oper = "stddev" -> StddevNew
              [] oper = "sum"    -> SumNew
              [] oper = "delta"  -> DeltaNew
              [] oper = "first"  -> FirstNew(type)
              [] oper = "last"   -> LastNew(type)]

-----------------------------------------------------------------------------
\* input(): one sample

AverageSample(d, x) ==
  [sum |-> IF d.sum = NaN THEN x ELSE Plus(d.sum, x),
   min |-> IF Less(x, d.min) \/ d.min = NaN THEN x ELSE d.min,
   max |-> IF Less(d.max, x) \/ d.max = NaN THEN x ELSE d.max,
   n |-> d.n + 1]

\* Variant: the deviation from the old mean, squared
StddevOldMean(d, x) ==
  LET n == d.n + 1
      m == IF n = 1 THEN x ELSE Plus(d.m, Over(Minus(x, d.m), n))
      s == IF n = 1 THEN <<0, 1>>
           ELSE Plus(d.s, Times(Minus(x, d.m), Minus(x, d.m)))
  IN  [m |-> m, s |-> s, n |-> n]

\* The running mean and sum of squares of Welford's algorithm
StddevInput(d, x) ==
  LET n == d.n + 1
      m == IF n = 1 THEN x ELSE Plus(d.m, Over(Minus(x, d.m), n))
      s == IF n = 1 THEN <<0, 1>>
           ELSE Plus(d.s, Times(Minus(x, d.m), Minus(x, m)))
  IN  [m |-> m, s |-> s, n |-> n]

SumSample(d, x) == [sum |-> Plus(d.sum, x), n |-> d.n + 1]

DeltaSample(d, x) == [d EXCEPT !.current = x, !.n = @ + 1]

FirstSample(d, v) ==
  IF v[1] # d.result[1] THEN d
  ELSE [d EXCEPT !.n = @ + 1, !.is_first = FALSE,
                 !.result = IF d.is_first THEN oml_value_set(@, v) ELSE @]

LastSample(d, v) ==
  IF v[1] # d.result[1] THEN d
  ELSE [d EXCEPT !.n = @ + 1, !.result = oml_value_set(@, v)]

\* A numeric filter looks at the type of the value before its own data.
Input(f, v) ==
  IF f.oper \notin {"first", "last"} /\ v[1] \notin NumericTypes THEN f
  ELSE [f EXCEPT !.data =
          CASE f.oper = "avg"    -> AverageSample(@, oml_value_to_double(v))
            [] f.oper = "stddev" -> StddevInput(@, oml_value_to_double(v))
            [] f.oper = "sum"    -> SumSample(@, oml_value_to_double(v))
            [] f.oper = "delta"  -> DeltaSample(@, oml_value_to_double(v))
            [] f.oper = "first"  -> FirstSample(@, v)
            [] f.oper = "last"   -> LastSample(@, v)]

-----------------------------------------------------------------------------
\* output(): the columns of a row.  sqrt() is kept as what it is taken of.

AverageProcess(d) ==
  <<Double(Over(d.sum, d.n)), Double(d.min), Double(d.max)>>
StddevOutput(d) ==
  <<<<"sqrt", Over(d.s, OneLess(d.n))>>, Double(Over(d.s, OneLess(d.n)))>>
SumProcess(d) == <<Double(d.sum)>>
DeltaProcess(d) == <<Double(Minus(d.current, d.previous)), Double(d.current)>>
FirstProcess(d) == <<d.result>>
LastProcess(d) == <<d.result>>

Output(f) ==
  CASE f.oper = "avg"    -> AverageProcess(f.data)
    [] f.oper = "stddev" -> StddevOutput(f.data)
    [] f.oper = "sum"    -> SumProcess(f.data)
    [] f.oper = "delta"  -> DeltaProcess(f.data)
    [] f.oper = "first"  -> FirstProcess(f.data)
    [] f.oper = "last"   -> LastProcess(f.data)

\* newwindow(): "first" and "last" keep what they stored
AverageWindow(d) == AverageNew
StddevWindow(d) == StddevNew
SumWindow(d) == SumNew
DeltaWindow(d) == [d EXCEPT !.previous = d.current, !.n = 0]
FirstWindow(d) == [d EXCEPT !.is_first = TRUE, !.n = 0]
LastWindow(d) == [d EXCEPT !.n = 0]

NewWindow(f) ==
  [f EXCEPT !.data =
     CASE f.oper = "avg"    -> AverageWindow(@)
       [] f.oper = "stddev" -> StddevWindow(@)
       [] f.oper = "sum"    -> SumWindow(@)
       [] f.oper = "delta"  -> DeltaWindow(@)
       [] f.oper = "first"  -> FirstWindow(@)
       [] f.oper = "last"   -> LastWindow(@)]

-----------------------------------------------------------------------------
(***************************************************************************)
(* What the filters are meant to compute, from the window as a whole:      *)
(* past is the samples before the window, win those in it, and shown the   *)
(* columns of the row before (<<>> if there is none).                      *)
(***************************************************************************)
Total(s) == FoldLeft(LAMBDA a, x : a + x, 0, s)
Numbers(win) == [i \in DOMAIN win |-> win[i][2]]
LastOr0(s) == IF s = <<>> THEN 0 ELSE s[Len(s)]

ReferenceVariance(x) ==
  LET n == Len(x)
      squares == [i \in DOMAIN x |-> x[i] * x[i]]
  IN  CASE n = 0 -> <<0, 1>>
        [] n = 1 -> NaN
        [] OTHER -> <<n * Total(squares) - Total(x) * Total(x), n * (n - 1)>>

Extreme(x, R(_, _)) == CHOOSE y \in ToSet(x) : \A z \in ToSet(x) : R(y, z)

Aggregate(oper, type, past, win, shown) ==
  LET x == Numbers(win)
  IN  CASE oper = "avg" ->
             IF x = <<>> THEN <<Double(NaN), Double(NaN), Double(NaN)>>
             ELSE <<Double(<<Total(x), Len(x)>>),
                    Double(<<Extreme(x, LAMBDA y, z : y <= z), 1>>),
                    Double(<<Extreme(x, LAMBDA y, z : y >= z), 1>>)>>
        [] oper = "stddev" -> LET v == ReferenceVariance(x)
                              IN <<<<"sqrt", v>>, Double(v)>>
        [] oper = "sum" -> <<Double(<<Total(x), 1>>)>>
        [] oper = "delta" ->
             LET before == LastOr0(Numbers(past))
                 now == LastOr0(Numbers(past \o win))
             IN  <<Double(<<now - before, 1>>), Double(<<now, 1>>)>>
        [] oper = "first" ->
             CASE win # <<>> -> <<win[1]>>
               [] shown # <<>> -> shown
               [] OTHER -> <<Blank(type)>>
        [] oper = "last" -> IF past \o win = <<>> THEN <<Blank(type)>>
                            ELSE <<LastOr0(past \o win)>>

\* The sample that "first" or "last" is to show is a NULL string: the filter
\* has kept an earlier one, or was given that of the field before
NullDecides(oper, past, win) ==
  CASE oper = "first" -> win # <<>> /\ IsNull(win[1])
    [] oper = "last" -> past \o win # <<>> /\ IsNull(LastOr0(past \o win))
    [] OTHER -> FALSE

\* Columns that say the same; sqrt of the same variance is the same
SameColumns(s, t) ==
  /\ Len(s) = Len(t)
  /\ \A i \in DOMAIN s :
       IF s[i][1] = "sqrt" THEN t[i][1] = "sqrt" /\ SameDouble(s[i][2], t[i][2])
       ELSE SameValue(s[i], t[i])
=============================================================================
