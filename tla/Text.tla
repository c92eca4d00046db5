-------------------------------- MODULE Text ---------------------------------
(***************************************************************************)
(* Values and schemas as text: what owt_row_cols() prints for a value and  *)
(* oml_value_from_s() reads, and what a schema becomes in a header line,   *)
(* in the table catalogue and back (lib/shared/oml_value.c,                *)
(* string_utils.c, base64.c, schema.c; lib/client/text_writer.c).          *)
(*                                                                         *)
(* Text is a sequence of symbols, each a pair: a character, a word, or a   *)
(* whole number as the C library prints and reads it.  A value has a type  *)
(* t and v, a sequence: one number for the integer types, GUIDs, booleans  *)
(* and doubles (in units of 1/Fine of the last decimal that "%f" prints;   *)
(* <<>> for NaN), the characters of a string, the bytes of a blob, the     *)
(* elements of a vector.                                                   *)
(***************************************************************************)
EXTENDS Integers, Sequences, FiniteSets, SequencesExt

CONSTANTS
  Bits32,      \* bits of the 32 bit types
  Bits64,      \* bits of the 64 bit types
  Fine,        \* a double's unit is 1/Fine of the last decimal of "%f"
  DBL_DIG,     \* significant digits of a double in a vector
  DBL_MIN,     \* the smallest normal double, in the same unit
  DBL_MAX      \* the largest double

ASSUME TextAssumption ==
  /\ Bits32 \in Nat \ {0} /\ Bits64 \in Nat /\ Bits32 < Bits64
  /\ Fine \in Nat \ {0} /\ DBL_DIG \in Nat \ {0}
  /\ DBL_MIN \in 1..Fine /\ DBL_MAX \in Nat /\ DBL_MAX % Fine = 0

-----------------------------------------------------------------------------
(* Symbols and types.                                                      *)

Chr(c) == <<"char", c>>
Num(n) == <<"int", n>>     \* "%d" and its kin
Fix(n) == <<"%f", n>>      \* n is the number of last decimals
Gen(n) == <<"%g", n>>
NaN == <<"nan", 0>>
Sixtet(n) == <<"base64", n>>
Pad == 64

TAB == Chr("tab")
NL == Chr("newline")

Signed == {"int32", "int64", "[int32]", "[int64]", "long"}
Wide == {"int64", "uint64", "guid", "[int64]", "[uint64]"}
Integral == {"int32", "uint32", "int64", "uint64", "guid"}
Vectors == {"[double]", "[int32]", "[uint32]", "[int64]", "[uint64]", "[bool]"}
Types == Integral \cup Vectors \cup {"double", "string", "blob", "bool"}

\* The names types have in a header, with the type that is read for each;
\* those that are printed come first.
type_names ==
  [s \in Types |-> s] @@
  [integer |-> "int32", long |-> "long", real |-> "double", float |-> "double"]

oml_type_from_s(s) ==
  IF s \in DOMAIN type_names THEN type_names[s] ELSE "unknown"

oml_type_to_s(t) == t

-----------------------------------------------------------------------------
(* Strings: tabs, ends of lines and backslashes are escaped.               *)

\* Variant: a backslash stands for itself.
EncodeNotBackslash(s) ==
  FlattenSeq([i \in 1..Len(s) |->
    CASE s[i] = "tab" -> <<Chr("\\"), Chr("t")>>
      [] s[i] = "newline" -> <<Chr("\\"), Chr("n")>>
      [] s[i] = "return" -> <<Chr("\\"), Chr("r")>>
      [] OTHER -> <<Chr(s[i])>>])

backslash_encode(s) ==
  FlattenSeq([i \in 1..Len(s) |->
    CASE s[i] = "tab" -> <<Chr("\\"), Chr("t")>>
      [] s[i] = "newline" -> <<Chr("\\"), Chr("n")>>
      [] s[i] = "return" -> <<Chr("\\"), Chr("r")>>
      [] s[i] = "\\" -> <<Chr("\\"), Chr("\\")>>
      [] OTHER -> <<Chr(s[i])>>])

\* After a backslash, a letter that stands for nothing else is itself.
backslash_decode(text) ==
  LET step(r, c) ==
        IF ~r.esc /\ c = "\\" THEN [r EXCEPT !.esc = TRUE]
        ELSE [esc |-> FALSE,
              out |-> Append(r.out,
                CASE r.esc /\ c = "t" -> "tab"
                  [] r.esc /\ c = "n" -> "newline"
                  [] r.esc /\ c = "r" -> "return"
                  [] OTHER -> c)]
      chars == [i \in 1..Len(text) |-> text[i][2]]
  IN FoldLeft(step, [esc |-> FALSE, out |-> <<>>], chars).out

-----------------------------------------------------------------------------
(* Blobs: three bytes in four symbols of six bits, padded.                 *)

base64_encode_blob(blob) ==
  LET at(i) == IF i <= Len(blob) THEN blob[i] ELSE 0
      group(k) ==
        LET x == at(3*k - 2) * 65536 + at(3*k - 1) * 256 + at(3*k)
            left == Len(blob) - 3 * (k - 1)
        IN <<Sixtet(x \div 262144), Sixtet((x \div 4096) % 64),
             Sixtet(IF left < 2 THEN Pad ELSE (x \div 64) % 64),
             Sixtet(IF left < 3 THEN Pad ELSE x % 64)>>
  IN FlattenSeq([k \in 1..((Len(blob) + 2) \div 3) |-> group(k)])

\* The symbols before the padding, or -1.
base64_validate_string(text) ==
  LET plain(i) == text[i][1] = "base64" /\ text[i][2] # Pad
      n == Cardinality({i \in 1..Len(text) : \A j \in 1..i : plain(j)})
  IN IF /\ Len(text) % 4 = 0 /\ Len(text) - n <= 2
        /\ \A i \in (n + 1)..Len(text) : text[i] = Sixtet(Pad)
     THEN n ELSE -1

base64_decode_string(n, text) ==
  LET bits(k) == FoldLeft(LAMBDA x, s : x * 64 + s[2], 0,
                          SubSeq(text, 4*k - 3, IF 4*k < n THEN 4*k ELSE n))
      group(k) ==
        LET x == bits(k)
            left == n - 4 * (k - 1)
        IN CASE left >= 4 -> <<x \div 65536, (x \div 256) % 256, x % 256>>
             [] left = 3 -> <<x \div 1024, (x \div 4) % 256>>
             [] left = 2 -> <<x \div 16>>
             [] OTHER -> <<>>
  IN FlattenSeq([k \in 1..((n + 3) \div 4) |-> group(k)])

-----------------------------------------------------------------------------
(* Numbers.                                                                *)

\* x / n, to the nearest.
Round(x, n) == IF x >= 0 THEN (2 * x + n) \div (2 * n)
               ELSE -((2 * n - 2 * x - n) \div (2 * n))

\* "%.*g" with DBL_DIG digits.
Significant(x) ==
  LET abs == IF x < 0 THEN -x ELSE x
      p == CHOOSE p \in 0..8 : /\ abs < 10^(DBL_DIG + p)
                               /\ p > 0 => abs >= 10^(DBL_DIG + p - 1)
  IN Round(x, 10^p) * 10^p

\* What is left of a number in a variable of type t.
Wrapped(t, n) ==
  LET m == 2^(IF t \in Wide THEN Bits64 ELSE Bits32)
      u == n % m
  IN IF t \in Signed /\ 2 * u >= m THEN u - m ELSE u

-----------------------------------------------------------------------------
(* Printing: the columns of a row, as owt_row_cols() writes them.          *)

print_elements(t, v) ==
  [i \in 1..Len(v) |->
    CASE t = "[double]" -> Gen(Significant(v[i]))
      [] t = "[bool]" -> Chr(IF v[i] # 0 THEN "True" ELSE "False")
      [] OTHER -> Num(v[i])]

print_value(val) ==
  CASE val.t = "long" ->
         LET max == 2^(Bits32 - 1) - 1
             n == val.v[1]
         IN <<Num(IF n > max THEN max ELSE IF n < -max - 1 THEN -max - 1 ELSE n)>>
    [] val.t \in Integral -> <<Num(val.v[1])>>
    [] val.t = "double" ->
         IF val.v = <<>> THEN <<NaN>> ELSE <<Fix(Round(val.v[1], Fine))>>
    [] val.t = "string" -> backslash_encode(val.v)
    [] val.t = "blob" -> base64_encode_blob(val.v)
    [] val.t = "bool" -> <<Chr(IF val.v[1] # 0 THEN "T" ELSE "F")>>
    [] val.t \in Vectors -> <<Num(Len(val.v))>> \o print_elements(val.t, val.v)

\* The loop over the values and the loop over the elements of a vector count
\* with the same variable: after a vector the former goes on from the number of
\* elements, so it may stop early or run past the last value.
owt_row_cols(line, values) ==
  LET step(s, n) ==
        IF s.i >= Len(values) THEN s
        ELSE IF n > Len(values)
          THEN [i |-> Len(values), out |-> Append(s.out, Chr("garbage"))]
        ELSE LET val == values[n]
             IN [i |-> 1 + (IF val.t \in Vectors THEN Len(val.v) ELSE s.i),
                 out |-> s.out \o <<TAB>> \o print_value(val)]
  IN FoldLeft(step, [i |-> 0, out |-> line],
              [n \in 1..(Len(values) + 1) |-> n]).out

-----------------------------------------------------------------------------
(* Reading: oml_value_from_s() for a value of type t.                      *)

NoValue == [ok |-> FALSE, v |-> <<>>]
Value(v) == [ok |-> TRUE, v |-> v]

\* strtol() and its kin: 0 for what is no number.
strto(text) ==
  IF text # <<>> /\ text[1][1] = "int" THEN text[1][2] ELSE 0

\* Up to its length, the text is the start of "false", in any case.
oml_value_string_to_bool(text) ==
  IF text = <<>> \/ text[1][2] \in {"F", "f", "False", "false"} THEN 0 ELSE 1

element_from_s(t, sym) ==
  CASE t = "[bool]" -> oml_value_string_to_bool(<<sym>>)
    [] t = "[double]" -> sym[2]
    [] OTHER -> Wrapped(t, sym[2])

vector_from_s(t, text) ==
  IF text = <<>> \/ text[1][1] # "int" \/ Len(text) - 1 < text[1][2]
    THEN NoValue
    ELSE Value([i \in 1..text[1][2] |-> element_from_s(t, text[i + 1])])

\* strtod() sets errno to ERANGE for a number beyond the largest double, or
\* nearer to 0 than the smallest normal one.
OutOfRange(x) ==
  LET abs == IF x < 0 THEN -x ELSE x
  IN abs > DBL_MAX \/ (abs # 0 /\ abs < DBL_MIN)

ERANGE(t, text) ==
  /\ t \in {"double", "[double]"}
  /\ \E i \in 1..Len(text) :
       \/ text[i][1] = "%f" /\ OutOfRange(text[i][2] * Fine)
       \/ text[i][1] = "%g" /\ OutOfRange(text[i][2])

oml_value_from_s(t, text) ==
  CASE ERANGE(t, text) -> NoValue
    [] t \in Integral -> Value(<<Wrapped(t, strto(text))>>)
    [] t = "double" /\ ~ERANGE(t, text) ->
         Value(IF text = <<>> \/ text[1][1] # "%f" THEN <<>> ELSE <<text[1][2] * Fine>>)
    [] t = "string" -> Value(backslash_decode(text))
    [] t = "blob" ->
         LET n == base64_validate_string(text)
         IN Value(IF n = -1 THEN <<>> ELSE base64_decode_string(n, text))
    [] t = "bool" -> Value(<<oml_value_string_to_bool(text)>>)
    [] t \in Vectors /\ ~ERANGE(t, text) -> vector_from_s(t, text)
    [] OTHER -> NoValue

-----------------------------------------------------------------------------
(* Schemas.  A field has a name, a type and concepts; in a header line the *)
(* type is its name, and each concept is text of its own.                  *)

NoSchema == [ok |-> FALSE, name |-> "", fields |-> <<>>]

\* The second and later concepts go in behind the first.
add_oml_sem_def(list, c) ==
  IF list = <<>> THEN <<c>> ELSE <<Head(list), c>> \o Tail(list)

sem_to_mpdef(cs) == FoldLeft(add_oml_sem_def, <<>>, cs)

schema_field_from_meta(f) ==
  LET t == oml_type_from_s(f.type)
  IN [name |-> f.name, type |-> IF t = "long" THEN "int32" ELSE t,
      concepts |-> sem_to_mpdef(f.concepts)]

schema_from_meta(meta) ==
  LET fields == [i \in 1..Len(meta.fields) |->
                   schema_field_from_meta(meta.fields[i])]
  IN IF \E i \in 1..Len(fields) : fields[i].type = "unknown" THEN NoSchema
     ELSE [ok |-> TRUE, name |-> meta.name, fields |-> fields]

\* The concepts are not part of it.
schema_to_meta(s) ==
  [name |-> s.name,
   fields |-> [i \in 1..Len(s.fields) |->
                 [name |-> s.fields[i].name,
                  type |-> oml_type_to_s(s.fields[i].type),
                  concepts |-> <<>>]]]

schema_copy(s) ==
  [s EXCEPT !.fields = [i \in 1..Len(s.fields) |->
     [s.fields[i] EXCEPT !.concepts = FoldLeft(add_oml_sem_def, <<>>, @)]]]

\* Variant: the concepts of a field are compared too.
DiffConcepts(s1, s2) ==
  IF s1.name # s2.name THEN -1 ELSE IF s1.fields = s2.fields THEN 0 ELSE 1

\* 0 for the same, -1 for another name, or the first field that differs.
schema_diff(s1, s2) ==
  LET n == IF Len(s1.fields) < Len(s2.fields) THEN Len(s1.fields)
           ELSE Len(s2.fields)
      differ == {i \in 1..n : \/ s1.fields[i].name # s2.fields[i].name
                              \/ s1.fields[i].type # s2.fields[i].type}
  IN CASE s1.name # s2.name -> -1
       [] s1.name = s2.name /\ differ # {} ->
            CHOOSE i \in differ : \A j \in differ : i <= j
       [] s1.name = s2.name /\ differ = {} ->
            IF Len(s1.fields) # Len(s2.fields) THEN n + 1 ELSE 0
=============================================================================
