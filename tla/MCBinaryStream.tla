--------------------------- MODULE MCBinaryStream ----------------------------
(* Samples for BinaryStream: values at the limits of what the protocol     *)
(* carries, messages short and long, and messages the server discards.     *)
EXTENDS BinaryStream

Sample(stream, ts, cols) == [stream |-> stream, ts |-> ts, cols |-> cols]
Val(t, v) == [t |-> t, v |-> v]

Early == <<1029, -3>>   \* mantissas with bits that are not sent
Late == <<-1031, 15>>

MCnfields == (1 :> 2) @@ (3 :> 1)

\* The bytes of a whole message for stream 3.
Whole == marshal_finalize(
           marshal_values(marshal_measurements(marshal_init(OMB_DATA_P), 3, 2, Late),
                          <<Val("bool", <<1>>)>>), FALSE).mem

MCRows ==
  { \* one value per filter: a long that is clamped, a double that loses bits
    Sample(1, Early, <<<<Val("long", <<600>>)>>, <<Val("double", Late)>>>>),
    \* a string that is cut, and makes the message long
    Sample(1, Early, <<<<Val("string", [i \in 1..33 |-> 3]),
                         Val("bool", <<1>>)>>>>),
    \* an exponent that does not fit, no string at all
    Sample(1, Late, <<<<Val("double", <<1024, 16>>),
                        Val("string", NullString)>>>>),
    Sample(1, Early, <<<<Val("vint32", <<-1, 300>>),
                         Val("vbool", <<1, 0, 1>>)>>>>),
    Sample(3, Early, <<<<Val("int64", <<-512 * 1024>>)>>>>),
    \* abandoned: a NULL blob, with nothing and with something after it
    Sample(3, Early, <<<<Val("blob", NullBlob)>>>>),
    Sample(1, Early, <<<<Val("blob", NullBlob)>>, <<Val("uint32", <<1023>>)>>>>),
    \* discarded: no table; with synchronisation bytes in its body, and with
    \* another message
    Sample(2, Early, <<<<Val("uint32", <<1023>>)>>>>),
    Sample(2, Early, <<<<Val("blob", <<7, 21, 21, 1>>)>>>>),
    Sample(2, Early, <<<<Val("blob", Whole)>>>>),
    \* discarded: too many values, too few
    Sample(3, Early, <<<<Val("bool", <<0>>), Val("bool", <<1>>)>>>>),
    Sample(1, Early, <<<<Val("guid", <<1048575>>)>>>>) }
=============================================================================
