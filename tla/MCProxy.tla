------------------------------ MODULE MCProxy -------------------------------
(* Proxy on small instances.                                               *)
EXTENDS Proxy, TLC

CONSTANTS p1, p2

\* With pages of three units: the second message spans two pages, and the
\* fourth spans the end of the second page and finds the first one empty, or
\* not.
Long == << Headers("all"), Message(1, 2), Message(2, 2), Message(3, 1), Message(4, 2) >>

\* The second message ends where a page does, so the third begins there.
Exact == << Headers("all"), Message(1, 2), Message(2, 1), Message(3, 1) >>
OneClient(s) == p1 :> s @@ p2 :> <<>>

\* Two clients whose life cycles overlap.
Short == << Headers("all"), Message(1, 1) >>
TwoClients(s, t) == p1 :> s @@ p2 :> t

\* Headers that lack what C_CONFIGURE asks for, or what the sender sends; a
\* line that is not a message, and one that is not a header.
Few == << Headers("few"), Message(1, 1) >>
Needed == << Headers("needed"), Message(1, 1) >>
Garbled == << Headers("all"), Message(1, 1), Junk >>

Case(lines, n) == [net |-> lines, luck |-> n]

MCCases ==
  {Case(OneClient(Long), 1), Case(OneClient(SubSeq(Long, 1, 3)), 2),
   Case(TwoClients(Short, << Headers("all") >>), 0)}
    \cup {Case(OneClient(s), 1) : s \in {Few, Needed, Garbled, <<Junk>>, Exact}}
=============================================================================
