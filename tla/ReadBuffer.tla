----------------------------- MODULE ReadBuffer -----------------------------
(***************************************************************************)
(* What an MBuffer promises to the code that parses messages out of it     *)
(* (the server's client_handler.c and the proxy's receiver.c).             *)
(*                                                                         *)
(* The bytes of interest are those of the message being parsed.  "held"    *)
(* are the bytes already read that a parser may still want to re-read when *)
(* the message turns out to be incomplete; "unread" is everything received *)
(* after them.  Where the bytes lie in memory is not part of the promise.  *)
(***************************************************************************)
EXTENDS Sequences, Naturals

VARIABLES held, unread

vars == <<held, unread>>

Init == held = <<>> /\ unread = <<>>

\* Bytes arrive from the network.
Receive ==
  /\ Len(unread) <= Len(unread')
  /\ SubSeq(unread', 1, Len(unread)) = unread
  /\ UNCHANGED held

\* The parser reads n bytes of the message.
Take(n) ==
  /\ n <= Len(unread)
  /\ held' = held \o SubSeq(unread, 1, n)
  /\ unread' = SubSeq(unread, n + 1, Len(unread))

\* The message is incomplete: go back to its first byte.
Rewind == held' = <<>> /\ unread' = held \o unread

\* The message was handled: its bytes are not needed any more.
Consume == held' = <<>> /\ UNCHANGED unread

\* The connection is in a protocol error: everything is thrown away.
Discard == held' = <<>> /\ unread' = <<>>

Next ==
  \/ Receive
  \/ \E n \in 0 .. Len(unread) : Take(n)
  \/ Rewind
  \/ Consume
  \/ Discard

Spec == Init /\ [][Next]_vars
=============================================================================
