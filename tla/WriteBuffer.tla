---------------------------- MODULE WriteBuffer -----------------------------
(***************************************************************************)
(* What an MBuffer promises to the measurement writers (text_writer.c,     *)
(* bin_writer.c) and to the thread that sends their output                 *)
(* (buffered_writer.c).                                                    *)
(*                                                                         *)
(* "current" is the message under construction; "pending" are the bytes of *)
(* complete messages that have not been sent.  Only "pending" is ever      *)
(* taken, and a message enters it whole or not at all.                     *)
(***************************************************************************)
EXTENDS Sequences, Naturals

VARIABLES pending, current

vars == <<pending, current>>

Init == pending = <<>> /\ current = <<>>

\* A field is added to the message under construction.
Extend ==
  /\ Len(current) <= Len(current')
  /\ SubSeq(current', 1, Len(current)) = current
  /\ UNCHANGED pending

\* The message is complete.
Commit == pending' = pending \o current /\ current' = <<>>

\* The message could not be completed.
Abandon == current' = <<>> /\ UNCHANGED pending

\* The sender has sent n bytes.
Take(n) ==
  /\ n <= Len(pending)
  /\ pending' = SubSeq(pending, n + 1, Len(pending))
  /\ UNCHANGED current

\* The queue is full: complete messages are dropped.
Drop == pending' = <<>> /\ UNCHANGED current

Next ==
  \/ Extend
  \/ Commit
  \/ Abandon
  \/ \E n \in 0 .. Len(pending) : Take(n)
  \/ Drop

Spec == Init /\ [][Next]_vars
=============================================================================
