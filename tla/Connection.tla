----------------------------- MODULE Connection -----------------------------
(***************************************************************************)
(* What the event loop (lib/ocomm/eventloop.c) promises the owner of one   *)
(* connection: the bytes that the kernel accepted from the peer, in order  *)
(* and at most once; SOCKET_CONN_CLOSED only after all of them; after an   *)
(* error no more data; and, once the channel has been released, nothing.   *)
(***************************************************************************)
EXTENDS Naturals, Sequences

VARIABLES
  sent,    \* number of bytes accepted from the peer
  got,     \* those passed to the read callback
  told,    \* statuses passed to the status callback, in order
  state    \* "new", "open", "failed" after an error status, "released"

vars == <<sent, got, told, state>>

Errors == {"SOCKET_UNKNOWN", "SOCKET_CONN_REFUSED", "SOCKET_DROPPED"}

Init == sent = 0 /\ got = <<>> /\ told = <<>> /\ state = "new"

Open == state = "new" /\ state' = "open" /\ UNCHANGED <<sent, got, told>>

Send == sent' > sent /\ UNCHANGED <<got, told, state>>

\* The owner may release the channel in the callback.
Read ==
  /\ state = "open"
  /\ \E n \in Len(got) + 1 .. sent : got' = [k \in 1 .. n |-> k]
  /\ state' \in {"open", "released"}
  /\ UNCHANGED <<sent, told>>

Closed ==
  /\ state = "open" /\ Len(got) = sent
  /\ told' = Append(told, "SOCKET_CONN_CLOSED") /\ state' = "released"
  /\ UNCHANGED <<sent, got>>

Failed ==
  /\ state = "open"
  /\ \E s \in Errors : told' = Append(told, s)
  /\ state' = "failed"
  /\ UNCHANGED <<sent, got>>

Idle ==
  /\ state \in {"open", "failed"}
  /\ told' = Append(told, "SOCKET_IDLE") /\ state' = "released"
  /\ UNCHANGED <<sent, got>>

\* By eventloop_stop() or eventloop_terminate().
Release ==
  /\ state \in {"open", "failed"} /\ state' = "released"
  /\ UNCHANGED <<sent, got, told>>

Next == Open \/ Send \/ Read \/ Closed \/ Failed \/ Idle \/ Release

Spec == Init /\ [][Next]_vars
=============================================================================
