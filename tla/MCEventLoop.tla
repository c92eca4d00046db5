---------------------------- MODULE MCEventLoop -----------------------------
(* Instances of EventLoop: one connection with a timer, and two without.   *)
EXTENDS EventLoop

CONSTANTS c1, c2

MCCases ==
  {[conns |-> {c1}, bytes |-> 2, timer |-> TRUE],
   [conns |-> {c1, c2}, bytes |-> 1, timer |-> FALSE]}

=============================================================================
