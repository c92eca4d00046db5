------------------------- MODULE MCBufferedWriter ---------------------------
(* BufferedWriter on small instances.                                      *)
EXTENDS BufferedWriter

CONSTANTS w1, w2
=============================================================================
