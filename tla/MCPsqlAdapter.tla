---------------------------- MODULE MCPsqlAdapter ----------------------------
(* Two clients with different clocks; of the values, one fits any column of  *)
(* its type and a uint64 above the largest BIGINT does not; a guid does.     *)
EXTENDS PsqlAdapter, TLC

MCStart == ("a" :> 10) @@ ("b" :> 20)

MCValues == { [t |-> "uint64", n |-> 127], [t |-> "uint64", n |-> 128],
              [t |-> "guid", n |-> 255] }
=============================================================================
