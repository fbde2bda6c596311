----------------------------- MODULE MCCallDAG ------------------------------
(* Small instances of the call graph.                                      *)
EXTENDS CallDAG

ThreeFunctions == 1..3
=============================================================================
