----------------------------- MODULE MCCompiler -----------------------------
(***************************************************************************)
(* A small instance of Compiler for TLC: one variable name and one         *)
(* function, whose name a variable may take as well.                       *)
(***************************************************************************)
EXTENDS Compiler, TLC

CONSTANTS x, f, f_void

OneFunction == [sig \in {f_void} |-> f]
=============================================================================
