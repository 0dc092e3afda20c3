------------------------------- MODULE MCPipe -------------------------------
(* Pipe for model checking. *)
EXTENDS Pipe, TLC

Symmetry == Permutations(Proc) \cup Permutations(Byte)
=============================================================================
