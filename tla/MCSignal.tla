------------------------------ MODULE MCSignal ------------------------------
(* Signal for model checking. *)
EXTENDS Signal, TLC

Symmetry == Permutations(Val)
=============================================================================
