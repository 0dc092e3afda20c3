------------------------------- MODULE MCLog -------------------------------
(* Small instances of Log for TLC. *)
EXTENDS Log, TLC

\* Processes, blocks other than block 0, and contents are interchangeable.
Symmetry == Permutations(Proc) \cup Permutations(Block \ {Block0}) \cup Permutations(Val)

\* Behaviours are followed up to the first overlap of two log_write calls.
NoRaceYet == ~raced
=============================================================================
