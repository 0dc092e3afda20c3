------------------------------- MODULE MCProc -------------------------------
(* Small instances of Proc for TLC. *)
EXTENDS Proc, TLC

\* The slots other than init's are interchangeable.
Symmetry == Permutations(Slot \ {initproc})

\* The state without its history, on which no step depends.
View == <<state, pid, parent, killed, chan, nextpid, pc, np>>
=============================================================================
