------------------------------- MODULE Blocks -------------------------------
(***************************************************************************)
(* What bio.c promises its callers: every sector of the disk has one value *)
(* and is used by one process at a time.  A sector whose transfer the      *)
(* drive has failed is Lost: nothing is promised of it any more.           *)
(***************************************************************************)
CONSTANTS Proc, Sector, Val, Lost

VARIABLES mem, holders

Get(p, s) ==
  /\ holders[s] = {} /\ holders' = [holders EXCEPT ![s] = {p}]
  /\ UNCHANGED mem

Put(p, s) ==
  /\ holders[s] = {p} /\ holders' = [holders EXCEPT ![s] = {}]
  /\ UNCHANGED mem

Write(p, s) ==
  /\ holders[s] = {p} /\ mem[s] # Lost
  /\ \E v \in Val : mem' = [mem EXCEPT ![s] = v]
  /\ UNCHANGED holders

Fail(s) ==
  /\ mem' = [mem EXCEPT ![s] = Lost]
  /\ UNCHANGED holders

Init == mem \in [Sector -> Val] /\ holders = [s \in Sector |-> {}]

Next ==
  \E s \in Sector : Fail(s) \/ \E p \in Proc : Get(p, s) \/ Put(p, s) \/ Write(p, s)

Spec == Init /\ [][Next]_<<mem, holders>>
=============================================================================
