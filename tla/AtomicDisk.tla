----------------------------- MODULE AtomicDisk -----------------------------
(***************************************************************************)
(* What log.c promises its callers: the file system's blocks seen by the   *)
(* running kernel (view), the blocks a reboot would bring back (durable),  *)
(* and the processes between begin_op() and end_op() (active).  Updates    *)
(* become durable only when no operation is active, all of them at once,   *)
(* and a crash at any moment falls back to the last such point.            *)
(***************************************************************************)
CONSTANTS Proc,     \* processes that make file system calls
          Block,    \* home blocks of the file system
          Val       \* contents a block can have

VARIABLES view, durable, active

vars == <<view, durable, active>>

Init ==
  /\ durable \in [Block -> Val]
  /\ view = durable
  /\ active = {}

BeginOp(p) ==
  /\ p \notin active
  /\ active' = active \cup {p}
  /\ UNCHANGED <<view, durable>>

Write(p, b, v) ==
  /\ p \in active
  /\ view' = [view EXCEPT ![b] = v]
  /\ UNCHANGED <<durable, active>>

EndOp(p) ==
  /\ p \in active
  /\ active' = active \ {p}
  /\ UNCHANGED <<view, durable>>

Commit ==
  /\ active = {}
  /\ durable' = view
  /\ UNCHANGED <<view, active>>

Crash ==
  /\ view' = durable
  /\ active' = {}
  /\ UNCHANGED durable

Next ==
  \/ \E p \in Proc : BeginOp(p) \/ EndOp(p)
  \/ \E p \in Proc, b \in Block, v \in Val : Write(p, b, v)
  \/ Commit
  \/ Crash

Spec == Init /\ [][Next]_vars
=============================================================================
