-------------------------------- MODULE Proc --------------------------------
(***************************************************************************)
(* proc.c: the process table.  allocproc, fork, exit, wait, kill, sleep,   *)
(* wakeup, yield and the scheduler, with the tests of proc->killed that    *)
(* trap.c makes around system calls and interrupts.                        *)
(*                                                                         *)
(* A section under ptable.lock is one step.  What fork does to the new     *)
(* slot without the lock, and the test of killed that a blocking call      *)
(* makes before it calls sleep, are steps of their own.  The table's order *)
(* is abstracted: where the code takes the first slot that fits, any does. *)
(***************************************************************************)
EXTENDS Integers, FiniteSets

CONSTANTS Slot,      \* entries of ptable.proc
          initproc,  \* the slot of the first process
          NoProc,    \* the null pointer
          IO,        \* a channel other than a process: &ticks, &p->nread, ...
          NCPU,      \* processors
          MaxPid     \* bound on nextpid

ASSUME ProcAssumption ==
  /\ initproc \in Slot /\ IsFiniteSet(Slot)
  /\ NoProc \notin Slot /\ IO \notin Slot /\ IO # NoProc
  /\ NCPU \in Nat \ {0} /\ MaxPid \in Nat \ {0}

VARIABLES state, pid, parent, killed, chan,  \* fields of struct proc
          nextpid,
          pc,       \* where the process is between two steps
          np,       \* fork's np
          targets   \* history: pids that were killed on purpose or by a fault

vars == <<state, pid, parent, killed, chan, nextpid, pc, np, targets>>

procstate == {"UNUSED", "EMBRYO", "SLEEPING", "RUNNABLE", "RUNNING", "ZOMBIE"}
PC == {"user", "ret", "fork_copy", "fork_ready", "wait", "block", "sleep",
       "exit", "panic"}
InFork == {"fork_copy", "fork_ready"}

TypeOK ==
  /\ state \in [Slot -> procstate]
  /\ pid \in [Slot -> Nat] /\ nextpid \in Nat
  /\ parent \in [Slot -> Slot \cup {NoProc}]
  /\ killed \in [Slot -> BOOLEAN]
  /\ chan \in [Slot -> Slot \cup {NoProc, IO}]
  /\ pc \in [Slot -> PC]
  /\ np \in [Slot -> Slot \cup {NoProc}]
  /\ targets \subseteq Nat

\* userinit: the first process is ready to run, every other slot is free.
Init ==
  /\ state = [p \in Slot |-> IF p = initproc THEN "RUNNABLE" ELSE "UNUSED"]
  /\ pid = [p \in Slot |-> IF p = initproc THEN 1 ELSE 0]
  /\ parent = [p \in Slot |-> NoProc]
  /\ killed = [p \in Slot |-> FALSE]
  /\ chan = [p \in Slot |-> NoProc]
  /\ nextpid = 2
  /\ pc = [p \in Slot |-> "user"]
  /\ np = [p \in Slot |-> NoProc]
  /\ targets = {}

-----------------------------------------------------------------------------
Runs(p, l) == state[p] = "RUNNING" /\ pc[p] = l
Goto(p, l) == pc' = [pc EXCEPT ![p] = l]

\* A system call starts in user mode; trap() turns a killed caller away.
Syscall(p) == Runs(p, "user") /\ ~killed[p]

Children(p) == {q \in Slot : parent[q] = p}
Zombies(p)  == {q \in Children(p) : state[q] = "ZOMBIE"}

\* wakeup1 as a function of the states: who sleeps on one of the channels C.
Woken(st, C) ==
  [q \in Slot |-> IF st[q] = "SLEEPING" /\ chan[q] \in C THEN "RUNNABLE" ELSE st[q]]

scheduler(p) ==
  /\ state[p] = "RUNNABLE"
  /\ Cardinality({q \in Slot : state[q] = "RUNNING"}) < NCPU
  /\ state' = [state EXCEPT ![p] = "RUNNING"]
  /\ UNCHANGED <<pid, parent, killed, chan, nextpid, pc, np, targets>>

\* A timer interrupt makes the process yield; it is turned away if killed.
yield(p) ==
  /\ state[p] = "RUNNING" /\ pc[p] # "panic"
  /\ pc[p] = "user" => ~killed[p]
  /\ state' = [state EXCEPT ![p] = "RUNNABLE"]
  /\ UNCHANGED <<pid, parent, killed, chan, nextpid, pc, np, targets>>

\* trap(): on the way into and out of the kernel a killed process exits.
trap_killed(p) ==
  /\ Runs(p, "user") \/ Runs(p, "ret")
  /\ killed[p]
  /\ Goto(p, "exit")
  /\ UNCHANGED <<state, pid, parent, killed, chan, nextpid, np, targets>>

trap_return(p) ==
  /\ Runs(p, "ret") /\ ~killed[p]
  /\ Goto(p, "user")
  /\ UNCHANGED <<state, pid, parent, killed, chan, nextpid, np, targets>>

\* trap(), default case in user mode: the process misbehaved.
trap_fault(p) ==
  /\ Syscall(p) /\ p # initproc
  /\ killed' = [killed EXCEPT ![p] = TRUE]
  /\ targets' = targets \cup {pid[p]}
  /\ Goto(p, "exit")
  /\ UNCHANGED <<state, pid, parent, chan, nextpid, np>>

-----------------------------------------------------------------------------
\* Mutant: nextpid is not advanced.
allocproc_same_pid(p, q) ==
  /\ Syscall(p)
  /\ state[q] = "UNUSED"
  /\ state' = [state EXCEPT ![q] = "EMBRYO"]
  /\ pid' = [pid EXCEPT ![q] = nextpid]
  /\ np' = [np EXCEPT ![p] = q]
  /\ Goto(p, "fork_copy")
  /\ UNCHANGED <<nextpid, parent, killed, chan, targets>>

\* fork's call of allocproc: a free slot q becomes an EMBRYO with a new pid.
allocproc(p, q) ==
  /\ Syscall(p) /\ nextpid <= MaxPid
  /\ state[q] = "UNUSED"
  /\ state' = [state EXCEPT ![q] = "EMBRYO"]
  /\ pid' = [pid EXCEPT ![q] = nextpid]
  /\ nextpid' = nextpid + 1
  /\ np' = [np EXCEPT ![p] = q]
  /\ Goto(p, "fork_copy")
  /\ UNCHANGED <<parent, killed, chan, targets>>

\* No free slot: fork returns -1.
allocproc_full(p) ==
  /\ Syscall(p)
  /\ \A q \in Slot : state[q] # "UNUSED"
  /\ Goto(p, "ret")
  /\ UNCHANGED <<state, pid, parent, killed, chan, nextpid, np, targets>>

\* Mutant: the slot is not given back.
fork_fail_keeps_slot(p) ==
  /\ Runs(p, "fork_copy")
  /\ np' = [np EXCEPT ![p] = NoProc]
  /\ Goto(p, "ret")
  /\ UNCHANGED <<state, pid, parent, killed, chan, nextpid, targets>>

\* kalloc of the kernel stack or copyuvm fails: the slot is given back.
fork_fail(p) ==
  /\ Runs(p, "fork_copy")
  /\ state' = [state EXCEPT ![np[p]] = "UNUSED"]
  /\ np' = [np EXCEPT ![p] = NoProc]
  /\ Goto(p, "ret")
  /\ UNCHANGED <<pid, parent, killed, chan, nextpid, targets>>

fork_copy(p) ==
  /\ Runs(p, "fork_copy")
  /\ parent' = [parent EXCEPT ![np[p]] = p]
  /\ Goto(p, "fork_ready")
  /\ UNCHANGED <<state, pid, killed, chan, nextpid, np, targets>>

\* The child will return to user mode through forkret and trapret.
fork_ready(p) ==
  /\ Runs(p, "fork_ready")
  /\ state' = [state EXCEPT ![np[p]] = "RUNNABLE"]
  /\ pc' = [pc EXCEPT ![p] = "ret", ![np[p]] = "user"]
  /\ np' = [np EXCEPT ![p] = NoProc]
  /\ UNCHANGED <<pid, parent, killed, chan, nextpid, targets>>

-----------------------------------------------------------------------------
\* sys_exit; init's program never calls it.
sys_exit(p) ==
  /\ Syscall(p) /\ p # initproc
  /\ Goto(p, "exit")
  /\ UNCHANGED <<state, pid, parent, killed, chan, nextpid, np, targets>>

exit_init(p) ==
  /\ Runs(p, "exit") /\ p = initproc
  /\ Goto(p, "panic")
  /\ UNCHANGED <<state, pid, parent, killed, chan, nextpid, np, targets>>

\* Mutant: the children are not handed over.
exit_no_reparent(p) ==
  /\ Runs(p, "exit") /\ p # initproc
  /\ state' = [Woken(state, {parent[p]}) EXCEPT ![p] = "ZOMBIE"]
  /\ UNCHANGED <<pid, parent, killed, chan, nextpid, pc, np, targets>>

\* Mutant: the parent is not woken.
exit_no_wakeup_parent(p) ==
  /\ Runs(p, "exit") /\ p # initproc
  /\ state' = [state EXCEPT ![p] = "ZOMBIE"]
  /\ parent' = [q \in Slot |-> IF parent[q] = p THEN initproc ELSE parent[q]]
  /\ UNCHANGED <<pid, killed, chan, nextpid, pc, np, targets>>

\* exit() after the files are closed: wake the parent, hand the children to
\* init (waking it for a zombie), become a ZOMBIE.
exit(p) ==
  /\ Runs(p, "exit") /\ p # initproc
  /\ LET toWake == {parent[p]} \cup (IF Zombies(p) # {} THEN {initproc} ELSE {})
     IN  state' = [Woken(state, toWake) EXCEPT ![p] = "ZOMBIE"]
  /\ parent' = [q \in Slot |-> IF parent[q] = p THEN initproc ELSE parent[q]]
  /\ UNCHANGED <<pid, killed, chan, nextpid, pc, np, targets>>

sys_wait(p) ==
  /\ Syscall(p)
  /\ Goto(p, "wait")
  /\ UNCHANGED <<state, pid, parent, killed, chan, nextpid, np, targets>>

\* One turn of wait's loop, also after sleep has returned with the lock held.
wait_reap(p, q) ==
  /\ Runs(p, "wait")
  /\ q \in Zombies(p)
  /\ state' = [state EXCEPT ![q] = "UNUSED"]
  /\ pid' = [pid EXCEPT ![q] = 0]
  /\ parent' = [parent EXCEPT ![q] = NoProc]
  /\ killed' = [killed EXCEPT ![q] = FALSE]
  /\ chan' = [chan EXCEPT ![p] = NoProc]
  /\ Goto(p, "ret")
  /\ UNCHANGED <<nextpid, np, targets>>

wait_none(p) ==
  /\ Runs(p, "wait")
  /\ Zombies(p) = {} /\ (Children(p) = {} \/ killed[p])
  /\ chan' = [chan EXCEPT ![p] = NoProc]
  /\ Goto(p, "ret")
  /\ UNCHANGED <<state, pid, parent, killed, nextpid, np, targets>>

\* Mutant: the arguments of sleep exchanged, the channel is the lock.
wait_sleep_exchanged(p) ==
  /\ Runs(p, "wait")
  /\ Zombies(p) = {} /\ Children(p) # {} /\ ~killed[p]
  /\ chan' = [chan EXCEPT ![p] = "ptable.lock"]
  /\ state' = [state EXCEPT ![p] = "SLEEPING"]
  /\ UNCHANGED <<pid, parent, killed, nextpid, pc, np, targets>>

wait_sleep(p) ==
  /\ Runs(p, "wait")
  /\ Zombies(p) = {} /\ Children(p) # {} /\ ~killed[p]
  /\ chan' = [chan EXCEPT ![p] = p]
  /\ state' = [state EXCEPT ![p] = "SLEEPING"]
  /\ UNCHANGED <<pid, parent, killed, nextpid, pc, np, targets>>

-----------------------------------------------------------------------------
\* A call that waits for an event (sys_sleep, piperead, consoleread): under its
\* own lock it tests the event, then killed, then calls sleep.  init's program
\* (init.c) makes no such call.
sys_block(p) ==
  /\ Syscall(p) /\ p # initproc
  /\ Goto(p, "block")
  /\ UNCHANGED <<state, pid, parent, killed, chan, nextpid, np, targets>>

\* The event is there, or killed is set: the call returns.
block_return(p) ==
  /\ Runs(p, "block")
  /\ chan' = [chan EXCEPT ![p] = NoProc]
  /\ Goto(p, "ret")
  /\ UNCHANGED <<state, pid, parent, killed, nextpid, np, targets>>

block_test(p) ==
  /\ Runs(p, "block") /\ ~killed[p]
  /\ chan' = [chan EXCEPT ![p] = NoProc]
  /\ Goto(p, "sleep")
  /\ UNCHANGED <<state, pid, parent, killed, nextpid, np, targets>>

\* sleep(): from here on ptable.lock is held.
sleep(p) ==
  /\ Runs(p, "sleep")
  /\ chan' = [chan EXCEPT ![p] = IO]
  /\ state' = [state EXCEPT ![p] = "SLEEPING"]
  /\ Goto(p, "block")
  /\ UNCHANGED <<pid, parent, killed, nextpid, np, targets>>

\* wakeup() by an interrupt handler or another process.
wakeup ==
  /\ state' = Woken(state, {IO})
  /\ UNCHANGED <<pid, parent, killed, chan, nextpid, pc, np, targets>>

\* kill(n): the slot q whose pid is n, whatever its state.
kill(p, q) ==
  /\ Syscall(p)
  /\ killed' = [killed EXCEPT ![q] = TRUE]
  /\ state' = [state EXCEPT ![q] = IF @ = "SLEEPING" THEN "RUNNABLE" ELSE @]
  /\ targets' = targets \cup (IF state[q] \in {"UNUSED", "ZOMBIE"} THEN {} ELSE {pid[q]})
  /\ Goto(p, "ret")
  /\ UNCHANGED <<pid, parent, chan, nextpid, np>>

Next ==
  \/ \E p \in Slot :
       \/ scheduler(p) \/ yield(p)
       \/ trap_killed(p) \/ trap_return(p) \/ trap_fault(p)
       \/ allocproc_full(p) \/ fork_fail(p) \/ fork_copy(p) \/ fork_ready(p)
       \/ sys_exit(p) \/ exit_init(p) \/ exit(p)
       \/ sys_wait(p) \/ wait_none(p) \/ wait_sleep(p)
       \/ sys_block(p) \/ block_return(p) \/ block_test(p) \/ sleep(p)
  \/ \E p, q \in Slot : allocproc(p, q) \/ wait_reap(p, q) \/ kill(p, q)
  \/ wakeup

Spec == Init /\ [][Next]_vars

\* Timer interrupts recur and scheduling is round-robin, so every RUNNABLE process
\* runs again and again and makes its next kernel step; init's program (init.c)
\* keeps returning to wait().
KernelStep(p) ==
  \/ trap_killed(p) \/ trap_return(p) \/ fork_fail(p) \/ fork_copy(p) \/ fork_ready(p)
  \/ exit_init(p) \/ exit(p) \/ wait_none(p) \/ wait_sleep(p)
  \/ \E q \in Slot : wait_reap(p, q)
  \/ block_return(p) \/ block_test(p) \/ sleep(p)

Fairness ==
  /\ \A p \in Slot : /\ WF_vars(yield(p)) /\ SF_vars(scheduler(p))
                     /\ SF_vars(KernelStep(p))
  /\ SF_vars(sys_wait(initproc))

FairSpec == Spec /\ Fairness

-----------------------------------------------------------------------------
Alive == {"SLEEPING", "RUNNABLE", "RUNNING"}

\* proc.c:174-175, "An exited process remains in the zombie state until its
\* parent calls wait()": exit hands children over before it lets go, so every
\* process but init, a zombie included, has a parent that can still call wait.
HasLiveParent ==
  /\ state[initproc] \in Alive
  /\ \A q \in Slot \ {initproc} : state[q] \in Alive \cup {"ZOMBIE"} =>
       parent[q] \in Slot \ {q} /\ state[parent[q]] \in Alive

\* wait() sleeps only when it has to: whoever is asleep in it has children, none
\* of them a zombie, and has not been killed.  No exit, reparenting or kill is
\* missed between the scan of the table and the sleep.
WaitSleeperJustified ==
  \A p \in Slot : state[p] = "SLEEPING" /\ chan[p] = p =>
    Children(p) # {} /\ Zombies(p) = {} /\ ~killed[p]

\* A slot that fork is filling has one owner, which is still in fork, and gets its
\* parent from it; a free slot is nobody's child.
EmbryoOwned ==
  /\ \A p \in Slot : IF pc[p] \in InFork
                     THEN /\ state[p] \in {"RUNNING", "RUNNABLE"}
                          /\ np[p] \in Slot /\ state[np[p]] = "EMBRYO"
                          /\ parent[np[p]] = IF pc[p] = "fork_ready" THEN p ELSE NoProc
                     ELSE np[p] = NoProc
  /\ \A p, q \in Slot : np[p] = np[q] /\ np[p] \in Slot => p = q
  /\ \A q \in Slot : state[q] = "EMBRYO" => \E p \in Slot : np[p] = q
  /\ \A q \in Slot : state[q] = "UNUSED" => parent[q] = NoProc

\* No two processes, living or dead and not yet waited for, have the same pid.
PidsDistinct ==
  \A p, q \in Slot : p # q /\ state[p] # "UNUSED" /\ state[q] # "UNUSED" =>
    pid[p] # pid[q] /\ pid[p] > 0

\* proc.h:65, killed: "If non-zero, have been killed": a process with killed set
\* was itself the target of kill or made a fault.
KilledWasTarget ==
  \A p \in Slot : state[p] \in Alive /\ killed[p] => pid[p] \in targets

\* An orphan's zombie is reaped: init is woken for it, whoever exits in what
\* order, unless init itself has been killed.
OrphanReaped ==
  \A q \in Slot : state[q] = "ZOMBIE" /\ parent[q] = initproc
                  ~> state[q] = "UNUSED" \/ killed[initproc]
=============================================================================
