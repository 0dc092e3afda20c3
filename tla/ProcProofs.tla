----------------------------- MODULE ProcProofs -----------------------------
(***************************************************************************)
(* Proofs about the process table for any number of slots and processors.  *)
(***************************************************************************)
EXTENDS Proc, TLAPS

\* HasLiveParent and WaitSleeperJustified are inductive together with the type
\* invariant and the ownership of the slots fork is filling.
IInv == TypeOK /\ EmbryoOwned /\ HasLiveParent /\ WaitSleeperJustified

\* The process table that userinit leaves satisfies the invariant.
LEMMA InitInv == Init => IInv
  BY ProcAssumption DEF Init, IInv, TypeOK, EmbryoOwned, HasLiveParent,
     WaitSleeperJustified, Alive, PC, InFork, procstate, Children, Zombies

\* Every step preserves the types.
LEMMA TypeStep == IInv /\ [Next]_vars => TypeOK'
<1> SUFFICES ASSUME IInv, [Next]_vars PROVE TypeOK'
  OBVIOUS
<1> USE ProcAssumption DEF IInv, Runs, Goto, TypeOK, PC, InFork, procstate,
    EmbryoOwned, Zombies, Children
<1>1. ASSUME NEW p \in Slot, scheduler(p) PROVE TypeOK'
  BY <1>1 DEF scheduler
<1>2. ASSUME NEW p \in Slot, yield(p) PROVE TypeOK'
  BY <1>2 DEF yield
<1>3. ASSUME NEW p \in Slot, trap_killed(p) PROVE TypeOK'
  BY <1>3 DEF trap_killed
<1>4. ASSUME NEW p \in Slot, trap_return(p) PROVE TypeOK'
  BY <1>4 DEF trap_return
<1>5. ASSUME NEW p \in Slot, trap_fault(p) PROVE TypeOK'
  <2>1. killed' \in [Slot -> BOOLEAN]
    BY <1>5 DEF trap_fault
  <2>2. targets' \subseteq Nat
    <3>1. pid[p] \in Nat /\ targets \subseteq Nat
      OBVIOUS
    <3>2. targets' = targets \cup {pid[p]}
      BY <1>5 DEF trap_fault
    <3>3. QED
      BY <3>1, <3>2, Zenon
  <2>3. pc' \in [Slot -> PC]
    BY <1>5 DEF trap_fault
  <2>4. QED
    BY <1>5, <2>1, <2>2, <2>3 DEF trap_fault
<1>6. ASSUME NEW p \in Slot, allocproc_full(p) PROVE TypeOK'
  BY <1>6 DEF allocproc_full, Syscall
<1>7. ASSUME NEW p \in Slot, fork_fail(p) PROVE TypeOK'
  BY <1>7 DEF fork_fail
<1>8. ASSUME NEW p \in Slot, fork_copy(p) PROVE TypeOK'
  BY <1>8 DEF fork_copy
<1>9. ASSUME NEW p \in Slot, fork_ready(p) PROVE TypeOK'
  BY <1>9 DEF fork_ready
<1>10. ASSUME NEW p \in Slot, sys_exit(p) PROVE TypeOK'
  BY <1>10 DEF sys_exit, Syscall
<1>11. ASSUME NEW p \in Slot, exit_init(p) PROVE TypeOK'
  BY <1>11 DEF exit_init
<1>12. ASSUME NEW p \in Slot, exit(p) PROVE TypeOK'
  BY <1>12 DEF exit, Woken
<1>13. ASSUME NEW p \in Slot, sys_wait(p) PROVE TypeOK'
  BY <1>13 DEF sys_wait, Syscall
<1>14. ASSUME NEW p \in Slot, wait_none(p) PROVE TypeOK'
  BY <1>14 DEF wait_none
<1>15. ASSUME NEW p \in Slot, wait_sleep(p) PROVE TypeOK'
  BY <1>15 DEF wait_sleep
<1>16. ASSUME NEW p \in Slot, sys_block(p) PROVE TypeOK'
  BY <1>16 DEF sys_block, Syscall
<1>17. ASSUME NEW p \in Slot, block_return(p) PROVE TypeOK'
  BY <1>17 DEF block_return
<1>18. ASSUME NEW p \in Slot, block_test(p) PROVE TypeOK'
  BY <1>18 DEF block_test
<1>19. ASSUME NEW p \in Slot, sleep(p) PROVE TypeOK'
  BY <1>19 DEF sleep
<1>20. ASSUME NEW p \in Slot, NEW q \in Slot, allocproc(p, q) PROVE TypeOK'
  BY <1>20 DEF allocproc, Syscall
<1>21. ASSUME NEW p \in Slot, NEW q \in Slot, wait_reap(p, q) PROVE TypeOK'
  BY <1>21 DEF wait_reap
<1>22. ASSUME NEW p \in Slot, NEW q \in Slot, kill(p, q) PROVE TypeOK'
  <2>1. killed' \in [Slot -> BOOLEAN]
    BY <1>22 DEF kill
  <2>2. state' \in [Slot -> procstate]
    BY <1>22 DEF kill
  <2>3. targets' \subseteq Nat
    <3>1. pid[q] \in Nat /\ targets \subseteq Nat
      OBVIOUS
    <3>2. targets' \subseteq targets \cup {pid[q]}
      BY <1>22 DEF kill
    <3>3. QED
      BY <3>1, <3>2
  <2>4. pc' \in [Slot -> PC]
    BY <1>22 DEF kill
  <2>5. QED
    BY <1>22, <2>1, <2>2, <2>3, <2>4 DEF kill
<1>23. ASSUME wakeup PROVE TypeOK'
  BY <1>23 DEF wakeup, Woken
<1>24. CASE UNCHANGED vars
  BY <1>24 DEF vars
<1>25. QED
    BY <1>1, <1>2, <1>3, <1>4, <1>5, <1>6, <1>7, <1>8, <1>9, <1>10, <1>11, Zenon,
     <1>12, <1>13, <1>14, <1>15, <1>16, <1>17, <1>18, <1>19, <1>20, <1>21,
     <1>22, <1>23, <1>24 DEF Next

\* Every step preserves the ownership of embryos.
LEMMA EmbryoStep == IInv /\ [Next]_vars => EmbryoOwned'
<1> SUFFICES ASSUME IInv, [Next]_vars PROVE EmbryoOwned'
  OBVIOUS
<1> USE ProcAssumption DEF IInv, Runs, Goto, TypeOK, PC, InFork, procstate,
    EmbryoOwned, Zombies, Children
<1>1. ASSUME NEW p \in Slot, scheduler(p) PROVE EmbryoOwned'
  BY <1>1 DEF scheduler
<1>2. ASSUME NEW p \in Slot, yield(p) PROVE EmbryoOwned'
  BY <1>2 DEF yield
<1>3. ASSUME NEW p \in Slot, trap_killed(p) PROVE EmbryoOwned'
  BY <1>3 DEF trap_killed
<1>4. ASSUME NEW p \in Slot, trap_return(p) PROVE EmbryoOwned'
  BY <1>4 DEF trap_return
<1>5. ASSUME NEW p \in Slot, trap_fault(p) PROVE EmbryoOwned'
  BY <1>5 DEF trap_fault, Syscall
<1>6. ASSUME NEW p \in Slot, allocproc_full(p) PROVE EmbryoOwned'
  BY <1>6 DEF allocproc_full, Syscall
<1>7. ASSUME NEW p \in Slot, fork_fail(p) PROVE EmbryoOwned'
  BY <1>7 DEF fork_fail
<1>8. ASSUME NEW p \in Slot, fork_copy(p) PROVE EmbryoOwned'
  BY <1>8 DEF fork_copy
<1>9. ASSUME NEW p \in Slot, fork_ready(p) PROVE EmbryoOwned'
  BY <1>9 DEF fork_ready
<1>10. ASSUME NEW p \in Slot, sys_exit(p) PROVE EmbryoOwned'
  BY <1>10 DEF sys_exit, Syscall
<1>11. ASSUME NEW p \in Slot, exit_init(p) PROVE EmbryoOwned'
  BY <1>11 DEF exit_init
<1>12. ASSUME NEW p \in Slot, exit(p) PROVE EmbryoOwned'
  BY <1>12 DEF exit, Woken
<1>13. ASSUME NEW p \in Slot, sys_wait(p) PROVE EmbryoOwned'
  BY <1>13 DEF sys_wait, Syscall
<1>14. ASSUME NEW p \in Slot, wait_none(p) PROVE EmbryoOwned'
  BY <1>14 DEF wait_none
<1>15. ASSUME NEW p \in Slot, wait_sleep(p) PROVE EmbryoOwned'
  BY <1>15 DEF wait_sleep
<1>16. ASSUME NEW p \in Slot, sys_block(p) PROVE EmbryoOwned'
  BY <1>16 DEF sys_block, Syscall
<1>17. ASSUME NEW p \in Slot, block_return(p) PROVE EmbryoOwned'
  BY <1>17 DEF block_return
<1>18. ASSUME NEW p \in Slot, block_test(p) PROVE EmbryoOwned'
  BY <1>18 DEF block_test
<1>19. ASSUME NEW p \in Slot, sleep(p) PROVE EmbryoOwned'
  BY <1>19 DEF sleep
<1>20. ASSUME NEW p \in Slot, NEW q \in Slot, allocproc(p, q) PROVE EmbryoOwned'
  BY <1>20 DEF allocproc, Syscall
<1>21. ASSUME NEW p \in Slot, NEW q \in Slot, wait_reap(p, q) PROVE EmbryoOwned'
  BY <1>21 DEF wait_reap
<1>22. ASSUME NEW p \in Slot, NEW q \in Slot, kill(p, q) PROVE EmbryoOwned'
  BY <1>22 DEF kill, Syscall
<1>23. ASSUME wakeup PROVE EmbryoOwned'
  BY <1>23 DEF wakeup, Woken
<1>24. CASE UNCHANGED vars
  BY <1>24 DEF vars
<1>25. QED
    BY <1>1, <1>2, <1>3, <1>4, <1>5, <1>6, <1>7, <1>8, <1>9, <1>10, <1>11, Zenon,
     <1>12, <1>13, <1>14, <1>15, <1>16, <1>17, <1>18, <1>19, <1>20, <1>21,
     <1>22, <1>23, <1>24 DEF Next

\* Every step leaves each process a live parent.
LEMMA ParentStep == IInv /\ [Next]_vars => HasLiveParent'
<1> SUFFICES ASSUME IInv, [Next]_vars PROVE HasLiveParent'
  OBVIOUS
<1> USE ProcAssumption DEF IInv, Runs, Goto, TypeOK, InFork, procstate,
    EmbryoOwned, HasLiveParent, Alive, Zombies, Children
<1>1. ASSUME NEW p \in Slot, scheduler(p) PROVE HasLiveParent'
  BY <1>1 DEF scheduler
<1>2. ASSUME NEW p \in Slot, yield(p) PROVE HasLiveParent'
  BY <1>2 DEF yield
<1>3. ASSUME NEW p \in Slot, trap_killed(p) PROVE HasLiveParent'
  BY <1>3 DEF trap_killed
<1>4. ASSUME NEW p \in Slot, trap_return(p) PROVE HasLiveParent'
  BY <1>4 DEF trap_return
<1>5. ASSUME NEW p \in Slot, trap_fault(p) PROVE HasLiveParent'
  BY <1>5 DEF trap_fault, Syscall
<1>6. ASSUME NEW p \in Slot, allocproc_full(p) PROVE HasLiveParent'
  BY <1>6 DEF allocproc_full, Syscall
<1>7. ASSUME NEW p \in Slot, fork_fail(p) PROVE HasLiveParent'
  BY <1>7 DEF fork_fail
<1>8. ASSUME NEW p \in Slot, fork_copy(p) PROVE HasLiveParent'
  BY <1>8 DEF fork_copy
<1>9. ASSUME NEW p \in Slot, fork_ready(p) PROVE HasLiveParent'
  BY <1>9 DEF fork_ready
<1>10. ASSUME NEW p \in Slot, sys_exit(p) PROVE HasLiveParent'
  BY <1>10 DEF sys_exit, Syscall
<1>11. ASSUME NEW p \in Slot, exit_init(p) PROVE HasLiveParent'
  BY <1>11 DEF exit_init
<1>12. ASSUME NEW p \in Slot, exit(p) PROVE HasLiveParent'
  BY <1>12 DEF exit, Woken
<1>13. ASSUME NEW p \in Slot, sys_wait(p) PROVE HasLiveParent'
  BY <1>13 DEF sys_wait, Syscall
<1>14. ASSUME NEW p \in Slot, wait_none(p) PROVE HasLiveParent'
  BY <1>14 DEF wait_none
<1>15. ASSUME NEW p \in Slot, wait_sleep(p) PROVE HasLiveParent'
  BY <1>15 DEF wait_sleep
<1>16. ASSUME NEW p \in Slot, sys_block(p) PROVE HasLiveParent'
  BY <1>16 DEF sys_block, Syscall
<1>17. ASSUME NEW p \in Slot, block_return(p) PROVE HasLiveParent'
  BY <1>17 DEF block_return
<1>18. ASSUME NEW p \in Slot, block_test(p) PROVE HasLiveParent'
  BY <1>18 DEF block_test
<1>19. ASSUME NEW p \in Slot, sleep(p) PROVE HasLiveParent'
  BY <1>19 DEF sleep
<1>20. ASSUME NEW p \in Slot, NEW q \in Slot, allocproc(p, q) PROVE HasLiveParent'
  BY <1>20 DEF allocproc, Syscall
<1>21. ASSUME NEW p \in Slot, NEW q \in Slot, wait_reap(p, q) PROVE HasLiveParent'
  BY <1>21 DEF wait_reap
<1>22. ASSUME NEW p \in Slot, NEW q \in Slot, kill(p, q) PROVE HasLiveParent'
  BY <1>22 DEF kill, Syscall
<1>23. ASSUME wakeup PROVE HasLiveParent'
  BY <1>23 DEF wakeup, Woken
<1>24. CASE UNCHANGED vars
  BY <1>24 DEF vars
<1>25. QED
    BY <1>1, <1>2, <1>3, <1>4, <1>5, <1>6, <1>7, <1>8, <1>9, <1>10, <1>11, Zenon,
     <1>12, <1>13, <1>14, <1>15, <1>16, <1>17, <1>18, <1>19, <1>20, <1>21,
     <1>22, <1>23, <1>24 DEF Next

\* Every step keeps the sleepers of wait justified.
LEMMA WaitStep == IInv /\ [Next]_vars => WaitSleeperJustified'
<1> SUFFICES ASSUME IInv, [Next]_vars PROVE WaitSleeperJustified'
  OBVIOUS
<1> USE ProcAssumption DEF IInv, Runs, Goto, TypeOK, InFork, procstate,
    EmbryoOwned, HasLiveParent, Alive, WaitSleeperJustified, Zombies, Children
<1>1. ASSUME NEW p \in Slot, scheduler(p) PROVE WaitSleeperJustified'
  BY <1>1 DEF scheduler
<1>2. ASSUME NEW p \in Slot, yield(p) PROVE WaitSleeperJustified'
  BY <1>2 DEF yield
<1>3. ASSUME NEW p \in Slot, trap_killed(p) PROVE WaitSleeperJustified'
  BY <1>3 DEF trap_killed
<1>4. ASSUME NEW p \in Slot, trap_return(p) PROVE WaitSleeperJustified'
  BY <1>4 DEF trap_return
<1>5. ASSUME NEW p \in Slot, trap_fault(p) PROVE WaitSleeperJustified'
  BY <1>5 DEF trap_fault, Syscall
<1>6. ASSUME NEW p \in Slot, allocproc_full(p) PROVE WaitSleeperJustified'
  BY <1>6 DEF allocproc_full, Syscall
<1>7. ASSUME NEW p \in Slot, fork_fail(p) PROVE WaitSleeperJustified'
  BY <1>7 DEF fork_fail
<1>8. ASSUME NEW p \in Slot, fork_copy(p) PROVE WaitSleeperJustified'
  BY <1>8 DEF fork_copy
<1>9. ASSUME NEW p \in Slot, fork_ready(p) PROVE WaitSleeperJustified'
  BY <1>9 DEF fork_ready
<1>10. ASSUME NEW p \in Slot, sys_exit(p) PROVE WaitSleeperJustified'
  BY <1>10 DEF sys_exit, Syscall
<1>11. ASSUME NEW p \in Slot, exit_init(p) PROVE WaitSleeperJustified'
  BY <1>11 DEF exit_init
<1>12. ASSUME NEW p \in Slot, exit(p) PROVE WaitSleeperJustified'
  BY <1>12 DEF exit, Woken
<1>13. ASSUME NEW p \in Slot, sys_wait(p) PROVE WaitSleeperJustified'
  BY <1>13 DEF sys_wait, Syscall
<1>14. ASSUME NEW p \in Slot, wait_none(p) PROVE WaitSleeperJustified'
  BY <1>14 DEF wait_none
<1>15. ASSUME NEW p \in Slot, wait_sleep(p) PROVE WaitSleeperJustified'
  BY <1>15 DEF wait_sleep
<1>16. ASSUME NEW p \in Slot, sys_block(p) PROVE WaitSleeperJustified'
  BY <1>16 DEF sys_block, Syscall
<1>17. ASSUME NEW p \in Slot, block_return(p) PROVE WaitSleeperJustified'
  BY <1>17 DEF block_return
<1>18. ASSUME NEW p \in Slot, block_test(p) PROVE WaitSleeperJustified'
  BY <1>18 DEF block_test
<1>19. ASSUME NEW p \in Slot, sleep(p) PROVE WaitSleeperJustified'
  BY <1>19 DEF sleep
<1>20. ASSUME NEW p \in Slot, NEW q \in Slot, allocproc(p, q) PROVE WaitSleeperJustified'
  BY <1>20 DEF allocproc, Syscall
<1>21. ASSUME NEW p \in Slot, NEW q \in Slot, wait_reap(p, q) PROVE WaitSleeperJustified'
  BY <1>21 DEF wait_reap
<1>22. ASSUME NEW p \in Slot, NEW q \in Slot, kill(p, q) PROVE WaitSleeperJustified'
  BY <1>22 DEF kill, Syscall
<1>23. ASSUME wakeup PROVE WaitSleeperJustified'
  BY <1>23 DEF wakeup, Woken
<1>24. CASE UNCHANGED vars
  BY <1>24 DEF vars
<1>25. QED
    BY <1>1, <1>2, <1>3, <1>4, <1>5, <1>6, <1>7, <1>8, <1>9, <1>10, <1>11, Zenon,
     <1>12, <1>13, <1>14, <1>15, <1>16, <1>17, <1>18, <1>19, <1>20, <1>21,
     <1>22, <1>23, <1>24 DEF Next

\* Types, ownership, parents and sleepers hold in every reachable state.
LEMMA Invariant == Spec => []IInv
<1>1. IInv /\ [Next]_vars => IInv'
  BY TypeStep, EmbryoStep, ParentStep, WaitStep DEF IInv
<1>2. QED
  BY <1>1, InitInv, PTL DEF Spec

\* The fields of the process table keep their types.
THEOREM TypeCorrect == Spec => []TypeOK
<1>1. IInv => TypeOK
  BY DEF IInv
<1>2. QED
  BY <1>1, Invariant, PTL

\* exit() never leaves a process, or a zombie, without a parent that can wait for
\* it (proc.c:204-210), for any number of slots and processors.
THEOREM NoAbandonedProcess == Spec => []HasLiveParent
<1>1. IInv => HasLiveParent
  BY DEF IInv
<1>2. QED
  BY <1>1, Invariant, PTL

\* wait() misses no exit, no reparented zombie and no kill (proc.c:226-258).
THEOREM WaitMissesNothing == Spec => []WaitSleeperJustified
<1>1. IInv => WaitSleeperJustified
  BY DEF IInv
<1>2. QED
  BY <1>1, Invariant, PTL

\* allocproc has handed out every pid in the table, and hands out a larger one next.
PidInv ==
  /\ PidsDistinct /\ nextpid > 0
  /\ \A p \in Slot : pid[p] < nextpid /\ (state[p] # "UNUSED" => pid[p] > 0)

\* Every step keeps the pids in the table apart and below nextpid.
LEMMA PidStep == IInv /\ PidInv /\ [Next]_vars => PidInv'
<1> SUFFICES ASSUME IInv, PidInv, [Next]_vars PROVE PidInv'
  OBVIOUS
<1> USE ProcAssumption DEF IInv, PidInv, PidsDistinct, TypeOK, Runs, procstate
<1>1. CASE UNCHANGED <<state, pid, nextpid>>
  BY <1>1
<1>2. ASSUME NEW p \in Slot, scheduler(p) PROVE PidInv'
  BY <1>2 DEF scheduler
<1>3. ASSUME NEW p \in Slot, yield(p) PROVE PidInv'
  BY <1>3 DEF yield
<1>4. ASSUME NEW p \in Slot, fork_fail(p) PROVE PidInv'
  BY <1>4 DEF fork_fail, EmbryoOwned, InFork
<1>5. ASSUME NEW p \in Slot, fork_ready(p) PROVE PidInv'
  BY <1>5 DEF fork_ready, EmbryoOwned, InFork
<1>6. ASSUME NEW p \in Slot, exit(p) PROVE PidInv'
  BY <1>6 DEF exit, Woken
<1>7. ASSUME NEW p \in Slot, wait_sleep(p) PROVE PidInv'
  BY <1>7 DEF wait_sleep
<1>8. ASSUME NEW p \in Slot, sleep(p) PROVE PidInv'
  BY <1>8 DEF sleep
<1>9. ASSUME NEW p \in Slot, NEW q \in Slot, allocproc(p, q) PROVE PidInv'
  BY <1>9 DEF allocproc
<1>10. ASSUME NEW p \in Slot, NEW q \in Slot, wait_reap(p, q) PROVE PidInv'
  BY <1>10 DEF wait_reap, Zombies, Children
<1>11. ASSUME NEW p \in Slot, NEW q \in Slot, kill(p, q) PROVE PidInv'
  BY <1>11 DEF kill
<1>12. ASSUME wakeup PROVE PidInv'
  BY <1>12 DEF wakeup, Woken
<1>13. QED
  <2>1. ASSUME NEW p \in Slot,
               \/ trap_killed(p) \/ trap_return(p) \/ trap_fault(p)
               \/ allocproc_full(p) \/ fork_copy(p) \/ sys_exit(p)
               \/ exit_init(p) \/ sys_wait(p) \/ wait_none(p)
               \/ sys_block(p) \/ block_return(p) \/ block_test(p)
        PROVE  PidInv'
    BY <2>1, <1>1 DEF trap_killed, trap_return, trap_fault, allocproc_full, fork_copy,
       sys_exit, exit_init, sys_wait, wait_none, sys_block, block_return, block_test
  <2>2. CASE UNCHANGED vars
    BY <2>2, <1>1 DEF vars
  <2>3. QED
    BY <1>2, <1>3, <1>4, <1>5, <1>6, <1>7, <1>8, <1>9, <1>10, <1>11, <1>12, Zenon,
       <2>1, <2>2 DEF Next

\* No two processes share a pid (proc.c:49), for any number of slots and
\* processors, as long as nextpid does not wrap.
THEOREM PidsNeverShared == Spec => []PidsDistinct
<1>1. Init => PidInv
  BY ProcAssumption DEF Init, PidInv, PidsDistinct
<1>2. IInv /\ IInv' /\ PidInv /\ [Next]_vars => PidInv'
  BY PidStep
<1>3. PidInv => PidsDistinct
  BY DEF PidInv
<1>4. QED
  BY <1>1, <1>2, <1>3, Invariant, PTL DEF Spec

\* A slot that fork fills has one owner until it is runnable or given back
\* (proc.c:131-168).
THEOREM EmbryosOwned == Spec => []EmbryoOwned
<1>1. IInv => EmbryoOwned
  BY DEF IInv
<1>2. QED
  BY <1>1, Invariant, PTL
=============================================================================
