----------------------------- MODULE LogProofs -----------------------------
(***************************************************************************)
(* Proofs about Log for every set of processes and blocks and every size   *)
(* of the log.                                                             *)
(***************************************************************************)
EXTENDS Log, FiniteSetTheorems, TLAPS

\* The control state: its types, the count of operations, who commits, and
\* that an idle log is empty.
CtlType ==
  /\ n \in Nat /\ dn \in Nat
  /\ outstanding \in Int
  /\ pc \in [Proc -> PC]
  /\ idx \in [Proc -> Nat]

CtlInv ==
  /\ CtlType
  /\ CommitQuiescent
  /\ Up \/ (Active = {} /\ \A p \in Proc : pc[p] \in InRecovery)
  /\ Up /\ ~committing /\ Active = {} => n = 0
  /\ \A p \in Proc : pc[p] = "end_commit" => n = 0
  /\ (\E p \in Proc : pc[p] = "sleep") => committing \/ Active # {}

USE DEF InLogWrite, InOp, InCommit, InRecovery, diskVars, bufVars, logVars, procVars

\* Adding or removing one process changes the count of active operations by one.
LEMMA ActiveCount ==
  /\ IsFiniteSet(Active)
  /\ Cardinality(Active) \in Nat
  /\ Cardinality(Active) = 0 <=> Active = {}
  /\ \A p \in Proc \ Active : Cardinality(Active \cup {p}) = Cardinality(Active) + 1
  /\ \A p \in Active : Cardinality(Active \ {p}) = Cardinality(Active) - 1
<1>1. IsFiniteSet(Active)
  BY LogAssumption, FS_Subset DEF Active
<1>2. QED
  BY <1>1, FS_CardinalityType, FS_EmptySet, FS_AddElement, FS_RemoveElement, Zenon

\* The control invariant holds when the machine is first switched on.
LEMMA CtlInit == Init => CtlInv
<1> SUFFICES ASSUME Init PROVE CtlInv
  OBVIOUS
<1>1. PICK p \in Proc : pc = Boot(p)
  BY DEF Init
<1>2. CtlType
  <2>1. pc \in [Proc -> PC]
    BY <1>1 DEF Boot, PC
  <2>2. n \in Nat /\ dn \in Nat /\ outstanding \in Int /\ idx \in [Proc -> Nat]
    BY DEF Init
  <2>3. QED
    BY <2>1, <2>2 DEF CtlType
<1>3. \A q \in Proc : pc[q] \in {"read_head", "off"}
  BY <1>1 DEF Boot
<1>4. Active = {} /\ ~Up
  BY <1>3, LogAssumption DEF Active, Up
<1>5. CommitQuiescent
  BY <1>3, <1>4, FS_EmptySet DEF CommitQuiescent, Init
<1>6. QED
  BY <1>2, <1>3, <1>4, <1>5 DEF CtlInv

\* Steps inside one operation, one commit or the recovery move a process
\* within its group of control points, and touch neither count nor flag.
LEMMA CtlInner ==
  ASSUME CtlInv, NEW p \in Proc,
         NEW l \in PC, pc' = [pc EXCEPT ![p] = l],
         \/ pc[p] \in InOp /\ l \in InOp
         \/ pc[p] \in InCommit /\ l \in InCommit
         \/ pc[p] \in InRecovery /\ l \in InRecovery,
         UNCHANGED <<outstanding, committing>>,
         n' \in Nat, dn' \in Nat, idx' \in [Proc -> Nat],
         n' = n \/ n' = 0 \/ pc[p] \notin InCommit,
         l = "end_commit" => n' = 0
  PROVE  CtlInv'
<1> USE DEF CtlInv, CtlType
<1>1. CtlType'
  BY Zenon
<1>2. Active' = Active
  BY DEF Active
<1>3. /\ \A q \in Proc : pc'[q] \in InCommit <=> pc[q] \in InCommit
      /\ \A q \in Proc : pc'[q] \in InRecovery <=> pc[q] \in InRecovery
      /\ \A q \in Proc : pc'[q] = "sleep" => pc[q] = "sleep"
      /\ \A q \in Proc : pc'[q] = "end_commit" => pc[q] = "end_commit" \/ q = p
  OBVIOUS
<1>4. CommitQuiescent'
  BY <1>2, <1>3 DEF CommitQuiescent
<1>5. Up' = Up
  BY <1>3 DEF Up
<1>6. Up' /\ ~committing' /\ Active' = {} => n' = 0
  BY <1>2, <1>3, <1>5 DEF CommitQuiescent, Active, Up
<1>7. ASSUME NEW q \in Proc, pc'[q] = "end_commit" PROVE n' = 0
  BY <1>2, <1>3, <1>7 DEF CommitQuiescent, Active, Up
<1>8. QED
  BY <1>1, <1>2, <1>3, <1>4, <1>5, <1>6, <1>7


\* Every step preserves the control invariant.
LEMMA CtlNext == CtlInv /\ [Next]_vars => CtlInv'
<1> SUFFICES ASSUME CtlInv, [Next]_vars PROVE CtlInv'
  OBVIOUS
<1> USE DEF CtlInv, CtlType
<1>1. ASSUME NEW p \in Proc, begin_op(p) PROVE CtlInv'
  <2>1. CASE Goto(p, "sleep") /\ (committing \/ NoRoom) /\ UNCHANGED outstanding
    <3>1. CtlType' /\ Active' = Active /\ Up /\ Up'
      BY <1>1, <2>1 DEF begin_op, Goto, Active, Up, PC
    <3>2. CommitQuiescent'
      BY <1>1, <2>1, <3>1 DEF begin_op, Goto, CommitQuiescent
    <3>3. committing \/ Active # {}
      BY <2>1, <3>1, LogAssumption, ActiveCount DEF NoRoom, CommitQuiescent
    <3>4. QED
      BY <1>1, <2>1, <3>1, <3>2, <3>3 DEF begin_op, Goto
  <2>2. CASE Goto(p, "op") /\ ~committing /\ outstanding' = outstanding + 1
    <3>1. CtlType' /\ Active' = Active \cup {p} /\ p \notin Active /\ Up /\ Up'
      BY <1>1, <2>2 DEF begin_op, Goto, Active, Up, PC
    <3>2. outstanding' = Cardinality(Active')
      BY <2>2, <3>1, ActiveCount DEF CommitQuiescent
    <3>3. CommitQuiescent'
      BY <1>1, <2>2, <3>1, <3>2 DEF begin_op, Goto, CommitQuiescent
    <3>4. QED
      BY <1>1, <2>2, <3>1, <3>3 DEF begin_op, Goto
  <2>3. QED
    BY <1>1, <2>1, <2>2 DEF begin_op
<1>2. ASSUME NEW p \in Proc, end_op(p) PROVE CtlInv'
  <2>1. p \in Active /\ ~committing /\ Up /\ Active \ {p} \subseteq Active
    BY <1>2 DEF end_op, Active, CommitQuiescent, Up
  <2>2. CASE outstanding' = 0
    <3>1. committing' /\ UNCHANGED <<n, dn, idx>>
      BY <1>2, <2>1, <2>2 DEF end_op
    <3>2. PICK l \in {"write_log", "end_commit"} :
            pc' = [pc EXCEPT ![p] = l] /\ (l = "end_commit" => ~(n > 0))
      BY <1>2, <2>1, <2>2 DEF end_op, Goto
    <3>3. CtlType' /\ Up' /\ Active' = {}
      <4>1. Active = {p}
        <5>1. Cardinality(Active \ {p}) = 0
          BY <1>2, <2>1, <2>2, ActiveCount DEF end_op, CommitQuiescent
        <5>2. Active \ {p} = {}
          BY <5>1, ActiveCount, FS_RemoveElement, FS_EmptySet, Zenon
        <5>3. QED
          BY <2>1, <5>2
      <4>2. CtlType'
        BY <2>2, <3>1, <3>2 DEF PC
      <4>3. Active' = {}
        BY <3>2, <4>1 DEF Active
      <4>4. QED
        BY <2>1, <3>2, <4>2, <4>3 DEF Up
    <3>4. \A q \in Proc : pc[q] \notin InCommit
      BY <2>1 DEF CommitQuiescent
    <3>5. CommitQuiescent'
      BY <2>2, <3>1, <3>2, <3>3, <3>4, FS_EmptySet DEF CommitQuiescent
    <3>6. QED
      BY <3>1, <3>2, <3>3, <3>4, <3>5
  <2>3. CASE outstanding' # 0
    <3>1. WakeAndGoto(p, "idle") /\ ~committing' /\ UNCHANGED <<n, dn, idx>>
      BY <1>2, <2>1, <2>3 DEF end_op
    <3>2. CtlType'
      BY <1>2, <3>1 DEF WakeAndGoto, PC, end_op
    <3>3. Active' = Active \ {p} /\ Up'
      BY <2>1, <3>1 DEF WakeAndGoto, Active, Up
    <3>4. outstanding' = Cardinality(Active')
      BY <1>2, <2>1, <3>3, ActiveCount DEF CommitQuiescent, end_op
    <3>5. Active' # {}
      BY <2>3, <3>4, FS_EmptySet
    <3>6. CommitQuiescent'
      BY <2>1, <3>1, <3>4 DEF CommitQuiescent, WakeAndGoto
    <3>7. QED
      BY <3>1, <3>2, <3>3, <3>5, <3>6 DEF WakeAndGoto
  <2>4. QED
    BY <2>2, <2>3
<1>3. ASSUME NEW p \in Proc, end_commit(p) PROVE CtlInv'
  <2>1. committing /\ Active = {} /\ Up /\ n = 0
    BY <1>3 DEF end_commit, CommitQuiescent, Up
  <2>2. WakeAndGoto(p, "idle") /\ ~committing' /\ UNCHANGED <<n, dn, idx, outstanding>>
    BY <1>3 DEF end_commit
  <2>3. CtlType'
    BY <1>3, <2>2 DEF WakeAndGoto, PC, end_commit
  <2>4. Active' = {} /\ Up' /\ \A q \in Proc : pc'[q] \notin InCommit /\ pc'[q] # "sleep"
    BY <1>3, <2>1, <2>2 DEF WakeAndGoto, Active, Up, end_commit, CommitQuiescent
  <2>5. CommitQuiescent'
    BY <2>1, <2>2, <2>4 DEF CommitQuiescent
  <2>6. QED
    BY <2>1, <2>2, <2>3, <2>4, <2>5
<1>4. ASSUME NEW p \in Proc, NEW b \in Block, NEW v \in Val, Modify(p, b, v) PROVE CtlInv'
  BY <1>4, CtlInner, Zenon DEF Modify, Goto, PC
<1>5. ASSUME NEW p \in Proc, log_write_scan(p) PROVE CtlInv'
  <2>1. idx' \in [Proc -> Nat]
    BY <1>5 DEF log_write_scan
  <2>2. QED
    BY <1>5, <2>1, CtlInner, Zenon DEF log_write_scan, Goto, PC
<1>6. ASSUME NEW p \in Proc, log_write_put(p) PROVE CtlInv'
  BY <1>6, CtlInner, Zenon DEF log_write_put, Goto, PC
<1>7. ASSUME NEW p \in Proc, log_write_cmp(p) PROVE CtlInv'
  BY <1>7, CtlInner DEF log_write_cmp, PinAndRelease, Goto, PC
<1>8. ASSUME NEW p \in Proc, log_write_inc(p) PROVE CtlInv'
  <2>1. n' \in Nat /\ idx' \in [Proc -> Nat]
    BY <1>8 DEF log_write_inc, PinAndRelease
  <2>2. QED
    BY <1>8, <2>1, CtlInner, Zenon DEF log_write_inc, PinAndRelease, Goto, PC
<1>9. ASSUME NEW p \in Proc, write_log(p) PROVE CtlInv'
  <2>1. pc' = [pc EXCEPT ![p] = "write_log"]
    BY <1>9, Zenon DEF write_log
  <2>2. idx' \in [Proc -> Nat]
    BY <1>9 DEF write_log
  <2>3. QED
    BY <1>9, <2>1, <2>2, CtlInner, Zenon DEF write_log, PC
<1>10. ASSUME NEW p \in Proc, write_head(p) PROVE CtlInv'
  BY <1>10, CtlInner, Zenon DEF write_head, Goto, PC
<1>11. ASSUME NEW p \in Proc, install_trans(p) PROVE CtlInv'
  <2>1. pc' = [pc EXCEPT ![p] = pc[p]] /\ pc[p] \in PC
    BY <1>11 DEF install_trans
  <2>2. idx' \in [Proc -> Nat]
    BY <1>11 DEF install_trans
  <2>3. QED
    BY <1>11, <2>1, <2>2, CtlInner, Zenon DEF install_trans
<1>12. ASSUME NEW p \in Proc, commit_erase(p) PROVE CtlInv'
  BY <1>12, CtlInner, Zenon DEF commit_erase, EraseLog, Goto, PC
<1>13. ASSUME NEW p \in Proc, read_head(p) PROVE CtlInv'
  BY <1>13, CtlInner, Zenon DEF read_head, Goto, PC
<1>14. ASSUME NEW p \in Proc, recover_erase(p) PROVE CtlInv'
  <2>1. Active = {} /\ ~Up
    BY <1>14 DEF recover_erase, Up
  <2>2. CtlType' /\ Active' = {} /\ n' = 0 /\ \A q \in Proc : pc'[q] = "idle"
    BY <1>14 DEF recover_erase, EraseLog, Active, PC
  <2>3. CommitQuiescent'
    BY <1>14, <2>1, <2>2 DEF recover_erase, EraseLog, CommitQuiescent
  <2>4. QED
    BY <2>2, <2>3 DEF Up
<1>15. ASSUME NEW p \in Proc, Crash(p) PROVE CtlInv'
  <2>1. CtlType' /\ \A q \in Proc : pc'[q] \in {"read_head", "off"}
    BY <1>15 DEF Crash, Boot, PC
  <2>2. Active' = {} /\ ~Up'
    BY <2>1 DEF Active, Up
  <2>3. CommitQuiescent'
    BY <1>15, <2>1, <2>2, FS_EmptySet, Zenon DEF Crash, CommitQuiescent
  <2>4. QED
    BY <2>1, <2>2, <2>3
<1>16. ASSUME NEW b \in Block, Evict(b) PROVE CtlInv'
  BY <1>16, Zenon DEF Evict, Active, Up, CommitQuiescent
<1>17. CASE UNCHANGED vars
  BY <1>17, Zenon DEF vars, Active, Up, CommitQuiescent
<1>18. QED
  BY <1>1, <1>2, <1>3, <1>4, <1>5, <1>6, <1>7, <1>8, <1>9, <1>10, <1>11, <1>12, Zenon,
     <1>13, <1>14, <1>15, <1>16, <1>17 DEF Next, log_write, commit, recover

\* The invariant of the control holds in every reachable state.
LEMMA CtlAlways == Spec => []CtlInv
  BY CtlInit, CtlNext, PTL DEF Spec

\* log.c:11-14: commits and operations never overlap, whatever the number of
\* processes, the sizes of the log and the races in log_write.
THEOREM CommitOnlyWhenQuiescent == Spec => []CommitQuiescent
<1>1. CtlInv => CommitQuiescent
  BY DEF CtlInv
<1>2. QED
  BY <1>1, CtlAlways, PTL

\* No process is left asleep in begin_op with nobody to wake it (log.c:130,133
\* against the wakeups of log.c:158,168).
THEOREM NoSleeperForgotten == Spec => []SleeperHasWaker
<1>1. CtlInv => SleeperHasWaker
  BY ActiveCount DEF CtlInv, SleeperHasWaker, CommitQuiescent
<1>2. QED
  BY <1>1, CtlAlways, PTL

-----------------------------------------------------------------------------
(* The cache and the disk.  A buffer may be recycled at any moment, so the block
   it holds must be safe on the disk unless the buffer is pinned or held. *)

Holding == InLogWrite \cup {"panic"}

PinInv ==
  /\ cache = [b \in Block |-> cache[b]] /\ disk = [b \in Block |-> disk[b]]
  /\ blk \in [Proc -> Block]
  /\ ModifiedIsPinned
  /\ ~Up => cache = disk

\* The blocks that some process holds.
LEMMA HeldIs == \A b : b \in Held <=> \E p \in Proc : pc[p] \in Holding /\ blk[p] = b
BY Zenon DEF Held, Holding

\* Nothing is modified at the start.
LEMMA PinInit == Init => PinInv
<1> SUFFICES ASSUME Init PROVE PinInv  OBVIOUS
<1>1. cache = disk /\ disk \in [Block -> Val]  BY DEF Init
<1>2. blk \in [Proc -> Block]  BY LogAssumption DEF Init
<1> QED  BY <1>1, <1>2 DEF PinInv, ModifiedIsPinned

\* Recycling a buffer that nobody holds or pins changes what nobody can see.
LEMMA EvictHarmless ==
  ASSUME PinInv, NEW b \in Block, Evict(b)
  PROVE  UNCHANGED vars
<1>1. cache[b] = disk[b]  BY DEF PinInv, ModifiedIsPinned, Evict
<1>2. cache' = cache  BY <1>1 DEF PinInv, Evict
<1> QED  BY <1>2 DEF Evict, vars

\* Steps that keep the blocks and release none.
LEMMA PinKept ==
  ASSUME PinInv, UNCHANGED <<cache, disk>>, blk' \in [Proc -> Block],
         dirty \subseteq dirty', Held \subseteq Held' \cup dirty', Up' <=> Up
  PROVE  PinInv'
BY DEF PinInv, ModifiedIsPinned

\* Every step keeps the only up-to-date copy of a block pinned.
LEMMA PinNext == CtlInv /\ PinInv /\ [Next]_vars => PinInv'
<1> SUFFICES ASSUME CtlInv, PinInv, [Next]_vars PROVE PinInv'  OBVIOUS
<1>0. pc \in [Proc -> PC] /\ blk \in [Proc -> Block]  BY DEF CtlInv, CtlType, PinInv
<1>a. /\ \A b : b \in Held <=> \E p \in Proc : pc[p] \in Holding /\ blk[p] = b
      /\ \A b : b \in Held' <=> \E p \in Proc : pc'[p] \in Holding /\ blk'[p] = b
  BY HeldIs, Zenon DEF Held, Holding
<1>1. ASSUME NEW p \in Proc, begin_op(p) PROVE PinInv'
  <2>1. PICK l \in {"sleep", "op"} : pc' = [pc EXCEPT ![p] = l] /\ pc[p] \in {"idle", "begin"}
    BY <1>1 DEF begin_op, Goto
  <2>2. UNCHANGED <<cache, disk, blk, dirty>>  BY <1>1 DEF begin_op
  <2>3. Held \subseteq Held' /\ (Up' <=> Up)  BY <1>0, <1>a, <2>1, <2>2 DEF Up, Holding
  <2> QED  BY <1>0, <2>2, <2>3, PinKept
<1>2. ASSUME NEW p \in Proc, NEW b \in Block, NEW v \in Val, Modify(p, b, v) PROVE PinInv'
  <2>1. /\ pc[p] = "op" /\ pc' = [pc EXCEPT ![p] = "log_write"]
        /\ blk' = [blk EXCEPT ![p] = b] /\ cache' = [cache EXCEPT ![b] = v]
        /\ UNCHANGED <<disk, dirty>>
    BY <1>2 DEF Modify, Goto
  <2>2. Held \subseteq Held' /\ b \in Held'
    BY <1>0, <1>a, <2>1 DEF Holding
  <2>3. Up /\ Up'
    <3>1. Up  BY <2>1 DEF CtlInv, Up
    <3> QED  BY <1>0, <2>1, <3>1 DEF Up
  <2>4. blk' \in [Proc -> Block]  BY <1>0, <2>1
  <2>5. cache' = [c \in Block |-> cache'[c]] /\ \A c \in Block : c # b => cache'[c] = cache[c]
    BY <2>1 DEF PinInv
  <2> QED  BY <2>1, <2>2, <2>3, <2>4, <2>5 DEF PinInv, ModifiedIsPinned
<1>3. ASSUME NEW p \in Proc, log_write_scan(p) \/ log_write_put(p) PROVE PinInv'
  <2>1. PICK l \in {"put", "cmp", "panic"} :
           /\ pc' = [pc EXCEPT ![p] = l] /\ pc[p] \in {"log_write", "put"}
    BY <1>3 DEF log_write_scan, log_write_put, Goto
  <2>2. UNCHANGED <<cache, disk, blk, dirty>>  BY <1>3 DEF log_write_scan, log_write_put
  <2>3. Up' <=> Up  BY <1>0, <2>1 DEF Up
  <2>4. Held \subseteq Held'  BY <1>0, <1>a, <2>1, <2>2 DEF Holding
  <2> QED  BY <1>0, <2>2, <2>3, <2>4, PinKept
<1>4. ASSUME NEW p \in Proc, log_write_cmp(p) \/ log_write_inc(p) PROVE PinInv'
  <2>1. CASE pc[p] = "cmp" /\ idx[p] = n /\ pc' = [pc EXCEPT ![p] = "inc"] /\ UNCHANGED <<dirty, blk>>
    <3>1. UNCHANGED <<cache, disk>>  BY <1>4, <2>1 DEF log_write_cmp, log_write_inc
    <3>2. Held \subseteq Held' /\ (Up' <=> Up)  BY <1>0, <1>a, <2>1 DEF Up, Holding
    <3> QED  BY <1>0, <2>1, <3>1, <3>2, PinKept
  <2>2. CASE pc[p] \in {"cmp", "inc"} /\ PinAndRelease(p)
    <3>1. UNCHANGED <<cache, disk>>  BY <1>4, <2>2 DEF log_write_cmp, log_write_inc
    <3>2. /\ pc' = [pc EXCEPT ![p] = "op"] /\ blk' = [blk EXCEPT ![p] = Block0]
          /\ dirty' = dirty \cup {blk[p]}
      BY <2>2 DEF PinAndRelease, Goto
    <3>3. Up' <=> Up  BY <1>0, <2>2, <3>2 DEF Up
    <3>4. ASSUME NEW b \in Held PROVE b \in Held' \cup dirty'
      <4>1. PICK q \in Proc : pc[q] \in Holding /\ blk[q] = b  BY <1>a
      <4>2. CASE q = p  BY <3>2, <4>1, <4>2
      <4>3. CASE q # p
        <5>1. pc'[q] = pc[q] /\ blk'[q] = blk[q]  BY <1>0, <3>2, <4>3
        <5> QED  BY <1>a, <4>1, <5>1
      <4> QED  BY <4>2, <4>3
    <3>5. blk' \in [Proc -> Block]  BY <1>0, <3>2, LogAssumption
    <3>6. dirty \subseteq dirty' /\ Held \subseteq Held' \cup dirty'  BY <3>2, <3>4
    <3> QED  BY <3>1, <3>3, <3>5, <3>6, PinKept
  <2> QED  BY <1>4, <2>1, <2>2 DEF log_write_cmp, log_write_inc, Goto
<1>5. ASSUME NEW p \in Proc, end_op(p) PROVE PinInv'
  <2>1. UNCHANGED <<cache, disk, blk, dirty>> /\ pc[p] = "op"  BY <1>5 DEF end_op
  <2>2. \A q \in Proc : /\ pc[q] \in Holding => pc'[q] \in Holding
                        /\ pc'[q] \in InRecovery <=> pc[q] \in InRecovery
    BY <1>0, <1>5 DEF end_op, Goto, WakeAndGoto, Holding
  <2>3. Held \subseteq Held' /\ (Up' <=> Up)  BY <1>a, <2>1, <2>2 DEF Up
  <2> QED  BY <1>0, <2>1, <2>3, PinKept
<1>6. ASSUME NEW p \in Proc, write_log(p) \/ write_head(p) \/ commit_erase(p) \/ end_commit(p) \/ read_head(p)
      PROVE  PinInv'
  <2>1. UNCHANGED <<cache, disk, blk, dirty>>
    BY <1>6, Zenon DEF write_log, write_head, commit_erase, EraseLog, end_commit, read_head
  <2>2. \A q \in Proc : /\ pc[q] \in Holding => pc'[q] \in Holding
                        /\ pc'[q] \in InRecovery <=> pc[q] \in InRecovery
    BY <1>0, <1>6, Zenon DEF write_log, write_head, commit_erase, end_commit, read_head, Goto, WakeAndGoto, Holding
  <2>3. Held \subseteq Held' /\ (Up' <=> Up)  BY <1>a, <2>1, <2>2 DEF Up
  <2> QED  BY <1>0, <2>1, <2>3, PinKept
<1>7. ASSUME NEW p \in Proc, install_trans(p) PROVE PinInv'
  <2> DEFINE s == sector[idx[p]]
             d == dlog[idx[p]]
  <2>1. /\ cache' = [cache EXCEPT ![s] = d] /\ disk' = [disk EXCEPT ![s] = d]
        /\ dirty' = dirty \ {s} /\ UNCHANGED <<pc, blk>>
    BY <1>7 DEF install_trans
  <2> HIDE DEF s, d
  <2>2. Held' = Held /\ (Up' <=> Up)  BY <2>1 DEF Held, Up
  <2>3. /\ cache' = [b \in Block |-> IF b = s THEN d ELSE cache[b]]
        /\ disk' = [b \in Block |-> IF b = s THEN d ELSE disk[b]]
    BY <2>1, Zenon DEF PinInv
  <2>4. \A b \in Block : b = s => cache'[b] = disk'[b]  BY <2>3
  <2>5. \A b \in Block : b # s => cache'[b] = cache[b] /\ disk'[b] = disk[b]  BY <2>3
  <2>6. ModifiedIsPinned'
    BY <2>1, <2>2, <2>4, <2>5 DEF PinInv, ModifiedIsPinned
  <2>7. ~Up' => cache' = disk'  BY <2>2, <2>3 DEF PinInv
  <2>8. cache' = [b \in Block |-> cache'[b]] /\ disk' = [b \in Block |-> disk'[b]]  BY <2>3
  <2> QED  BY <1>0, <2>1, <2>6, <2>7, <2>8 DEF PinInv
<1>8. ASSUME NEW p \in Proc, recover_erase(p) PROVE PinInv'
  <2>1. ~Up /\ UNCHANGED <<cache, disk, blk, dirty>>  BY <1>8 DEF recover_erase, EraseLog, Up
  <2> QED  BY <2>1 DEF PinInv, ModifiedIsPinned
<1>9. ASSUME NEW p \in Proc, Crash(p) PROVE PinInv'
  <2>1. cache' = disk /\ disk' = disk /\ blk' \in [Proc -> Block]  BY <1>9, LogAssumption DEF Crash
  <2> QED  BY <2>1 DEF PinInv, ModifiedIsPinned
<1>10. ASSUME UNCHANGED vars PROVE PinInv'
  <2>1. UNCHANGED <<cache, disk, blk, dirty, pc>>  BY <1>10 DEF vars
  <2> QED  BY <2>1 DEF PinInv, ModifiedIsPinned, Held, Up
<1>11. ASSUME NEW b \in Block, Evict(b) PROVE PinInv'
  BY <1>10, <1>11, EvictHarmless
<1> QED
  BY <1>1, <1>2, <1>3, <1>4, <1>5, <1>6, <1>7, <1>8, <1>9, <1>10, <1>11
     DEF Next, log_write, commit, recover

\* bget never throws away the only copy of a block: whatever operations, commits,
\* recoveries and races in log_write there are, a block that differs from its
\* home on disk is pinned by B_DIRTY or held B_BUSY.
THEOREM OnlyCopyIsPinned == Spec => []ModifiedIsPinned
<1>1. Init => PinInv  BY PinInit
<1>2. CtlInv /\ PinInv /\ [Next]_vars => PinInv'  BY PinNext
<1>3. PinInv => ModifiedIsPinned  BY DEF PinInv
<1> QED  BY <1>1, <1>2, <1>3, CtlAlways, PTL DEF Spec

-----------------------------------------------------------------------------
(* The log implements an atomic disk.  The invariant says what is in the log, in
   the cache and on the disk at every point of an operation, of a commit and of a
   recovery.  It holds as long as no two log_write calls have overlapped. *)

Scanning == {"put", "cmp", "inc"}

InLog(b) == \E k \in 0 .. n - 1 : sector[k] = b

\* The log on disk and the log in memory are those of the transaction that is
\* being installed, and its first idx[p] blocks are home.
Installing(p) ==
  /\ dn = n /\ idx[p] <= n
  /\ \A k \in 0 .. n - 1 : dsector[k] = sector[k]
  /\ \A k \in 0 .. idx[p] - 1 : disk[sector[k]] = dlog[k]

\* No block is in the log twice, and the slot log_write works on is the one that
\* holds its block, or the first free one.
SlotInv ==
  /\ n <= LOGSIZE /\ dn <= LOGSIZE
  /\ \A j, k \in 0 .. n - 1 : sector[j] = sector[k] => j = k
  /\ \A j, k \in 0 .. dn - 1 : dsector[j] = dsector[k] => j = k
  /\ \A p \in Proc :
       /\ pc[p] \notin Scanning \cup {"write_log", "install", "recover"} => idx[p] = 0
       /\ pc[p] \in Scanning =>
            /\ n < LOGSIZE /\ idx[p] <= n
            /\ \A k \in 0 .. idx[p] - 1 : sector[k] # blk[p]
            /\ idx[p] = n \/ sector[idx[p]] = blk[p]
            /\ pc[p] # "put" => sector[idx[p]] = blk[p]
            /\ pc[p] = "inc" => idx[p] = n
  /\ \A p, q \in Proc : pc[p] \in Scanning /\ pc[q] \in Scanning => p = q

\* What differs from the disk is in the log, or about to be; the committer's
\* copies are exact; the log on disk is empty except from the write of its header
\* to its erasure.
CopyInv ==
  /\ Up => \A b \in Block : cache[b] # disk[b] => b \in Held \/ InLog(b)
  /\ Up /\ ~committing => dn = 0
  /\ \A p \in Proc :
       /\ pc[p] = "write_log" =>
            /\ dn = 0 /\ idx[p] <= n
            /\ \A k \in 0 .. idx[p] - 1 : dlog[k] = cache[sector[k]]
       /\ pc[p] = "install" =>
            Installing(p) /\ \A k \in 0 .. n - 1 : dlog[k] = cache[sector[k]]
       /\ pc[p] = "end_commit" => dn = 0
       /\ pc[p] = "recover" => Installing(p)
  /\ \A p, q \in Proc : pc[p] \in {"read_head", "recover"} /\ pc[q] \in {"read_head", "recover"} => p = q

DataInv == TypeOK /\ SlotInv /\ CopyInv

\* The count of open operations is a natural number.
LEMMA OutstandingNat == CtlInv => outstanding \in Nat
BY ActiveCount DEF CtlInv, CommitQuiescent

\* Every step keeps the types of the data.
LEMMA TypeNext ==
  ASSUME CtlInv', TypeOK, SlotInv, PinInv, [Next]_vars, outstanding' \in Nat
  PROVE  TypeOK'
<1> USE LogAssumption DEF TypeOK
<1>0. n' \in Nat /\ dn' \in Nat /\ pc' \in [Proc -> PC] /\ idx' \in [Proc -> Nat]  BY DEF CtlInv, CtlType
<1>1. ASSUME NEW p \in Proc, begin_op(p) PROVE TypeOK'
  BY <1>0, <1>1 DEF begin_op
<1>2. ASSUME NEW p \in Proc, NEW b \in Block, NEW v \in Val, Modify(p, b, v) PROVE TypeOK'
  BY <1>0, <1>2, Zenon DEF Modify
<1>3. ASSUME NEW p \in Proc, log_write_scan(p) \/ log_write_put(p) PROVE TypeOK'
  BY <1>0, <1>3, Zenon DEF log_write_scan, log_write_put
<1>4. ASSUME NEW p \in Proc, log_write_cmp(p) \/ log_write_inc(p) PROVE TypeOK'
  BY <1>0, <1>4 DEF log_write_cmp, log_write_inc, PinAndRelease
<1>5. ASSUME NEW p \in Proc, end_op(p) \/ end_commit(p) PROVE TypeOK'
  <2>1. committing' \in BOOLEAN  BY <1>5, Zenon DEF end_op, end_commit
  <2>2. UNCHANGED <<diskVars, bufVars, n, sector, blk, idx, mine, raced>>  BY <1>5 DEF end_op, end_commit
  <2> QED  BY <1>0, <2>1, <2>2
<1>6. ASSUME NEW p \in Proc, write_log(p) PROVE TypeOK'
  <2>1. idx[p] \in Slot  BY <1>6 DEF write_log, SlotInv, Slot
  <2>2. dlog' \in [Slot -> Val]  BY <1>6, <2>1 DEF write_log
  <2> QED  BY <1>0, <1>6, <2>2, Zenon DEF write_log
<1>7. ASSUME NEW p \in Proc, write_head(p) \/ read_head(p) PROVE TypeOK'
  <2>1. dsector' \in [Slot -> Block] /\ sector' \in [Slot -> Block]  BY <1>7, Zenon DEF write_head, read_head
  <2> QED  BY <1>0, <1>7, <2>1, Zenon DEF write_head, read_head
<1>8. ASSUME NEW p \in Proc, install_trans(p) PROVE TypeOK'
  <2>1. idx[p] \in Slot  BY <1>8 DEF install_trans, SlotInv, Slot
  <2>2. disk' \in [Block -> Val] /\ cache' \in [Block -> Val]  BY <1>8, <2>1, Zenon DEF install_trans
  <2> QED  BY <1>0, <1>8, <2>2, Zenon DEF install_trans
<1>9. ASSUME NEW p \in Proc, commit_erase(p) \/ recover_erase(p) PROVE TypeOK'
  BY <1>0, <1>9, Zenon DEF commit_erase, recover_erase, EraseLog
<1>10. ASSUME NEW p \in Proc, Crash(p) PROVE TypeOK'
  BY <1>0, <1>10, Zenon DEF Crash
<1>11. ASSUME UNCHANGED vars PROVE TypeOK'
  BY <1>11 DEF vars
<1>12. ASSUME NEW b \in Block, Evict(b) PROVE TypeOK'
  BY <1>11, <1>12, EvictHarmless
<1> HIDE DEF TypeOK
<1> QED
  BY <1>1, <1>2, <1>3, <1>4, <1>5, <1>6, <1>7, <1>8, <1>9, <1>10, <1>11, <1>12, Zenon
     DEF Next, log_write, commit, recover

Indexing == Scanning \cup {"write_log", "install", "recover"}

\* Steps that neither change the logs nor touch a process that works on a slot.
LEMMA SlotKept ==
  ASSUME SlotInv, UNCHANGED <<n, dn, sector, dsector, idx>>,
         \A q \in Proc : \/ pc[q] \notin Indexing /\ pc'[q] \notin Scanning
                         \/ pc'[q] = pc[q] /\ blk'[q] = blk[q]
  PROVE  SlotInv'
BY SMTT(30) DEF SlotInv, Indexing, Scanning

\* Every step keeps the header without duplicates, and its slots filled in order.
LEMMA SlotNext ==
  ASSUME CtlInv, TypeOK, SlotInv, CopyInv, PinInv, Next, ~raced'
  PROVE  SlotInv'
<1>0. /\ n \in Nat /\ dn \in Nat /\ idx \in [Proc -> Nat] /\ pc \in [Proc -> PC]
      /\ sector \in [Slot -> Block] /\ dsector \in [Slot -> Block] /\ blk \in [Proc -> Block]
      /\ LOGSIZE \in Nat \ {0}
  BY LogAssumption DEF TypeOK
<1>1. ASSUME NEW p \in Proc, begin_op(p) PROVE SlotInv'
  BY <1>0, <1>1, SlotKept DEF begin_op, Goto, Indexing, Scanning
<1>2. ASSUME NEW p \in Proc, NEW b \in Block, NEW v \in Val, Modify(p, b, v) PROVE SlotInv'
  BY <1>0, <1>2, SlotKept DEF Modify, Goto, Indexing, Scanning
<1>3. ASSUME NEW p \in Proc, log_write_scan(p) PROVE SlotInv'
  <2>1. CASE pc[p] = "log_write" /\ Goto(p, "panic") /\ UNCHANGED idx
    BY <1>0, <1>3, <2>1, SlotKept DEF log_write_scan, Goto, Indexing, Scanning
  <2>2. CASE ~LogFull /\ Goto(p, "put") /\ pc[p] = "log_write" /\ UNCHANGED <<n, dn, sector, dsector, blk>>
    <3>1. PICK i \in 0 .. n : /\ i = n \/ sector[i] = blk[p]
                              /\ \A k \in 0 .. i-1 : sector[k] # blk[p]
                              /\ idx' = [idx EXCEPT ![p] = i]
      BY <1>0, <1>3, <2>2 DEF log_write_scan, Goto
    <3>2. \A q \in Proc \ {p} : pc[q] \notin Scanning
      BY <1>0, <1>3, <2>2, Zenon DEF log_write_scan, Goto, Scanning
    <3>3. n < LOGSIZE  BY <1>0, <2>2 DEF LogFull
    <3>4. \A q \in Proc \ {p} : pc'[q] = pc[q] /\ idx'[q] = idx[q]  BY <1>0, <2>2, <3>1 DEF Goto
    <3>5. pc'[p] = "put" /\ idx'[p] = i  BY <1>0, <2>2, <3>1 DEF Goto
    <3> QED  BY <1>0, <2>2, <3>1, <3>2, <3>3, <3>4, <3>5 DEF SlotInv, Scanning
  <2> QED  BY <1>3, <2>1, <2>2, Zenon DEF log_write_scan
<1>4. ASSUME NEW p \in Proc, log_write_put(p) PROVE SlotInv'
  <2>1. /\ pc[p] = "put" /\ pc' = [pc EXCEPT ![p] = "cmp"]
        /\ sector' = [sector EXCEPT ![idx[p]] = blk[p]] /\ UNCHANGED <<n, dn, dsector, blk, idx>>
    BY <1>4, Zenon DEF log_write_put, Goto
  <2>2. /\ idx[p] \in Slot /\ idx[p] <= n /\ n < LOGSIZE
        /\ idx[p] = n \/ sector[idx[p]] = blk[p]
        /\ \A k \in 0 .. idx[p] - 1 : sector[k] # blk[p]
    BY <1>0, <2>1 DEF SlotInv, Scanning, Slot
  <2>3. \A k \in 0 .. n - 1 : sector'[k] = sector[k]  BY <1>0, <2>1, <2>2 DEF Slot
  <2>4. sector'[idx[p]] = blk[p]  BY <1>0, <2>1, <2>2
  <2>5. \A q \in Proc \ {p} : pc'[q] = pc[q] /\ pc[q] \notin Scanning
    BY <1>0, <2>1, Zenon DEF SlotInv, Scanning
  <2>6. pc'[p] = "cmp"  BY <1>0, <2>1
  <2> QED  BY <1>0, <2>1, <2>2, <2>3, <2>4, <2>5, <2>6 DEF SlotInv, Scanning
<1>5. ASSUME NEW p \in Proc, log_write_cmp(p) \/ log_write_inc(p) PROVE SlotInv'
  <2>1. /\ pc[p] \in {"cmp", "inc"} /\ UNCHANGED <<dn, sector, dsector>>
        /\ \/ pc[p] = "cmp" /\ idx[p] = n /\ n' = n /\ pc' = [pc EXCEPT ![p] = "inc"] /\ UNCHANGED <<blk, idx>>
           \/ pc[p] = "cmp" /\ n' = n /\ PinAndRelease(p)
           \/ pc[p] = "inc" /\ (\E m \in idx[p] .. n : n' = m + 1) /\ PinAndRelease(p)
    BY <1>5, Zenon DEF log_write_cmp, log_write_inc, Goto
  <2>2. /\ n < LOGSIZE /\ idx[p] \in 0 .. n /\ sector[idx[p]] = blk[p]
        /\ \A k \in 0 .. idx[p] - 1 : sector[k] # blk[p]
        /\ pc[p] = "inc" => idx[p] = n
    BY <1>0, <2>1 DEF SlotInv, Scanning
  <2>3. \A q \in Proc \ {p} : pc[q] \notin Scanning  BY <2>1, Zenon DEF SlotInv, Scanning
  <2>4. CASE pc[p] = "cmp" /\ idx[p] = n /\ n' = n /\ pc' = [pc EXCEPT ![p] = "inc"] /\ UNCHANGED <<blk, idx>>
    <3>1. pc'[p] = "inc" /\ \A q \in Proc \ {p} : pc'[q] = pc[q]  BY <1>0, <2>4
    <3> QED  BY <1>0, <2>1, <2>2, <2>3, <2>4, <3>1 DEF SlotInv, Scanning
  <2>5. CASE PinAndRelease(p) /\ (n' = n \/ (pc[p] = "inc" /\ n' = n + 1))
    <3>1. /\ pc'[p] = "op" /\ idx'[p] = 0
          /\ \A q \in Proc \ {p} : pc'[q] = pc[q] /\ idx'[q] = idx[q]
      BY <1>0, <2>5 DEF PinAndRelease, Goto
    <3>2. n' <= LOGSIZE /\ n' \in Nat  BY <1>0, <2>2, <2>5
    <3>3. \A j, k \in 0 .. n' - 1 : sector[j] = sector[k] => j = k
      BY <1>0, <2>2, <2>5 DEF SlotInv
    <3>4. \A q \in Proc : /\ pc'[q] \notin Scanning
                          /\ pc'[q] \notin Scanning \cup {"write_log", "install", "recover"} => idx'[q] = 0
      BY <2>3, <3>1, Zenon DEF SlotInv, Scanning
    <3>5. dn' <= LOGSIZE /\ \A j, k \in 0 .. dn' - 1 : dsector'[j] = dsector'[k] => j = k
      BY <2>1, Zenon DEF SlotInv
    <3>6. \A j, k \in 0 .. n' - 1 : sector'[j] = sector'[k] => j = k  BY <2>1, <3>3, Zenon
    <3> QED  BY <3>2, <3>4, <3>5, <3>6, Zenon DEF SlotInv
  <2> QED  BY <1>0, <2>1, <2>2, <2>4, <2>5
<1>6. ASSUME NEW p \in Proc, end_op(p) \/ end_commit(p) PROVE SlotInv'
  <2>1. UNCHANGED <<n, dn, sector, dsector, idx, blk>>  BY <1>6, Zenon DEF end_op, end_commit
  <2>2. \A q \in Proc : \/ pc[q] \notin Indexing /\ pc'[q] \notin Scanning
                        \/ pc'[q] = pc[q]
    BY <1>0, <1>6, Zenon DEF end_op, end_commit, Goto, WakeAndGoto, Indexing, Scanning
  <2> QED  BY <2>1, <2>2, SlotKept, Zenon
<1>7. ASSUME NEW p \in Proc, pc[p] \in InCommit \cup InRecovery PROVE \A q \in Proc : pc[q] \notin Scanning
  BY <1>7, Zenon DEF CtlInv, CommitQuiescent, Active, Up, Scanning
<1>8. ASSUME NEW p \in Proc, write_log(p) \/ install_trans(p) PROVE SlotInv'
  <2>1. /\ UNCHANGED <<n, dn, sector, dsector, blk, pc>>
        /\ pc[p] \in {"write_log", "install", "recover"} /\ idx' = [idx EXCEPT ![p] = @ + 1]
    BY <1>8, Zenon DEF write_log, install_trans
  <2>2. \A q \in Proc : pc[q] \notin Scanning  BY <1>7, <2>1
  <2>3. \A q \in Proc \ {p} : idx'[q] = idx[q]  BY <1>0, <2>1
  <2> QED  BY <1>0, <2>1, <2>2, <2>3 DEF SlotInv, Scanning
<1>9. ASSUME NEW p \in Proc, write_head(p) PROVE SlotInv'
  <2>1. /\ pc[p] = "write_log" /\ pc' = [pc EXCEPT ![p] = "install"]
        /\ dn' = n /\ dsector' = [k \in Slot |-> IF k < n THEN sector[k] ELSE dsector[k]]
        /\ idx' = [idx EXCEPT ![p] = 0] /\ UNCHANGED <<n, sector, blk>>
    BY <1>9, Zenon DEF write_head, Goto
  <2>2. \A q \in Proc : pc[q] \notin Scanning  BY <1>7, <2>1, Zenon
  <2>3. \A k \in 0 .. n - 1 : dsector'[k] = sector[k]  BY <1>0, <2>1 DEF SlotInv, Slot
  <2>4. \A q \in Proc : pc'[q] \notin Scanning /\ (q # p => pc'[q] = pc[q] /\ idx'[q] = idx[q])
    BY <1>0, <2>1, <2>2 DEF Scanning
  <2>5. idx'[p] = 0  BY <1>0, <2>1
  <2> QED  BY <1>0, <2>1, <2>3, <2>4, <2>5 DEF SlotInv, Scanning
<1>10. ASSUME NEW p \in Proc, commit_erase(p) \/ recover_erase(p) PROVE SlotInv'
  <2>1. n' = 0 /\ dn' = 0 /\ idx' = [idx EXCEPT ![p] = 0] /\ pc[p] \in {"install", "recover"}
    BY <1>10 DEF commit_erase, recover_erase, EraseLog
  <2>2. \A q \in Proc : pc[q] \notin Scanning  BY <1>7, <2>1
  <2>3. \A q \in Proc : pc'[q] \notin Scanning
    BY <1>0, <1>10, <2>2 DEF commit_erase, recover_erase, Goto, Scanning
  <2>4. ASSUME NEW q \in Proc, pc'[q] \notin Scanning \cup {"write_log", "install", "recover"} PROVE idx'[q] = 0
    <3>1. CASE q = p  BY <1>0, <2>1, <3>1
    <3>2. CASE q # p
      <4>1. idx'[q] = idx[q]  BY <1>0, <2>1, <3>2
      <4>2. pc[q] \notin {"write_log", "install", "recover"}
        BY <1>0, <1>10, <2>4, <3>2, Zenon DEF commit_erase, recover_erase, Goto, CtlInv, CommitQuiescent, Up, CopyInv
      <4> QED  BY <2>2, <4>1, <4>2, Zenon DEF SlotInv
    <3> QED  BY <3>1, <3>2
  <2> QED  BY <1>0, <2>1, <2>3, <2>4 DEF SlotInv
<1>11. ASSUME NEW p \in Proc, read_head(p) PROVE SlotInv'
  <2>1. /\ pc[p] = "read_head" /\ pc' = [pc EXCEPT ![p] = "recover"]
        /\ n' = dn /\ sector' = [k \in Slot |-> IF k < dn THEN dsector[k] ELSE sector[k]]
        /\ UNCHANGED <<dn, dsector, blk, idx>>
    BY <1>11, Zenon DEF read_head, Goto
  <2>2. \A q \in Proc : pc[q] \notin Scanning  BY <1>7, <2>1, Zenon
  <2>3. \A k \in 0 .. dn - 1 : sector'[k] = dsector[k]  BY <1>0, <2>1 DEF SlotInv, Slot
  <2>4. \A q \in Proc : pc'[q] \notin Scanning /\ (q # p => pc'[q] = pc[q])
    BY <1>0, <2>1, <2>2 DEF Scanning
  <2>5. pc'[p] = "recover"  BY <1>0, <2>1
  <2> QED  BY <1>0, <2>1, <2>3, <2>4, <2>5 DEF SlotInv
<1>12. ASSUME NEW p \in Proc, Crash(p) PROVE SlotInv'
  <2>1. /\ n' = 0 /\ UNCHANGED <<dn, dsector>>
        /\ \A q \in Proc : idx'[q] = 0 /\ pc'[q] \in {"read_head", "off"}
    BY <1>12 DEF Crash, Boot
  <2> QED  BY <1>0, <2>1 DEF SlotInv, Scanning
<1>13. ASSUME NEW b \in Block, Evict(b) PROVE SlotInv'
  <2>1. UNCHANGED vars  BY <1>13, EvictHarmless
  <2> QED  BY <2>1, SlotKept, Zenon DEF vars
<1> QED
  BY <1>1, <1>2, <1>3, <1>4, <1>5, <1>6, <1>8, <1>9, <1>10, <1>11, <1>12, <1>13
     DEF Next, log_write, commit, recover

\* While a process is inside an operation nobody commits or recovers.
LEMMA OpExcludes ==
  ASSUME CtlInv, NEW p \in Proc, pc[p] \in InOp
  PROVE  Up /\ ~committing /\ \A q \in Proc : pc[q] \notin InCommit \cup InRecovery
BY Zenon DEF CtlInv, CommitQuiescent, Active, Up

\* A committer is alone, and no operation holds a block.
LEMMA CommitExcludes ==
  ASSUME CtlInv, NEW p \in Proc, pc[p] \in InCommit
  PROVE  Up /\ committing /\ Held = {} /\ \A q \in Proc : pc[q] \notin InOp /\ (q # p => pc[q] \notin InCommit)
<1>1. committing /\ Active = {} /\ \A q \in Proc : q # p => pc[q] \notin InCommit
  BY DEF CtlInv, CommitQuiescent
<1>2. \A q \in Proc : pc[q] \notin InOp  BY <1>1 DEF Active
<1>3. Held = {}  BY <1>2, HeldIs DEF Holding
<1>4. Up  BY DEF CtlInv, Up
<1> QED  BY <1>1, <1>2, <1>3, <1>4

\* A slot of a short log is one of a longer log.
LEMMA MoreSlots ==
  ASSUME NEW x \in Nat, NEW y \in Nat, x <= y, NEW k \in 0 .. x - 1
  PROVE  k \in 0 .. y - 1
OBVIOUS

Copying == {"write_log", "install", "end_commit", "recover", "read_head"}

\* Steps that keep the blocks and the logged slots, and release no block.
LEMMA CopyKept ==
  ASSUME CopyInv, TypeOK, UNCHANGED <<n, dn, dsector, dlog, disk, cache, committing>>,
         \A k \in 0 .. n - 1 : sector'[k] = sector[k],
         \A q \in Proc : pc'[q] \in Copying => pc'[q] = pc[q] /\ idx'[q] = idx[q],
         Held \subseteq Held', Up' <=> Up
  PROVE  CopyInv'
<1>0. n \in Nat /\ idx \in [Proc -> Nat]  BY Zenon DEF TypeOK
<1>1. \A b \in Block : InLog(b)' <=> InLog(b)  BY Zenon DEF InLog
<1>2. Up' => \A b \in Block : cache'[b] # disk'[b] => b \in Held' \/ InLog(b)'
  BY <1>1, Zenon DEF CopyInv
<1>3. Up' /\ ~committing' => dn' = 0  BY Zenon DEF CopyInv
<1>4. ASSUME NEW q \in Proc, pc'[q] = "write_log"
      PROVE  dn' = 0 /\ idx'[q] <= n' /\ \A k \in 0 .. idx'[q] - 1 : dlog'[k] = cache'[sector'[k]]
  <2>1. pc[q] = "write_log" /\ idx'[q] = idx[q] /\ idx[q] \in Nat  BY <1>0, <1>4, Zenon DEF Copying
  <2>2. dn = 0 /\ idx[q] <= n /\ \A k \in 0 .. idx[q] - 1 : dlog[k] = cache[sector[k]]
    BY <2>1, Zenon DEF CopyInv
  <2> QED  BY <1>0, <2>1, <2>2
<1>5. ASSUME NEW q \in Proc, pc'[q] \in {"install", "recover"} PROVE Installing(q)'
  <2>1. pc[q] \in {"install", "recover"} /\ idx'[q] = idx[q] /\ idx[q] \in Nat  BY <1>0, <1>5, Zenon DEF Copying
  <2>2. Installing(q)  BY <2>1, Zenon DEF CopyInv
  <2>3. \A k \in 0 .. idx[q] - 1 : k \in 0 .. n - 1  BY <1>0, <2>1, <2>2, MoreSlots, Zenon DEF Installing
  <2> QED  BY <2>1, <2>2, <2>3, Zenon DEF Installing
<1>6. ASSUME NEW q \in Proc, pc'[q] = "install" PROVE \A k \in 0 .. n' - 1 : dlog'[k] = cache'[sector'[k]]
  <2>1. pc[q] = "install"  BY <1>6, Zenon DEF Copying
  <2>2. \A k \in 0 .. n - 1 : dlog[k] = cache[sector[k]]  BY <2>1, Zenon DEF CopyInv
  <2> QED  BY <2>2, Zenon
<1>7. \A q \in Proc : pc'[q] = "end_commit" => dn' = 0  BY Zenon DEF CopyInv, Copying
<1>8. \A p, q \in Proc : pc'[p] \in {"read_head", "recover"} /\ pc'[q] \in {"read_head", "recover"} => p = q
  BY Zenon DEF CopyInv, Copying
<1> QED  BY <1>2, <1>3, <1>4, <1>5, <1>6, <1>7, <1>8, Zenon DEF CopyInv

\* Every step keeps what commit has copied so far in agreement with the cache.
LEMMA CopyNext ==
  ASSUME CtlInv, TypeOK, SlotInv, CopyInv, PinInv, Next, ~raced'
  PROVE  CopyInv'
<1>0. /\ n \in Nat /\ dn \in Nat /\ idx \in [Proc -> Nat] /\ pc \in [Proc -> PC]
      /\ sector \in [Slot -> Block] /\ dsector \in [Slot -> Block] /\ blk \in [Proc -> Block]
      /\ cache \in [Block -> Val] /\ disk \in [Block -> Val] /\ dlog \in [Slot -> Val]
      /\ n <= LOGSIZE /\ dn <= LOGSIZE /\ LOGSIZE \in Nat \ {0}
  BY LogAssumption, Zenon DEF TypeOK, SlotInv
<1>a. /\ \A b : b \in Held <=> \E p \in Proc : pc[p] \in Holding /\ blk[p] = b
      /\ \A b : b \in Held' <=> \E p \in Proc : pc'[p] \in Holding /\ blk'[p] = b
  BY HeldIs, Zenon DEF Held, Holding
<1>1. ASSUME NEW p \in Proc, begin_op(p) PROVE CopyInv'
  <2>1. PICK l \in {"sleep", "op"} : pc' = [pc EXCEPT ![p] = l] /\ pc[p] \in {"idle", "begin"}
    BY <1>1 DEF begin_op, Goto
  <2>2. UNCHANGED <<n, sector, dn, dsector, dlog, disk, cache, committing, blk, idx>>  BY <1>1 DEF begin_op
  <2>3. Held \subseteq Held' /\ (Up' <=> Up)  BY <1>0, <1>a, <2>1, <2>2 DEF Up, Holding
  <2>4. \A q \in Proc : pc'[q] \in Copying => pc'[q] = pc[q]  BY <1>0, <2>1 DEF Copying
  <2> QED  BY <2>2, <2>3, <2>4, CopyKept, Zenon
<1>2. ASSUME NEW p \in Proc, NEW b \in Block, NEW v \in Val, Modify(p, b, v) PROVE CopyInv'
  <2>1. /\ pc[p] = "op" /\ pc' = [pc EXCEPT ![p] = "log_write"]
        /\ blk' = [blk EXCEPT ![p] = b] /\ cache' = [cache EXCEPT ![b] = v]
        /\ UNCHANGED <<n, sector, dn, dsector, dlog, disk, committing, idx>>
    BY <1>2, Zenon DEF Modify, Goto
  <2>2. Up /\ ~committing /\ \A q \in Proc : pc[q] \notin InCommit \cup InRecovery
    BY <2>1, OpExcludes
  <2>3. \A q \in Proc : pc'[q] \notin Copying  BY <1>0, <2>1, <2>2, Zenon DEF Copying
  <2>4. Held \subseteq Held' /\ b \in Held'  BY <1>0, <1>a, <2>1 DEF Holding
  <2>5. \A c \in Block : c # b => cache'[c] = cache[c]  BY <1>0, <2>1, Zenon
  <2>6. \A c \in Block : InLog(c)' <=> InLog(c)  BY <2>1 DEF InLog
  <2> QED  BY <2>1, <2>2, <2>3, <2>4, <2>5, <2>6, Zenon DEF CopyInv, Copying
<1>3. ASSUME NEW p \in Proc, log_write_scan(p) \/ log_write_put(p) PROVE CopyInv'
  <2>1. PICK l \in {"put", "cmp", "panic"} :
           /\ pc' = [pc EXCEPT ![p] = l] /\ pc[p] \in {"log_write", "put"}
    BY <1>3, Zenon DEF log_write_scan, log_write_put, Goto
  <2>2. UNCHANGED <<n, dn, dsector, dlog, disk, cache, committing, blk>>
    BY <1>3, Zenon DEF log_write_scan, log_write_put
  <2>3. Held \subseteq Held' /\ (Up' <=> Up)  BY <1>0, <1>a, <2>1, <2>2 DEF Up, Holding
  <2>4. \A q \in Proc : pc'[q] \notin Copying
    BY <1>0, <2>1, OpExcludes DEF Copying
  <2>5. \A k \in 0 .. n - 1 : sector'[k] = sector[k]
    <3>1. CASE log_write_scan(p)  BY <3>1, Zenon DEF log_write_scan
    <3>2. CASE log_write_put(p)
      <4>1. sector' = [sector EXCEPT ![idx[p]] = blk[p]] /\ pc[p] = "put"  BY <3>2, Zenon DEF log_write_put
      <4>2. idx[p] = n \/ sector[idx[p]] = blk[p]  BY <4>1, Zenon DEF SlotInv, Scanning
      <4> QED  BY <1>0, <4>1, <4>2 DEF Slot
    <3> QED  BY <1>3, <3>1, <3>2, Zenon
  <2> QED  BY <2>2, <2>3, <2>4, <2>5, CopyKept, Zenon
<1>4. ASSUME NEW p \in Proc, log_write_cmp(p) \/ log_write_inc(p) PROVE CopyInv'
  <2>1. /\ pc[p] \in {"cmp", "inc"} /\ UNCHANGED <<dn, sector, dsector, dlog, disk, cache, committing>>
        /\ \/ pc[p] = "cmp" /\ n' = n /\ pc' = [pc EXCEPT ![p] = "inc"] /\ UNCHANGED <<blk, idx>>
           \/ pc[p] = "cmp" /\ idx[p] # n /\ n' = n /\ PinAndRelease(p)
           \/ pc[p] = "inc" /\ (\E m \in idx[p] .. n : n' = m + 1) /\ PinAndRelease(p)
    BY <1>4, Zenon DEF log_write_cmp, log_write_inc, Goto
  <2>2. /\ idx[p] \in 0 .. n /\ sector[idx[p]] = blk[p] /\ (pc[p] = "inc" => idx[p] = n)
    BY <1>0, <2>1 DEF SlotInv, Scanning
  <2>3. \A q \in Proc : pc[q] \notin Copying  BY <2>1, OpExcludes, Zenon DEF Copying
  <2>4. CASE pc[p] = "cmp" /\ n' = n /\ pc' = [pc EXCEPT ![p] = "inc"] /\ UNCHANGED <<blk, idx>>
    <3>1. Held \subseteq Held' /\ (Up' <=> Up)  BY <1>0, <1>a, <2>4 DEF Up, Holding
    <3>2. \A q \in Proc : pc'[q] \notin Copying  BY <1>0, <2>3, <2>4 DEF Copying
    <3> QED  BY <2>1, <2>4, <3>1, <3>2, CopyKept, Zenon
  <2>5. CASE PinAndRelease(p) /\ n' \in Nat /\ n <= n' /\ idx[p] < n'
    <3>1. pc' = [pc EXCEPT ![p] = "op"] /\ blk' = [blk EXCEPT ![p] = Block0]
      BY <2>5 DEF PinAndRelease, Goto
    <3>a. sector' = sector  BY <2>1, Zenon
    <3>b. idx[p] \in 0 .. n' - 1 /\ \A k \in 0 .. n - 1 : k \in 0 .. n' - 1
      <4>1. n' \in Nat /\ n <= n' /\ idx[p] < n' /\ n \in Nat /\ idx[p] \in Nat  BY <1>0, <2>5
      <4>2. idx[p] \in 0 .. n' - 1  BY <4>1
      <4>3. ASSUME NEW k \in 0 .. n - 1 PROVE k \in 0 .. n' - 1  BY <4>1, MoreSlots, Zenon
      <4> QED  BY <4>2, <4>3
    <3>2. \A c : c = blk[p] => InLog(c)'  BY <2>2, <3>a, <3>b, Zenon DEF InLog
    <3>3. \A c : InLog(c) => InLog(c)'  BY <3>a, <3>b DEF InLog
    <3>4. ASSUME NEW c \in Held PROVE c \in Held' \/ InLog(c)'
      <4>1. PICK q \in Proc : pc[q] \in Holding /\ blk[q] = c  BY <1>a
      <4>2. CASE q = p  BY <3>2, <4>1, <4>2
      <4>3. CASE q # p
        <5>1. pc'[q] = pc[q] /\ blk'[q] = blk[q]  BY <1>0, <3>1, <4>3
        <5> QED  BY <1>a, <4>1, <5>1, Zenon
      <4> QED  BY <4>2, <4>3
    <3>5. Up /\ ~committing  BY <2>1, OpExcludes, Zenon
    <3>6. \A q \in Proc : pc'[q] \notin Copying  BY <1>0, <2>3, <3>1 DEF Copying
    <3>7. \A c \in Block : cache'[c] # disk'[c] => c \in Held' \/ InLog(c)'
      BY <2>1, <3>3, <3>4, <3>5, Zenon DEF CopyInv
    <3> QED  BY <2>1, <3>5, <3>6, <3>7, Zenon DEF CopyInv, Copying
  <2> QED  BY <1>0, <2>1, <2>2, <2>4, <2>5
<1>5. ASSUME NEW p \in Proc, end_op(p) PROVE CopyInv'
  <2>1. /\ UNCHANGED <<n, sector, dn, dsector, dlog, disk, cache, blk, idx>> /\ pc[p] = "op"
    BY <1>5 DEF end_op
  <2>2. Up /\ ~committing /\ \A q \in Proc : pc[q] \notin InCommit \cup InRecovery
    BY <2>1, OpExcludes
  <2>3. \A q \in Proc : /\ q # p => (pc'[q] = pc[q] \/ (pc[q] = "sleep" /\ pc'[q] = "begin"))
                        /\ pc'[p] \in {"write_log", "end_commit", "idle"}
    BY <1>0, <1>5, <2>2, Zenon DEF end_op, Goto, WakeAndGoto
  <2>4. \A q \in Proc : pc'[q] \notin InRecovery /\ (pc[q] \in Holding => pc'[q] \in Holding)
                        /\ (q # p => pc'[q] \notin Copying)
    BY <2>1, <2>2, <2>3, Zenon DEF Holding, Copying
  <2>5. Held \subseteq Held' /\ Up'  BY <1>a, <2>1, <2>4, Zenon DEF Up
  <2>6. idx[p] = 0 /\ dn = 0  BY <2>1, <2>2, Zenon DEF SlotInv, CopyInv, Scanning
  <2>7. \A c \in Block : InLog(c)' <=> InLog(c)  BY <2>1 DEF InLog
  <2>8. \A c \in Block : cache'[c] # disk'[c] => c \in Held' \/ InLog(c)'
    BY <2>1, <2>2, <2>5, <2>7, Zenon DEF CopyInv
  <2>9. pc'[p] \notin {"install", "recover", "read_head"}  BY <2>3
  <2> QED  BY <1>0, <2>1, <2>4, <2>6, <2>8, <2>9 DEF CopyInv, Copying
<1>6. ASSUME NEW p \in Proc, write_log(p) PROVE CopyInv'
  <2>1. /\ pc[p] = "write_log" /\ idx[p] < n
        /\ dlog' = [dlog EXCEPT ![idx[p]] = cache[sector[idx[p]]]] /\ idx' = [idx EXCEPT ![p] = @ + 1]
        /\ UNCHANGED <<n, sector, dn, dsector, disk, cache, blk, committing, pc>>
    BY <1>6, Zenon DEF write_log
  <2>2. /\ Up /\ committing /\ \A q \in Proc : pc[q] \notin InOp /\ (q # p => pc[q] \notin InCommit)
    BY <2>1, CommitExcludes, Zenon
  <2>3. idx[p] \in Slot /\ idx'[p] = idx[p] + 1  BY <1>0, <2>1 DEF Slot
  <2>4. /\ dn = 0
        /\ \A k \in 0 .. idx[p] - 1 : dlog[k] = cache[sector[k]]
    BY <2>1, Zenon DEF CopyInv
  <2>5. \A k \in 0 .. idx'[p] - 1 : dlog'[k] = cache'[sector'[k]]
    BY <1>0, <2>1, <2>3, <2>4 DEF Slot
  <2>6. Held' = Held /\ \A c \in Block : InLog(c)' <=> InLog(c)  BY <2>1, Zenon DEF InLog, Held
  <2>7. \A q \in Proc : q # p => pc'[q] \notin Copying  BY <2>1, <2>2, Zenon DEF Copying, Up
  <2>8. Up' => \A c \in Block : cache'[c] # disk'[c] => c \in Held' \/ InLog(c)'
    BY <2>1, <2>2, <2>6, Zenon DEF CopyInv
  <2> QED  BY <1>0, <2>1, <2>2, <2>3, <2>4, <2>5, <2>7, <2>8 DEF CopyInv, Copying
<1>7. ASSUME NEW p \in Proc, write_head(p) PROVE CopyInv'
  <2>1. /\ pc[p] = "write_log" /\ pc' = [pc EXCEPT ![p] = "install"] /\ idx[p] >= n
        /\ dn' = n /\ dsector' = [k \in Slot |-> IF k < n THEN sector[k] ELSE dsector[k]]
        /\ idx' = [idx EXCEPT ![p] = 0]
        /\ UNCHANGED <<n, sector, dlog, disk, cache, blk, committing>>
    BY <1>7 DEF write_head, Goto
  <2>2. /\ Up /\ committing /\ \A q \in Proc : pc[q] \notin InOp /\ (q # p => pc[q] \notin InCommit)
    BY <2>1, CommitExcludes, Zenon
  <2>3. \A k \in 0 .. n - 1 : dsector'[k] = sector[k] /\ dlog[k] = cache[sector[k]]
    BY <1>0, <2>1 DEF Slot, CopyInv
  <2>4. idx'[p] = 0 /\ pc'[p] = "install" /\ \A q \in Proc : q # p => pc'[q] = pc[q]  BY <1>0, <2>1, Zenon
  <2>5. Installing(p)'  BY <1>0, <2>1, <2>3, <2>4 DEF Installing
  <2>6. \A q \in Proc : q # p => pc'[q] \notin Copying  BY <2>2, <2>4 DEF Copying, Up
  <2>7. \A b \in Block : cache'[b] # disk'[b] => InLog(b)'
    <3>1. Held = {}  BY <2>1, CommitExcludes, Zenon
    <3> QED  BY <2>1, <2>2, <3>1, Zenon DEF CopyInv, InLog
  <2> QED  BY <2>1, <2>2, <2>3, <2>4, <2>5, <2>6, <2>7, Zenon DEF CopyInv, Copying







<1>8. ASSUME NEW p \in Proc, install_trans(p) PROVE CopyInv'
  <2> DEFINE s == sector[idx[p]]
             d == dlog[idx[p]]
  <2>1. /\ pc[p] \in {"install", "recover"} /\ idx[p] < n
        /\ cache' = [cache EXCEPT ![s] = d] /\ disk' = [disk EXCEPT ![s] = d]
        /\ idx' = [idx EXCEPT ![p] = @ + 1]
        /\ UNCHANGED <<n, sector, dn, dsector, dlog, blk, committing, pc>>
    BY <1>8, Zenon DEF install_trans
  <2>2. Installing(p)  BY <2>1, Zenon DEF CopyInv
  <2>3. idx[p] \in Slot /\ s \in Block /\ d \in Val /\ idx'[p] = idx[p] + 1  BY <1>0, <2>1 DEF Slot
  <2>4. ASSUME NEW k \in 0 .. n - 1 PROVE sector[k] \in Block /\ (k # idx[p] => sector[k] # s)
    BY <1>0, <2>1 DEF SlotInv, Slot
  <2>5. Installing(p)'
    <3>1. ASSUME NEW k \in 0 .. idx[p] PROVE disk'[sector[k]] = dlog[k]
      <4>1. CASE k = idx[p]  BY <1>0, <2>1, <2>3, <4>1, Zenon
      <4>2. CASE k # idx[p]
        <5>1. k \in 0 .. idx[p] - 1 /\ k \in 0 .. n - 1  BY <1>0, <2>1, <4>2
        <5>2. sector[k] \in Block /\ sector[k] # s  BY <2>4, <4>2, <5>1
        <5>3. disk'[sector[k]] = disk[sector[k]]  BY <1>0, <2>1, <5>2, Zenon
        <5> QED  BY <2>2, <5>1, <5>3, Zenon DEF Installing
      <4> QED  BY <4>1, <4>2
    <3>2. idx'[p] - 1 = idx[p] /\ idx'[p] <= n  BY <1>0, <2>1, <2>3
    <3>3. \A k \in 0 .. idx'[p] - 1 : disk'[sector'[k]] = dlog'[k]  BY <2>1, <3>1, <3>2, Zenon
    <3> QED  BY <2>1, <2>2, <3>2, <3>3, Zenon DEF Installing
  <2> HIDE DEF s, d
  <2>6. CASE pc[p] = "install"
    <3>1. cache[s] = d /\ cache' = cache
      <4>1. cache[s] = d  BY <1>0, <2>1, <2>6 DEF CopyInv, s, d
      <4> QED  BY <1>0, <2>1, <4>1, Zenon
    <3>2. /\ Up /\ committing /\ Held = {} /\ \A q \in Proc : pc[q] \notin InOp /\ (q # p => pc[q] \notin InCommit)
      BY <2>6, CommitExcludes
    <3>3. \A b \in Block : cache'[b] # disk'[b] => InLog(b)'
      <4>1. \A b \in Block : b # s => disk'[b] = disk[b]  BY <1>0, <2>1, Zenon
      <4>2. disk'[s] = d  BY <1>0, <2>1, <2>3, Zenon
      <4>3. \A b \in Block : InLog(b)' <=> InLog(b)  BY <2>1 DEF InLog
      <4> QED  BY <3>1, <3>2, <4>1, <4>2, <4>3, Zenon DEF CopyInv
    <3>4. \A q \in Proc : q # p => pc'[q] \notin Copying  BY <2>1, <3>2, Zenon DEF Copying, Up
    <3>5. \A k \in 0 .. n' - 1 : dlog'[k] = cache'[sector'[k]]  BY <2>1, <2>6, <3>1, Zenon DEF CopyInv
    <3> QED  BY <2>1, <2>5, <2>6, <3>2, <3>3, <3>4, <3>5, Zenon DEF CopyInv, Copying
  <2>7. CASE pc[p] = "recover"
    <3>1. ~Up /\ ~Up' /\ \A q \in Proc : pc[q] \in InRecovery
      BY <2>1, <2>7, Zenon DEF CtlInv, Up
    <3>2. \A q \in Proc : pc'[q] \in {"read_head", "recover"} => q = p  BY <2>1, <2>7, Zenon DEF CopyInv
    <3>3. \A q \in Proc : pc'[q] \notin {"write_log", "install", "end_commit"}  BY <2>1, <3>1
    <3> QED  BY <2>5, <3>1, <3>2, <3>3, Zenon DEF CopyInv
  <2> QED  BY <2>1, <2>6, <2>7
<1>9. ASSUME NEW p \in Proc, commit_erase(p) PROVE CopyInv'
  <2>1. /\ pc[p] = "install" /\ pc' = [pc EXCEPT ![p] = "end_commit"] /\ idx[p] >= n
        /\ n' = 0 /\ dn' = 0 /\ UNCHANGED <<sector, disk, cache, committing>>
    BY <1>9 DEF commit_erase, EraseLog, Goto
  <2>2. /\ Up /\ committing /\ Held = {} /\ \A q \in Proc : pc[q] \notin InOp /\ (q # p => pc[q] \notin InCommit)
    BY <2>1, CommitExcludes
  <2>3. ASSUME NEW b \in Block PROVE cache[b] = disk[b]
    <3>1. CASE InLog(b)
      <4>1. PICK k \in 0 .. n - 1 : sector[k] = b  BY <3>1 DEF InLog
      <4>2. k \in 0 .. idx[p] - 1  BY <1>0, <2>1
      <4>3. disk[b] = dlog[k] /\ dlog[k] = cache[b]  BY <2>1, <4>1, <4>2, Zenon DEF CopyInv, Installing
      <4> QED  BY <4>3
    <3>2. CASE ~InLog(b)  BY <2>2, <3>2, Zenon DEF CopyInv
    <3> QED  BY <3>1, <3>2, Zenon
  <2>4. pc'[p] = "end_commit" /\ \A q \in Proc : q # p => pc'[q] \notin Copying
    BY <1>0, <2>1, <2>2, Zenon DEF Copying, Up
  <2>5. \A b \in Block : cache'[b] = disk'[b]  BY <2>1, <2>3, Zenon
  <2> QED  BY <2>1, <2>2, <2>4, <2>5, Zenon DEF CopyInv, Copying
<1>10. ASSUME NEW p \in Proc, end_commit(p) PROVE CopyInv'
  <2>1. /\ pc[p] = "end_commit" /\ UNCHANGED <<n, sector, dn, disk, cache>>
        /\ \A q \in Proc : pc'[q] = "idle" \/ pc'[q] = "begin" \/ (q # p /\ pc'[q] = pc[q])
    BY <1>0, <1>10, Zenon DEF end_commit, WakeAndGoto
  <2>2. /\ Up /\ committing /\ Held = {} /\ \A q \in Proc : pc[q] \notin InOp /\ (q # p => pc[q] \notin InCommit)
    BY <2>1, CommitExcludes, Zenon
  <2>3. dn = 0  BY <2>1, Zenon DEF CopyInv
  <2>4. \A q \in Proc : pc'[q] \notin Copying  BY <2>1, <2>2, Zenon DEF Copying, Up
  <2>5. \A b \in Block : InLog(b)' <=> InLog(b)  BY <2>1 DEF InLog
  <2>6. \A b \in Block : cache'[b] # disk'[b] => InLog(b)'  BY <2>1, <2>2, <2>5, Zenon DEF CopyInv
  <2> QED  BY <2>1, <2>3, <2>4, <2>6, Zenon DEF CopyInv, Copying
<1>11. ASSUME NEW p \in Proc, read_head(p) PROVE CopyInv'
  <2>1. /\ pc[p] = "read_head" /\ pc' = [pc EXCEPT ![p] = "recover"]
        /\ n' = dn /\ sector' = [k \in Slot |-> IF k < dn THEN dsector[k] ELSE sector[k]]
        /\ UNCHANGED <<dn, dsector, dlog, disk, cache, idx>>
    BY <1>11, Zenon DEF read_head, Goto
  <2>2. \A k \in 0 .. dn - 1 : sector'[k] = dsector[k]  BY <1>0, <2>1 DEF Slot
  <2>3. idx[p] = 0  BY <2>1, Zenon DEF SlotInv, Scanning
  <2>4. Installing(p)'  BY <1>0, <2>1, <2>2, <2>3 DEF Installing
  <2>5. pc'[p] = "recover" /\ \A q \in Proc : q # p => pc'[q] = pc[q]  BY <1>0, <2>1
  <2>6. \A q \in Proc : pc[q] \in InRecovery  BY <2>1, Zenon DEF CtlInv, Up
  <2>7. ~Up'  BY <2>5 DEF Up
  <2>8. \A q \in Proc : q # p => pc'[q] \notin Copying  BY <2>1, <2>5, <2>6, Zenon DEF CopyInv, Copying
  <2> QED  BY <2>4, <2>5, <2>7, <2>8, Zenon DEF CopyInv, Copying
<1>12. ASSUME NEW p \in Proc, recover_erase(p) PROVE CopyInv'
  <2>1. pc[p] = "recover" /\ dn' = 0 /\ UNCHANGED <<disk, cache>> /\ \A q \in Proc : pc'[q] = "idle"
    BY <1>12 DEF recover_erase, EraseLog
  <2>2. cache = disk  BY <2>1 DEF PinInv, Up
  <2> QED  BY <2>1, <2>2, Zenon DEF CopyInv
<1>13. ASSUME NEW p \in Proc, Crash(p) PROVE CopyInv'
  <2>1. \A q \in Proc : pc'[q] = IF q = p THEN "read_head" ELSE "off"  BY <1>13 DEF Crash, Boot
  <2>2. ~Up'  BY <2>1 DEF Up
  <2> QED  BY <2>1, <2>2, Zenon DEF CopyInv
<1>14. ASSUME NEW b \in Block, Evict(b) PROVE CopyInv'
  <2>1. UNCHANGED vars  BY <1>14, EvictHarmless
  <2>2. /\ UNCHANGED <<n, dn, dsector, dlog, disk, cache, committing, sector, pc, idx, blk>>  BY <2>1 DEF vars
  <2>3. Held' = Held /\ (Up' <=> Up)  BY <2>2, Zenon DEF Held, Up
  <2> QED  BY <2>2, <2>3, CopyKept, Zenon
<1> QED
  BY <1>1, <1>2, <1>3, <1>4, <1>5, <1>6, <1>7, <1>8, <1>9, <1>10, <1>11, <1>12, <1>13, <1>14, Zenon
     DEF Next, log_write, commit, recover

\* The invariant of the data holds at the start.
LEMMA DataInit == Init => DataInv
<1> SUFFICES ASSUME Init PROVE DataInv  OBVIOUS
<1>1. PICK p \in Proc : pc = Boot(p)  BY DEF Init
<1>2. \A q \in Proc : pc[q] = IF q = p THEN "read_head" ELSE "off"  BY <1>1 DEF Boot
<1>3. /\ n = 0 /\ dn = 0 /\ outstanding = 0 /\ committing = FALSE /\ raced = FALSE
      /\ \A q \in Proc : idx[q] = 0
  BY DEF Init
<1>4. TypeOK  BY <1>1, LogAssumption, Zenon DEF Init, TypeOK, Boot, PC
<1>5. SlotInv  BY <1>2, <1>3, LogAssumption DEF SlotInv, Scanning
<1>6. ~Up  BY <1>2 DEF Up
<1>7. CopyInv  BY <1>2, <1>6, Zenon DEF CopyInv
<1> QED  BY <1>4, <1>5, <1>7 DEF DataInv

\* Until two log_write calls overlap.
LEMMA DataNext ==
  ASSUME CtlInv, PinInv, DataInv, [Next]_vars, CtlInv', outstanding' \in Nat, ~raced'
  PROVE  DataInv'
<1>1. TypeOK'  BY TypeNext DEF DataInv
<1>2. CASE Next  BY <1>1, <1>2, SlotNext, CopyNext DEF DataInv
<1>3. CASE UNCHANGED vars
  <2>1. UNCHANGED <<n, dn, dsector, dlog, disk, cache, committing, sector, pc, idx, blk>>  BY <1>3, Zenon DEF vars
  <2>2. Held' = Held /\ (Up' <=> Up)  BY <2>1, Zenon DEF Held, Up
  <2>3. SlotInv'  BY <2>1, SlotKept, Zenon DEF DataInv
  <2>4. CopyInv'  BY <2>1, <2>2, CopyKept, Zenon DEF DataInv
  <2> QED  BY <1>1, <2>3, <2>4 DEF DataInv
<1> QED  BY <1>2, <1>3

Distinct(s, m) == \A j, k \in 0 .. m - 1 : s[j] = s[k] => j = k

\* The blocks that a reboot finds, from the home blocks d and a log of m blocks.
Rebooted(d, m, s, l) ==
  [b \in Block |-> IF \E k \in 0 .. m - 1 : s[k] = b
                   THEN l[CHOOSE k \in 0 .. m - 1 : s[k] = b]
                   ELSE d[b]]

\* What recovery leaves in a block: its slot of the log, or the home block.
LEMMA RebootedIs ==
  ASSUME NEW d \in [Block -> Val], NEW m \in Nat, m <= LOGSIZE,
         NEW s \in [Slot -> Block], NEW l \in [Slot -> Val], Distinct(s, m)
  PROVE  /\ Rebooted(d, m, s, l) \in [Block -> Val]
         /\ \A k \in 0 .. m - 1 : Rebooted(d, m, s, l)[s[k]] = l[k]
         /\ \A b \in Block : (\A k \in 0 .. m - 1 : s[k] # b) => Rebooted(d, m, s, l)[b] = d[b]
<1>0. \A k \in 0 .. m - 1 : k \in Slot  BY LogAssumption DEF Slot
<1>1. ASSUME NEW k \in 0 .. m - 1 PROVE s[k] \in Block /\ Rebooted(d, m, s, l)[s[k]] = l[k]
  <2> DEFINE b == s[k]
             c == CHOOSE j \in 0 .. m - 1 : s[j] = b
  <2>1. b \in Block  BY <1>0
  <2>2. c \in 0 .. m - 1 /\ s[c] = b  OBVIOUS
  <2> HIDE DEF c
  <2>3. c = k  BY <2>2 DEF Distinct
  <2>4. Rebooted(d, m, s, l)[b] = l[c]  BY <2>1, Zenon DEF Rebooted, c
  <2> QED  BY <2>1, <2>3, <2>4
<1>2. ASSUME NEW b \in Block, \A k \in 0 .. m - 1 : s[k] # b PROVE Rebooted(d, m, s, l)[b] = d[b]
  BY <1>2 DEF Rebooted
<1>3. ASSUME NEW b \in Block PROVE Rebooted(d, m, s, l)[b] \in Val
  <2>1. CASE \E k \in 0 .. m - 1 : s[k] = b
    <3>1. PICK k \in 0 .. m - 1 : s[k] = b  BY <2>1
    <3>2. Rebooted(d, m, s, l)[b] = l[k]  BY <1>1, <3>1
    <3> QED  BY <1>0, <3>2
  <2>2. CASE \A k \in 0 .. m - 1 : s[k] # b  BY <1>2, <2>2
  <2> QED  BY <2>1, <2>2
<1>4. Rebooted(d, m, s, l) = [b \in Block |-> Rebooted(d, m, s, l)[b]]  BY DEF Rebooted
<1>5. Rebooted(d, m, s, l) \in [Block -> Val]
  <2> DEFINE f == Rebooted(d, m, s, l)
  <2> HIDE DEF f
  <2>1. f = [b \in Block |-> f[b]] /\ \A b \in Block : f[b] \in Val  BY <1>3, <1>4 DEF f
  <2>2. f \in [Block -> Val]  BY <2>1
  <2> QED  BY <2>2 DEF f
<1> QED  BY <1>1, <1>2, <1>5, Zenon

\* A disk v that has the logged blocks where the log says, and is d elsewhere.
Fits(d, m, s, l, v) ==
  /\ d \in [Block -> Val] /\ m \in Nat /\ m <= LOGSIZE
  /\ s \in [Slot -> Block] /\ l \in [Slot -> Val] /\ Distinct(s, m)
  /\ v \in [Block -> Val] /\ \A k \in 0 .. m - 1 : v[s[k]] = l[k]
  /\ \A b \in Block : (\A k \in 0 .. m - 1 : s[k] # b) => v[b] = d[b]

\* A disk that fits a log is what recovery from that log leaves.
LEMMA RebootedEquals ==
  ASSUME NEW d, NEW m, NEW s, NEW l, NEW v, Fits(d, m, s, l, v)
  PROVE  Rebooted(d, m, s, l) = v
<1> USE DEF Fits
<1> DEFINE f == Rebooted(d, m, s, l)
<1>1. /\ f \in [Block -> Val] /\ \A k \in 0 .. m - 1 : f[s[k]] = l[k]
      /\ \A b \in Block : (\A k \in 0 .. m - 1 : s[k] # b) => f[b] = d[b]
  BY RebootedIs
<1> HIDE DEF f
<1>2. ASSUME NEW b \in Block PROVE f[b] = v[b]
  <2>1. CASE \E k \in 0 .. m - 1 : s[k] = b
    <3>1. PICK k \in 0 .. m - 1 : s[k] = b  BY <2>1
    <3> QED  BY <1>1, <3>1, Zenon
  <2>2. CASE \A k \in 0 .. m - 1 : s[k] # b  BY <1>1, <2>2, Zenon
  <2> QED  BY <2>1, <2>2, Zenon
<1>3. f = v  BY <1>1, <1>2
<1> QED  BY <1>3 DEF f

\* An empty log leaves the disk as it is.
LEMMA RebootedEmpty ==
  ASSUME NEW d \in [Block -> Val], NEW s, NEW l
  PROVE  Rebooted(d, 0, s, l) = d
BY DEF Rebooted

\* The refinement mapping, as the recovery of the disk that a crash would leave.
LEMMA RecoveredIs == Recovered = Rebooted(disk, dn, dsector, dlog)
BY DEF Recovered, Rebooted

View == IF Up THEN cache ELSE Recovered

\* The initial states are those of the atomic disk.
LEMMA AtomicInit == Init => Atomic!Init
<1> SUFFICES ASSUME Init PROVE Atomic!Init  OBVIOUS
<1>1. disk \in [Block -> Val] /\ dn = 0  BY DEF Init
<1>2. Recovered = disk  BY <1>1, RecoveredIs, RebootedEmpty
<1>3. PICK p \in Proc : pc = Boot(p)  BY DEF Init
<1>4. \A q \in Proc : pc[q] \in InRecovery  BY <1>3 DEF Boot
<1>5. ~Up /\ Active = {}  BY <1>4, LogAssumption DEF Up, Active
<1> QED  BY <1>1, <1>2, <1>5 DEF Atomic!Init

\* The three things the abstract disk sees, unchanged.
LEMMA AtomicStutter ==
  ASSUME UNCHANGED <<View, Recovered, Active>>
  PROVE  UNCHANGED Atomic!vars
BY DEF Atomic!vars, View

\* Steps that leave the blocks on the disk and in memory as they are.
LEMMA AtomicKept ==
  ASSUME UNCHANGED <<disk, dn, dsector, dlog, cache>>, Up' <=> Up
  PROVE  UNCHANGED <<View, Recovered>>
BY Zenon DEF View, Recovered

\* Every step of the log is one of the atomic disk, or one that it does not see.
LEMMA AtomicNext ==
  ASSUME CtlInv, PinInv, DataInv, Next, CtlInv', DataInv'
  PROVE  [Atomic!Next]_(Atomic!vars)
<1> DEFINE Goal == [Atomic!Next]_(Atomic!vars)
<1>0. /\ n \in Nat /\ dn \in Nat /\ idx \in [Proc -> Nat] /\ pc \in [Proc -> PC]
      /\ sector \in [Slot -> Block] /\ dsector \in [Slot -> Block]
      /\ cache \in [Block -> Val] /\ disk \in [Block -> Val] /\ dlog \in [Slot -> Val]
      /\ n <= LOGSIZE /\ dn <= LOGSIZE /\ Distinct(dsector, dn) /\ Distinct(sector, n)
  BY Zenon DEF DataInv, TypeOK, SlotInv, Distinct
<1>a. /\ dn' \in Nat /\ dsector' \in [Slot -> Block] /\ disk' \in [Block -> Val] /\ dlog' \in [Slot -> Val]
      /\ dn' <= LOGSIZE /\ Distinct(dsector', dn') /\ cache' \in [Block -> Val]
  BY Zenon DEF DataInv, TypeOK, SlotInv, Distinct
<1>b. /\ Recovered = Rebooted(disk, dn, dsector, dlog)
      /\ Recovered' = Rebooted(disk', dn', dsector', dlog')
  BY Zenon DEF Recovered, Rebooted
<1>c. ASSUME UNCHANGED <<View, Recovered, Active>> PROVE Goal
  BY <1>c, AtomicStutter
<1>1. ASSUME NEW p \in Proc, begin_op(p) PROVE Goal
  <2>1. UNCHANGED <<disk, dn, dsector, dlog, cache>> /\ pc[p] \in {"idle", "begin"}  BY <1>1 DEF begin_op
  <2>2. PICK l \in {"sleep", "op"} : pc' = [pc EXCEPT ![p] = l]  BY <1>1 DEF begin_op, Goto
  <2>3. Up' <=> Up  BY <1>0, <2>1, <2>2 DEF Up
  <2>4. UNCHANGED <<View, Recovered>>  BY <2>1, <2>3, AtomicKept
  <2>5. CASE l = "sleep"
    <3>1. Active' = Active  BY <1>0, <2>1, <2>2, <2>5, Zenon DEF Active
    <3> QED  BY <1>c, <2>4, <3>1
  <2>6. CASE l = "op"
    <3>1. Active' = Active \cup {p} /\ p \notin Active  BY <1>0, <2>1, <2>2, <2>6, Zenon DEF Active
    <3>2. Atomic!BeginOp(p)  BY <2>4, <3>1 DEF Atomic!BeginOp, View
    <3> QED  BY <3>2 DEF Atomic!Next
  <2> QED  BY <2>5, <2>6
<1>2. ASSUME NEW p \in Proc, NEW b \in Block, NEW v \in Val, Modify(p, b, v) PROVE Goal
  <2>1. /\ pc[p] = "op" /\ pc' = [pc EXCEPT ![p] = "log_write"] /\ cache' = [cache EXCEPT ![b] = v]
        /\ UNCHANGED <<disk, dn, dsector, dlog>>
    BY <1>2, Zenon DEF Modify, Goto
  <2>2. Up /\ Up'
    <3>1. Up  BY <2>1, OpExcludes
    <3> QED  BY <1>0, <2>1, <3>1, Zenon DEF Up
  <2>3. Active' = Active /\ p \in Active  BY <1>0, <2>1, Zenon DEF Active
  <2>4. Recovered' = Recovered  BY <2>1, Zenon DEF Recovered
  <2>5. Atomic!Write(p, b, v)  BY <2>1, <2>2, <2>3, <2>4 DEF Atomic!Write
  <2> QED  BY <2>5 DEF Atomic!Next
<1>3. ASSUME NEW p \in Proc, log_write(p) PROVE Goal
  <2>1. UNCHANGED <<disk, dn, dsector, dlog, cache>> /\ pc[p] \in InLogWrite
    BY <1>3, Zenon DEF log_write, log_write_scan, log_write_put, log_write_cmp, log_write_inc
  <2>2. PICK l \in InOp : pc' = [pc EXCEPT ![p] = l]
    BY <1>3, Zenon DEF log_write, log_write_scan, log_write_put, log_write_cmp, log_write_inc, PinAndRelease, Goto
  <2>3. (Up' <=> Up) /\ Active' = Active  BY <1>0, <2>1, <2>2, Zenon DEF Up, Active
  <2> QED  BY <1>c, <2>1, <2>3, AtomicKept
<1>4. ASSUME NEW p \in Proc, end_op(p) PROVE Goal
  <2>1. UNCHANGED <<disk, dn, dsector, dlog, cache>> /\ pc[p] = "op"  BY <1>4, Zenon DEF end_op
  <2>2. Up /\ ~committing  BY <2>1, OpExcludes
  <2>3. /\ pc'[p] \in {"write_log", "end_commit", "idle"}
        /\ \A q \in Proc : q # p => (pc'[q] = pc[q] \/ (pc[q] = "sleep" /\ pc'[q] = "begin"))
    BY <1>0, <1>4, <2>2, Zenon DEF end_op, Goto, WakeAndGoto
  <2>4. Active' = Active \ {p} /\ p \in Active /\ Up'  BY <2>1, <2>2, <2>3, Zenon DEF Active, Up
  <2>5. UNCHANGED <<View, Recovered>>  BY <2>1, <2>2, <2>4, AtomicKept
  <2>6. Atomic!EndOp(p)  BY <2>4, <2>5 DEF Atomic!EndOp, View
  <2> QED  BY <2>6 DEF Atomic!Next
<1>5. ASSUME NEW p \in Proc, write_log(p) PROVE Goal
  <2>1. pc[p] = "write_log" /\ UNCHANGED <<disk, dn, cache, pc>>  BY <1>5, Zenon DEF write_log
  <2>2. dn = 0  BY <2>1, Zenon DEF DataInv, CopyInv
  <2>3. Recovered = disk /\ Recovered' = disk  BY <1>0, <1>b, <2>1, <2>2, RebootedEmpty, Zenon
  <2>4. (Up' <=> Up) /\ Active' = Active  BY <2>1 DEF Up, Active
  <2> QED  BY <1>c, <2>1, <2>3, <2>4 DEF View
<1>6. ASSUME NEW p \in Proc, write_head(p) PROVE Goal
  <2>1. /\ pc[p] = "write_log" /\ pc' = [pc EXCEPT ![p] = "install"] /\ idx[p] >= n
        /\ dn' = n /\ dsector' = [k \in Slot |-> IF k < n THEN sector[k] ELSE dsector[k]]
        /\ UNCHANGED <<n, sector, disk, dlog, cache>>
    BY <1>6, Zenon DEF write_head, Goto
  <2>2. Up /\ Held = {} /\ \A q \in Proc : pc[q] \notin InOp  BY <2>1, CommitExcludes, Zenon
  <2>3. Up' /\ Active = {} /\ Active' = {}  BY <1>0, <2>1, <2>2, Zenon DEF Up, Active
  <2>4. \A k \in 0 .. n - 1 : dsector'[k] = sector[k] /\ dlog[k] = cache[sector[k]]
    <3>1. idx[p] = n  BY <1>0, <2>1 DEF DataInv, CopyInv
    <3>2. \A k \in 0 .. n - 1 : dlog[k] = cache[sector[k]]  BY <2>1, <3>1, Zenon DEF DataInv, CopyInv
    <3>3. \A k \in 0 .. n - 1 : dsector'[k] = sector[k]  BY <1>0, <2>1, LogAssumption DEF Slot
    <3> QED  BY <3>2, <3>3, Zenon
  <2>5. \A b \in Block : (\A k \in 0 .. n - 1 : sector[k] # b) => cache[b] = disk[b]
    BY <2>2, Zenon DEF DataInv, CopyInv, InLog
  <2>6. Rebooted(disk', dn', dsector', dlog') = cache
    <3>1. \A k \in 0 .. dn' - 1 : cache[dsector'[k]] = dlog'[k]  BY <2>1, <2>4, Zenon
    <3>2. \A b \in Block : (\A k \in 0 .. dn' - 1 : dsector'[k] # b) => cache[b] = disk'[b]
      BY <2>1, <2>4, <2>5, Zenon
    <3>3. cache \in [Block -> Val]  BY <1>0
    <3>4. Fits(disk', dn', dsector', dlog', cache)  BY <1>a, <3>1, <3>2, <3>3, Zenon DEF Fits
    <3> QED  BY <3>4, RebootedEquals, Zenon
  <2>7. Recovered' = cache  BY <1>b, <2>6
  <2>8. Atomic!Commit  BY <2>1, <2>2, <2>3, <2>7, Zenon DEF Atomic!Commit
  <2> QED  BY <2>8 DEF Atomic!Next
<1>7. ASSUME NEW p \in Proc, install_trans(p) PROVE Goal
  <2> DEFINE s == sector[idx[p]]
             d == dlog[idx[p]]
  <2>1. /\ pc[p] \in {"install", "recover"} /\ idx[p] < n
        /\ cache' = [cache EXCEPT ![s] = d] /\ disk' = [disk EXCEPT ![s] = d]
        /\ UNCHANGED <<dn, dsector, dlog, pc>>
    BY <1>7, Zenon DEF install_trans
  <2>2. (Up' <=> Up) /\ Active' = Active  BY <2>1, Zenon DEF Up, Active
  <2>3. Installing(p)  BY <2>1, Zenon DEF DataInv, CopyInv
  <2>4. idx[p] \in 0 .. dn - 1 /\ s = dsector[idx[p]]  BY <1>0, <2>1, <2>3 DEF Installing
  <2>5. /\ Recovered \in [Block -> Val] /\ \A k \in 0 .. dn - 1 : Recovered[dsector[k]] = dlog[k]
        /\ \A b \in Block : (\A k \in 0 .. dn - 1 : dsector[k] # b) => Recovered[b] = disk[b]
    BY <1>0, <1>b, RebootedIs
  <2>6. \A b \in Block : (\A k \in 0 .. dn - 1 : dsector[k] # b) => disk'[b] = disk[b]
    BY <1>0, <2>1, <2>4, Zenon
  <2>7. Rebooted(disk', dn', dsector', dlog') = Recovered
    <3>1. \A k \in 0 .. dn' - 1 : Recovered[dsector'[k]] = dlog'[k]  BY <2>1, <2>5, Zenon
    <3>2. \A b \in Block : (\A k \in 0 .. dn' - 1 : dsector'[k] # b) => Recovered[b] = disk'[b]
      BY <2>1, <2>5, <2>6, Zenon
    <3>3. Fits(disk', dn', dsector', dlog', Recovered)  BY <1>a, <2>5, <3>1, <3>2, Zenon DEF Fits
    <3> QED  BY <3>3, RebootedEquals
  <2>8. Recovered' = Recovered  BY <1>b, <2>7
  <2>9. Up => cache' = cache
    <3> HAVE Up
    <3>1. pc[p] = "install"  BY <2>1, Zenon DEF Up
    <3>2. cache[s] = d  BY <1>0, <2>1, <3>1, SMTT(30) DEF DataInv, CopyInv
    <3> QED  BY <1>0, <2>1, <3>2, Zenon
  <2>10. View' = View  BY <2>2, <2>8, <2>9 DEF View
  <2> QED  BY <1>c, <2>2, <2>8, <2>10
<1>8. ASSUME NEW p \in Proc, pc[p] \in {"install", "recover"}, EraseLog(p)
      PROVE  Recovered = disk /\ Recovered' = disk /\ disk' = disk /\ cache' = cache
  <2>1. idx[p] >= n /\ dn' = 0 /\ UNCHANGED <<disk, cache>>  BY <1>8 DEF EraseLog
  <2>2. Installing(p)  BY <1>8, Zenon DEF DataInv, CopyInv
  <2>3. \A k \in 0 .. dn - 1 : disk[dsector[k]] = dlog[k]
    <3>1. idx[p] = n /\ dn = n  BY <1>0, <2>1, <2>2 DEF Installing
    <3> QED  BY <2>2, <3>1, Zenon DEF Installing
  <2>4. Rebooted(disk, dn, dsector, dlog) = disk
    <3>1. Fits(disk, dn, dsector, dlog, disk)  BY <1>0, <2>3, Zenon DEF Fits
    <3> QED  BY <3>1, RebootedEquals
  <2>5. Rebooted(disk', dn', dsector', dlog') = disk  BY <1>0, <2>1, RebootedEmpty, Zenon
  <2> QED  BY <1>b, <2>1, <2>4, <2>5
<1>9. ASSUME NEW p \in Proc, commit_erase(p) PROVE Goal
  <2>1. pc[p] = "install" /\ pc' = [pc EXCEPT ![p] = "end_commit"] /\ EraseLog(p)
    BY <1>9 DEF commit_erase, Goto
  <2>2. Recovered = disk /\ Recovered' = disk /\ cache' = cache  BY <1>8, <2>1
  <2>3. (Up' <=> Up) /\ Active' = Active  BY <1>0, <2>1, Zenon DEF Up, Active
  <2>4. View' = View  BY <2>2, <2>3 DEF View
  <2> QED  BY <1>c, <2>2, <2>3, <2>4
<1>10. ASSUME NEW p \in Proc, end_commit(p) \/ read_head(p) PROVE Goal
  <2>1. UNCHANGED <<disk, dn, dsector, dlog, cache>>  BY <1>10, Zenon DEF end_commit, read_head
  <2>2. \A q \in Proc : /\ pc'[q] \in InRecovery <=> pc[q] \in InRecovery
                        /\ pc'[q] \in InOp <=> pc[q] \in InOp
    BY <1>0, <1>10, Zenon DEF end_commit, read_head, Goto, WakeAndGoto
  <2>3. (Up' <=> Up) /\ Active' = Active  BY <2>2, Zenon DEF Up, Active
  <2> QED  BY <1>c, <2>1, <2>3, AtomicKept
<1>11. ASSUME NEW p \in Proc, recover_erase(p) PROVE Goal
  <2>1. pc[p] = "recover" /\ EraseLog(p) /\ \A q \in Proc : pc'[q] = "idle"  BY <1>11 DEF recover_erase
  <2>2. Recovered = disk /\ Recovered' = disk /\ cache' = cache  BY <1>8, <2>1, Zenon
  <2>3. ~Up /\ Up' /\ Active' = {} /\ Active = {}  BY <2>1, Zenon DEF Up, Active, CtlInv
  <2>4. cache = disk  BY <2>3 DEF PinInv
  <2>5. View' = View  BY <2>2, <2>3, <2>4 DEF View
  <2> QED  BY <1>c, <2>2, <2>3, <2>5
<1>12. ASSUME NEW p \in Proc, Crash(p) PROVE Goal
  <2>1. UNCHANGED <<disk, dn, dsector, dlog>> /\ \A q \in Proc : pc'[q] \in InRecovery
    BY <1>12 DEF Crash, Boot
  <2>2. ~Up' /\ Active' = {}  BY <2>1 DEF Up, Active
  <2>3. Recovered' = Recovered  BY <2>1, Zenon DEF Recovered
  <2>4. Atomic!Crash  BY <2>2, <2>3 DEF Atomic!Crash
  <2> QED  BY <2>4 DEF Atomic!Next
<1>13. ASSUME NEW b \in Block, Evict(b) PROVE Goal
  <2>1. UNCHANGED vars  BY <1>13, EvictHarmless
  <2>2. UNCHANGED <<disk, dn, dsector, dlog, cache, pc>>  BY <2>1 DEF vars
  <2>3. (Up' <=> Up) /\ Active' = Active  BY <2>2 DEF Up, Active
  <2> QED  BY <1>c, <2>2, <2>3, AtomicKept
<1> HIDE DEF Goal
<1>14. Goal
  BY <1>1, <1>2, <1>3, <1>4, <1>5, <1>6, <1>7, <1>9, <1>10, <1>11, <1>12, <1>13, Zenon
     DEF Next, commit, recover
<1> QED  BY <1>14, Zenon DEF Goal

\* The history of the races is never forgotten.
LEMMA RacedStays ==
  ASSUME [Next]_vars, raced
  PROVE  raced'
BY Zenon DEF Next, vars, begin_op, log_write, log_write_scan, log_write_put, log_write_cmp, log_write_inc, end_op,
       commit, write_log, write_head, install_trans, commit_erase, EraseLog, end_commit,
       recover, read_head, recover_erase, Crash, Modify, Evict

LogInv == CtlInv /\ PinInv /\ (raced \/ DataInv)

\* The invariant of the log is inductive.
LEMMA LogInvNext == LogInv /\ [Next]_vars => LogInv'
<1> SUFFICES ASSUME LogInv, [Next]_vars PROVE LogInv'  OBVIOUS
<1>1. CtlInv /\ PinInv  BY DEF LogInv
<1>2. CtlInv' /\ PinInv'  BY <1>1, CtlNext, PinNext
<1>3. outstanding' \in Nat
  <2>1. IsFiniteSet(Active')  BY LogAssumption, FS_Subset DEF Active
  <2> QED  BY <1>2, <2>1, FS_CardinalityType, Zenon DEF CtlInv, CommitQuiescent
<1>4. ASSUME ~raced' PROVE DataInv'
  <2>1. ~raced  BY <1>4, RacedStays
  <2> QED  BY <1>1, <1>2, <1>3, <1>4, <2>1, DataNext DEF LogInv
<1> QED  BY <1>2, <1>4 DEF LogInv

\* Until two log_write calls overlap, every index into log.lh is in range and
\* every slot holds a block: the log never outgrows its header.
THEOREM TypeCorrectUnlessRaced == Spec => [](TypeOK \/ raced)
<1>1. Init => LogInv  BY CtlInit, PinInit, DataInit DEF LogInv
<1>2. LogInv => TypeOK \/ raced  BY DEF LogInv, DataInv
<1> QED  BY <1>1, <1>2, LogInvNext, PTL DEF Spec

\* log.c implements an atomic disk until two log_write calls overlap, for any
\* number of processes, any blocks and any size of the log: what a crash at any
\* step leaves is the state at the last commit.
THEOREM LogIsAtomic == Spec => AtomicUnlessRaced
<1>1. Init => LogInv /\ Atomic!Init  BY CtlInit, PinInit, DataInit, AtomicInit DEF LogInv
<1>2. LogInv /\ LogInv' /\ [Next]_vars => [raced' \/ Atomic!Next]_(Atomic!vars)
  <2> SUFFICES ASSUME LogInv, LogInv', [Next]_vars, ~raced' PROVE [Atomic!Next]_(Atomic!vars)
    OBVIOUS
  <2>1. ~raced  BY RacedStays
  <2>2. CtlInv /\ PinInv /\ DataInv /\ CtlInv' /\ DataInv'  BY <2>1 DEF LogInv
  <2>3. CASE Next  BY <2>2, <2>3, AtomicNext
  <2>4. CASE UNCHANGED vars
    <3>1. UNCHANGED <<disk, dn, dsector, dlog, cache, pc>>  BY <2>4 DEF vars
    <3>2. (Up' <=> Up) /\ Active' = Active  BY <3>1 DEF Up, Active
    <3>3. UNCHANGED Atomic!vars  BY <3>1, <3>2, AtomicKept, AtomicStutter
    <3> QED  BY <3>3
  <2> QED  BY <2>3, <2>4
<1> QED  BY <1>1, <1>2, LogInvNext, PTL DEF Spec, AtomicUnlessRaced
=============================================================================
