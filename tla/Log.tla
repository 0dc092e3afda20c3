-------------------------------- MODULE Log --------------------------------
(***************************************************************************)
(* log.c: the redo log under the file system, with the parts of the buffer *)
(* cache it relies on (a block held B_BUSY by its user, a block pinned by  *)
(* B_DIRTY, the recycling of the others), power failure at any step and    *)
(* the recovery of the next boot.                                          *)
(*                                                                         *)
(* Sections under log.lock are one step.  log_write takes no lock, so its  *)
(* accesses to log.lh are steps of their own.  A disk write is one sector  *)
(* and therefore atomic; iderw returns when it has completed.              *)
(***************************************************************************)
EXTENDS Integers, FiniteSets

CONSTANTS Proc,         \* processes that make file system calls
          Block,        \* block numbers of the file system
          Block0,       \* block 0, the boot block: no operation writes it
          Val,          \* contents a block can have
          LOGSIZE,      \* slots of struct logheader
          MAXOPBLOCKS,  \* blocks begin_op sets aside for one operation
          nlog,         \* superblock: blocks of the on-disk log, header included
          OpBlocks      \* blocks one operation really writes, at most

ASSUME LogAssumption ==
  /\ Proc # {} /\ IsFiniteSet(Proc)
  /\ Block0 \in Block
  /\ LOGSIZE \in Nat \ {0}
  /\ MAXOPBLOCKS \in 1..LOGSIZE
  /\ nlog \in Nat
  /\ OpBlocks \in Nat

VARIABLES
  disk,         \* home blocks on the disk
  dn, dsector,  \* the on-disk header: number of logged blocks, their homes
  dlog,         \* the on-disk log blocks
  cache,        \* contents of the blocks as bread() returns them
  dirty,        \* blocks whose buffer has B_DIRTY
  n, sector,    \* log.lh
  outstanding,  \* log.outstanding
  committing,   \* log.committing
  pc,           \* where each process is
  blk,          \* the block a process holds B_BUSY in log_write
  idx,          \* i of log_write, tail of write_log and install_trans
  mine,         \* blocks the process' operation has written
  raced         \* history: two log_write calls have overlapped

diskVars == <<disk, dn, dsector, dlog>>
bufVars  == <<cache, dirty>>
logVars  == <<n, sector, outstanding, committing>>
procVars == <<pc, blk, idx, mine>>
vars == <<diskVars, bufVars, logVars, procVars, raced>>

Slot == 0 .. LOGSIZE - 1

InLogWrite == {"log_write", "put", "cmp", "inc"}
InOp       == {"op", "panic"} \cup InLogWrite
InCommit   == {"write_log", "install", "end_commit"}
InRecovery == {"off", "read_head", "recover"}
PC == {"idle", "begin", "sleep"} \cup InOp \cup InCommit \cup InRecovery

\* The blocks that are B_BUSY; a process that panics keeps the one it has.
Held   == {blk[p] : p \in {q \in Proc : pc[q] \in InLogWrite \cup {"panic"}}}
Active == {p \in Proc : pc[p] \in InOp}
Up     == \A p \in Proc : pc[p] \notin InRecovery

TypeOK ==
  /\ disk \in [Block -> Val] /\ cache \in [Block -> Val]
  /\ dn \in Nat /\ dsector \in [Slot -> Block] /\ dlog \in [Slot -> Val]
  /\ dirty \subseteq Block
  /\ n \in Nat /\ sector \in [Slot -> Block]
  /\ outstanding \in Nat /\ committing \in BOOLEAN
  /\ pc \in [Proc -> PC]
  /\ blk \in [Proc -> Block]
  /\ idx \in [Proc -> Nat]
  /\ mine \in [Proc -> SUBSET Block]
  /\ raced \in BOOLEAN

Boot(p) == [q \in Proc |-> IF q = p THEN "read_head" ELSE "off"]

\* An image from mkfs: any files, an empty log, zeroed log blocks.
Init ==
  /\ disk \in [Block -> Val]
  /\ cache = disk /\ dirty = {}
  /\ dn = 0 /\ dsector = [k \in Slot |-> Block0]
  /\ \E v \in Val : dlog = [k \in Slot |-> v]
  /\ n = 0 /\ sector = [k \in Slot |-> Block0]
  /\ outstanding = 0 /\ committing = FALSE
  /\ \E p \in Proc : pc = Boot(p)
  /\ blk = [p \in Proc |-> Block0]
  /\ idx = [p \in Proc |-> 0]
  /\ mine = [p \in Proc |-> {}]
  /\ raced = FALSE

-----------------------------------------------------------------------------
Goto(p, l) == pc' = [pc EXCEPT ![p] = l]

\* wakeup(&log): every sleeper of begin_op tests again, p goes on at l.
WakeAndGoto(p, l) ==
  pc' = [q \in Proc |-> IF q = p THEN l
                        ELSE IF pc[q] = "sleep" THEN "begin" ELSE pc[q]]

\* Mutant: the operation that is about to start is not counted.
NoRoom_off_by_one == n + outstanding * MAXOPBLOCKS > LOGSIZE

NoRoom == n + (outstanding + 1) * MAXOPBLOCKS > LOGSIZE

\* Mutant: begin_op does not wait for a commit in progress.
begin_op_no_wait(p) ==
  /\ pc[p] \in {"idle", "begin"}
  /\ ~NoRoom
  /\ outstanding' = outstanding + 1
  /\ mine' = [mine EXCEPT ![p] = {}]
  /\ Goto(p, "op")
  /\ UNCHANGED <<diskVars, bufVars, n, sector, committing, blk, idx, raced>>

begin_op(p) ==
  /\ pc[p] \in {"idle", "begin"}
  /\ \/ /\ committing \/ NoRoom
        /\ Goto(p, "sleep")
        /\ UNCHANGED <<outstanding, mine>>
     \/ /\ ~committing /\ ~NoRoom
        /\ outstanding' = outstanding + 1
        /\ mine' = [mine EXCEPT ![p] = {}]
        /\ Goto(p, "op")
  /\ UNCHANGED <<diskVars, bufVars, n, sector, committing, blk, idx, raced>>

\* bp = bread(b); modify bp->data: the caller keeps b B_BUSY until brelse.
Modify(p, b, v) ==
  /\ pc[p] = "op"
  /\ b \notin Held \cup {Block0}
  /\ Cardinality(mine[p] \cup {b}) <= OpBlocks
  /\ mine' = [mine EXCEPT ![p] = @ \cup {b}]
  /\ cache' = [cache EXCEPT ![b] = v]
  /\ blk' = [blk EXCEPT ![p] = b]
  /\ Goto(p, "log_write")
  /\ UNCHANGED <<diskVars, dirty, logVars, idx, raced>>

LogFull == n >= LOGSIZE \/ n >= nlog - 1

\* The two panics, then the scan for a slot that already holds the block.
log_write_scan(p) ==
  /\ pc[p] = "log_write"
  /\ \/ /\ LogFull \/ outstanding < 1
        /\ Goto(p, "panic")
        /\ UNCHANGED <<idx, raced>>
     \/ /\ ~LogFull /\ outstanding >= 1
        /\ \E i \in 0..n :
             /\ i = n \/ sector[i] = blk[p]
             /\ \A k \in 0 .. i-1 : sector[k] # blk[p]
             /\ idx' = [idx EXCEPT ![p] = i]
        /\ raced' = (raced \/ \E q \in Proc \ {p} : pc[q] \in {"put", "cmp", "inc"})
        /\ Goto(p, "put")
  /\ UNCHANGED <<diskVars, bufVars, logVars, blk, mine>>

log_write_put(p) ==
  /\ pc[p] = "put"
  /\ sector' = [sector EXCEPT ![idx[p]] = blk[p]]
  /\ Goto(p, "cmp")
  /\ UNCHANGED <<diskVars, bufVars, n, outstanding, committing, blk, idx, mine, raced>>

\* Mutant: the buffer is not marked B_DIRTY.
PinAndRelease_unpinned(p) ==
  /\ blk' = [blk EXCEPT ![p] = Block0]
  /\ idx' = [idx EXCEPT ![p] = 0]
  /\ Goto(p, "op")
  /\ UNCHANGED dirty

\* b->flags |= B_DIRTY, and the caller's brelse(b).
PinAndRelease(p) ==
  /\ dirty' = dirty \cup {blk[p]}
  /\ blk' = [blk EXCEPT ![p] = Block0]
  /\ idx' = [idx EXCEPT ![p] = 0]
  /\ Goto(p, "op")

log_write_cmp(p) ==
  /\ pc[p] = "cmp"
  /\ \/ /\ idx[p] = n
        /\ Goto(p, "inc")
        /\ UNCHANGED <<dirty, blk, idx>>
     \/ /\ idx[p] # n
        /\ PinAndRelease(p)
  /\ UNCHANGED <<diskVars, cache, logVars, mine, raced>>

\* log.lh.n++ is a load and a store: the load may return any value n has had
\* since the comparison.
log_write_inc(p) ==
  /\ pc[p] = "inc"
  /\ \E m \in idx[p]..n : n' = m + 1
  /\ PinAndRelease(p)
  /\ UNCHANGED <<diskVars, cache, sector, outstanding, committing, mine, raced>>

\* end_op up to its first release: the last operation starts the commit.
end_op(p) ==
  /\ pc[p] = "op"
  /\ outstanding' = outstanding - 1
  /\ \/ /\ committing
        /\ Goto(p, "panic")
        /\ UNCHANGED committing
     \/ /\ ~committing /\ outstanding' = 0
        /\ committing' = TRUE
        /\ Goto(p, IF n > 0 THEN "write_log" ELSE "end_commit")
     \/ /\ ~committing /\ outstanding' # 0
        /\ WakeAndGoto(p, "idle")
        /\ UNCHANGED committing
  /\ UNCHANGED <<diskVars, bufVars, n, sector, blk, idx, mine, raced>>

-----------------------------------------------------------------------------
\* One turn of write_log's loop.
write_log(p) ==
  /\ pc[p] = "write_log" /\ idx[p] < n
  /\ dlog' = [dlog EXCEPT ![idx[p]] = cache[sector[idx[p]]]]
  /\ idx' = [idx EXCEPT ![p] = @ + 1]
  /\ UNCHANGED <<disk, dn, dsector, bufVars, logVars, pc, blk, mine, raced>>

\* Mutant: the header may be written before the log blocks.
write_head_early(p) ==
  /\ pc[p] = "write_log"
  /\ dn' = n
  /\ dsector' = [k \in Slot |-> IF k < n THEN sector[k] ELSE dsector[k]]
  /\ idx' = [idx EXCEPT ![p] = 0]
  /\ Goto(p, "install")
  /\ UNCHANGED <<disk, dlog, bufVars, logVars, blk, mine, raced>>

\* The header of the whole transaction: the commit point.
write_head(p) ==
  /\ pc[p] = "write_log" /\ idx[p] >= n
  /\ dn' = n
  /\ dsector' = [k \in Slot |-> IF k < n THEN sector[k] ELSE dsector[k]]
  /\ idx' = [idx EXCEPT ![p] = 0]
  /\ Goto(p, "install")
  /\ UNCHANGED <<disk, dlog, bufVars, logVars, blk, mine, raced>>

\* One turn of install_trans' loop; bwrite clears B_DIRTY.
install_trans(p) ==
  /\ pc[p] \in {"install", "recover"} /\ idx[p] < n
  /\ cache' = [cache EXCEPT ![sector[idx[p]]] = dlog[idx[p]]]
  /\ disk' = [disk EXCEPT ![sector[idx[p]]] = dlog[idx[p]]]
  /\ dirty' = dirty \ {sector[idx[p]]}
  /\ idx' = [idx EXCEPT ![p] = @ + 1]
  /\ UNCHANGED <<dn, dsector, dlog, logVars, pc, blk, mine, raced>>

EraseLog(p) ==
  /\ idx[p] >= n
  /\ n' = 0 /\ dn' = 0
  /\ idx' = [idx EXCEPT ![p] = 0]
  /\ UNCHANGED <<disk, dsector, dlog, bufVars, sector, outstanding, committing,
                 blk, mine, raced>>

commit_erase(p) ==
  /\ pc[p] = "install"
  /\ EraseLog(p)
  /\ Goto(p, "end_commit")

\* Mutant: the wakeup after the commit is forgotten.
end_commit_silent(p) ==
  /\ pc[p] = "end_commit"
  /\ committing' = FALSE
  /\ Goto(p, "idle")
  /\ UNCHANGED <<diskVars, bufVars, n, sector, outstanding, blk, idx, mine, raced>>

\* end_op after commit() has returned.
end_commit(p) ==
  /\ pc[p] = "end_commit"
  /\ committing' = FALSE
  /\ WakeAndGoto(p, "idle")
  /\ UNCHANGED <<diskVars, bufVars, n, sector, outstanding, blk, idx, mine, raced>>

-----------------------------------------------------------------------------
\* recover_from_log, run by the first process of a boot (forkret, initlog).
read_head(p) ==
  /\ pc[p] = "read_head"
  /\ n' = dn
  /\ sector' = [k \in Slot |-> IF k < dn THEN dsector[k] ELSE sector[k]]
  /\ Goto(p, "recover")
  /\ UNCHANGED <<diskVars, bufVars, outstanding, committing, blk, idx, mine, raced>>

recover_erase(p) ==
  /\ pc[p] = "recover"
  /\ EraseLog(p)
  /\ pc' = [q \in Proc |-> "idle"]

\* bget recycles a buffer that is neither B_BUSY nor B_DIRTY: the next bread
\* of the block returns what the disk holds.
Evict(b) ==
  /\ b \notin dirty \cup Held
  /\ cache' = [cache EXCEPT ![b] = disk[b]]
  /\ UNCHANGED <<diskVars, dirty, logVars, procVars, raced>>

\* Power fails: memory is lost, and the machine boots with process p first.
Crash(p) ==
  /\ pc' = Boot(p)
  /\ cache' = disk /\ dirty' = {}
  /\ n' = 0 /\ sector' = [k \in Slot |-> Block0]
  /\ outstanding' = 0 /\ committing' = FALSE
  /\ blk' = [q \in Proc |-> Block0]
  /\ idx' = [q \in Proc |-> 0]
  /\ mine' = [q \in Proc |-> {}]
  /\ UNCHANGED <<diskVars, raced>>

log_write(p) == log_write_scan(p) \/ log_write_put(p) \/ log_write_cmp(p)
                \/ log_write_inc(p)
commit(p) == write_log(p) \/ write_head(p) \/ install_trans(p) \/ commit_erase(p)
             \/ end_commit(p)
recover(p) == read_head(p) \/ recover_erase(p)

Next ==
  \/ \E p \in Proc : \/ begin_op(p) \/ log_write(p) \/ end_op(p)
                     \/ commit(p) \/ recover(p) \/ Crash(p)
  \/ \E p \in Proc, b \in Block, v \in Val : Modify(p, b, v)
  \/ \E b \in Block : Evict(b)

Spec == Init /\ [][Next]_vars

\* A process that is not asleep keeps running, and an operation writes a
\* bounded number of blocks, so it reaches its end_op.
Fairness ==
  \A p \in Proc : /\ WF_vars(log_write(p) \/ commit(p) \/ recover(p))
                  /\ WF_vars(pc[p] = "begin" /\ begin_op(p))
                  /\ SF_vars(end_op(p))

FairSpec == Spec /\ Fairness

-----------------------------------------------------------------------------
\* What a reboot at this moment would bring back: the logged blocks of a
\* committed transaction over the home blocks.
Recovered ==
  [b \in Block |-> IF \E k \in 0 .. dn-1 : dsector[k] = b
                   THEN dlog[CHOOSE k \in 0 .. dn-1 : dsector[k] = b]
                   ELSE disk[b]]

Atomic == INSTANCE AtomicDisk WITH view    <- IF Up THEN cache ELSE Recovered,
                                   durable <- Recovered,
                                   active  <- Active

\* log.c:8, "Simple logging that allows concurrent FS system calls": the log
\* implements an atomic disk whatever the interleaving of the operations.
AtomicSpec == Atomic!Spec

\* The log implements an atomic disk as long as no two log_write calls have
\* overlapped: what a crash at any step leaves is the state at the last commit,
\* which happened when no operation was active.
AtomicUnlessRaced == Atomic!Init /\ [][raced' \/ Atomic!Next]_(Atomic!vars)

\* log.c:11-14, "The logging system only commits when there are no FS system
\* calls active": no process is between begin_op and end_op while another one
\* commits, there is one committer, and outstanding counts the operations.
CommitQuiescent ==
  /\ outstanding = Cardinality(Active)
  /\ committing => Active = {}
  /\ \A p, q \in Proc : pc[p] \in InCommit /\ pc[q] \in InCommit => p = q
  /\ committing <=> \E p \in Proc : pc[p] \in InCommit

\* begin_op's reservation suffices: no operation ever runs into log_write's
\* "too big a transaction" or "log_write outside of trans", or end_op's
\* "log.committing".
NoPanic == \A p \in Proc : pc[p] # "panic"

\* A process sleeps in begin_op only while somebody is bound to wake it: an
\* operation that will call end_op, or a commit in progress.
SleeperHasWaker ==
  (\E p \in Proc : pc[p] = "sleep") => committing \/ outstanding > 0

\* A block whose cached contents differ from its home on disk is pinned by
\* B_DIRTY or held by its user, so recycling its buffer cannot lose it.
ModifiedIsPinned ==
  \A b \in Block : cache[b] # disk[b] => b \in dirty \cup Held \/ ~Up

\* A process that went to sleep in begin_op, for room or for a commit, is woken.
SleeperIsWoken == \A p \in Proc : pc[p] = "sleep" ~> pc[p] # "sleep"
=============================================================================
