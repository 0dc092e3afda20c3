------------------------------ MODULE BufCache ------------------------------
(***************************************************************************)
(* bio.c over ide.c: NBUF buffers in a list ordered by last release, the   *)
(* queue of requests of the driver, and the drive itself (external).  The  *)
(* sections under bcache.lock and idelock are atomic; between them other   *)
(* processes and the interrupt run.  bget and iderw sleep on the same      *)
(* channel, the buffer, and wakeup wakes both kinds of sleeper.            *)
(*                                                                         *)
(* A handle is a local variable of a process that can hold a buffer: bmap, *)
(* itrunc, write_log and install_trans read a second block while they have *)
(* a first one.  They take a log block before any other, and the indirect  *)
(* block of a file before bitmap, superblock and new block.                *)
(***************************************************************************)
EXTENDS Naturals, Sequences, FiniteSets, Functions

CONSTANTS Handle, Owner,        \* the process of a handle
          Rank,                 \* of a sector: log block, indirect block, other
          Sector, NoSector, Val, Lost,
          NBUF,
          MaxPinned     \* bound: buffers log.c keeps dirty at a time

VARIABLES
  lru,                          \* the list, most recently used first
  sector, busy, valid, dirty, data,     \* struct buf
  idequeue,
  drive, disk,                  \* the command the drive works on; its sectors
  pc, b, want,                  \* each handle, its buffer, the sector asked for
  failed                        \* history: sectors the drive failed to transfer

flags == <<busy, valid, dirty>>
hw    == <<idequeue, drive, disk, failed>>
vars  == <<lru, sector, flags, data, hw, pc, b, want>>

Buf     == 1 .. NBUF
Holding == {"held", "iderw", "io_sleep", "io_woken"}

TypeOK ==
  /\ lru \in [Buf -> Buf] /\ IsInjective(lru)
  /\ sector \in [Buf -> Sector \cup {NoSector}] /\ data \in [Buf -> Val]
  /\ {busy, valid, dirty} \subseteq SUBSET Buf
  /\ idequeue \in Seq(Buf) /\ IsInjective(idequeue)
  /\ disk \in [Sector -> Val]
  /\ pc \in [Handle -> {"user", "bget", "bget_sleep", "panic"} \cup Holding]
  /\ b \in [Handle -> Buf \cup {0}] /\ want \in [Handle -> Sector \cup {NoSector}]

Idle == [st |-> "idle", wr |-> FALSE, s |-> NoSector, v |-> Lost]

\* binit: no buffer has a block; the last one is at the head of the list.
Init ==
  /\ lru = [k \in Buf |-> NBUF + 1 - k]
  /\ sector = [x \in Buf |-> NoSector] /\ \E v \in Val : data = [x \in Buf |-> v]
  /\ busy = {} /\ valid = {} /\ dirty = {}
  /\ idequeue = <<>> /\ drive = Idle /\ disk \in [Sector -> Val] /\ failed = {}
  /\ pc = [p \in Handle |-> "user"]
  /\ b = [p \in Handle |-> 0] /\ want = [p \in Handle |-> NoSector]

Goto(p, l) == pc' = [pc EXCEPT ![p] = l]

\* pc after wakeup(x).
Woken(x) ==
  [q \in Handle |-> IF b[q] = x /\ pc[q] = "bget_sleep" THEN "bget"
                    ELSE IF b[q] = x /\ pc[q] = "io_sleep" THEN "io_woken" ELSE pc[q]]

-----------------------------------------------------------------------------
Beside(p) == {q \in Handle \ {p} : Owner[q] = Owner[p]}
\* The process of p is not inside bread or bwrite with another handle.
Free(p) == \A q \in Beside(p) : pc[q] \in {"user", "held"}

\* Mutant: the blocks are read in any order.
bread_unordered(p, s) ==
  /\ pc[p] = "user" /\ Free(p)
  /\ want' = [want EXCEPT ![p] = s] /\ Goto(p, "bget")
  /\ UNCHANGED <<lru, sector, flags, data, hw, b>>

\* A process reads a sector: bread, up to the lock of bget.
bread(p, s) ==
  /\ pc[p] = "user" /\ Free(p)
  /\ \A q \in Beside(p) : pc[q] = "held" => Rank[s] < Rank[want[q]]
  /\ want' = [want EXCEPT ![p] = s] /\ Goto(p, "bget")
  /\ UNCHANGED <<lru, sector, flags, data, hw, b>>

\* bget takes buffer x, and bread goes to the disk unless it is valid.
Take(p, x, ok) ==
  /\ busy' = busy \cup {x} /\ b' = [b EXCEPT ![p] = x]
  /\ Goto(p, IF ok THEN "held" ELSE "iderw")

Cached(s) == {x \in Buf : sector[x] = s}

bget_hit(p) ==
  /\ pc[p] = "bget"
  /\ \E x \in Cached(want[p]) \ busy : Take(p, x, x \in valid)
  /\ UNCHANGED <<lru, sector, valid, dirty, data, hw, want>>

bget_sleep(p) ==
  /\ pc[p] = "bget"
  /\ \E x \in Cached(want[p]) \cap busy : b' = [b EXCEPT ![p] = x]
  /\ Goto(p, "bget_sleep")
  /\ UNCHANGED <<lru, sector, flags, data, hw, want>>

\* The scan from the tail of the list for a buffer that is in none of `skip`.
Recycle(p, skip) ==
  LET free == {k \in Buf : lru[k] \notin skip} IN
  /\ pc[p] = "bget" /\ Cached(want[p]) = {} /\ free # {}
  /\ LET x == lru[CHOOSE k \in free : \A j \in free : j <= k]
     IN  /\ sector' = [sector EXCEPT ![x] = want[p]]
         /\ valid' = valid \ {x} /\ dirty' = dirty \ {x}
         /\ Take(p, x, FALSE)
  /\ UNCHANGED <<lru, data, hw, want>>

\* Mutant: a buffer that the log has not written can be recycled.
bget_recycle_dirty(p) == Recycle(p, busy)

bget_recycle(p) == Recycle(p, busy \cup dirty)

NoBuffer(p, free) ==
  /\ pc[p] = "bget" /\ Cached(want[p]) = {} /\ free \subseteq busy \cup dirty
  /\ Goto(p, "panic")
  /\ UNCHANGED <<lru, sector, flags, data, hw, b, want>>

\* Mutant: only the tail of the list is looked at.
bget_panic_tail(p) == NoBuffer(p, {lru[NBUF]})

bget_panic(p) == NoBuffer(p, Buf)

bget(p) == bget_hit(p) \/ bget_sleep(p) \/ bget_recycle(p) \/ bget_panic(p)

\* The holder changes the data and, in bwrite, writes it to the disk.
bwrite(p, v) ==
  /\ pc[p] = "held" /\ Free(p) /\ Goto(p, "iderw")
  /\ data' = [data EXCEPT ![b[p]] = v] /\ dirty' = dirty \cup {b[p]}
  /\ UNCHANGED <<lru, sector, busy, valid, hw, b, want>>

\* log_write (log.c): the buffer is dirty until the commit writes it.
log_write(p, v) ==
  /\ pc[p] = "held" /\ Free(p) /\ Cardinality(dirty \cup {b[p]}) <= MaxPinned
  /\ data' = [data EXCEPT ![b[p]] = v] /\ dirty' = dirty \cup {b[p]}
  /\ UNCHANGED <<lru, sector, busy, valid, hw, pc, b, want>>

\* The list without the buffer, which is taken out of its place.
Without(l, k) == SubSeq(l, 1, k - 1) \o SubSeq(l, k + 1, Len(l))
Others(p) == Without(lru, CHOOSE k \in Buf : lru[k] = b[p])

Release(p, waking) ==
  /\ pc[p] = "held" /\ Free(p)
  /\ lru' = <<b[p]>> \o Others(p) /\ busy' = busy \ {b[p]}
  /\ pc' = [waking EXCEPT ![p] = "user"]
  /\ b' = [b EXCEPT ![p] = 0] /\ want' = [want EXCEPT ![p] = NoSector]
  /\ UNCHANGED <<sector, valid, dirty, data, hw>>

\* Mutant: no wakeup.
brelse_silent(p) == Release(p, pc)

brelse(p) == Release(p, Woken(b[p]))

-----------------------------------------------------------------------------
\* idestart: the drive gets the command and, for a write, the data.
Command(x) == [st |-> "busy", wr |-> x \in dirty, s |-> sector[x], v |-> data[x]]

\* iderw, up to its sleep; the request is not done before the lock is released.
iderw(p) ==
  /\ pc[p] = "iderw" /\ Goto(p, "io_sleep")
  /\ idequeue' = Append(idequeue, b[p])
  /\ drive' = IF idequeue = <<>> THEN Command(b[p]) ELSE drive
  /\ UNCHANGED <<lru, sector, flags, data, disk, failed, b, want>>

\* The while loop of iderw, after a wakeup.
iderw_wait(p) ==
  /\ pc[p] = "io_woken"
  /\ Goto(p, IF b[p] \in valid \ dirty THEN "held" ELSE "io_sleep")
  /\ UNCHANGED <<lru, sector, flags, data, hw, b, want>>

\* The drive (external): transfers the sector, or reports an error.
transfer ==
  /\ drive.st = "busy"
  /\ disk' = IF drive.wr THEN [disk EXCEPT ![drive.s] = drive.v] ELSE disk
  /\ drive' = [drive EXCEPT !.st = "done", !.v = disk'[drive.s]]
  /\ UNCHANGED <<lru, sector, flags, data, idequeue, failed, pc, b, want>>

error ==
  /\ drive.st = "busy" /\ drive' = [drive EXCEPT !.st = "error"]
  /\ failed' = failed \cup {drive.s}
  /\ UNCHANGED <<lru, sector, flags, data, idequeue, disk, pc, b, want>>

\* ideintr: an error leaves the old data in a buffer that becomes valid.
ideintr ==
  /\ drive.st \in {"done", "error"} /\ idequeue # <<>>
  /\ LET x == Head(idequeue) IN
       /\ data' = IF x \notin dirty /\ drive.st = "done"
                    THEN [data EXCEPT ![x] = drive.v] ELSE data
       /\ valid' = valid \cup {x} /\ dirty' = dirty \ {x}
       /\ pc' = Woken(x)
  /\ idequeue' = Tail(idequeue)
  /\ drive' = IF Len(idequeue) > 1 THEN Command(idequeue[2]) ELSE Idle
  /\ UNCHANGED <<lru, sector, busy, disk, failed, b, want>>

Next ==
  \/ \E p \in Handle :
       \/ \E s \in Sector : bread(p, s)
       \/ bget(p) \/ iderw(p) \/ iderw_wait(p) \/ brelse(p)
       \/ \E v \in Val : bwrite(p, v) \/ log_write(p, v)
  \/ transfer \/ error \/ ideintr

Spec == Init /\ [][Next]_vars

-----------------------------------------------------------------------------
\* bio.c implements blocks with one holder each: a value written by bwrite or
\* log_write is never lost to an eviction, a slow transfer or a reordered
\* request, and no two processes hold a sector, even when a sleeper of bget
\* wakes up to a buffer that was recycled for another sector.
Mem == [s \in Sector |->
          IF s \in failed THEN Lost
          ELSE IF \E x \in valid : sector[x] = s
                 THEN data[CHOOSE x \in valid : sector[x] = s] ELSE disk[s]]
Holders == [s \in Sector |-> {p \in Handle : pc[p] \in Holding /\ sector[b[p]] = s}]
Cache == INSTANCE Blocks WITH Proc <- Handle, mem <- Mem, holders <- Holders
OneCopyStep == [Cache!Next]_<<Mem, Holders>>
IsOneCopy == Cache!Spec

\* What bread returns is the sector that was asked for, and is held.
HeldIsWanted ==
  \A p \in Handle : pc[p] \in Holding =>
    sector[b[p]] = want[p] /\ b[p] \in busy /\ (pc[p] = "held" => b[p] \in valid)

\* The drive works on the head of the queue: the interrupt finishes the request
\* that it answers (iderw starts only an empty queue, ideintr the next one).
DriveServesHead ==
  /\ drive.st = "idle" <=> idequeue = <<>>
  /\ idequeue # <<>> => /\ drive.s = sector[Head(idequeue)]
                        /\ drive.wr <=> Head(idequeue) \in dirty

\* bget runs out of buffers only when each of them is in use by a process, one
\* or two for each, or pinned by the log: no path leaves a buffer busy.
Suffices ==
  \A p \in Handle : bget_panic(p) =>
    Cardinality(dirty \ busy) + Cardinality({q \in Handle : pc[q] \in Holding}) >= NBUF
BuffersSuffice == [][Suffices]_vars

\* Nobody sleeps for good: who waits for a transfer has its request in the
\* queue, and who waits for a buffer has one that another process will release,
\* although both kinds of sleeper are woken by both brelse and ideintr.
SleeperHasWaker ==
  \A p \in Handle :
    /\ pc[p] = "io_sleep" => b[p] \in Range(idequeue)
    /\ pc[p] = "bget_sleep" => \E q \in Handle : pc[q] \in Holding /\ b[q] = b[p]

\* No circle of processes that each hold a buffer the next one sleeps for: of
\* any sleepers, one waits for a process that is not among them.
NoCircle ==
  \A S \in SUBSET {p \in Handle : pc[p] = "bget_sleep"} : S # {} =>
    \E p \in S : \A q \in Handle : pc[q] \in Holding /\ b[q] = b[p] =>
      \A k \in S : Owner[k] # Owner[q]

\* The cache and the queue of requests are sound: all of the above.
CacheSound == TypeOK /\ HeldIsWanted /\ DriveServesHead /\ SleeperHasWaker /\ NoCircle
=============================================================================
