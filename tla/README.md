# A TLA+ development for the xv6 kernel with signals

xv6 is a small multiprocessor Unix kernel in C. This repository adds a `signal`
system call and the delivery of SIGFPE to it. The modules here model the system
from its source, from the disk driver to the shell. TLC checks them on small
instances. TLAPS proves the main properties of the log, the process table, the
pipes, the signals, the buffer cache, the spin locks and the console's input for
all instances.

`PROJECT.json` lists every part of the system with its status, the source lines
behind every definition, and the hazards with the line where each bites.

## The system and its modules

| Part | Module | Promise | Proofs |
|---|---|---|---|
| write-ahead log (`log.c`) | `Log` | `AtomicDisk` | `LogProofs` |
| process table (`proc.c`, `trap.c`) | `Proc` | | `ProcProofs` |
| pipes (`pipe.c`, `file.c`) | `Pipe` | `Fifo` | `PipeProofs` |
| signals (`trap.c`, `sysproc.c`, `restorer.h`) | `Signal` | | `SignalProofs` |
| buffer cache and disk driver (`bio.c`, `ide.c`) | `BufCache` | `Blocks` | `BufCacheProofs` |
| spin locks, timer, context switch (`spinlock.c`, `proc.c`, `trap.c`) | `Cpu` | | `CpuControlProofs`, `CpuProofs` |
| inode cache, inodes and blocks (`fs.c`) | `Inode` | | |
| directories and path names (`fs.c`, `sysfile.c`) | `Directory` | | |
| open files and descriptors (`file.c`, `sysfile.c`) | `FileTable` | | |
| pages and address spaces (`kalloc.c`, `vm.c`, `exec.c`) | `Memory` | | |
| console input (`console.c`) | `Console` | | `ConsoleProofs` |
| text screen (`console.c`) | `Screen` | | |
| keyboard (`kbd.c`) | `Keyboard` | | |
| start of the processors (`main.c`, `entryother.S`) | `Boot` | | |
| `malloc` (`umalloc.c`) | `Malloc` | | |
| file system image (`mkfs.c`) | `Mkfs` | | |
| shell (`sh.c`) | `ShellParse`, `Shell` | `Grammar` in `ShellParse` | |
| string routines (`string.c`, `ulib.c`, `printf.c`, `fs.c`, `grep.c`) | `Strings` | reference definitions in `Strings` | |

A module in the column "Promise" is an abstract specification, and a run shows
that the detailed one implements it.

The parts meet in a few places. Every file system call is an operation of the
log. The log relies on the cache to keep a dirty buffer, which is `Evict` in
`Log` and the pin in `BufCache`. `Directory` takes as one step a section between
`ilock` and `iunlock` and an `iput`, which `Inode` models in detail. Everything
that waits uses `sleep` and `wakeup`: `Proc` has them over the process table,
`Cpu` with the locks and the interrupt flags below them. `fork` and `exit` move
references to files (`FileTable`), hence to pipes (`Pipe`). The handler table
lives in a process slot and is initialised by `allocproc`.

### Conventions

Definitions keep the names of the functions they model. A function that holds no
lock throughout becomes several actions, in the order of its statements, and a
variable `pc` says where each process is. A section under a lock is one action,
or, in `Pipe` and `Cpu`, several with the lock in a variable. History variables
are marked as such; no step depends on them.

An operator whose comment begins with "Mutant" is a faulty version of the
definition that follows it, such as a dropped guard or an off-by-one. It belongs
to no specification. Substituted for the original it breaks one property, which
shows that the property says something about that code.

### Log

`disk`, `dn`, `dsector` and `dlog` are the home blocks, the header and the log
blocks on disk; `cache` and `dirty` are the buffers; `n`, `sector`,
`outstanding` and `committing` are `struct log`; `pc`, `blk` and `idx` are the
place and the locals of each process. `mine` counts what an operation has
written. `raced` is a history variable that becomes true when two `log_write`
calls overlap.

`begin_op`, `end_op` and the end of a commit are sections under `log.lock`.
`log_write` holds no lock. Its scan, its store to `sector`, its comparison with
`n` and its increment are separate actions, and the increment is a load and a
store (the kernel is built with -O0). `Modify` is the caller's change; `Evict` is
`bget` recycling a clean buffer. `Crash` may happen at any time, in recovery too,
and loses everything but the disk. A write of one block is atomic, and the header
is one block.

`AtomicDisk` has what the running system sees and what a crash would leave. The
refinement mapping takes for the second what recovery would make of the present
disk (`Recovered`).

### Proc

`state`, `pid`, `parent`, `killed` and `chan` are fields of `struct proc`; `np` is
`fork`'s local. `targets` is a history variable with the pids that were killed by
name or by a fault. `sys_block`, `block_test`, `block_return` and `sleep` stand
for the calls that test for an event, test `killed` and sleep. The scan order of
the table is abstracted, so any free slot may be taken and any zombie reaped.
`fork_fail` is the failure of `kalloc` or of `copyuvm`.

### Signal

One slot and the processes that use it in turn. The registers are those that the
kernel, the handler and the restorer touch, and the user stack is an array of
words. A fault is identified by the address of the instruction that follows it.
`trap_divide` stores the seven words of `trap.c`; `handle_signal` and `restorer`
begin with the prologue gcc emits, which moves the frame pointer and therefore
matters to the offsets. `handler_return` leaves arbitrary values in eax, ecx and
edx, as a C function may. `frames` and `registered` are history variables.
`allocproc` resets entries 0 to 255 and leaves entry 256, so a process may start
with the restorer of the one that had its slot before; the model has this
behaviour, and `HandlersOwn` is about the other entries.

### Pipe

`struct pipe` with its lock, the descriptors of each process, `killed`, and for
each process its place and the `n` and `i` of its call. `filedup` gives a new
process a copy of the descriptors; the last `fileclose` goes on to `pipeclose`.
`kill` does not need the pipe's lock, so it can fall between any two steps.
`aborted` is a history variable that is true once a killed writer has given up
on this pipe.

### BufCache

`lru` is the list of `bcache`, `sector`, `busy`, `valid`, `dirty` and `data` are
the fields of `struct buf`, and `idequeue` is the driver's queue. `drive` is the
controller, which is external: a request is under way, done or has failed, and a
failure makes the sector `failed`, a history variable. The sections under
`bcache.lock` and `idelock` are atomic. `bget` and `iderw` sleep on the same
channel, the buffer, so `brelse` and `ideintr` wake both kinds of sleeper, and
`bget` retries.

`bmap`, `itrunc`, `write_log` and `install_trans` read a second block while they
hold a first one. A `Handle` is therefore a local variable of a process that can
hold a buffer, and `Owner` says of which process; the handles of one process move
one at a time (`Free`). The guard of `bread` has the order in which those
functions take blocks: a log block before any other (`write_log`,
`install_trans`), the indirect block of a file before bitmap, super block and new
block (`bmap` over `balloc`, `itrunc` over `bfree`). `Rank` numbers these three
classes, and a process asks only for a lower rank than it holds. Without this
order there is a circle of waiting processes (mutant `bread_unordered`).

### Cpu

`ncli`, `intena`, `ints` (the flag IF) and `run` belong to a processor; `lock` has
the processor that holds `tickslock` and `ptable.lock`. A thread is a process or
a scheduler, and `stk` is its stack: the place it is at and, below, the place
where the timer interrupt found it. `sched` keeps `intena` in `saved`. `ticks` is
unsigned and wraps.

### The other parts of the kernel

* `Inode`: the inode cache under `icache.lock`, inodes and bitmap on disk, and the
  calls of `sysfile.c` on one directory. A file is a sequence of blocks; the ones
  past NDIRECT are listed in its indirect block. When every entry of the cache is
  referenced, `iget` panics and keeps `icache.lock` (`Locked`), so that nobody
  passes that lock any more.
* `Directory`: `namex`, `dirlookup`, `dirlink` and the calls that use them on a
  tree. A path is chosen as it is walked, so paths of all lengths are covered.
  `create` and `link` do not test whether the directory that `nameiparent`
  returned has been removed since. The history variable `lost` counts, for each
  inode, the names that went with such a directory when it was freed; `nlink` is
  too high by exactly that much. A removed directory in which a process still
  stands has a `..` that may lead to a freed inode, and `ilock` then panics; the
  model has this behaviour, and `NoDangling` says it is the only such entry.
* `FileTable`: `ftable` and the descriptors with all failure paths, over one inode
  and one pipe. The shared offset is read and written in separate steps.
* `Memory`: the free list as its length; an address space has its directory, its
  page tables, its mapped pages and the ones with PTE_U. Every `kalloc` can fail.
  `loaduvm` can fail after each segment. The segments of `Images` start on a page,
  as the linker's do, so its alignment panic is out of reach here.
  `torn` records that `setupkvm` failed half way: it returns 0 and gives nothing
  back, so the pages it had are lost, and `PagesConserved` excepts this case.
* `Console`: the ring with its three unsigned indices, the editing keys and the
  readers. `Screen`: `cgaputc` against an endless tape. The echo of a key runs
  under `input.lock` and other output under `cons.lock`, so a call is two steps,
  the read of the cursor and the rest, and two calls may overlap; the history
  variable `overlap` records it. `Keyboard`: `kbdgetc` against the keys that are
  really held. The two keys of a kind share a flag: with both held, releasing one
  clears it, and the history variable `last` follows that.
* `Boot`: `startothers`, the words below the entry code, and the two phases of the
  page allocator.

### The programs

* `Malloc`: the circular free list over a heap of header-sized units.
* `Mkfs`: `iappend`, `balloc` and the order of `main`; the image is read back with
  the kernel's own `bmap`.
* `ShellParse`: the recursive descent and `nulterminate`, compared with a grammar.
  `Shell`: `runcmd` with forks, pipes, redirections and waits, for one line.
* `Strings`: one call per behaviour, compared with a reference definition:
  `memmove`, path elements and directory names, `printint`, `printf` and
  `cprintf`, and `grep`'s matcher.

## Runs

| Run | Module | Checks | Instance |
|---|---|---|---|
| `log_atomic` | `MCLog` | `ModifiedIsPinned`, `AtomicUnlessRaced` | 2 processes, 3 blocks, 2 values, 2 blocks per operation |
| `log_live` | `MCLog` | `CommitQuiescent`, `SleeperHasWaker`, `SleeperIsWoken` | the same with 1 block per operation, races included |
| `proc` | `MCProc` | `TypeOK`, `HasLiveParent`, `WaitSleeperJustified`, `EmbryoOwned`, `PidsDistinct`, `OrphanReaped` | init and 2 slots, 1 processor preempted anywhere, pids up to 3 |
| `pipe_queue` | `MCPipe` | `TypeOK`, `NoUseAfterFree`, `SleepJustifiedUnlessAborted`, `IsFifo`, `EndOfFile`, `BlockedIsWoken` | 2 processes, 2 byte values, PIPESIZE 2, counters modulo 4, calls of 1 and 3 bytes |
| `calls` | `MCCalls` | 5 properties, below | below |
| `kernel` | `MCKernel` | 8 properties, below | below |
| `system` | `MCSystem` | 10 properties, below | below |
| `log_race` | `MCLog` | `AtomicSpec` is violated | 2 processes |
| `log_reserve` | `MCLog` | `NoPanic` is violated | 3 processes, LOGSIZE 3, MAXOPBLOCKS 1 |
| `proc_stalekill` | `MCProc` | `KilledWasTarget` is violated | init and 2 slots, 2 processors |
| `signal_resume` | `MCSignal` | `ResumesAfterFault` is violated | a program with two divisions |
| `pipe_lostwakeup` | `MCPipe` | `SleepJustified` is violated | 2 processes |

`MCCalls`, `MCKernel` and `MCSystem` put several parts that share no state into
one state graph. The variable `part` says which part a behaviour runs, and nothing
else changes. Each of the three modules extends one part, `Signal`, `Console` and
`BufCache`, whose variables keep initial values while another part runs: the run
then checks the very definitions that the theorems are about. The other parts are
INSTANCEs over the variables `x1`, `x2` and so on. A property of theirs has the
form `part = "cpu" => Cpu!LockingSound`; it joins the properties of one part that
answer one question, and each conjunct has its own definition and comment in the
part's module.

| Property of `calls` | What it joins | Instance |
|---|---|---|
| `HandlersOwn`, `HandlerReturns` | only own handlers; the restorer reached (`ReachesRestorer`) and the registers restored (`Restores`) | 2 values, 18 words of stack |
| `InodesSound` | `CacheCoherent`, `BlocksOwned`, `LinksCounted`, `SleeperHasHolder`, `fs.c` panics only when inodes, blocks or cache entries are all in use (`PanicsWhenFull`) | 2 processes, 2 names, 2 inodes, 3 blocks, 1 direct and 1 indirect; with 2 cache entries and with 1 |
| `NamesSound` | `NoDangling`, `LinkCountExact`, `IsTree` | 2 processes, 2 names, 3 inodes |
| `UnlinksNeverCross` | no two calls of `unlink` wait for each other's directory | the same |

| Property of `kernel` | What it joins | Instance |
|---|---|---|
| `AddressSpacesSound` | no page lost or freed twice (`PagesConserved`), `SizeBacked`, none of the panics that `NoPanic` names | 2 processes, 17 page frames, page tables of 2 entries, programs of one segment (1 and 9 bytes) and of two (up to 1 and 3) on pages of 2 |
| `ForkCopies` | `fork` gives the child the pages of its parent with the same protection | the same |
| `LockingSound` | no panic of `spinlock.c` and `sched`, `NcliCountsLocks`, `IntenaFollows`, `NoMissedTick` | 2 processors, 2 processes, a clock that wraps at 2 |
| `RingSound` | `RingInOrder`, `SleepJustified` | 2 readers, ring of 2, indices modulo 4 |
| `CommittedIsQueue` | committed characters are read once, in order | the same |
| `TerminalSound` | `ShowsLastRows`; `ModifiersFollowKeys` | a screen of 2 by 2 and 10 characters, two sources of output; six modifier keys, caps lock and a letter |
| `StacksSound` | `OwnStack`, `StackMapped` | 3 processors, 3 low pages of 4 |
| `FilesSound` | `RefsExact`, `ObjectsExact`, `EachByteOnce` | 2 processes, 2 descriptors each, 3 open files, a file of 2 units |

| Property of `system` | What it joins | Instance |
|---|---|---|
| `CacheSound`, `BuffersSuffice`, `IsOneCopy` | the right sector to the right process, the drive and its queue, no forgotten sleeper; no leak of buffers; `BufCache` implements `Blocks` | 2 processes, 2 buffers, 3 sectors, 1 pinned |
| `NestedReads` | `CacheSound`, with no circle of waiting processes (`NoCircle`), and no leak of buffers, for processes that hold two buffers | 2 processes with 2 handles, 2 buffers, a sector of each rank |
| `NoLogPanic` | `begin_op` reserves enough when an operation stays below its limit | 2 processes, LOGSIZE 4; MAXOPBLOCKS 2 with 1 block per operation, and 3 with 2 |
| `ImageSound` | the image has no block twice and reads back as written | up to 2 files of 6 sizes on blocks of 4 bytes |
| `HeapSound` | heap partitioned, free list in order and coalesced | 12 units, requests that take 2, 3 and 5, 3 calls of `sbrk` |
| `ParsesLine` | the parser is the grammar; words end where they should | every line of up to 4 characters, and 11 longer ones |
| `JobsSound` | descriptors, foreground, no pipeline that waits for itself | 11 lines, 8 processes, 3 pipes |
| `StringsSound` | the five reference definitions | names of 2 characters, numbers of 9 bits, every string up to 3 to 5 characters |

The runs that end in a violation are the places where the code does not do what
a comment of the repository says.

* **Two `log_write` calls can lose a block.** The header is shared and
  `log_write` takes no lock, although `log.c` begins "Simple logging that allows
  concurrent FS system calls". Two calls may pick the same entry; one block is
  then not logged, and a crash can keep half of an operation. The theorem
  `LogIsAtomic` shows that there is no other way: recovery is atomic as long as
  no two calls overlap.
* **The log is one block too short.** `begin_op` admits operations that write up
  to LOGSIZE blocks together; `log_write` panics at `log.size - 1`, and `mkfs`
  makes `log.size` equal to LOGSIZE. `NoLogPanic` shows that smaller operations
  are safe.
* **A kill can hit a free slot.** `kill` compares only the pid, `allocproc` does
  not clear `killed`, and a failed `fork` leaves its pid behind.
* **A handler resumes at 0x74.** The constant is right for one binary.
* **A killed writer may leave readers asleep on a full pipe.** This way out of
  `pipewrite` performs no wakeup. When the writer was the last one, its exit
  closes the pipe and wakes them; when another process holds the write end, they
  sleep on.

### Why the bounds are enough

Two processes are needed for every race here and suffice for those of the log
header, of the inode and of the directory; three are needed in `log_reserve`,
where two operations fill the log and a third does not fit. Two processes that
hold both ends of a pipe are two readers and two writers: one sleeps in
`piperead`, the other writes, wakes it and takes the bytes back first. A pipe of
two bytes is full and empty often, and calls longer than the pipe must block.
Every unsigned counter is modulo a small power of two that is a multiple of the
size of its ring, as 2^32 is of the real ones, so it wraps often. Two buffers for
three sectors are recycled all the time, and one of them can be pinned. Seventeen
page frames are enough for some calls of `fork` and `exec` and not for others, so
every failure path is taken. Three processors are the boot processor and two that
must not share a stack. Eighteen words of stack hold two frames, so one fault
inside a handler. Every bound is an argument of its module: MaxPid, OpBlocks,
Length, StackTop, MaxPinned, MAXTAPE and HEAP are bounds of the models only.

`log_atomic` and the log in `system` stop at the first race (`NoRaceYet`), since
what follows is the subject of `log_race`. `calls` stops when a second name has
been lost with a removed directory (`LostAtMostOne`), and `kernel` at the first
overlap of two calls of `cgaputc` (`NoOverlap`), of which nothing is promised: both
may put their character at one place, or scroll twice.
Symmetry of processes, blocks, sectors, names and values is used in the runs
without liveness properties.

### Fairness

* `Log`: weak fairness of `log_write`, the commit, recovery and a woken
  `begin_op`, since disk requests complete; strong fairness of `end_op`, since an
  operation writes finitely often and then ends. No fairness is assumed of
  `Crash`, or of processes to start operations.
* `Proc`: every RUNNABLE process is eventually chosen (the scheduler goes round
  the table) and timer interrupts recur; a process in the kernel makes its next
  step; init returns to `wait`, as the loop in `init.c` does.
* `Pipe`: weak fairness of the holder of the lock only, since a holder runs with
  interrupts off. Spin locks are not fair, and nothing is assumed of who gets
  one.

The other specifications state no fairness. Where they are about waiting, they
say that a sleeper has somebody who will wake it, which is a safety property.

## Proofs

Every theorem holds for all values of the constants that satisfy the named
assumption. `LogAssumption`, `ProcAssumption` and `PipeAssumption` are in the
modules that declare the constants. `Layout` in `SignalProofs`, and `Params` in
`BufCacheProofs`, `CpuControlProofs` and `ConsoleProofs`, are hypotheses of the
theorems. They say that program, handler and restorer do not overlap, that markers
such as `NoSector` and `Lost` are no sector and no value, that ranks are numbers,
that a process is no processor, and that the console's indices wrap at a larger multiple of the ring's
size, as 2^32 is of 128. Each inductive invariant was checked with TLC on a small
instance before it was proved.

### LogProofs

* `CommitOnlyWhenQuiescent`: `Spec => []CommitQuiescent`;
* `NoSleeperForgotten`: `Spec => []SleeperHasWaker`;
* `OnlyCopyIsPinned`: `Spec => []ModifiedIsPinned`;
* `TypeCorrectUnlessRaced`: `Spec => [](TypeOK \/ raced)`;
* `LogIsAtomic`: `Spec => AtomicUnlessRaced`, the refinement of `AtomicDisk`.

`CtlInv` adds to the first two that `outstanding` counts the processes inside an
operation and `committing` says whether somebody commits; it uses the control
state only. `PinInv` is about cache and disk. These three results hold in the
presence of the race. The refinement needs `DataInv`, which holds until the first
race: the slot a `log_write` works on is the one that has its block or the first
free one (`SlotInv`), what differs from the disk is in the log or held, and the
copies of a committer or of a recovery are exact up to `idx` (`CopyInv`). Every
step then leaves `Recovered` alone, except the write of the header, which is the
commit of `AtomicDisk`. The erasure of the header leaves it alone because the
blocks are home.

### ProcProofs

* `TypeCorrect`: `Spec => []TypeOK`;
* `NoAbandonedProcess`: `Spec => []HasLiveParent`;
* `WaitMissesNothing`: `Spec => []WaitSleeperJustified`;
* `EmbryosOwned`: `Spec => []EmbryoOwned`;
* `PidsNeverShared`: `Spec => []PidsDistinct`.

The first four are one inductive invariant, `IInv`. `EmbryoOwned` says who works
on a slot between `allocproc` and the last line of `fork`; without it a new child
could appear under a process that is leaving, because `fork` writes `parent`
without the lock. `PidInv` adds for the last that every pid in use is below
`nextpid`.

### PipeProofs

* `TypeCorrect`: `Spec => []TypeOK`;
* `NeverUsedAfterFree`: `Spec => []NoUseAfterFree`;
* `NobodySleepsInVain`: `Spec => []SleepJustifiedUnlessAborted`;
* `ZeroIsEndOfFile`: `Spec => EndOfFile`;
* `ImplementsFifo`: `Spec => IsFifo`, the refinement of `Fifo`.

They hold for every PIPESIZE and every UMAX that PIPESIZE divides, which is what
the code relies on when it indexes with an unsigned counter modulo PIPESIZE. The
arithmetic of two wrapping counters is in lemmas of its own (`ByCases`,
`Counting`). `CallInv` says that a process inside a call holds its end,
`EndInv` that an end is open as long as somebody has it or is on the way to close
it, and `SleepInv` that the process about to sleep has tested under the lock. For
the refinement, a write puts its byte where the queue ends, and a read takes the
first and moves none of the others.

### SignalProofs

* `HandlersAreOwn`: `Spec => [](TypeOK /\ HandlersOwn)`;
* `SignalsReturn`: `Spec => HandlerReturns`.

The second is an action property about the return of a handler, which may have
been interrupted by another fault, and of the restorer. `StackInv` ties the place in the code to both
stack pointers: at every place between the fault and the return they are a fixed
number of words below the stack pointer of the last frame, and the words that the
restorer reads are what `trap` stored. One level is enough because `ret` of the
restorer goes to `Resume`, which is in the program and not in a handler; an
interrupted handler is never resumed (`signal_resume` is about that constant).

### BufCacheProofs

* `CacheIsSound`: `Spec => []CacheSound`;
* `ImplementsBlocks`: `Spec => IsOneCopy`, the refinement of `Blocks`;
* `BuffersDoSuffice`: `Spec => BuffersSuffice`, for finitely many handles.

They hold for any number of handles per process. The inductive invariant `Inv` has
seven parts: types, with the LRU list a
permutation; B_BUSY as a lock with one holder who has the sector asked for;
a sector in one buffer only; a request in the queue for exactly the buffers that
have something to transfer, each with one sleeper; a drive that works for the
head of the queue; clean buffers that agree with the disk unless the drive
failed; and processes that are inside `bread` with one handle and ask for a lower
rank than they hold (`NestInv`). `NoCircle` follows from the last: of any sleepers
take one that asks for the lowest rank; the holder of its buffer has that rank, so
a sleeper of the same process would ask for a lower one. The theorem about
`bget: no buffers` counts: every buffer is busy or pinned, and each busy one has
a holder.

### CpuControlProofs and CpuProofs

* `LocksAreSound`: `Spec => []LockingSound`.

`LockingSound` joins the absence of panics, that `ncli` counts the locks and masks
interrupts, that `intena` follows its thread, and that no sleeper misses its tick.
The invariant says that everything a processor holds, counts, masks and waits for
follows from the place it is at (`CpuInv`), that a stack has one place of its
thread and at most one interrupt above it (`StackInv`), that a thread which is not
running is parked in `sched` or `swtch` (`RunInv`), and that a sleeper has looked
at the clock under `tickslock` (`TickInv`). The first three are inductive by
themselves and proved in `CpuControlProofs`; `CpuProofs` adds the clock and states
the theorem. There is one lemma for each action.
Steps of one thread are reduced by the lemmas `Local` and `Plain` to a statement
about one processor.

### ConsoleProofs

* `RingIsSound`: `Spec => []RingSound`;
* `CommittedIsAQueue`: `Spec => CommittedIsQueue`.

The invariant `Inv` joins the types, `RingInOrder` and `SleepJustified`. It is
inductive because a full ring is committed at once: a key is only accepted while
`e` is less than a turn ahead of `r`, and the editing keys stop at `w`. For the
queue, the committed characters are a function of `r`, `w` and the buffer. A key
writes the cell of `e`, which is the cell of none of the committed characters
since fewer than INPUT_BUF steps lie between them (`CellsDiffer`); this, and that
the index of a cell survives the overflow (`CellWraps`), is the arithmetic of
remainders, which has its own lemmas (`DivMod`, `Remainder`, `Distributes`).

### Only model-checked

* Liveness (`SleeperIsWoken`, `OrphanReaped`, `BlockedIsWoken`) is out of the
  prover's reach.
* `NoLogPanic` is about a sum of reservations over processes and holds only up to
  the first race; TLC checks it.
* `Inode`, `Directory`, `FileTable` and `Memory` are checked on small instances
  only. What they count (links, references, pages) are cardinalities of sets that
  each step changes in several places, and no proof is kept for them; nor for the
  small `Screen`, `Keyboard` and `Boot`.
* `LockingSound` is proved of `Cpu` (`LocksAreSound`); the run checks it of the
  instance in `MCKernel`.
* `Malloc`, `Mkfs`, `ShellParse`, `Shell` and `Strings` are recursive over data,
  and what they compute for every input cannot be proved here by induction.

## Not modelled

The loader, interrupt controllers, the MP table, the serial line and the parallel
port are straight-line device access. User programs other than the shell are
clients without state of their own. Timing, the contents of file blocks and
memory ordering weaker than x86's are abstracted. A second disk is left out, and
`memide.c` completes each request at once, which is a special case of the drive
here. In `Signal`, a signal number outside the table, a fork inside a handler and
an unmapped stack are left out. In `Proc`, closing files in `exit` is left out,
because it changes nothing in the table; the bound MaxPid ends a behaviour before
`nextpid` could wrap. In `Shell`, the loop of `main` over lines and its builtin
`cd` are left out. A kill that falls between a blocking
call's test of `killed` and its sleep leaves the victim asleep until the next
event; `Proc` and `Pipe` have this behaviour, and no property forbids it.
