------------------------------ MODULE MCKernel ------------------------------
(***************************************************************************)
(* Small instances of the parts of the kernel that share no state in the   *)
(* models, in one state graph: a behaviour chooses a part and runs it.     *)
(* The console's variables, those of the module extended, keep their       *)
(* initial values while another part runs; as only one of the others runs, *)
(* their variables are the same ones.                                      *)
(***************************************************************************)
EXTENDS Console, Integers, TLC

CONSTANTS Family, p1, Images, Increments, Naps, Char, Lengths, Cpus, bsp, NoCpu

VARIABLES part, x1, x2, x3, x4, x5, x6, x7, x8, x9, x10, x11, x12, x13, x14, x15

\* The first process and one child; a program needs one page table for text,
\* two more with its stack, and memory suffices for some calls only.
Memory == INSTANCE Memory WITH
  Proc <- Family, initproc <- p1, NFRAME <- 17, PGSIZE <- 2, NPTENTRIES <- 2,
  KERNBASE <- 12, NKERN <- 1,
  nfree <- x1, st <- x2, parent <- x3, kstack <- x4, mm <- x5, sz <- x6, t <- x7, torn <- x8

\* Two processors and two threads; the clock wraps.
Cpu == INSTANCE Cpu WITH
  NCPU <- 2, TICKS <- 2,
  ncli <- x1, intena <- x2, ints <- x3, run <- x4, lock <- x5, state <- x6, stk <- x7,
  spin <- x8, saved <- x9, ticks <- x10, nap <- x11

\* Text of up to five rows on a screen of two.
Screen == INSTANCE Screen WITH
  Side <- {"echo", "write"}, COLS <- 2, ROWS <- 2, MAXTAPE <- 10,
  crt <- x1, pos <- x2, tape <- x3, top <- x4, call <- x5, overlap <- x6

Keyboard == INSTANCE Keyboard WITH
  wire <- x1, shift <- x2, held <- x3, caps <- x4, last <- x5, out <- x6

\* Three processors, and two pages more than they need.
Boot == INSTANCE Boot WITH
  CPU <- Cpus, LOW <- 3, TOP <- 4,
  step <- x1, cur <- x2, code <- x3, freelist <- x4, use_lock <- x5, at <- x6, esp <- x7,
  ipis <- x8, started <- x9, runnable <- x10

\* Three open files for two processes of two descriptors; two writes of one
\* unit each reach the end of the inode.
FileTable == INSTANCE FileTable WITH
  NFILE <- 3, NOFILE <- 2, SIZE <- 2, MAX <- 1,
  ref <- x1, type <- x2, off <- x3, iref <- x4, pend <- x5, lck <- x6, ofile <- x7, pc <- x8,
  ret <- x9, loc <- x10, owed <- x11, n <- x12, at <- x13, kid <- x14, seen <- x15

others == <<x1, x2, x3, x4, x5, x6, x7, x8, x9, x10, x11, x12, x13, x14, x15>>

KernelInit ==
  /\ Init
  /\ \/ part = "console"
        /\ x1 = 0 /\ x2 = 0 /\ x3 = 0 /\ x4 = 0 /\ x5 = 0 /\ x6 = 0 /\ x7 = 0 /\ x8 = 0
        /\ x9 = 0 /\ x10 = 0 /\ x11 = 0 /\ x12 = 0 /\ x13 = 0 /\ x14 = 0 /\ x15 = 0
     \/ part = "memory" /\ Memory!Init
        /\ x9 = 0 /\ x10 = 0 /\ x11 = 0 /\ x12 = 0 /\ x13 = 0 /\ x14 = 0 /\ x15 = 0
     \/ part = "cpu" /\ Cpu!Init
        /\ x12 = 0 /\ x13 = 0 /\ x14 = 0 /\ x15 = 0
     \/ part = "screen" /\ Screen!Init
        /\ x7 = 0 /\ x8 = 0 /\ x9 = 0 /\ x10 = 0
        /\ x11 = 0 /\ x12 = 0 /\ x13 = 0 /\ x14 = 0 /\ x15 = 0
     \/ part = "keyboard" /\ Keyboard!Init
        /\ x7 = 0 /\ x8 = 0 /\ x9 = 0 /\ x10 = 0
        /\ x11 = 0 /\ x12 = 0 /\ x13 = 0 /\ x14 = 0 /\ x15 = 0
     \/ part = "boot" /\ Boot!Init
        /\ x11 = 0 /\ x12 = 0 /\ x13 = 0 /\ x14 = 0 /\ x15 = 0
     \/ part = "files" /\ FileTable!Init

Runs(p, unused) == part = p /\ UNCHANGED <<part, vars, unused>>

KernelNext ==
  \/ part = "console" /\ Next /\ UNCHANGED <<part, others>>
  \/ Runs("memory", <<x9, x10, x11, x12, x13, x14, x15>>) /\ Memory!Next
  \/ Runs("cpu", <<x12, x13, x14, x15>>) /\ Cpu!Next
  \/ Runs("screen", <<x7, x8, x9, x10, x11, x12, x13, x14, x15>>) /\ Screen!Next
  \/ Runs("keyboard", <<x7, x8, x9, x10, x11, x12, x13, x14, x15>>) /\ Keyboard!Next
  \/ Runs("boot", <<x11, x12, x13, x14, x15>>) /\ Boot!Next
  \/ Runs("files", <<>>) /\ FileTable!Next

KernelSpec == KernelInit /\ [][KernelNext]_<<part, vars, others>>

MCImages == {<<1>>, <<1, 3>>, <<9>>}
MCIncrements == {-3, 1, 3}

Symmetry == Permutations(Proc)

\* The search stops where two calls of cgaputc have overlapped.
NoOverlap == part = "screen" => ~x6

-----------------------------------------------------------------------------
\* No page is lost or freed twice by fork, exec, sbrk, exit and wait, failures
\* of kalloc included, unless a page table is torn; a process in user mode has
\* exactly the pages p->sz promises; and none of "remap", "copyuvm: page not
\* present", "loaduvm: address should exist" and "clearpteu" happens (kalloc.c,
\* vm.c, exec.c, growproc).
AddressSpacesSound ==
  part = "memory" =>
    Memory!TypeOK /\ Memory!PagesConserved /\ Memory!SizeBacked /\ Memory!NoPanic

\* fork gives the child the pages of its parent, protected alike (copyuvm).
ForkCopies == [][part = "memory" => Memory!Copies]_<<part, others>>

\* No panic of acquire, release, popcli or sched; cpu->ncli counts the locks of
\* the processor and intena follows the thread across context switches; and
\* sys_sleep never sleeps through the tick that ends it.
LockingSound == part = "cpu" => Cpu!LockingSound

\* cgaputc shows the last rows of what was written and echoed, however often the
\* screen has scrolled, until two calls of it overlap (console.c); no modifier
\* sticks in kbdgetc (kbd.c).
TerminalSound ==
  /\ part = "screen" => Screen!ShowsLastRows
  /\ part = "keyboard" => Keyboard!ModifiersFollowKeys

\* Every processor that startothers starts runs on a stack of its own, which
\* the page table it starts with maps (main.c, kinit2).
StacksSound == part = "boot" => Boot!OwnStack /\ Boot!StackMapped

\* f->ref counts the descriptors through fork, dup, pipe and failures; an inode
\* or a pipe end is put back once, when its last file closes; processes that
\* share a file read each of its bytes once (file.c, sysfile.c).
FilesSound ==
  part = "files" => FileTable!RefsExact /\ FileTable!ObjectsExact /\ FileTable!EachByteOnce
=============================================================================
