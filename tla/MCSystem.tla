------------------------------ MODULE MCSystem ------------------------------
(***************************************************************************)
(* Small instances of the buffer cache, the log's reservations and the     *)
(* programs, in one state graph: a behaviour chooses a part and runs it.   *)
(* The variables of BufCache, the module extended, keep initial values     *)
(* while another part runs; the other parts share theirs.  Two processes   *)
(* and three sectors in a cache of two buffers, one of which the log may   *)
(* pin, make buffers be recycled and the cache run out of them.            *)
(***************************************************************************)
EXTENDS BufCache, Integers, TLC

CONSTANTS Proc, NoProc, Pointer

VARIABLES part, x1, x2, x3, x4, x5, x6, x7, x8, x9, x10, x11, x12, x13, x14, x15

Upto(S, k) == UNION {[1 .. i -> S] : i \in 0 .. k}

\* Lines for the shell.
Run == {<<"x">>, <<"x", "|", "x">>, <<"x", "|", "x", "|", "x">>, <<"x", "&">>, <<"x", ";", "x">>,
        <<"x", "|", "x", "&", ";", "x">>, <<"(", "x", ";", "x", ")", "|", "x">>,
        <<"x", "<", "x", "|", "x", ">", "x">>, <<"x", "|", "(", "x", "&", ";", "x", ")">>,
        <<"x", "&", "x">>, <<"x", "|", "x", "|", "x", "|", "x">>}
IsRun(l) == l \in Run
Text == Run \cup Upto({"x", " ", "<", ">", "|", "&", ";", "(", ")"}, 4)
Parser == INSTANCE ShellParse WITH MAXARGS <- 3
ParseText == [l \in Text |-> Parser!Parsing(l)]

\* Calls of the string functions.
AllJobs ==
  {[f |-> "memmove", m |-> <<1, 2, 3, 4, 5>>, d |-> c[1], s |-> c[2], n |-> c[3]] :
     c \in {a \in (1 .. 5) \X (1 .. 5) \X (0 .. 4) : a[1] + a[3] <= 6 /\ a[2] + a[3] <= 6}}
  \cup {[f |-> "namex", path |-> p, entries |-> Upto({"x", "y"}, 3)] : p \in Upto({"/", "x", "y"}, 5)}
  \cup {[f |-> "printint", xx |-> i, base |-> k, sgn |-> g] :
     i \in -256 .. 255, k \in {10, 16}, g \in BOOLEAN}
  \cup {[f |-> "printf", fmt |-> s] : s \in Upto({"%", "d", "s", "c", "q"}, 4)}
  \cup {[f |-> "match", re |-> r, text |-> t] :
     r \in Upto({"a", ".", "*", "$", "^"}, 3), t \in Upto({"a", "b"}, 3)}

\* In the cache that this module extends a process has one handle.
MCOwner == [h \in Handle |-> h]
MCRank  == [s \in Sector |-> 0]

\* A cache for two processes with two handles each, a log block, an indirect
\* block and another one; the data does not matter.
Nested == INSTANCE BufCache WITH
  Handle <- Proc \X Pointer, Owner <- [h \in Proc \X Pointer |-> h[1]],
  Sector <- 0 .. 2, Rank <- [s \in 0 .. 2 |-> s], Val <- {NoSector},
  lru <- x1, sector <- x2, busy <- x3, valid <- x4, dirty <- x5, data <- x6, idequeue <- x7,
  drive <- x8, disk <- x9, pc <- x10, b <- x11, want <- x12, failed <- x13

\* A log with room for two reservations, and blocks to fill it; and one with
\* room for a single reservation, of which an operation uses all but one block.
Room == INSTANCE Log WITH
  Block <- Sector \cup {NoSector}, Block0 <- NoSector, Val <- {Lost}, LOGSIZE <- 4, nlog <- 4,
  MAXOPBLOCKS <- 2, OpBlocks <- 1,
  disk <- x1, dn <- x2, dsector <- x3, dlog <- x4, cache <- x5, dirty <- x6, n <- x7,
  sector <- x8, outstanding <- x9, committing <- x10, pc <- x11, blk <- x12, idx <- x13,
  mine <- x14, raced <- x15

Tight == INSTANCE Log WITH
  Block <- Sector \cup {NoSector}, Block0 <- NoSector, Val <- {Lost}, LOGSIZE <- 4, nlog <- 4,
  MAXOPBLOCKS <- 3, OpBlocks <- 2,
  disk <- x1, dn <- x2, dsector <- x3, dlog <- x4, cache <- x5, dirty <- x6, n <- x7,
  sector <- x8, outstanding <- x9, committing <- x10, pc <- x11, blk <- x12, idx <- x13,
  mine <- x14, raced <- x15

\* Up to two files: empty, within a block, a block, into the second direct
\* block, and into the indirect blocks.
Mkfs == INSTANCE Mkfs WITH
  BSIZE <- 4, NDIRECT <- 2, NINDIRECT <- 2, IPB <- 2, BPB <- 40, DIRENT <- 2, size <- 30,
  nlog <- 3, ninodes <- 4, nblocks <- 21, CHUNK <- 3,
  Files <- UNION {[1 .. k -> {0, 1, 3, 4, 9, 13}] : k \in 0 .. 2},
  todo <- x1, din <- x2, blk <- x3, freeblock <- x4, usedblocks <- x5, freeinode <- x6,
  bitmap <- x7, rest <- x8, app <- x9, data <- x10

\* A heap of a few blocks, which sbrk extends three times.
Malloc == INSTANCE Malloc WITH
  HEAP <- 13, CORE <- 3, Units <- {2, 3, 5},
  ptr <- x1, size <- x2, freep <- x3, brk <- x4, live <- x5, core <- x6

\* Every line of up to four characters is parsed; the lines of Run are run, with
\* three pipes and eight processes at most.
Shell == INSTANCE Shell WITH
  Parse <- ParseText, Runs <- IsRun, NPROC <- 8, NPIPE <- 3,
  line <- x1, pc <- x2, cmd <- x3, parent <- x4, fd <- x5, kids <- x6, want <- x7, bg <- x8,
  failed <- x9

\* Names of two characters, numbers of nine bits.
Strings == INSTANCE Strings WITH
  Jobs <- AllJobs, DIRSIZ <- 2, W <- 9,
  job <- x1, path <- x2, name <- x3, out <- x4, done <- x5

others == <<x1, x2, x3, x4, x5, x6, x7, x8, x9, x10, x11, x12, x13, x14, x15>>

\* Initial values for a cache that does not run: all data alike.
Parked == Init /\ \A x \in Buf, s \in Sector : disk[s] = data[x]

SystemInit ==
  \/ part = "bufcache" /\ Init
     /\ x1 = 0 /\ x2 = 0 /\ x3 = 0 /\ x4 = 0 /\ x5 = 0 /\ x6 = 0 /\ x7 = 0 /\ x8 = 0
     /\ x9 = 0 /\ x10 = 0 /\ x11 = 0 /\ x12 = 0 /\ x13 = 0 /\ x14 = 0 /\ x15 = 0
  \/ part = "nested" /\ Parked /\ Nested!Init /\ x14 = 0 /\ x15 = 0
  \/ part = "log" /\ Parked /\ Room!Init
  \/ part = "tight" /\ Parked /\ Tight!Init
  \/ part = "mkfs" /\ Parked /\ Mkfs!Init /\ x11 = 0 /\ x12 = 0 /\ x13 = 0 /\ x14 = 0 /\ x15 = 0
  \/ part = "malloc" /\ Parked /\ Malloc!Init
     /\ x7 = 0 /\ x8 = 0 /\ x9 = 0 /\ x10 = 0 /\ x11 = 0 /\ x12 = 0 /\ x13 = 0 /\ x14 = 0 /\ x15 = 0
  \/ part = "shell" /\ Parked /\ Shell!Init
     /\ x10 = 0 /\ x11 = 0 /\ x12 = 0 /\ x13 = 0 /\ x14 = 0 /\ x15 = 0
  \/ part = "strings" /\ Parked /\ Strings!Init
     /\ x6 = 0 /\ x7 = 0 /\ x8 = 0 /\ x9 = 0 /\ x10 = 0 /\ x11 = 0 /\ x12 = 0 /\ x13 = 0 /\ x14 = 0 /\ x15 = 0

Runs(p, unused) == part = p /\ UNCHANGED <<part, vars, unused>>

\* A program comes to its end, or the kernel has panicked.
Stop ==
  /\ part \in {"mkfs", "shell", "strings"} \/ (part = "nested" /\ "panic" \in Range(x10))
  /\ UNCHANGED <<part, vars, others>>

SystemNext ==
  \/ part = "bufcache" /\ Next /\ UNCHANGED <<part, others>>
  \/ Runs("nested", <<x14, x15>>) /\ Nested!Next
  \/ Runs("log", <<>>) /\ Room!Next
  \/ Runs("tight", <<>>) /\ Tight!Next
  \/ Runs("mkfs", <<x11, x12, x13, x14, x15>>) /\ Mkfs!Next
  \/ Runs("malloc", <<x7, x8, x9, x10, x11, x12, x13, x14, x15>>) /\ Malloc!Next
  \/ Runs("shell", <<x10, x11, x12, x13, x14, x15>>) /\ Shell!Next
  \/ Runs("strings", <<x6, x7, x8, x9, x10, x11, x12, x13, x14, x15>>) /\ Strings!Next
  \/ Stop

SystemSpec == SystemInit /\ [][SystemNext]_<<part, vars, others>>

Symmetry == Permutations(Proc) \cup Permutations(Pointer) \cup Permutations(Sector) \cup Permutations(Val)

\* Operations are followed up to the first overlap of two log_write calls.
NoRaceYet == part \in {"log", "tight"} => ~x15

-----------------------------------------------------------------------------
\* Processes that read a block while they have another one, as bmap, itrunc,
\* write_log and install_trans do: the cache stays sound, no circle of processes
\* waits for buffers of each other, and "bget: no buffers" is reached only with
\* every buffer in use or pinned (bio.c).
NestedReads ==
  [][part = "nested" => Nested!CacheSound' /\ Nested!Suffices]_<<part, others>>

\* begin_op's reservation suffices: log_write does not panic, as long as an
\* operation writes less than it reserves and no two calls overlap (log.c).
NoLogPanic == (part = "log" => Room!NoPanic) /\ (part = "tight" => Tight!NoPanic)

\* The image mkfs writes has no block in two places and marks all of them, and
\* bmap of the kernel finds in it the bytes given to mkfs.
ImageSound == part = "mkfs" => Mkfs!ImageSound /\ Mkfs!ImageReadsBack

\* The blocks handed out and the free list partition the heap, and free leaves
\* a list in address order with no two adjacent blocks (umalloc.c).
HeapSound == part = "malloc" => Malloc!HeapPartitioned /\ Malloc!FreeListCoalesced

\* The shell accepts the lines of its grammar, as the tree it gives, and
\* nulterminate ends every word of the line and cuts none (sh.c).
ParsesLine == part = "shell" => Shell!ParsesGrammar /\ Shell!WordsTerminated

\* A program gets the descriptors that the line says, the prompt comes back when
\* the foreground has ended, and no pipeline waits for itself (runcmd).
JobsSound ==
  part = "shell" => Shell!ProgramDescriptors /\ Shell!ForegroundDone /\ Shell!NeverStuck

\* memmove copies overlapping ranges as if through a buffer; namex finds the
\* entry whose name is the path element; printint prints every number; cprintf
\* and printf agree; grep finds the lines its pattern denotes.
StringsSound ==
  part = "strings" =>
    /\ Strings!MovesAsIfBuffered /\ Strings!LookupExact /\ Strings!PrintsValue
    /\ Strings!FormatsAgree /\ Strings!MatchesDenotation
=============================================================================
