------------------------------ MODULE MCCalls ------------------------------
(***************************************************************************)
(* Small instances of the parts behind the system calls on names, inodes   *)
(* and signals, in one state graph: a behaviour chooses a part and runs    *)
(* it.  The variables of Signal, the module extended, keep their initial   *)
(* values while another part runs; the other parts share theirs.           *)
(***************************************************************************)
EXTENDS Signal, TLC

CONSTANTS Proc, NoProc, Name, NoName, Dot, DotDot

VARIABLES part, x1, x2, x3, x4, x5, x6, x7, x8, x9

\* Two names, an inode and a cache entry for each process, and blocks for one
\* file with an indirect block; and the same with a single cache entry.
Inode == INSTANCE Inode WITH
  NINODE <- 2, NInum <- 2, NBlock <- 3, NDIRECT <- 1, NINDIRECT <- 1,
  disk <- x1, bitmap <- x2, dir <- x3, dlock <- x4, icache <- x5, pc <- x6, op <- x7, ip <- x8,
  arg <- x9

Full == INSTANCE Inode WITH
  NINODE <- 1, NInum <- 2, NBlock <- 3, NDIRECT <- 1, NINDIRECT <- 1,
  disk <- x1, bitmap <- x2, dir <- x3, dlock <- x4, icache <- x5, pc <- x6, op <- x7, ip <- x8,
  arg <- x9

\* Two inodes besides the root: a directory in a directory or a file with two
\* names, and inodes that are freed and taken again.
Directory == INSTANCE Directory WITH
  NInum <- 3,
  type <- x1, nlink <- x2, ents <- x3, cwd <- x4, pc <- x5, op <- x6, cur <- x7, ip <- x8,
  lost <- x9

others == <<x1, x2, x3, x4, x5, x6, x7, x8, x9>>

CallsInit ==
  /\ Init
  /\ \/ part = "signal" /\ x1 = 0 /\ x2 = 0 /\ x3 = 0 /\ x4 = 0 /\ x5 = 0 /\ x6 = 0 /\ x7 = 0
        /\ x8 = 0 /\ x9 = 0
     \/ part = "inode" /\ Inode!Init
     \/ part = "full" /\ Full!Init
     \/ part = "directory" /\ Directory!Init

CallsNext ==
  \/ part = "signal" /\ Next /\ UNCHANGED <<part, others>>
  \/ part = "inode" /\ Inode!Next /\ UNCHANGED <<part, vars>>
  \/ part = "full" /\ Full!Next /\ UNCHANGED <<part, vars>>
  \/ part = "directory" /\ Directory!Next /\ UNCHANGED <<part, vars>>

CallsSpec == CallsInit /\ [][CallsNext]_<<part, vars, others>>

Symmetry == Permutations(Proc) \cup Permutations(Name) \cup Permutations(Val)

\* Bound: an inode loses one name to a removed directory.
LostAtMostOne == part = "directory" => \A i \in DOMAIN x9 : x9[i] <= 1

-----------------------------------------------------------------------------
\* An inode has one cache entry that agrees with the disk (iget, iput); no block
\* is in two files, freed twice or lost (balloc, bmap, itrunc); nlink counts the
\* names of an inode; a sleeper of ilock waits for a process that holds the
\* inode; and fs.c panics only when the inodes, the blocks or the cache entries
\* are all in use.
InodesSound ==
  /\ part = "inode" =>
       /\ Inode!TypeOK /\ Inode!CacheCoherent /\ Inode!BlocksOwned /\ Inode!LinksCounted
       /\ Inode!SleeperHasHolder /\ Inode!PanicsWhenFull
  /\ part = "full" =>
       /\ Full!TypeOK /\ Full!CacheCoherent /\ Full!BlocksOwned /\ Full!LinksCounted
       /\ Full!SleeperHasHolder /\ Full!PanicsWhenFull

\* No entry names a free inode, nlink is the number of entries that name an
\* inode, and the directories form a tree, between any two locked sections of
\* the calls of sysfile.c; what a call enters into a directory that was removed
\* after nameiparent returned it makes a count too high, and nothing else.
NamesSound ==
  part = "directory" =>
    /\ Directory!TypeOK /\ Directory!NoDangling /\ Directory!LinkCountExact
    /\ Directory!IsTree

\* Two calls of sys_unlink, each with a directory locked, never wait for each
\* other's, and one never waits for the directory it has locked itself.
UnlinksNeverCross == part = "directory" => Directory!NeverCrossed
=============================================================================
