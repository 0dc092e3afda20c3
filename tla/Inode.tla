-------------------------------- MODULE Inode --------------------------------
(***************************************************************************)
(* The inode layer of fs.c: the inode cache (iget, idup, ilock, iunlock,   *)
(* iput), inodes and block bitmap on disk (ialloc, iupdate, balloc, bfree, *)
(* bmap, itrunc), driven by the calls of sysfile.c on one directory.       *)
(*                                                                         *)
(* Sections under icache.lock, and uses of one disk block, are atomic.  A  *)
(* file is a sequence of data blocks, of which those past the first        *)
(* NDIRECT are listed in its indirect block; data itself is left out.  The *)
(* directory is a map of names under the lock of its inode, dlock.         *)
(***************************************************************************)
EXTENDS Naturals, Sequences, FiniteSets, FiniteSetsExt, SequencesExt

CONSTANTS Proc, NoProc, Name, NoName,
          NINODE, NInum, NBlock,        \* cache entries, inodes, data blocks
          NDIRECT, NINDIRECT

VARIABLES
  disk,             \* the dinodes
  bitmap,           \* the blocks in use
  dir, dlock,       \* the directory and the holder of its inode
  icache,
  pc, op, ip, arg   \* each process: where, in which call, on which entry, name

vars == <<disk, bitmap, dir, dlock, icache, pc, op, ip, arg>>
fs   == <<disk, bitmap, dir, dlock>>

Inum == 1 .. NInum
Slot == 1 .. NINODE
Free == [type |-> 0, nlink |-> 0, data |-> <<>>, ind |-> 0]
Empty == [ref |-> 0, inum |-> 0, busy |-> FALSE, valid |-> FALSE, d |-> Free]
BlocksOf(d) == Range(d.data) \cup ({d.ind} \ {0})
InLock == {"iread", "locked", "count", "iupdate", "link", "iunlock", "no_blocks"}
Freeing == {"itrunc", "ifree", "iput_end"}
HasRef == InLock \cup Freeing \cup {"file", "ilock", "isleep", "dirlink", "iput"}

TypeOK ==
  /\ bitmap \subseteq 1 .. NBlock
  /\ dir \in [Name -> Inum \cup {0}] /\ dlock \in Proc \cup {NoProc}
  /\ \A i \in Inum : disk[i].type \in {0, 1} /\ disk[i].nlink <= Cardinality(Name) + Cardinality(Proc)
                     /\ Len(disk[i].data) <= NDIRECT + NINDIRECT
                     /\ disk[i].ind = 0 <=> Len(disk[i].data) <= NDIRECT
  /\ pc \in [Proc -> HasRef \cup {"user", "ialloc", "iget", "no_inodes", "no_entries"}]
  /\ \A s \in Slot : icache[s].ref <= Cardinality(Proc)

Init ==
  /\ disk = [i \in Inum |-> Free] /\ bitmap = {}
  /\ dir = [n \in Name |-> 0] /\ dlock = NoProc
  /\ icache = [s \in Slot |-> Empty]
  /\ pc = [p \in Proc |-> "user"] /\ op = [p \in Proc |-> "none"]
  /\ ip = [p \in Proc |-> 0] /\ arg = [p \in Proc |-> NoName]

FreeInode == \E i \in Inum : disk[i].type = 0
\* The blocks that appending one more to d takes: with the first that NDIRECT
\* has no room for comes the indirect block.
Needs(d) == IF Len(d.data) >= NDIRECT /\ d.ind = 0 THEN 2 ELSE 1
Goto(p, l) == pc' = [pc EXCEPT ![p] = l]
Entry(p) == icache[ip[p]]
\* The call of p is over: its locals are gone, but for the inode of a file.
EndCall(p, keep) ==
  /\ op' = [op EXCEPT ![p] = "none"] /\ arg' = [arg EXCEPT ![p] = NoName]
  /\ ip' = IF keep THEN ip ELSE [ip EXCEPT ![p] = 0]
\* pc after wakeup(ip), by p on its way to l.
Woken(p, l) ==
  [q \in Proc |-> IF q = p THEN l
                  ELSE IF pc[q] = "isleep" /\ ip[q] = ip[p] THEN "ilock" ELSE pc[q]]

\* icache.lock: a process that panics in iget has it for good.
Locked == \E q \in Proc : pc[q] = "no_entries"

\* iget, with p going on to ilock; or its panic, with the inum left in ip.
iget(p, i) ==
  LET hit  == {s \in Slot : icache[s].ref > 0 /\ icache[s].inum = i}
      free == {s \in Slot : icache[s].ref = 0}
      s    == IF hit # {} THEN Min(hit) ELSE Min(free) IN
  /\ ~Locked
  /\ IF hit \cup free = {}
       THEN ip' = [ip EXCEPT ![p] = i] /\ Goto(p, "no_entries") /\ UNCHANGED icache
       ELSE /\ ip' = [ip EXCEPT ![p] = s] /\ Goto(p, "ilock")
            /\ icache' = [icache EXCEPT ![s] =
                 IF hit # {} THEN [@ EXCEPT !.ref = @ + 1] ELSE [Empty EXCEPT !.inum = i, !.ref = 1]]

-----------------------------------------------------------------------------
\* The calls: open and link look a name up, unlink and create keep the
\* directory locked (dirlookup runs with the directory locked).
lookup(p, call, n, keep) ==
  /\ pc[p] = "user" /\ dlock = NoProc /\ dir[n] # 0
  /\ iget(p, dir[n])
  /\ dlock' = IF keep THEN p ELSE NoProc
  /\ op' = [op EXCEPT ![p] = call]
  /\ UNCHANGED <<disk, bitmap, dir>>

sys_open(p, n)   == lookup(p, "open", n, FALSE) /\ UNCHANGED arg
sys_unlink(p, n) == lookup(p, "unlink", n, TRUE) /\ arg' = [arg EXCEPT ![p] = n]
sys_link(p, n)   == /\ \E old \in Name : lookup(p, "link", old, FALSE)
                    /\ arg' = [arg EXCEPT ![p] = n]

create(p, n) ==
  /\ pc[p] = "user" /\ dlock = NoProc /\ dir[n] = 0
  /\ dlock' = p /\ op' = [op EXCEPT ![p] = "create"] /\ arg' = [arg EXCEPT ![p] = n]
  /\ Goto(p, "ialloc")
  /\ UNCHANGED <<disk, bitmap, dir, icache, ip>>

\* ialloc: the first free dinode, found and marked in its block.
ialloc(p) ==
  /\ pc[p] = "ialloc" /\ FreeInode
  /\ LET i == Min({j \in Inum : disk[j].type = 0})
     IN  /\ disk' = [disk EXCEPT ![i] = [Free EXCEPT !.type = 1]]
         /\ ip' = [ip EXCEPT ![p] = i]          \* the inum, until iget
  /\ Goto(p, "iget")
  /\ UNCHANGED <<bitmap, dir, dlock, icache, op, arg>>

ialloc_iget(p) ==
  /\ pc[p] = "iget" /\ iget(p, ip[p])
  /\ UNCHANGED <<fs, op, arg>>

\* write and close of an open file; fork and dup share it (idup).
filewrite(p) ==
  /\ pc[p] = "file" /\ op' = [op EXCEPT ![p] = "write"] /\ Goto(p, "ilock")
  /\ UNCHANGED <<fs, icache, ip, arg>>

fileclose(p) ==
  /\ pc[p] = "file" /\ op' = [op EXCEPT ![p] = "none"] /\ Goto(p, "iput")
  /\ UNCHANGED <<fs, icache, ip, arg>>

idup(p, q) ==
  /\ pc[p] = "file" /\ pc[q] = "user" /\ ~Locked
  /\ icache' = [icache EXCEPT ![ip[p]].ref = @ + 1]
  /\ ip' = [ip EXCEPT ![q] = ip[p]] /\ Goto(q, "file")
  /\ UNCHANGED <<fs, op, arg>>

-----------------------------------------------------------------------------
ilock(p) ==
  /\ pc[p] = "ilock" /\ ~Locked
  /\ IF Entry(p).busy THEN UNCHANGED icache ELSE icache' = [icache EXCEPT ![ip[p]].busy = TRUE]
  /\ Goto(p, IF Entry(p).busy THEN "isleep" ELSE IF Entry(p).valid THEN "locked" ELSE "iread")
  /\ UNCHANGED <<fs, op, ip, arg>>

ilock_read(p) ==
  /\ pc[p] = "iread" /\ disk[Entry(p).inum].type # 0
  /\ icache' = [icache EXCEPT ![ip[p]].d = disk[Entry(p).inum], ![ip[p]].valid = TRUE]
  /\ Goto(p, "locked")
  /\ UNCHANGED <<fs, op, ip, arg>>

\* What the call does with the locked inode, up to its iupdate or iunlock.
locked_open(p) ==
  /\ pc[p] = "locked" /\ op[p] = "open" /\ Goto(p, "iunlock")
  /\ UNCHANGED <<fs, icache, op, ip, arg>>

\* writei at the end of the file, one block: bmap takes the indirect block and
\* the data block from balloc, which returns the first free block.
locked_write(p) ==
  LET d    == Entry(p).d
      free == SetToSortSeq((1 .. NBlock) \ bitmap, <) IN
  /\ pc[p] = "locked" /\ op[p] = "write"
  /\ IF Len(d.data) = NDIRECT + NINDIRECT
       THEN Goto(p, "iunlock") /\ UNCHANGED <<bitmap, icache>>
       ELSE /\ Len(free) >= Needs(d)
            /\ bitmap' = bitmap \cup {free[k] : k \in 1 .. Needs(d)}
            /\ icache' = [icache EXCEPT ![ip[p]].d =
                 [@ EXCEPT !.data = Append(@, free[Needs(d)]),
                           !.ind = IF Needs(d) = 2 THEN free[1] ELSE @]]
            /\ Goto(p, "iupdate")
  /\ UNCHANGED <<disk, dir, dlock, op, ip, arg>>

\* A full disk: ialloc and balloc panic; the process keeps what it holds, and
\* the others go on until they print something.
panic(p) ==
  /\ \/ pc[p] = "ialloc" /\ ~FreeInode /\ Goto(p, "no_inodes")
     \/ /\ pc[p] = "locked" /\ op[p] = "write" /\ Goto(p, "no_blocks")
        /\ Len(Entry(p).d.data) < NDIRECT + NINDIRECT
        /\ NBlock - Cardinality(bitmap) < Needs(Entry(p).d)
  /\ UNCHANGED <<fs, icache, op, ip, arg>>

panicked(p) == pc[p] \in {"no_inodes", "no_blocks", "no_entries"} /\ UNCHANGED vars

SetNlink(p, k) ==
  /\ icache' = [icache EXCEPT ![ip[p]].d.nlink = k] /\ Goto(p, "iupdate")
  /\ UNCHANGED <<fs, op, ip, arg>>

locked_link(p)   == pc[p] = "locked" /\ op[p] = "link" /\ SetNlink(p, Entry(p).d.nlink + 1)
locked_create(p) == pc[p] = "locked" /\ op[p] = "create" /\ SetNlink(p, 1)

\* sys_unlink clears the entry and unlocks the directory, then counts down.
locked_unlink(p) ==
  /\ pc[p] = "locked" /\ op[p] = "unlink" /\ Entry(p).d.nlink > 0
  /\ dir' = [dir EXCEPT ![arg[p]] = 0] /\ dlock' = NoProc /\ Goto(p, "count")
  /\ UNCHANGED <<disk, bitmap, icache, op, ip, arg>>

count_down(p) ==
  /\ pc[p] = "count" \/ (pc[p] = "locked" /\ op[p] = "undo")
  /\ SetNlink(p, Entry(p).d.nlink - 1)

iupdate(p) ==
  /\ pc[p] = "iupdate" /\ disk' = [disk EXCEPT ![Entry(p).inum] = Entry(p).d]
  /\ Goto(p, IF op[p] = "create" THEN "link" ELSE "iunlock")
  /\ UNCHANGED <<bitmap, dir, dlock, icache, op, ip, arg>>

\* The end of create: dirlink and iunlockput(dp), the new inode still locked.
create_link(p) ==
  /\ pc[p] = "link" /\ dir' = [dir EXCEPT ![arg[p]] = Entry(p).inum] /\ dlock' = NoProc
  /\ Goto(p, "iunlock")
  /\ UNCHANGED <<disk, bitmap, icache, op, ip, arg>>

iunlock(p) ==
  /\ pc[p] = "iunlock" /\ ~Locked
  /\ icache' = [icache EXCEPT ![ip[p]].busy = FALSE]
  /\ pc' = Woken(p, CASE op[p] = "link" -> "dirlink"
                      [] op[p] \in {"unlink", "undo"} -> "iput" [] OTHER -> "file")
  /\ IF op[p] \in {"link", "unlink", "undo"} THEN UNCHANGED <<op, ip, arg>> ELSE EndCall(p, TRUE)
  /\ UNCHANGED fs

\* sys_link again: the new name, or back to `bad` when it is taken.
LinkOrUndo(p, call, next) ==
  /\ pc[p] = "dirlink" /\ dlock = NoProc
  /\ IF dir[arg[p]] = 0
       THEN /\ dir' = [dir EXCEPT ![arg[p]] = Entry(p).inum] /\ Goto(p, "iput") /\ UNCHANGED op
       ELSE /\ op' = [op EXCEPT ![p] = call] /\ Goto(p, next) /\ UNCHANGED dir
  /\ UNCHANGED <<disk, bitmap, dlock, icache, ip, arg>>

\* Mutant: the failed link keeps its count.
dirlink_no_undo(p) == LinkOrUndo(p, "link", "iput")

dirlink(p) == LinkOrUndo(p, "undo", "ilock")

-----------------------------------------------------------------------------
\* One reference less; iget overwrites what it takes of a free entry.
Drop(e) == IF e.ref = 1 THEN Empty ELSE [e EXCEPT !.ref = @ - 1]

\* iput: the last reference to an inode without links frees it.
Put(p, last) ==
  /\ pc[p] = "iput" /\ ~Locked /\ (last => ~Entry(p).busy)
  /\ icache' = [icache EXCEPT ![ip[p]] =
                  IF last THEN [@ EXCEPT !.busy = TRUE] ELSE Drop(@)]
  /\ Goto(p, IF last THEN "itrunc" ELSE "user")
  /\ IF last THEN UNCHANGED <<op, ip, arg>> ELSE EndCall(p, FALSE)
  /\ UNCHANGED fs

\* Mutant: the reference count is not looked at.
iput_shared(p) == Put(p, Entry(p).valid /\ Entry(p).d.nlink = 0)

iput(p) == Put(p, Entry(p).ref = 1 /\ Entry(p).valid /\ Entry(p).d.nlink = 0)

\* itrunc: bfree of each block, the indirect one last, then iupdate.
Truncate(p, rest) ==
  LET d == Entry(p).d IN
  /\ pc[p] = "itrunc"
  /\ \/ /\ d.data # <<>> /\ Head(d.data) \in bitmap
        /\ bitmap' = bitmap \ {Head(d.data)}
        /\ icache' = [icache EXCEPT ![ip[p]].d.data = Tail(@)]
        /\ UNCHANGED <<disk, pc>>
     \/ /\ d.data = <<>> /\ d.ind # 0 /\ bitmap' = bitmap \ rest
        /\ icache' = [icache EXCEPT ![ip[p]].d.ind = 0]
        /\ UNCHANGED <<disk, pc>>
     \/ /\ d.data = <<>> /\ d.ind = 0 /\ disk' = [disk EXCEPT ![Entry(p).inum] = d]
        /\ Goto(p, "ifree")
        /\ UNCHANGED <<bitmap, icache>>
  /\ UNCHANGED <<dir, dlock, op, ip, arg>>

\* Mutant: the indirect block itself is not freed.
itrunc_keeps_indirect(p) == Truncate(p, {})

itrunc(p) == Truncate(p, {Entry(p).d.ind})

iput_free(p) ==
  /\ pc[p] = "ifree"
  /\ icache' = [icache EXCEPT ![ip[p]].d.type = 0]
  /\ disk' = [disk EXCEPT ![Entry(p).inum] = icache'[ip[p]].d]
  /\ Goto(p, "iput_end")
  /\ UNCHANGED <<bitmap, dir, dlock, op, ip, arg>>

\* The second section of iput under icache.lock.
PutEnd(p, still_valid, next) ==
  /\ pc[p] = "iput_end" /\ ~Locked
  /\ icache' = [icache EXCEPT ![ip[p]] = Drop([@ EXCEPT !.busy = FALSE, !.valid = still_valid])]
  /\ pc' = next /\ EndCall(p, FALSE)
  /\ UNCHANGED fs

\* Mutants: only I_BUSY is cleared; nobody is woken.
iput_end_valid(p) == PutEnd(p, TRUE, Woken(p, "user"))
iput_end_silent(p) == PutEnd(p, FALSE, [pc EXCEPT ![p] = "user"])

iput_end(p) == PutEnd(p, FALSE, Woken(p, "user"))

Next ==
  \E p \in Proc :
    \/ \E n \in Name : sys_open(p, n) \/ sys_unlink(p, n) \/ sys_link(p, n) \/ create(p, n)
    \/ \E q \in Proc : idup(p, q)
    \/ ialloc(p) \/ ialloc_iget(p) \/ filewrite(p) \/ fileclose(p)
    \/ ilock(p) \/ ilock_read(p) \/ iupdate(p) \/ iunlock(p)
    \/ locked_open(p) \/ locked_write(p) \/ locked_link(p) \/ locked_create(p)
    \/ locked_unlink(p) \/ count_down(p) \/ create_link(p) \/ dirlink(p)
    \/ iput(p) \/ itrunc(p) \/ iput_free(p) \/ iput_end(p)
    \/ panic(p) \/ panicked(p)

Spec == Init /\ [][Next]_vars

-----------------------------------------------------------------------------
\* The kernel's copy of inode i: the one in the cache if it is valid.
Copies(i) == {s \in Slot : icache[s].ref > 0 /\ icache[s].inum = i}
Current(i) == IF \E s \in Copies(i) : icache[s].valid
                THEN icache[CHOOSE s \in Copies(i) : icache[s].valid].d ELSE disk[i]
At(s, places) == {p \in Proc : ip[p] = s /\ pc[p] \in places}

\* An inode has one cache entry, with one reference per pointer to it and one
\* holder of its lock, and a valid entry that nobody is changing is what the
\* disk has: also when iput frees the inode while ialloc finds it again.
CacheCoherent ==
  /\ \A i \in Inum : Cardinality(Copies(i)) <= 1
  /\ \A s \in Slot :
       /\ icache[s].ref = Cardinality(At(s, HasRef))
       /\ Cardinality(At(s, InLock \cup Freeing))
            = IF icache[s].busy THEN 1 ELSE 0
       /\ icache[s].ref > 0 /\ icache[s].valid /\ At(s, {"iupdate", "itrunc"}) = {} =>
            icache[s].d = disk[icache[s].inum] \/ At(s, {"iput_end"}) # {}

\* Every block in use belongs to one file, and every block of a file is in use:
\* none is freed twice, shared by two files or lost (balloc, bmap, itrunc).
BlocksOwned ==
  /\ bitmap = UNION {BlocksOf(Current(i)) : i \in Inum}
  /\ \A i \in Inum, j \in Inum :
       i # j => BlocksOf(Current(i)) \cap BlocksOf(Current(j)) = {}

\* The link count of an inode is the number of its names and of the calls that
\* have counted a name they have still to enter, or removed one they have still
\* to count; an allocated inode without links has a process that will free it.
Uncounted(i) ==
  {p \in Proc :
     /\ pc[p] \in HasRef /\ Entry(p).inum = i
     /\ \/ op[p] = "link" /\ pc[p] \in {"iupdate", "iunlock", "dirlink"}
        \/ op[p] = "undo" /\ pc[p] \in {"ilock", "isleep", "iread", "locked"}
        \/ op[p] = "create" /\ pc[p] \in {"iupdate", "link"}
        \/ pc[p] = "count"}
LinksCounted ==
  \A i \in Inum :
    LET names == {n \in Name : dir[n] = i} IN
    /\ Current(i).nlink = Cardinality(names) + Cardinality(Uncounted(i))
    /\ names # {} => Current(i).type # 0
    /\ disk[i].type # 0 /\ disk[i].nlink = 0 =>
         \E p \in Proc : \/ pc[p] \in {"iget", "no_entries"} /\ ip[p] = i
                         \/ pc[p] \in HasRef /\ Entry(p).inum = i

\* ilock finds an allocated inode, iput an unlocked one, bfree a block in use and
\* unlink a link; and iget panics only when all NINODE entries are inodes that
\* processes point to, none of them the one it looks for.
PanicsWhenFull ==
  \A p \in Proc :
    /\ pc[p] = "iread" => disk[Entry(p).inum].type # 0
    /\ pc[p] = "iput" /\ Entry(p).ref = 1 /\ Entry(p).valid /\ Entry(p).d.nlink = 0
         => ~Entry(p).busy
    /\ pc[p] = "itrunc" => BlocksOf(Entry(p).d) \subseteq bitmap
    /\ pc[p] = "locked" /\ op[p] = "unlink" => Entry(p).d.nlink > 0
    /\ pc[p] \in HasRef => Entry(p).ref > 0
    /\ pc[p] = "no_entries" =>
         \A s \in Slot : icache[s].inum # ip[p] /\ At(s, HasRef) # {}

\* A process sleeps in ilock only while another holds the inode.
SleeperHasHolder ==
  \A p \in Proc : pc[p] = "isleep" =>
    At(ip[p], InLock \cup Freeing) # {}
=============================================================================
