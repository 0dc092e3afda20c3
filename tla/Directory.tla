------------------------------ MODULE Directory ------------------------------
(***************************************************************************)
(* Directories and names: namex, dirlookup and dirlink of fs.c under the   *)
(* system calls of sysfile.c.  Inode models what this module takes as one  *)
(* step: a section between ilock and iunlock, which nothing but the holder *)
(* can observe, and an iput, which frees an inode without links when it    *)
(* drops the last reference.  unlink alone waits for a second inode with a *)
(* first one locked.                                                       *)
(*                                                                         *)
(* A path is chosen as it is walked, one element per step, so paths of all *)
(* lengths are covered; and the call is chosen at the end of its path, as  *)
(* namex does the same for all.  References are the pointers cwd, cur, ip. *)
(***************************************************************************)
EXTENDS Naturals, FiniteSets, FiniteSetsExt

CONSTANTS Proc, Name, Dot, DotDot,
          NInum         \* inodes of the disk; 1 is ROOTINO

VARIABLES
  type, nlink, ents,    \* the inodes; ents[i] is the content of a directory
  cwd,                  \* proc->cwd
  pc, op,               \* where each process is, and in which call (or the name it unlinks)
  cur, ip,              \* the inode namex stands on, and the one to be linked
  lost                  \* history: the names of an inode that went with a removed directory

inodes == <<type, nlink, ents, lost>>
vars   == <<inodes, cwd, pc, op, cur, ip>>

Inum == 1 .. NInum
Elem == Name \cup {Dot, DotDot}
NoEnts == [n \in Elem |-> 0]
Parental == {"creat", "mkdir", "mknod", "unlink"}   \* calls of nameiparent

TypeOK ==
  /\ type \in [Inum -> {"free", "dir", "file", "dev"}]
  /\ nlink \in [Inum -> Nat] /\ ents \in [Inum -> [Elem -> Inum \cup {0}]]
  /\ cwd \in [Proc -> Inum] /\ \A p \in Proc : type[cwd[p]] = "dir"
  /\ pc \in [Proc -> {"user", "walk", "parent", "reopen", "unlink", "undo", "file", "panic"}]
  /\ op \in [Proc -> Parental \cup Name \cup {"none", "call", "link2"}]
  /\ {cur, ip} \subseteq [Proc -> Inum \cup {0}]

Init ==
  /\ type = [i \in Inum |-> IF i = 1 THEN "dir" ELSE "free"]
  /\ nlink = [i \in Inum |-> IF i = 1 THEN 1 ELSE 0]
  /\ ents = [i \in Inum |-> IF i = 1 THEN [NoEnts EXCEPT ![Dot] = 1, ![DotDot] = 1] ELSE NoEnts]
  /\ cwd = [p \in Proc |-> 1] /\ pc = [p \in Proc |-> "user"] /\ op = [p \in Proc |-> "none"]
  /\ cur = [p \in Proc |-> 0] /\ ip = [p \in Proc |-> 0]
  /\ lost = [i \in Inum |-> 0]

\* The holder of a lock across a step: unlink, between its two ilocks.
Unlocked(i) == \A p \in Proc : ~(pc[p] = "unlink" /\ cur[p] = i)

\* The inodes after a step that leaves them as ty, nl, en and has dropped some
\* pointers: iput frees an inode without links and without references, and with
\* a directory go the names that are in it.
Referenced == UNION {{cwd'[p], cur'[p], ip'[p]} : p \in Proc}
Settle(ty, nl, en) ==
  LET kept == {i \in Inum : nl[i] > 0} \cup Referenced
      gone == {e \in (Inum \ kept) \X Name : en[e[1]][e[2]] # 0} IN
  /\ type' = [i \in Inum |-> IF i \in kept THEN ty[i] ELSE "free"]
  /\ nlink' = nl
  /\ ents' = [i \in Inum |-> IF i \in kept THEN en[i] ELSE NoEnts]
  /\ lost' = IF gone = {} THEN lost
             ELSE [i \in Inum |-> lost[i] + Cardinality({e \in gone : en[e[1]][e[2]] = i})]

\* p goes to l in call c with pointers x and y; the others stay.
Becomes(p, l, c, x, y) ==
  /\ pc' = [pc EXCEPT ![p] = l] /\ op' = [op EXCEPT ![p] = c]
  /\ cur' = [cur EXCEPT ![p] = x] /\ ip' = [ip EXCEPT ![p] = y]

\* The call ends, or sys_link goes to `bad` with its inode.
Fail(p) == IF op[p] = "link2" THEN Becomes(p, "undo", "link2", 0, ip[p])
                              ELSE Becomes(p, "user", "none", 0, 0)
Return(p) == Becomes(p, "user", "none", 0, 0)

-----------------------------------------------------------------------------
\* namex starts at the root or at the current directory.
start(p) ==
  /\ pc[p] = "user"
  /\ \E i \in {1, cwd[p]} : Becomes(p, "walk", "call", i, 0)
  /\ UNCHANGED <<inodes, cwd>>

\* ilock, and its panic when the inode it reads is free.
At(p, l) == pc[p] = l /\ Unlocked(cur[p]) /\ type[cur[p]] # "free"

panic(p) ==
  /\ pc[p] \in {"walk", "parent", "reopen"} /\ Unlocked(cur[p]) /\ type[cur[p]] = "free"
  /\ pc' = [pc EXCEPT ![p] = "panic"]
  /\ UNCHANGED <<inodes, cwd, op, cur, ip>>

\* One turn of the loop of namex: dirlookup, iunlockput.
namex(p, n) ==
  /\ At(p, "walk")
  /\ IF type[cur[p]] = "dir" /\ ents[cur[p]][n] # 0
       THEN Becomes(p, "walk", op[p], ents[cur[p]][n], ip[p])
       ELSE Fail(p)
  /\ UNCHANGED cwd /\ Settle(type, nlink, ents)

\* The last turn under nameiparent: the parent is unlocked again.
nameiparent(p) ==
  /\ At(p, "walk")
  /\ IF type[cur[p]] = "dir"
       THEN \E c \in IF op[p] = "link2" THEN {"link2"} ELSE Parental :
              Becomes(p, "parent", c, cur[p], ip[p])
       ELSE Fail(p)
  /\ UNCHANGED cwd /\ Settle(type, nlink, ents)

-----------------------------------------------------------------------------
\* open of what is there; the descriptor keeps the reference until the close.
\* It fails on a directory opened for writing and when descriptors run out.
sys_open(p) ==
  /\ At(p, "walk") /\ op[p] = "call"
  /\ Becomes(p, "file", "none", cur[p], 0) \/ Return(p)
  /\ UNCHANGED cwd /\ Settle(type, nlink, ents)

sys_close(p) ==
  /\ pc[p] = "file" /\ Return(p)
  /\ UNCHANGED cwd /\ Settle(type, nlink, ents)

sys_chdir(p) ==
  /\ At(p, "walk") /\ op[p] = "call"
  /\ cwd' = IF type[cur[p]] = "dir" THEN [cwd EXCEPT ![p] = cur[p]] ELSE cwd
  /\ Return(p)
  /\ Settle(type, nlink, ents)

\* The new inode of create, with its dots, and its name n in dp.
Entered(dp, n, i, kind) ==
  LET en == [ents EXCEPT ![dp][n] = i]
  IN  IF kind = "dir" THEN [en EXCEPT ![i] = [NoEnts EXCEPT ![Dot] = i, ![DotDot] = dp]] ELSE en

Create(p, n, kind, up) ==
  LET dp == cur[p]
      i  == Min({j \in Inum : type[j] = "free"}) IN
  /\ At(p, "parent") /\ op[p] \in {"creat", "mkdir", "mknod"}
  /\ ents[dp][n] = 0 /\ \E j \in Inum : type[j] = "free"
  /\ kind = (CASE op[p] = "creat" -> "file" [] op[p] = "mkdir" -> "dir" [] OTHER -> "dev")
  /\ (op[p] = "creat" /\ Becomes(p, "file", "none", i, 0)) \/ Return(p)
  /\ UNCHANGED cwd
  /\ Settle([type EXCEPT ![i] = kind],
            [nlink EXCEPT ![i] = 1, ![dp] = IF kind = "dir" THEN @ + up ELSE @],
            Entered(dp, n, i, kind))

\* Mutant: the parent does not count the ".." of the new directory.
create_uncounted(p, n, kind) == Create(p, n, kind, 0)

\* create of a new name by open, mkdir or mknod, as one section under the lock
\* of the parent.  Bound: the disk has a free inode.
create(p, n, kind) == Create(p, n, kind, 1)

\* create of a name that is there: open returns a file, the rest fails.
create_exists(p, n) ==
  /\ At(p, "parent") /\ op[p] \in {"creat", "mkdir", "mknod"} /\ ents[cur[p]][n] # 0
  /\ Becomes(p, "reopen", op[p], ents[cur[p]][n], 0)
  /\ UNCHANGED cwd /\ Settle(type, nlink, ents)

create_reopen(p) ==
  /\ At(p, "reopen")
  /\ \/ op[p] = "creat" /\ type[cur[p]] = "file" /\ Becomes(p, "file", "none", cur[p], 0)
     \/ Return(p)
  /\ UNCHANGED cwd /\ Settle(type, nlink, ents)

\* sys_link: count the link and find the parent of the new name.
LinkCount(p, ok) ==
  /\ At(p, "walk") /\ op[p] = "call"
  /\ IF ok THEN \E i \in {1, cwd[p]} : Becomes(p, "walk", "link2", i, cur[p]) ELSE Return(p)
  /\ UNCHANGED cwd
  /\ Settle(type, IF ok THEN [nlink EXCEPT ![cur[p]] = @ + 1] ELSE nlink, ents)

\* Mutant: directories can be linked.
sys_link_dir(p) == LinkCount(p, TRUE)

sys_link(p) == LinkCount(p, type[cur[p]] # "dir")

\* sys_link: the entry, or `bad`.
link_enter(p, n) ==
  /\ At(p, "parent") /\ op[p] = "link2"
  /\ IF ents[cur[p]][n] # 0 THEN Fail(p) ELSE Return(p)
  /\ UNCHANGED cwd
  /\ Settle(type, nlink, IF ents[cur[p]][n] # 0 THEN ents ELSE [ents EXCEPT ![cur[p]][n] = ip[p]])

link_undo(p) ==
  /\ pc[p] = "undo" /\ Unlocked(ip[p]) /\ Return(p)
  /\ UNCHANGED cwd /\ Settle(type, [nlink EXCEPT ![ip[p]] = @ - 1], ents)

\* sys_unlink: "." and ".." are refused; the parent stays locked while it waits
\* for the inode.
sys_unlink(p, n) ==
  /\ At(p, "parent") /\ op[p] = "unlink"
  /\ IF n \in Name /\ ents[cur[p]][n] # 0
       THEN Becomes(p, "unlink", n, cur[p], ents[cur[p]][n])
       ELSE Return(p)
  /\ UNCHANGED cwd /\ Settle(type, nlink, ents)

isdirempty(i) == \A n \in Name : ents[i][n] = 0

\* sys_unlink, with both inodes locked: the entry and both counts.
unlink(p) ==
  LET dp == cur[p]
      i  == ip[p] IN
  /\ pc[p] = "unlink" /\ Unlocked(i) /\ nlink[i] > 0 /\ Return(p)
  /\ UNCHANGED cwd
  /\ IF type[i] = "dir" /\ ~isdirempty(i) THEN Settle(type, nlink, ents)
     ELSE Settle(type, [nlink EXCEPT ![dp] = IF type[i] = "dir" THEN @ - 1 ELSE @, ![i] = @ - 1],
                 [ents EXCEPT ![dp][op[p]] = 0])

panicked(p) == pc[p] = "panic" /\ UNCHANGED vars

Next ==
  \E p \in Proc :
    \/ \E n \in Elem : \/ namex(p, n) \/ create_exists(p, n) \/ link_enter(p, n)
                       \/ sys_unlink(p, n)
                       \/ \E kind \in {"file", "dir", "dev"} : create(p, n, kind)
    \/ start(p) \/ nameiparent(p) \/ sys_open(p) \/ sys_close(p) \/ sys_chdir(p) \/ create_reopen(p)
    \/ sys_link(p) \/ link_undo(p) \/ unlink(p) \/ panic(p) \/ panicked(p)

Spec == Init /\ [][Next]_vars

-----------------------------------------------------------------------------
Dirs == {i \in Inum : type[i] = "dir"}
NamesOf(i) == {e \in Dirs \X Name : ents[e[1]][e[2]] = i}
\* The directories that have not been removed.
Placed == {d \in Dirs : d = 1 \/ NamesOf(d) # {}}

\* An entry names an allocated inode, whatever calls overlap; the one exception
\* is the ".." of a directory that was removed while a process stood in it.
NoDangling ==
  \A d \in Dirs, n \in Elem :
    ents[d][n] # 0 /\ type[ents[d][n]] = "free" => n = DotDot /\ d \notin Placed

\* "Number of links to inode in file system" (fs.h): names, the ".." of placed
\* directories, and links on their way.  create and link may enter a name into
\* a directory that was removed after nameiparent found it; then the count keeps
\* the name when the directory is freed, and is too high, never too low.
Links(i) ==
  Cardinality(NamesOf(i)) + Cardinality({d \in Placed \ {1} : ents[d][DotDot] = i})
    + Cardinality({p \in Proc : ip[p] = i /\ pc[p] # "unlink"}) + (IF i = 1 THEN 1 ELSE 0)
LinkCountExact == \A i \in Inum : nlink[i] = Links(i) + lost[i]

\* A directory has at most one name, in the directory its ".." leads to, and the
\* way up ends, at the root or at a directory that was removed; what is lost with
\* a removed directory is never a directory itself.
IsTree ==
  /\ \A d \in Dirs \ {1} : Cardinality(NamesOf(d)) <= 1 /\ lost[d] = 0
                           /\ \A e \in NamesOf(d) : ents[d][DotDot] = e[1]
  /\ \A S \in SUBSET (Placed \ {1}) : S # {} => \E d \in S : ents[d][DotDot] \notin S

\* unlink waits for an inode with its parent locked: no two calls wait for each
\* other's inode, and none for its own: no name of a directory leads up.
NeverCrossed ==
  \A p \in Proc, q \in Proc :
    pc[p] = "unlink" /\ pc[q] = "unlink" => ~(ip[p] = cur[q] /\ ip[q] = cur[p])
=============================================================================
