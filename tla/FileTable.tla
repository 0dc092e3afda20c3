------------------------------ MODULE FileTable ------------------------------
(***************************************************************************)
(* Open files: the table of file.c and the descriptors of sysfile.c, with  *)
(* the failure paths of open and pipe, fork and exit.  One inode and one   *)
(* pipe stand behind the files.  Each use of ftable.lock is one step;      *)
(* ofile is private to its process, so it changes in the step next to it.  *)
(* What a pipe does with its data is in module Pipe.                       *)
(***************************************************************************)
EXTENDS Naturals, Sequences, FiniteSets

CONSTANTS Proc, NoProc, NFILE, NOFILE,
          SIZE,         \* the inode has SIZE units of data, and room for no more
          MAX,          \* filewrite's chunk
          Lengths       \* bound: the lengths of reads and writes

VARIABLES ref, type, off,       \* struct file; type tells the two ends apart
          iref, pend,           \* references to the inode, open ends of the pipe
          lck,                  \* the holder of the inode
          ofile, pc, ret, loc,  \* each process: descriptors, where it is, where
                                \* fileclose returns, files it holds in locals
          owed,                 \* ff.type in fileclose
          n, at,                \* of read and write: what is left, the offset used
          kid, seen             \* fork's child; history: data moved through a file

files == <<ref, type>>
objs == <<iref, pend>>
io == <<off, lck, n, at, seen>>
ctl == <<ofile, pc, ret, loc, owed, kid>>
vars == <<files, objs, io, ctl>>

File == 1 .. NFILE
FD == 0 .. NOFILE - 1
PipeEnd == {"PIPE_R", "PIPE_W"}
Least(S) == CHOOSE x \in S : \A y \in S : x <= y

Init ==
  /\ ref = [f \in File |-> 0] /\ type = [f \in File |-> "NONE"] /\ off = [f \in File |-> 0]
  /\ iref = 0 /\ pend = {} /\ lck = NoProc
  /\ ofile = [p \in Proc |-> [d \in FD |-> 0]]
  /\ \E init \in Proc : pc = [p \in Proc |-> IF p = init THEN "user" ELSE "unused"]
  /\ ret = [p \in Proc |-> "user"] /\ loc = [p \in Proc |-> <<>>] /\ owed = [p \in Proc |-> "NONE"]
  /\ n = [p \in Proc |-> 0] /\ at = [p \in Proc |-> 0]
  /\ kid = [p \in Proc |-> NoProc] /\ seen = [f \in File |-> {}]

Goto(p, l) == pc' = [pc EXCEPT ![p] = l]
FreeFiles == {f \in File : ref[f] = 0}
FreeFds(p) == {d \in FD : ofile[p][d] = 0}

filealloc(f) == f = Least(FreeFiles) /\ ref' = [ref EXCEPT ![f] = 1]
filedup(f) == ref[f] >= 1 /\ ref' = [ref EXCEPT ![f] = @ + 1]
fdalloc(p, f) == ofile' = [ofile EXCEPT ![p][Least(FreeFds(p))] = f]

\* Call fileclose on each of fs, then go on at l.
Close(p, fs, l) == loc' = [loc EXCEPT ![p] = fs] /\ ret' = [ret EXCEPT ![p] = l] /\ Goto(p, "close")

Fileclose(p, last) ==
  LET f == Head(loc[p]) IN
  /\ pc[p] = "close" /\ loc[p] # <<>> /\ ref[f] >= 1
  /\ ref' = [ref EXCEPT ![f] = @ - 1]
  /\ loc' = [loc EXCEPT ![p] = Tail(@)]
  /\ \/ ref[f] > 1 /\ UNCHANGED <<type, owed, pc, off, seen>>
     \/ /\ ref[f] = 1
        /\ type' = [type EXCEPT ![f] = last]
        /\ off' = [off EXCEPT ![f] = 0] /\ seen' = [seen EXCEPT ![f] = {}]   \* no longer used
        /\ owed' = [owed EXCEPT ![p] = type[f]] /\ Goto(p, "put")
  /\ UNCHANGED <<objs, lck, n, at, ofile, ret, kid>>
\* Mutant: the type of a closed file stays.
fileclose_keeps_type(p) == Fileclose(p, type[Head(loc[p])])
fileclose(p) == Fileclose(p, "NONE")

\* pipeclose, or iput in a transaction, on the copy ff.
fileclose_put(p) ==
  /\ pc[p] = "put" /\ Goto(p, "close") /\ owed' = [owed EXCEPT ![p] = "NONE"]
  /\ iref' = IF owed[p] = "INODE" THEN iref - 1 ELSE iref
  /\ pend' = pend \ {owed[p]}
  /\ UNCHANGED <<files, io, ofile, ret, loc, kid>>
fileclose_done(p) ==
  /\ pc[p] = "close" /\ loc[p] = <<>> /\ Goto(p, ret[p]) /\ ret' = [ret EXCEPT ![p] = "user"]
  /\ UNCHANGED <<files, objs, io, ofile, loc, owed, kid>>

sys_close(p) ==
  \E d \in FD :
    /\ pc[p] = "user" /\ ofile[p][d] # 0
    /\ ofile' = [ofile EXCEPT ![p][d] = 0] /\ Close(p, <<ofile[p][d]>>, "user")
    /\ UNCHANGED <<files, objs, io, owed, kid>>

sys_dup(p) ==
  \E d \in FD :
    /\ pc[p] = "user" /\ ofile[p][d] # 0 /\ FreeFds(p) # {}
    /\ fdalloc(p, ofile[p][d]) /\ filedup(ofile[p][d])
    /\ UNCHANGED <<type, objs, io, pc, ret, loc, owed, kid>>

\* create or namei found the inode.
sys_open(p) ==
  /\ pc[p] = "user" /\ Goto(p, "open") /\ iref' = iref + 1
  /\ UNCHANGED <<files, pend, io, ofile, ret, loc, owed, kid>>
open_alloc(p) ==
  /\ pc[p] = "open"
  /\ \/ FreeFiles = {} /\ Goto(p, "open_fail") /\ UNCHANGED <<ref, ofile, loc, ret>>
     \/ \E f \in FreeFiles :
          /\ filealloc(f)
          /\ \/ FreeFds(p) = {} /\ Close(p, <<f>>, "open_fail") /\ UNCHANGED ofile
             \/ /\ FreeFds(p) # {} /\ fdalloc(p, f) /\ loc' = [loc EXCEPT ![p] = <<f>>]
                /\ Goto(p, "open_set") /\ UNCHANGED ret
  /\ UNCHANGED <<type, objs, io, owed, kid>>
open_fail(p) ==
  /\ pc[p] = "open_fail" /\ Goto(p, "user") /\ iref' = iref - 1
  /\ UNCHANGED <<files, pend, io, ofile, ret, loc, owed, kid>>
open_set(p) ==
  LET f == Head(loc[p]) IN
  /\ pc[p] = "open_set" /\ Goto(p, "user") /\ loc' = [loc EXCEPT ![p] = <<>>]
  /\ type' = [type EXCEPT ![f] = "INODE"]
  /\ off' = [off EXCEPT ![f] = 0] /\ seen' = [seen EXCEPT ![f] = {}]
  /\ UNCHANGED <<ref, objs, lck, n, at, ofile, ret, owed, kid>>

\* pipealloc's two filealloc.
pipealloc(p) ==
  /\ \/ pc[p] = "user" /\ loc[p] = <<>>
     \/ pc[p] = "pipe" /\ Len(loc[p]) = 1
  /\ \/ \E f \in FreeFiles : filealloc(f) /\ loc' = [loc EXCEPT ![p] = Append(@, f)]
                             /\ Goto(p, "pipe") /\ UNCHANGED ret
     \/ FreeFiles = {} /\ Close(p, loc[p], "user") /\ UNCHANGED ref
  /\ UNCHANGED <<type, objs, io, ofile, owed, kid>>
\* kalloc's page, or none; then sys_pipe's descriptors.
SysPipe(p, undo) ==
  LET rf == loc[p][1]  wf == loc[p][2]  free == FreeFds(p) IN
  /\ pc[p] = "pipe" /\ Len(loc[p]) = 2
  /\ \/ Close(p, loc[p], "user") /\ UNCHANGED <<type, pend, ofile>>
     \/ /\ pend = {} /\ pend' = PipeEnd
        /\ type' = [type EXCEPT ![rf] = "PIPE_R", ![wf] = "PIPE_W"]
        /\ \/ /\ Cardinality(free) >= 2 /\ Goto(p, "user") /\ loc' = [loc EXCEPT ![p] = <<>>]
              /\ ofile' = [ofile EXCEPT ![p] = [@ EXCEPT ![Least(free)] = rf,
                                                         ![Least(free \ {Least(free)})] = wf]]
              /\ UNCHANGED ret
           \/ /\ Cardinality(free) < 2 /\ Close(p, loc[p], "user")
              /\ ofile' = IF undo \/ free = {} THEN ofile ELSE [ofile EXCEPT ![p][Least(free)] = rf]
  /\ UNCHANGED <<ref, iref, io, owed, kid>>
\* Mutant: fd0 is left in the table.
sys_pipe_keeps_fd0(p) == SysPipe(p, FALSE)
sys_pipe(p) == SysPipe(p, TRUE)

fork(p) ==
  \E q \in Proc :
    /\ pc[p] = "user" /\ pc[q] = "unused"
    /\ pc' = [pc EXCEPT ![p] = "fork", ![q] = "embryo"] /\ kid' = [kid EXCEPT ![p] = q]
    /\ UNCHANGED <<files, objs, io, ofile, ret, loc, owed>>
fork_dup(p) ==
  LET q == kid[p]  todo == {d \in FD : ofile[p][d] # 0 /\ ofile[q][d] = 0} IN
  /\ pc[p] = "fork"
  /\ \/ \E d \in todo : filedup(ofile[p][d]) /\ ofile' = [ofile EXCEPT ![q][d] = ofile[p][d]]
                        /\ d = Least(todo) /\ UNCHANGED <<pc, kid>>
     \/ /\ todo = {} /\ pc' = [pc EXCEPT ![p] = "user", ![q] = "user"]
        /\ kid' = [kid EXCEPT ![p] = NoProc] /\ UNCHANGED <<ref, ofile>>
  /\ UNCHANGED <<type, objs, io, ret, loc, owed>>

\* Some process, init, never exits.
exit(p) ==
  /\ \/ pc[p] = "user" /\ \E q \in Proc \ {p} : pc[q] \notin {"unused", "embryo", "exit"} /\ ret[q] # "exit"
     \/ pc[p] = "exit"
  /\ LET open == {d \in FD : ofile[p][d] # 0} IN
     \/ \E d \in open : d = Least(open) /\ ofile' = [ofile EXCEPT ![p][d] = 0]
                        /\ Close(p, <<ofile[p][d]>>, "exit")
     \/ open = {} /\ Goto(p, "unused") /\ UNCHANGED <<ofile, loc, ret>>
  /\ UNCHANGED <<files, objs, io, owed, kid>>

\* readi, or one writei of filewrite, with the inode locked.
Transfer(p, f, len, l, free) ==
  /\ type[f] = "INODE" /\ (lck = NoProc \/ ~free)
  /\ lck' = p /\ n' = [n EXCEPT ![p] = len] /\ at' = [at EXCEPT ![p] = off[f]]
  /\ loc' = [loc EXCEPT ![p] = <<f>>] /\ Goto(p, l)
  /\ UNCHANGED <<files, objs, off, seen, ofile, ret, owed, kid>>
\* Mutant: without ilock.
fileread_unlocked(p) ==
  \E d \in FD, len \in Lengths :
    pc[p] = "user" /\ ofile[p][d] # 0 /\ Transfer(p, ofile[p][d], len, "read", FALSE)
fileread(p) ==
  \E d \in FD, len \in Lengths :
    pc[p] = "user" /\ ofile[p][d] # 0 /\ Transfer(p, ofile[p][d], len, "read", TRUE)
filewrite(p) ==
  \/ \E d \in FD, len \in Lengths :
       pc[p] = "user" /\ ofile[p][d] # 0 /\ Transfer(p, ofile[p][d], len, "write", TRUE)
  \/ pc[p] = "write_more" /\ Transfer(p, Head(loc[p]), n[p], "write", TRUE)

\* f->off += r and iunlock, with left more to do; writei past the end gives -1.
Moved(p, r, left) ==
  LET f == Head(loc[p]) IN
  /\ off' = [off EXCEPT ![f] = @ + r]
  /\ seen' = [seen EXCEPT ![f] = @ \cup (at[p] .. at[p] + r - 1)]
  /\ lck' = NoProc /\ n' = [n EXCEPT ![p] = left] /\ at' = [at EXCEPT ![p] = 0]
  /\ loc' = IF left > 0 THEN loc ELSE [loc EXCEPT ![p] = <<>>]
  /\ Goto(p, IF left > 0 THEN "write_more" ELSE "user")
  /\ UNCHANGED <<files, objs, ofile, ret, owed, kid>>
Minimum(a, b) == IF a < b THEN a ELSE b
fileread_done(p) == pc[p] = "read" /\ Moved(p, Minimum(n[p], SIZE - at[p]), 0)
filewrite_done(p) ==
  LET n1 == Minimum(n[p], MAX)  ok == at[p] + n1 <= SIZE IN
  pc[p] = "write" /\ Moved(p, IF ok THEN n1 ELSE 0, IF ok THEN n[p] - n1 ELSE 0)

Next ==
  \E p \in Proc :
    \/ sys_close(p) \/ sys_dup(p) \/ sys_open(p) \/ pipealloc(p) \/ fork(p) \/ exit(p)
    \/ fileread(p) \/ filewrite(p) \/ open_alloc(p) \/ open_fail(p) \/ open_set(p)
    \/ sys_pipe(p) \/ fork_dup(p) \/ fileclose(p) \/ fileclose_put(p)
    \/ fileclose_done(p) \/ fileread_done(p) \/ filewrite_done(p)
Spec == Init /\ [][Next]_vars

\* Files a process refers to from its locals, beside its descriptors.
Held(p, f) == IF pc[p] \in {"close", "put", "pipe"}
              THEN Cardinality({k \in DOMAIN loc[p] : loc[p][k] = f}) ELSE 0
Total(S, g(_)) == Cardinality({x \in S \X {1, 2} : x[2] <= g(x[1])})

\* A file's count is the number of references to it, so fileclose and filedup
\* never meet a free file and none stays allocated with nobody to close it.
RefsExact ==
  \A f \in File :
    ref[f] = Cardinality({x \in Proc \X FD : ofile[x[1]][x[2]] = f})
             + Total(Proc, LAMBDA p : Held(p, f))

\* The inode has one reference for each file that names it and each call on
\* its way there or back, and an end of the pipe is open exactly while a file
\* is: no failure path of open or pipe drops an object or drops it twice.
ObjectsExact ==
  /\ iref = Cardinality({f \in File : ref[f] > 0 /\ type[f] = "INODE"})
            + Cardinality({p \in Proc : "open_fail" \in {pc[p], ret[p]} \/ pc[p] \in {"open", "open_set"}})
            + Cardinality({p \in Proc : owed[p] = "INODE"})
  /\ \A e \in PipeEnd : e \in pend <=> (\E f \in File : ref[f] > 0 /\ type[f] = e)
                                      \/ (\E p \in Proc : owed[p] = e)

\* Processes that share an open file share its offset: what they read and
\* write through it are disjoint runs of the file, without gaps.
EachByteOnce == \A f \in File : ref[f] > 0 => seen[f] = 0 .. off[f] - 1
=============================================================================
