------------------------------- MODULE Shell -------------------------------
(***************************************************************************)
(* sh.c: the shell parses one line in a child, and runcmd runs the tree    *)
(* with fork, pipe, dup, wait and exec.  System calls of one process with  *)
(* no other process to wait for are taken together with the one before.    *)
(* A program is one that writes without end and either reads its input to  *)
(* the end or never reads; init reaps orphans at once.                     *)
(***************************************************************************)
EXTENDS Naturals, Sequences, FiniteSets

CONSTANTS Text,         \* the lines typed
          Parse,        \* module ShellParse on each of them: Parsing, tabulated
          Runs(_),      \* bound: which of them are run as well
          NPROC, NPIPE

VARIABLES line, pc, cmd, parent, fd,
          kids,         \* runcmd: waits still to do
          want, bg,     \* history: what 0 and 1 should be, started under &
          failed        \* history: a fork failed

vars == <<line, pc, cmd, parent, fd, kids, want, bg, failed>>

Slot == 1 .. NPROC
FD == 0 .. 4
Min2(S) == CHOOSE x \in S : \A y \in S : x <= y
Console == <<0, "console">>
None == <<0, "none">>
Panic == [type |-> "PANIC"]
NoCmd == [type |-> "NONE"]
Shut == [d \in FD |-> None]
Std == [d \in FD |-> IF d <= 2 THEN Console ELSE None]

\* sh has opened the console three times and read a line.
Init ==
  /\ line \in Text
  /\ pc = [p \in Slot |-> IF p = 1 THEN IF Runs(line) THEN "prompt" ELSE "read" ELSE "unused"]
  /\ cmd = [p \in Slot |-> NoCmd] /\ parent = [p \in Slot |-> 0]
  /\ fd = [p \in Slot |-> IF p = 1 THEN Std ELSE Shut]
  /\ kids = [p \in Slot |-> 0] /\ want = [p \in Slot |-> <<Console, Console>>]
  /\ bg = {} /\ failed = FALSE

Unused == {p \in Slot : pc[p] = "unused"}
Holds(o) == \E p \in Slot, d \in FD : fd[p][d] = o
Lowest(t) == Min2({d \in FD : t[d] = None})
close(t, d) == [t EXCEPT ![d] = None]
dup(t, d) == [t EXCEPT ![Lowest(t)] = t[d]]
r(k) == <<k, "r">>
w(k) == <<k, "w">>

\* exit: the children go to init, which reaps those that are zombies.
Exit(p) ==
  LET orphan(q) == q # p /\ parent[q] = p
      gone == {q \in Slot : orphan(q) /\ pc[q] = "zombie"} \cup (IF parent[p] = 0 THEN {p} ELSE {}) IN
  /\ pc' = [q \in Slot |-> IF q \in gone THEN "unused" ELSE IF q = p THEN "zombie" ELSE pc[q]]
  /\ parent' = [q \in Slot |-> IF orphan(q) \/ q \in gone THEN 0 ELSE parent[q]]
  /\ fd' = [fd EXCEPT ![p] = Shut] /\ cmd' = [cmd EXCEPT ![p] = NoCmd]
  /\ kids' = [kids EXCEPT ![p] = 0] /\ want' = [want EXCEPT ![p] = <<Console, Console>>]
  /\ bg' = bg \ gone /\ UNCHANGED line

\* fork1: the parent, with descriptors t, goes on at l with n children to wait
\* for; the child runs c with descriptors u and should have io.
Fork(p, l, n, t, c, u, io, back) ==
  \/ /\ Unused # {}
     /\ LET q == Min2(Unused) IN
        /\ pc' = [pc EXCEPT ![p] = l, ![q] = "runcmd"]
        /\ cmd' = [cmd EXCEPT ![q] = c] /\ parent' = [parent EXCEPT ![q] = p]
        /\ fd' = [fd EXCEPT ![p] = t, ![q] = u] /\ want' = [want EXCEPT ![q] = io]
        /\ bg' = IF back \/ p \in bg THEN bg \cup {q} ELSE bg
     /\ kids' = [kids EXCEPT ![p] = n] /\ UNCHANGED <<line, failed>>
  \/ Exit(p) /\ failed' = TRUE         \* no process or no memory: panic

main(p) ==
  /\ pc[p] = "prompt" /\ Parse[line].cmd # Panic
  /\ Fork(p, "wait", 1, fd[p], Parse[line].cmd, fd[p], want[p], FALSE)

Runcmd(p, type) == pc[p] = "runcmd" /\ cmd[p].type = type

run_exec(p) ==
  /\ Runcmd(p, "EXEC")
  /\ \/ Exit(p)                       \* no argument, or exec failed
     \/ /\ cmd[p].argv # <<>> /\ \E l \in {"reads", "ignores"} : pc' = [pc EXCEPT ![p] = l]
        /\ UNCHANGED <<line, cmd, parent, fd, kids, want, bg>>
  /\ UNCHANGED failed
run_redir(p) ==
  LET c == cmd[p]  t == close(fd[p], c.fd)  o == <<c.file[1], "file">> IN
  /\ Runcmd(p, "REDIR")
  /\ \/ Exit(p)                       \* open failed
     \/ /\ fd' = [fd EXCEPT ![p] = [t EXCEPT ![Lowest(t)] = o]] /\ cmd' = [cmd EXCEPT ![p] = c.cmd]
        /\ want' = [want EXCEPT ![p][c.fd + 1] = o] /\ UNCHANGED <<line, pc, parent, kids, bg>>
  /\ UNCHANGED failed
run_list(p) ==
  /\ Runcmd(p, "LIST") /\ Fork(p, "wait", 1, fd[p], cmd[p].left, fd[p], want[p], FALSE)
run_back(p) ==
  /\ Runcmd(p, "BACK") /\ Fork(p, "exit", 0, fd[p], cmd[p].cmd, fd[p], want[p], TRUE)

\* pipe(p), then the left child: close(1); dup(p[1]); close(p[0]); close(p[1]).
FreePipe == Min2({k \in 1 .. NPIPE : ~Holds(r(k)) /\ ~Holds(w(k))})
p0(t) == CHOOSE d \in FD : d > 2 /\ \E k \in 1 .. NPIPE : t[d] = r(k)
p1(t) == CHOOSE d \in FD : d > 2 /\ \E k \in 1 .. NPIPE : t[d] = w(k)
left(t) == close(close(dup(close(t, 1), p1(t)), p0(t)), p1(t))
\* Mutant: the write end stays open.
right_open(t) == close(dup(close(t, 0), p0(t)), p0(t))
right(t) == close(close(dup(close(t, 0), p0(t)), p0(t)), p1(t))
run_pipe(p) ==
  LET k == FreePipe
      t0 == [fd[p] EXCEPT ![Lowest(fd[p])] = r(k)]
      t == [t0 EXCEPT ![Lowest(t0)] = w(k)] IN
  /\ Runcmd(p, "PIPE") /\ Fork(p, "pipe", 0, t, cmd[p].left, left(t), <<want[p][1], w(k)>>, FALSE)
\* The right child; then the parent's two close.
PipeRight(p, shut(_), n) ==
  LET t == fd[p] IN
  /\ pc[p] = "pipe"
  /\ Fork(p, "wait", n, shut(t), cmd[p].right, right(t), <<t[p0(t)], want[p][2]>>, FALSE)
\* Mutants: the parent keeps the write end; it waits once.
run_pipe_right_open(p) == PipeRight(p, LAMBDA t : close(t, p0(t)), 2)
run_pipe_right_once(p) == PipeRight(p, LAMBDA t : close(close(t, p0(t)), p1(t)), 1)
run_pipe_right(p) == PipeRight(p, LAMBDA t : close(close(t, p0(t)), p1(t)), 2)

\* wait, until all are waited for.  Here it always has a child to wait for:
\* NeverStuck shows it, since this action waits for ever when there is none.
wait(p) ==
  /\ pc[p] = "wait" /\ kids[p] > 0 /\ kids' = [kids EXCEPT ![p] = @ - 1]
  /\ \E q \in Slot :
       /\ parent[q] = p /\ pc[q] = "zombie" /\ pc' = [pc EXCEPT ![q] = "unused"]
       /\ parent' = [parent EXCEPT ![q] = 0] /\ bg' = bg \ {q}
  /\ UNCHANGED <<line, cmd, fd, want, failed>>
\* What comes after: the prompt, the right side of a list, or exit.
waited(p) ==
  /\ <<pc[p], kids[p]>> \in {<<"wait", 0>>, <<"exit", 0>>}
  /\ \/ /\ p = 1 /\ pc' = [pc EXCEPT ![p] = "done"]
        /\ UNCHANGED <<line, cmd, parent, fd, kids, want, bg>>
     \/ /\ p # 1 /\ cmd[p].type = "LIST"
        /\ pc' = [pc EXCEPT ![p] = "runcmd"] /\ cmd' = [cmd EXCEPT ![p] = @.right]
        /\ UNCHANGED <<line, parent, fd, kids, want, bg>>
     \/ p # 1 /\ cmd[p].type # "LIST" /\ Exit(p)
  /\ UNCHANGED failed

\* A program ends when its input has (if it reads), and a write to a pipe
\* needs a reader that reads, or none: external.
CanEnd(p) ==
  \A k \in 1 .. NPIPE :
    /\ pc[p] = "reads" /\ fd[p][0] = r(k) => ~Holds(w(k))
    /\ fd[p][1] = w(k) => ~Holds(r(k)) \/ \E q \in Slot : pc[q] = "reads" /\ fd[q][0] = r(k)
program(p) == pc[p] \in {"reads", "ignores"} /\ CanEnd(p) /\ Exit(p) /\ UNCHANGED failed

Next ==
  \E p \in Slot :
    \/ main(p) \/ run_exec(p) \/ run_redir(p) \/ run_list(p) \/ run_back(p) \/ run_pipe(p)
    \/ run_pipe_right(p) \/ wait(p) \/ waited(p) \/ program(p)
Spec == Init /\ [][Next]_vars

\* The parser accepts exactly the lines of the grammar, and builds the one
\* tree the grammar gives (parsecmd and what it calls).
ParsesGrammar == pc[1] \in {"read", "prompt"} => Parse[line].trees = {Parse[line].cmd} \ {Panic}

\* Every word of the line, and nothing inside one, is cut off by the zeros
\* that nulterminate stores into the line after parsing.
WordsTerminated ==
  LET ends == Parse[line].ends  words == Parse[line].words IN
  pc[1] \in {"read", "prompt"} /\ Parse[line].cmd # Panic =>
    \A x \in words : x[2] \in ends /\ ends \cap (x[1] .. x[2] - 1) = {}

\* A program starts with exactly the three standard descriptors, each
\* connected as the pipes and redirections around it say.
ProgramDescriptors ==
  \A p \in Slot : pc[p] \in {"reads", "ignores"} =>
    fd[p] = [Std EXCEPT ![0] = want[p][1], ![1] = want[p][2]]

\* The prompt comes back only when all but the background of the line has
\* ended (unless fork failed), although wait() takes whichever child is first.
ForegroundDone ==
  pc[1] = "done" /\ ~failed => \A p \in Slot \ {1} : pc[p] # "unused" => p \in bg

\* No line leaves everyone waiting: a reader waits for an end of file that a
\* stray descriptor keeps away, or a writer for a reader that never reads.
NeverStuck ==
  (\A p \in Slot \ {1} : \/ pc[p] \in {"unused", "zombie"}
                         \/ pc[p] \in {"reads", "ignores"} /\ ~CanEnd(p)
                         \/ pc[p] = "wait" /\ kids[p] > 0
                            /\ \A q \in Slot : parent[q] = p => pc[q] # "zombie")
  => \A p \in Slot \ {1} : pc[p] \in {"unused", "zombie"}
=============================================================================
