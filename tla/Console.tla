------------------------------- MODULE Console -------------------------------
(***************************************************************************)
(* Console input (console.c): the ring buffer between the keyboard or      *)
(* serial interrupt and the processes in read.  A character is one of      *)
(* Plain, or newline, or one of the control characters the code looks at.  *)
(* consoleintr and each turn of consoleread's loop run under input.lock;   *)
(* the indices are unsigned and wrap at UMAX.                              *)
(***************************************************************************)
EXTENDS Naturals, Sequences

CONSTANTS Proc, NoProc, Plain,
          INPUT_BUF, UMAX,      \* UMAX is a multiple of INPUT_BUF
          Sizes                 \* third arguments of read

VARIABLES
  buf, r, w, e,                 \* input
  lock,                         \* the reader inside input.lock
  pc, n, target, killed         \* consoleread of each process, p->killed

input == <<buf, r, w, e>>
vars == <<input, lock, pc, n, target, killed>>

Diff(a, b) == (a + UMAX - b) % UMAX
Inc(a) == (a + 1) % UMAX
Dec(a) == (a + UMAX - 1) % UMAX
Cell(a) == a % INPUT_BUF

Init ==
  /\ buf = [i \in 0 .. INPUT_BUF - 1 |-> "nul"] /\ r = 0 /\ w = 0 /\ e = 0
  /\ lock = NoProc
  /\ pc = [p \in Proc |-> "user"] /\ n = [p \in Proc |-> 0] /\ target = [p \in Proc |-> 0]
  /\ killed = [p \in Proc |-> FALSE]

wakeup(waiting) == [p \in Proc |-> IF waiting[p] = "sleep" THEN "awake" ELSE waiting[p]]
reading == <<lock, n, target, killed>>

Room == Diff(e, r) < INPUT_BUF
Typed(c, ends, woken) ==
  /\ Room
  /\ buf' = [buf EXCEPT ![Cell(e)] = c]
  /\ e' = Inc(e)
  /\ IF ends THEN w' = Inc(e) /\ pc' = woken ELSE UNCHANGED <<w, pc>>
  /\ UNCHANGED <<r, reading>>
EndsLine(c) == c \in {"nl", "D"} \/ Inc(e) = (r + INPUT_BUF) % UMAX
\* Mutants: a full buffer without a newline stays closed; nobody is woken.
key_stuck(c) == Typed(c, c \in {"nl", "D"}, wakeup(pc))
key_silent(c) == Typed(c, EndsLine(c), pc)
key(c) == Typed(c, EndsLine(c), wakeup(pc))

\* ^H and delete.
backspace ==
  /\ e # w /\ e' = Dec(e)
  /\ UNCHANGED <<buf, r, w, pc, reading>>

\* ^U: back to the start of the line, in what is not committed.
kill_line ==
  \E k \in 0 .. Diff(e, w) :
    /\ \A j \in 1 .. k : buf[Cell(Diff(e, j))] # "nl"
    /\ k = Diff(e, w) \/ buf[Cell(Diff(e, k + 1))] = "nl"
    /\ e' = Diff(e, k)
    /\ UNCHANGED <<buf, r, w, pc, reading>>

consoleintr ==
  /\ lock = NoProc
  /\ (\E c \in Plain \cup {"nl", "D"} : key(c)) \/ backspace \/ kill_line

read(p) ==
  /\ pc[p] = "user" /\ ~killed[p]
  /\ \E k \in Sizes : n' = [n EXCEPT ![p] = k] /\ target' = [target EXCEPT ![p] = k]
  /\ pc' = [pc EXCEPT ![p] = "acquire"]
  /\ UNCHANGED <<input, lock, killed>>

enter(p) ==
  /\ pc[p] \in {"acquire", "awake"} /\ lock = NoProc /\ lock' = p
  /\ pc' = [pc EXCEPT ![p] = "loop"]
  /\ UNCHANGED <<input, n, target, killed>>

Leave(p, where) == lock' = NoProc /\ pc' = [pc EXCEPT ![p] = where]

empty(p) ==
  /\ pc[p] = "loop" /\ n[p] > 0 /\ r = w
  /\ Leave(p, IF killed[p] THEN "return" ELSE "sleep")
  /\ UNCHANGED <<input, n, target, killed>>

Take(p, again) ==
  LET c == buf[Cell(r)]  eof == c = "D" IN
  /\ pc[p] = "loop" /\ n[p] > 0 /\ r # w
  /\ r' = IF eof /\ n[p] < target[p] THEN again ELSE Inc(r)
  /\ n' = IF eof THEN n ELSE [n EXCEPT ![p] = @ - 1]
  /\ IF c \in {"D", "nl"} THEN Leave(p, "return") ELSE UNCHANGED <<lock, pc>>
  /\ UNCHANGED <<buf, w, e, target, killed>>
\* Mutant: steps back behind the ^D it has not passed.
take_back(p) == Take(p, Dec(r))
\* A ^D after other characters is left for the next call.
take(p) == Take(p, r)

done(p) ==
  /\ pc[p] = "loop" /\ n[p] = 0
  /\ Leave(p, "return")
  /\ UNCHANGED <<input, n, target, killed>>

return(p) ==
  /\ pc[p] = "return"
  /\ pc' = [pc EXCEPT ![p] = "user"]
  /\ n' = [n EXCEPT ![p] = 0] /\ target' = [target EXCEPT ![p] = 0]
  /\ UNCHANGED <<input, lock, killed>>

\* kill wakes a sleeper whatever it sleeps on.
kill(p) ==
  /\ ~killed[p] /\ killed' = [killed EXCEPT ![p] = TRUE]
  /\ pc' = IF pc[p] = "sleep" THEN [pc EXCEPT ![p] = "awake"] ELSE pc
  /\ UNCHANGED <<input, lock, n, target>>

Next == consoleintr \/ \E p \in Proc :
  read(p) \/ enter(p) \/ empty(p) \/ take(p) \/ done(p) \/ return(p) \/ kill(p)

Spec == Init /\ [][Next]_vars

Committed == [i \in 1 .. Diff(w, r) |-> buf[Cell(r + i - 1)]]

\* The indices stay in order and within one turn of the ring; a full buffer is
\* committed, or nobody could type, edit or read any more.
RingInOrder ==
  /\ Diff(w, r) <= Diff(e, r) /\ Diff(e, r) <= INPUT_BUF
  /\ Diff(e, r) = INPUT_BUF => w = e

\* Typing and editing leave the committed characters alone and add to their
\* end; a reader takes them from the front, one by one.
Queues ==
  \/ Len(Committed) <= Len(Committed') /\ SubSeq(Committed', 1, Len(Committed)) = Committed
  \/ Committed # <<>> /\ Committed' = Tail(Committed)
CommittedIsQueue == [][Queues]_vars

\* Nobody sleeps on &input.r while there is something to read.
SleepJustified == \A p \in Proc : pc[p] = "sleep" => r = w

\* Both of them: the ring and its readers are sound, across the overflow of the
\* unsigned indices (consoleintr, consoleread).
RingSound == RingInOrder /\ SleepJustified
=============================================================================
