-------------------------------- MODULE Pipe --------------------------------
(***************************************************************************)
(* pipe.c: a ring buffer with two unsigned counters, guarded by p->lock,   *)
(* read and written by processes that share its two ends, together with    *)
(* the reference counts of file.c that decide when an end is closed.       *)
(*                                                                         *)
(* Code between acquire and release runs one byte or one test at a time    *)
(* with `lock` held, so that kill(), which does not take p->lock, can fall *)
(* between a test of proc->killed and the sleep that follows it.  sleep()  *)
(* gives up p->lock and sleeps in one step: it holds ptable.lock across    *)
(* both (proc.c 363-378).  The counters are modulo UMAX, 2^32 in C.        *)
(***************************************************************************)
EXTENDS Naturals, FiniteSets

CONSTANTS Proc, NoProc,
          Byte,
          PIPESIZE,
          UMAX,         \* number of values of a uint
          Length        \* bound: the lengths of reads and writes

ASSUME PipeAssumption ==
  /\ PIPESIZE \in Nat \ {0} /\ UMAX \in Nat /\ UMAX > PIPESIZE
  /\ UMAX % PIPESIZE = 0
  /\ Length \subseteq Nat \ {0} /\ NoProc \notin Proc

VARIABLES
  data, nread, nwrite, readopen, writeopen, lock,   \* struct pipe
  freed,      \* times the page of this pipe was given to kfree
  fd,         \* the descriptors: pairs <<process, end>>
  killed,     \* proc->killed
  pc,         \* where each process is
  n, i,       \* the length of its read or write, and the bytes moved so far
  aborted     \* history: a killed writer has left this pipe full, waking nobody

ring  == <<data, nread, nwrite>>
ends  == <<readopen, writeopen, freed>>
vars  == <<ring, ends, lock, fd, killed, pc, n, i, aborted>>

End == {"r", "w"}
Locked   == {"w_loop", "w_sleep", "r_test", "r_sleep", "r_copy"}
Waiting  == {"w_lock", "r_lock"}
Closing  == {"close_r", "close_w"}
Asleep   == {"asleep_w", "asleep_r"}

TypeOK ==
  /\ data \in [0 .. PIPESIZE - 1 -> Byte]
  /\ nread \in 0 .. UMAX - 1 /\ nwrite \in 0 .. UMAX - 1
  /\ (nwrite + UMAX - nread) % UMAX <= PIPESIZE
  /\ lock \in Proc \cup {NoProc}
  /\ fd \subseteq Proc \X End /\ killed \subseteq Proc
  /\ pc \in [Proc -> {"user"} \cup Locked \cup Waiting \cup Closing \cup Asleep]
  /\ n \in [Proc -> Length \cup {0}] /\ \A p \in Proc : i[p] \in 0 .. n[p]
  /\ \A p \in Proc : pc[p] \in Locked <=> lock = p

Empty == nread = nwrite
\* Mutant: the buffer takes one byte too many.
Full_off_by_one == nwrite = (nread + PIPESIZE + 1) % UMAX

Full  == nwrite = (nread + PIPESIZE) % UMAX
Goto(p, l) == pc' = [pc EXCEPT ![p] = l]

\* Where wakeup(&p->nread), wakeup(&p->nwrite) put the sleepers: they take the
\* lock again at the end of sleep().  The caller goes to l.
WakeReaders(p, l) ==
  pc' = [x \in Proc |-> CASE x = p -> l
                          [] x # p /\ pc[x] = "asleep_r" -> "r_lock"
                          [] OTHER -> pc[x]]
WakeWriters(p, l) ==
  pc' = [x \in Proc |-> CASE x = p -> l
                          [] x # p /\ pc[x] = "asleep_w" -> "w_lock"
                          [] OTHER -> pc[x]]

\* One process has made the pipe, on a page of junk, and holds both of its ends.
Init ==
  /\ \E b \in Byte : data = [k \in 0 .. PIPESIZE - 1 |-> b]
  /\ nread = 0 /\ nwrite = 0 /\ readopen = TRUE /\ writeopen = TRUE
  /\ lock = NoProc /\ freed = 0
  /\ \E p \in Proc : fd = {p} \X End
  /\ killed = {} /\ pc = [p \in Proc |-> "user"] /\ n = [p \in Proc |-> 0] /\ i = [p \in Proc |-> 0]
  /\ aborted = FALSE

-----------------------------------------------------------------------------
\* sys_pipe, pipealloc: a new pipe, on a page that kfree has filled with junk.
pipealloc(p) ==
  /\ freed > 0 /\ fd = {} /\ p \notin killed
  /\ \A x \in Proc : pc[x] = "user"
  /\ readopen' = TRUE /\ writeopen' = TRUE /\ nread' = 0 /\ nwrite' = 0
  /\ lock' = NoProc /\ freed' = 0 /\ aborted' = FALSE
  /\ fd' = {p} \X End
  /\ \E b \in Byte : data' = [k \in 0 .. PIPESIZE - 1 |-> b]
  /\ UNCHANGED <<killed, pc, n, i>>

\* fork, filedup: a new process x gets the descriptors of p.
filedup(p, x) ==
  /\ pc[p] = "user" /\ p \notin killed /\ p # x
  /\ pc[x] = "user" /\ fd \cap ({x} \X End) = {}
  /\ fd' = fd \cup {<<x, e>> : e \in {e \in End : <<p, e>> \in fd}}
  /\ killed' = killed \ {x}
  /\ UNCHANGED <<ring, ends, lock, pc, n, i, aborted>>

\* Mutant: every close of a descriptor closes the end.
fileclose_uncounted(p, e) ==
  /\ pc[p] = "user" /\ <<p, e>> \in fd
  /\ fd' = fd \ {<<p, e>>}
  /\ Goto(p, IF e = "w" THEN "close_w" ELSE "close_r")
  /\ UNCHANGED <<ring, ends, lock, killed, n, i, aborted>>

\* fileclose, by close or by exit: the last reference goes on to pipeclose.
fileclose(p, e) ==
  /\ pc[p] = "user" /\ <<p, e>> \in fd
  /\ fd' = fd \ {<<p, e>>}
  /\ IF \E x \in Proc : <<x, e>> \in fd'
       THEN UNCHANGED pc
       ELSE Goto(p, IF e = "w" THEN "close_w" ELSE "close_r")
  /\ UNCHANGED <<ring, ends, lock, killed, n, i, aborted>>

\* Mutant: no wakeup of the processes that wait for the end that closes.
pipeclose_silent(p) ==
  /\ pc[p] \in Closing /\ lock = NoProc
  /\ \/ pc[p] = "close_w" /\ writeopen' = FALSE /\ UNCHANGED readopen
     \/ pc[p] = "close_r" /\ readopen' = FALSE /\ UNCHANGED writeopen
  /\ Goto(p, "user")
  /\ freed' = freed + (IF ~readopen' /\ ~writeopen' THEN 1 ELSE 0)
  /\ UNCHANGED <<ring, lock, fd, killed, n, i, aborted>>

\* pipeclose, from its acquire to its last statement.
pipeclose(p) ==
  /\ pc[p] \in Closing /\ lock = NoProc
  /\ \/ /\ pc[p] = "close_w"
        /\ writeopen' = FALSE /\ UNCHANGED readopen
        /\ WakeReaders(p, "user")
     \/ /\ pc[p] = "close_r"
        /\ readopen' = FALSE /\ UNCHANGED writeopen
        /\ WakeWriters(p, "user")
  /\ freed' = freed + (IF ~readopen' /\ ~writeopen' THEN 1 ELSE 0)
  /\ UNCHANGED <<ring, lock, fd, killed, n, i, aborted>>

\* kill: sets killed, and wakes a process that sleeps.
kill(p) ==
  /\ killed' = killed \cup {p}
  /\ Goto(p, CASE pc[p] = "asleep_r" -> "r_lock"
               [] pc[p] = "asleep_w" -> "w_lock"
               [] OTHER -> pc[p])
  /\ UNCHANGED <<ring, ends, lock, fd, n, i, aborted>>

-----------------------------------------------------------------------------
\* A call of write or read; n is at least one.
pipewrite(p, len) ==
  /\ pc[p] = "user" /\ <<p, "w">> \in fd /\ p \notin killed
  /\ n' = [n EXCEPT ![p] = len]
  /\ Goto(p, "w_lock")
  /\ UNCHANGED <<ring, ends, lock, fd, killed, i, aborted>>

piperead(p, len) ==
  /\ pc[p] = "user" /\ <<p, "r">> \in fd /\ p \notin killed
  /\ n' = [n EXCEPT ![p] = len]
  /\ Goto(p, "r_lock")
  /\ UNCHANGED <<ring, ends, lock, fd, killed, i, aborted>>

\* acquire(&p->lock), at the start of a call or on the way out of sleep().
acquire(p) ==
  /\ pc[p] \in Waiting /\ lock = NoProc
  /\ lock' = p
  /\ Goto(p, IF pc[p] = "w_lock" THEN "w_loop" ELSE "r_test")
  /\ UNCHANGED <<ring, ends, fd, killed, n, i, aborted>>

\* release(&p->lock) and return; the locals of the call are gone.
Return(p) ==
  /\ lock' = NoProc
  /\ n' = [n EXCEPT ![p] = 0]
  /\ i' = [i EXCEPT ![p] = 0]

\* The body of pipewrite's for loop, when there is room.
pipewrite_put(p) ==
  /\ pc[p] = "w_loop" /\ i[p] < n[p] /\ ~Full
  /\ \E b \in Byte : data' = [data EXCEPT ![nwrite % PIPESIZE] = b]
  /\ nwrite' = (nwrite + 1) % UMAX
  /\ i' = [i EXCEPT ![p] = @ + 1]
  /\ UNCHANGED <<nread, ends, lock, fd, killed, pc, n, aborted>>

\* The while loop, when the buffer is full: return -1, or wake the readers.
pipewrite_fail(p) ==
  /\ pc[p] = "w_loop" /\ i[p] < n[p] /\ Full
  /\ ~readopen \/ p \in killed
  /\ Return(p)
  /\ Goto(p, "user")
  /\ aborted' = (aborted \/ p \in killed)
  /\ UNCHANGED <<ring, ends, fd, killed>>

pipewrite_full(p) ==
  /\ pc[p] = "w_loop" /\ i[p] < n[p] /\ Full
  /\ readopen /\ p \notin killed
  /\ WakeReaders(p, "w_sleep")
  /\ UNCHANGED <<ring, ends, lock, fd, killed, n, i, aborted>>

\* Mutant: pipewrite-wakeup1 is left out.
pipewrite_done_silent(p) ==
  /\ pc[p] = "w_loop" /\ i[p] = n[p]
  /\ Goto(p, "user")
  /\ Return(p)
  /\ UNCHANGED <<ring, ends, fd, killed, aborted>>

\* Every byte is in: wake the readers and return n.
pipewrite_done(p) ==
  /\ pc[p] = "w_loop" /\ i[p] = n[p]
  /\ WakeReaders(p, "user")
  /\ Return(p)
  /\ UNCHANGED <<ring, ends, fd, killed, aborted>>

\* Mutant: sleep() is called without giving up the lock.
sleep_holding(p) ==
  /\ pc[p] \in {"w_sleep", "r_sleep"}
  /\ Goto(p, IF pc[p] = "w_sleep" THEN "asleep_w" ELSE "asleep_r")
  /\ UNCHANGED <<ring, ends, lock, fd, killed, n, i, aborted>>

\* sleep(&p->nwrite, &p->lock) and sleep(&p->nread, &p->lock).
sleep(p) ==
  /\ pc[p] \in {"w_sleep", "r_sleep"}
  /\ lock' = NoProc
  /\ Goto(p, IF pc[p] = "w_sleep" THEN "asleep_w" ELSE "asleep_r")
  /\ UNCHANGED <<ring, ends, fd, killed, n, i, aborted>>

\* piperead's while loop: return -1, sleep, or go on to copy.
piperead_fail(p) ==
  /\ pc[p] = "r_test" /\ Empty /\ writeopen /\ p \in killed
  /\ Return(p)
  /\ Goto(p, "user")
  /\ UNCHANGED <<ring, ends, fd, killed, aborted>>

\* Mutant: the test of writeopen is inverted.
piperead_test_inverted(p) ==
  /\ pc[p] = "r_test"
  /\ \/ Empty /\ ~writeopen /\ p \notin killed /\ Goto(p, "r_sleep")
     \/ ~(Empty /\ ~writeopen) /\ Goto(p, "r_copy")
  /\ UNCHANGED <<ring, ends, lock, fd, killed, n, i, aborted>>

piperead_test(p) ==
  /\ pc[p] = "r_test"
  /\ \/ Empty /\ writeopen /\ p \notin killed /\ Goto(p, "r_sleep")
     \/ ~(Empty /\ writeopen) /\ Goto(p, "r_copy")
  /\ UNCHANGED <<ring, ends, lock, fd, killed, n, i, aborted>>

\* piperead's for loop.
piperead_get(p) ==
  /\ pc[p] = "r_copy" /\ i[p] < n[p] /\ ~Empty
  /\ nread' = (nread + 1) % UMAX
  /\ i' = [i EXCEPT ![p] = @ + 1]
  /\ UNCHANGED <<data, nwrite, ends, lock, fd, killed, pc, n, aborted>>

\* n bytes are copied or the buffer is empty: wake the writers and return.
piperead_done(p) ==
  /\ pc[p] = "r_copy" /\ (i[p] = n[p] \/ Empty)
  /\ WakeWriters(p, "user")
  /\ Return(p)
  /\ UNCHANGED <<ring, ends, fd, killed, aborted>>

\* What the holder of the lock does next.
HolderStep(p) ==
  \/ pipewrite_put(p) \/ pipewrite_fail(p) \/ pipewrite_full(p)
  \/ pipewrite_done(p) \/ sleep(p)
  \/ piperead_fail(p) \/ piperead_test(p) \/ piperead_get(p) \/ piperead_done(p)

Next ==
  \E p \in Proc :
    \/ pipealloc(p)
    \/ \E x \in Proc : filedup(p, x)
    \/ \E e \in End : fileclose(p, e)
    \/ pipeclose(p)
    \/ kill(p)
    \/ \E len \in Length : pipewrite(p, len) \/ piperead(p, len)
    \/ acquire(p)
    \/ HolderStep(p)

Spec == Init /\ [][Next]_vars

\* The holder of a spinlock runs with interrupts off and is not descheduled;
\* nothing is assumed about who wins the lock, or about what programs do.
FairSpec == Spec /\ \A p \in Proc : WF_vars(HolderStep(p))

-----------------------------------------------------------------------------
\* The pipe is a first-in first-out queue of bytes: the ring buffer, across the
\* wrap of its two counters, never loses, repeats or reorders a byte, and an
\* end is closed once (pipewrite, piperead and pipeclose together).
Count == (nwrite + UMAX - nread) % UMAX
Queue == [k \in 1 .. Count |-> data[(nread + k - 1) % PIPESIZE]]
Abstract == INSTANCE Fifo WITH q <- Queue, Capacity <- PIPESIZE
IsFifo == Abstract!Spec

\* The page of a pipe is freed once, by the last of the two closes, and then no
\* process is in or on its way into the code that uses it (pipeclose's test of
\* both flags, and the reference counts of fileclose).
NoUseAfterFree ==
  /\ freed <= 1
  /\ freed = 1 => \A p \in Proc : pc[p] = "user"

\* Nobody sleeps for what is already there: a sleeping reader has an empty pipe
\* with a write end, a sleeping writer a full pipe with a read end, unless the
\* holder of the lock has moved bytes and has its wakeup still to come.
SleepJustified ==
  \A p \in Proc :
    /\ pc[p] = "asleep_r" =>
         (Empty /\ writeopen) \/ \E x \in Proc : pc[x] = "w_loop"
    /\ pc[p] = "asleep_w" =>
         (Full /\ readopen) \/ \E x \in Proc : pc[x] = "r_copy"

\* The same, of the readers of a pipe no killed writer has left full, and of
\* the writers of every pipe.
SleepJustifiedUnlessAborted ==
  \A p \in Proc :
    /\ pc[p] = "asleep_r" =>
         (Empty /\ writeopen) \/ (\E x \in Proc : pc[x] = "w_loop") \/ aborted
    /\ pc[p] = "asleep_w" =>
         (Full /\ readopen) \/ \E x \in Proc : pc[x] = "r_copy"

\* A read returns 0, which means end of file to its caller, only when the write
\* end is closed and every byte written was read: a reader that was woken and
\* found that another reader was faster goes back to sleep.
EndOfFile ==
  [][\A p \in Proc :
       piperead_done(p) /\ i[p] = 0 => Empty /\ ~writeopen]_vars

\* A process that sleeps although there are bytes, or room, or nobody at the
\* other end, is woken; a reader, unless a killed writer left the pipe full.
BlockedIsWoken ==
  \A p \in Proc :
    /\ (pc[p] = "asleep_r" /\ (~Empty \/ ~writeopen))
         ~> (pc[p] # "asleep_r" \/ aborted)
    /\ (pc[p] = "asleep_w" /\ (~Full \/ ~readopen)) ~> (pc[p] # "asleep_w")
=============================================================================
