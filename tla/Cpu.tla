--------------------------------- MODULE Cpu ---------------------------------
(***************************************************************************)
(* Processors, their interrupt flags and the spinlocks (spinlock.c), with  *)
(* the code that holds two locks or switches stacks under one: the timer   *)
(* interrupt of trap.c, sys_sleep, sleep, yield, sched and scheduler.      *)
(*                                                                         *)
(* A thread is a process or the scheduler of a processor.  Its stack holds *)
(* the place it is at and, below, the place where an interrupt found it    *)
(* with the flag IF to return to.  Acquires and Releases give the lock and *)
(* the next place of each call.  ticks has the width of the constant TICKS *)
(* and wraps; kill is in Proc.                                             *)
(***************************************************************************)
EXTENDS Naturals, Sequences

CONSTANTS Proc,
          NCPU,         \* processors 0 .. NCPU - 1
          TICKS,        \* ticks counts modulo TICKS
          Naps          \* arguments of sleep, as unsigned numbers

VARIABLES
  ncli, intena, ints,   \* cpu->ncli, cpu->intena, FL_IF of %eflags
  run,                  \* the thread on each processor
  lock,                 \* the processor that holds the lock, or NCPU
  state, stk,           \* p->state, the stack of each thread
  spin,                 \* threads past pushcli in acquire
  saved,                \* sched's local copy of intena
  ticks, nap            \* the clock, sys_sleep's n and ticks0

vars == <<ncli, intena, ints, run, lock, state, stk, spin, saved, ticks, nap>>

CPU == 0 .. NCPU - 1
Lock == {"tickslock", "ptable"}
Thread == Proc \cup CPU         \* a scheduler is named by its processor

\* Mutant: sleep keeps the caller's lock.
Acquires_keep ==
  [tick |-> <<"tickslock", "tick_count">>, tick_wakeup |-> <<"ptable", "tick_wake">>,
   yield |-> <<"ptable", "yield_sched">>, scheduler |-> <<"ptable", "pick">>,
   nap |-> <<"tickslock", "nap_start">>, nap_sleep |-> <<"ptable", "nap_sched">>,
   nap_again |-> <<"tickslock", "nap_test">>]
Acquires ==
  [tick |-> <<"tickslock", "tick_count">>, tick_wakeup |-> <<"ptable", "tick_wake">>,
   yield |-> <<"ptable", "yield_sched">>, scheduler |-> <<"ptable", "pick">>,
   nap |-> <<"tickslock", "nap_start">>, nap_sleep |-> <<"ptable", "nap_release">>,
   nap_again |-> <<"tickslock", "nap_test">>]
Releases ==
  [tick_woken |-> <<"ptable", "tick_done">>, tick_done |-> <<"tickslock", "eoi">>,
   yield_out |-> <<"ptable", "iret">>, pick_none |-> <<"ptable", "sti">>,
   nap_release |-> <<"tickslock", "nap_sched">>, nap_woken |-> <<"ptable", "nap_again">>,
   nap_out |-> <<"tickslock", "ret">>, forkret |-> <<"ptable", "trapret">>]

Init ==
  /\ ncli = [c \in CPU |-> 0] /\ intena = [c \in CPU |-> FALSE] /\ ints = [c \in CPU |-> FALSE]
  /\ run = [c \in CPU |-> c]
  /\ lock = [l \in Lock |-> NCPU]
  /\ state = [p \in Proc |-> "RUNNABLE"]
  /\ stk = [t \in Thread |-> IF t \in Proc THEN <<[pc |-> "forkret", ints |-> TRUE]>>
                             ELSE <<[pc |-> "sti", ints |-> FALSE]>>]
  /\ spin = {} /\ saved = [p \in Proc |-> FALSE]
  /\ ticks = 0 /\ nap = [p \in Proc |-> [n |-> 0, t0 |-> 0]]

Top(t) == stk[t][Len(stk[t])]
At(c, l) == Top(run[c]).pc = l
Put(t, l) == [stk EXCEPT ![t][Len(stk[t])].pc = l]
Goto(c, l) == stk' = Put(run[c], l)
Panic(c) == Goto(c, "panic")
cpus == <<ncli, intena, ints>>
procs == <<run, state, saved>>
clock == <<ticks, nap>>

pushcli(c) ==
  /\ ncli' = [ncli EXCEPT ![c] = @ + 1]
  /\ intena' = IF ncli[c] = 0 THEN [intena EXCEPT ![c] = ints[c]] ELSE intena
  /\ ints' = [ints EXCEPT ![c] = FALSE]

\* Mutant: interrupts come back with the first popcli.
popcli_early(c) ==
  /\ ncli' = [ncli EXCEPT ![c] = @ - 1]
  /\ ints' = [ints EXCEPT ![c] = intena[c]]
popcli(c) ==
  /\ ncli' = [ncli EXCEPT ![c] = @ - 1]
  /\ ints' = [ints EXCEPT ![c] = ncli[c] = 1 /\ intena[c]]

acquire(c) ==
  LET t == run[c] IN
  /\ Top(t).pc \in DOMAIN Acquires /\ t \notin spin
  /\ pushcli(c)
  /\ IF lock[Acquires[Top(t).pc][1]] = c
     THEN Panic(c) /\ UNCHANGED spin
     ELSE spin' = spin \cup {t} /\ UNCHANGED stk
  /\ UNCHANGED <<procs, lock, clock>>

xchg(c) ==
  LET t == run[c]  l == Acquires[Top(t).pc][1] IN
  /\ t \in spin /\ lock[l] = NCPU
  /\ lock' = [lock EXCEPT ![l] = c]
  /\ spin' = spin \ {t}
  /\ Goto(c, Acquires[Top(t).pc][2])
  /\ UNCHANGED <<cpus, procs, clock>>

release(c) ==
  LET t == run[c]  l == Releases[Top(t).pc][1] IN
  /\ Top(t).pc \in DOMAIN Releases
  /\ IF lock[l] # c \/ ints[c] \/ ncli[c] = 0
     THEN Panic(c) /\ UNCHANGED <<cpus, lock>>
     ELSE /\ lock' = [lock EXCEPT ![l] = NCPU]
          /\ popcli(c) /\ UNCHANGED intena
          /\ Goto(c, Releases[Top(t).pc][2])
  /\ UNCHANGED <<procs, spin, clock>>

\* The timer interrupts whatever runs with FL_IF set, through an interrupt
\* gate: the flag is saved and cleared.  Only processor 0 keeps the time.
interrupt(c) ==
  /\ ints[c]
  /\ ints' = [ints EXCEPT ![c] = FALSE]
  /\ stk' = [stk EXCEPT ![run[c]] = Append(@, [pc |-> IF c = 0 THEN "tick" ELSE "eoi", ints |-> TRUE])]
  /\ UNCHANGED <<ncli, intena, procs, lock, spin, clock>>

Count(c, next) ==
  /\ At(c, "tick_count") /\ Goto(c, next)
  /\ ticks' = (ticks + 1) % TICKS
  /\ UNCHANGED <<cpus, procs, lock, spin, nap>>
\* Mutant: nobody is woken.
tick_count_silent(c) == Count(c, "tick_done")
tick_count(c) == Count(c, "tick_wakeup")

\* wakeup(&ticks): sys_sleep is the only sleeper here.
tick_wake(c) ==
  /\ At(c, "tick_wake") /\ Goto(c, "tick_woken")
  /\ state' = [p \in Proc |-> IF state[p] = "SLEEPING" THEN "RUNNABLE" ELSE state[p]]
  /\ UNCHANGED <<cpus, run, saved, lock, spin, clock>>

\* The end of trap: a running process yields.
eoi(c) ==
  LET t == run[c] IN
  /\ At(c, "eoi")
  /\ Goto(c, IF t \in Proc THEN IF state[t] = "RUNNING" THEN "yield" ELSE "iret" ELSE "iret")
  /\ UNCHANGED <<cpus, procs, lock, spin, clock>>

iret(c) ==
  LET t == run[c] IN
  /\ At(c, "iret")
  /\ ints' = [ints EXCEPT ![c] = Top(t).ints]
  /\ stk' = [stk EXCEPT ![t] = SubSeq(@, 1, Len(@) - 1)]
  /\ UNCHANGED <<ncli, intena, procs, lock, spin, clock>>

\* sched, called with a new state and the place to come back to.
sched(c, st, back) ==
  LET p == run[c] IN
  /\ IF lock["ptable"] # c \/ ncli[c] # 1 \/ ints[c]
     THEN Panic(c) /\ UNCHANGED <<state, run, saved>>
     ELSE /\ state' = [state EXCEPT ![p] = st]
          /\ saved' = [saved EXCEPT ![p] = intena[c]]
          /\ run' = [run EXCEPT ![c] = c]
          /\ Goto(c, back)
  /\ UNCHANGED <<cpus, lock, spin, clock>>
yield_sched(c) == At(c, "yield_sched") /\ sched(c, "RUNNABLE", "yield_back")
nap_sched(c) == At(c, "nap_sched") /\ sched(c, "SLEEPING", "nap_back")

\* Back from swtch, perhaps on another processor.
Resumed(c, ena) ==
  /\ At(c, "yield_back") \/ At(c, "nap_back")
  /\ intena' = [intena EXCEPT ![c] = ena]
  /\ Goto(c, IF At(c, "nap_back") THEN "nap_woken" ELSE "yield_out")
  /\ saved' = [saved EXCEPT ![run[c]] = FALSE]
  /\ UNCHANGED <<ncli, ints, run, state, lock, spin, clock>>
\* Mutant: the flag stays that of the processor.
sched_back_stale(c) == Resumed(c, intena[c])
sched_back(c) == Resumed(c, saved[run[c]])

scheduler_sti(c) ==
  /\ At(c, "sti") /\ Goto(c, "scheduler")
  /\ ints' = [ints EXCEPT ![c] = TRUE]
  /\ UNCHANGED <<ncli, intena, procs, lock, spin, clock>>

scheduler_pick(c) ==
  /\ At(c, "pick")
  /\ \/ \E p \in Proc : /\ state[p] = "RUNNABLE"
                        /\ state' = [state EXCEPT ![p] = "RUNNING"]
                        /\ run' = [run EXCEPT ![c] = p]
                        /\ UNCHANGED stk
     \/ Goto(c, "pick_none") /\ UNCHANGED <<state, run>>
  /\ UNCHANGED <<cpus, saved, lock, spin, clock>>

sys_sleep(c) ==
  /\ At(c, "user") /\ Goto(c, "nap")
  /\ \E n \in Naps : nap' = [nap EXCEPT ![run[c]] = [n |-> n, t0 |-> 0]]
  /\ UNCHANGED <<cpus, procs, lock, spin, ticks>>

nap_start(c) ==
  /\ At(c, "nap_start") /\ Goto(c, "nap_test")
  /\ nap' = [nap EXCEPT ![run[c]].t0 = ticks]
  /\ UNCHANGED <<cpus, procs, lock, spin, ticks>>

Elapsed(p) == (ticks + TICKS - nap[p].t0) % TICKS
nap_test(c) ==
  /\ At(c, "nap_test")
  /\ Goto(c, IF Elapsed(run[c]) < nap[run[c]].n THEN "nap_sleep" ELSE "nap_out")
  /\ UNCHANGED <<cpus, procs, lock, spin, clock>>

\* trapret: user mode runs with FL_IF set.
ret(c) ==
  /\ At(c, "ret") \/ At(c, "trapret")
  /\ Goto(c, "user")
  /\ ints' = [ints EXCEPT ![c] = TRUE]
  /\ nap' = [nap EXCEPT ![run[c]] = [n |-> 0, t0 |-> 0]]
  /\ UNCHANGED <<ncli, intena, procs, lock, spin, ticks>>

Next == \E c \in CPU :
  \/ acquire(c) \/ xchg(c) \/ release(c) \/ interrupt(c) \/ iret(c) \/ ret(c)
  \/ tick_count(c) \/ tick_wake(c) \/ eoi(c)
  \/ yield_sched(c) \/ nap_sched(c) \/ sched_back(c) \/ scheduler_sti(c) \/ scheduler_pick(c)
  \/ sys_sleep(c) \/ nap_start(c) \/ nap_test(c)

Spec == Init /\ [][Next]_vars

\* None of the panics of acquire, release, popcli and sched: in particular no
\* interrupt finds its own processor holding the lock it wants.
NoPanic == \A t \in Thread : Top(t).pc # "panic"

One(holds) == IF holds THEN 1 ELSE 0

\* cpu->ncli counts the locks of the processor, also after a process took one
\* on another processor and gives it back here; with one, interrupts are off.
NcliCountsLocks == \A c \in CPU :
  /\ ncli[c] = One(lock["tickslock"] = c) + One(lock["ptable"] = c) + One(run[c] \in spin)
  /\ ncli[c] > 0 => ~ints[c]

\* sched carries intena along: a handler that yielded goes on with interrupts
\* off until iret, so it is never interrupted itself and a kernel stack holds
\* at most one interrupt; sys_sleep ends with interrupts on again.
IntenaFollows ==
  /\ \A t \in Thread : Len(stk[t]) <= 2
  /\ \A c \in CPU : (At(c, "iret") => ~ints[c]) /\ (At(c, "ret") => ints[c])

\* A sleeper whose time is up has been woken, or will be by the tick handler
\* that holds tickslock.
NoMissedTick == \A p \in Proc :
  state[p] = "SLEEPING" => \/ Elapsed(p) < nap[p].n
                           \/ \E c \in CPU : Top(run[c]).pc \in {"tick_wakeup", "tick_wake"}

\* The locks, the interrupt flags and the sleepers are sound: all of the above.
LockingSound == NoPanic /\ NcliCountsLocks /\ IntenaFollows /\ NoMissedTick
=============================================================================
