------------------------- MODULE CpuControlProofs -------------------------
(***************************************************************************)
(* Proofs about module Cpu, for any number of processors and processes and *)
(* any width of the clock: where a thread is determines what its processor *)
(* holds, counts in cpu->ncli and masks, whoever does not run is parked by *)
(* sched, and no panic of spinlock.c or sched is reached.                  *)
(***************************************************************************)
EXTENDS Cpu, SequenceTheorems, TLAPS

\* A process is not a scheduler, and NCPU, no processor, marks a free lock.
Params == NCPU \in Nat /\ Proc \cap CPU = {}

\* The places of the timer's handler, of a scheduler and of a system call.
Handler == {"tick", "tick_count", "tick_wakeup", "tick_wake", "tick_woken", "tick_done",
            "eoi", "iret", "yield", "yield_sched", "yield_back", "yield_out"}
Loop == {"sti", "scheduler", "pick", "pick_none"}
Call == {"forkret", "trapret", "user", "nap", "nap_start", "nap_test", "nap_sleep", "nap_release",
         "nap_sched", "nap_back", "nap_woken", "nap_again", "nap_out", "ret"}
Place == Handler \cup Loop \cup Call

\* Where an interrupt may come, where it must be able to, and where swtch
\* leaves a process.
Open == {"sti", "scheduler", "trapret", "user", "nap", "nap_again", "ret"}
On == Open \ {"sti", "trapret"}
Parked == {"forkret", "yield_back", "nap_back"}

\* Where the processor has each of the two locks.
HasTicks == {"tick_count", "tick_wakeup", "tick_wake", "tick_woken", "tick_done",
             "nap_start", "nap_test", "nap_sleep", "nap_release", "nap_out"}
HasPtable == {"tick_wake", "tick_woken", "yield_sched", "yield_back", "yield_out", "pick",
              "pick_none", "nap_release", "nap_sched", "nap_back", "nap_woken", "forkret"}

\* Where intena is that of the interrupted code, off, and of the system call, on.
Masked == Handler \ {"yield_back"}
Restores == {"nap", "nap_start", "nap_test", "nap_sleep", "nap_release", "nap_sched", "nap_woken",
             "nap_again", "nap_out"}

Pl(t) == Top(t).pc
Own(t) == IF t \in Proc THEN Call ELSE Loop

\* A stack has one place of the thread itself and, above it, at most one
\* interrupt, which found it where it could come.  A scheduler does not yield.
Yields == {"yield", "yield_sched", "yield_back", "yield_out"}
StackOK(s, own, spinning) ==
  LET l == s[Len(s)].pc IN
  /\ \/ Len(s) = 1 /\ l \in own
     \/ Len(s) = 2 /\ l \in Handler /\ s[2].ints = TRUE /\ s[1].pc \in Open \cap own
  /\ own = Loop => l \notin Yields
  /\ spinning => l \in DOMAIN Acquires
StackInv == \A t \in Thread : StackOK(stk[t], Own(t), t \in spin)

\* Who runs where; who does not run is parked by sched or by the scheduler.
RunInv ==
  /\ run \in [CPU -> Thread]
  /\ \A c \in CPU : run[c] \in Proc \cup {c}
  /\ \A c, d \in CPU : run[c] = run[d] => c = d
  /\ \A p \in Proc : state[p] = "RUNNING" <=> \E c \in CPU : run[c] = p
  /\ \A p \in Proc : state[p] # "RUNNING" => Pl(p) \in Parked /\ p \notin spin
  /\ \A c \in CPU : run[c] # c => Pl(c) = "pick" /\ c \notin spin
  /\ \A p \in Proc : /\ state[p] = "SLEEPING" => Pl(p) = "nap_back"
                     /\ Pl(p) = "yield_back" => ~saved[p]
                     /\ Pl(p) = "nap_back" => saved[p]

\* What a processor holds (tk, pt), counts (k), masks (i, e) and waits for (sp)
\* follows from the place it is at.
CpuOK(l, sp, tk, pt, k, i, e) ==
  /\ tk <=> l \in HasTicks
  /\ pt <=> l \in HasPtable
  /\ k = One(l \in HasTicks) + One(l \in HasPtable) + One(sp)
  /\ i => l \in Open /\ ~sp
  /\ l \in On /\ ~sp => i
  /\ l \in Masked /\ k > 0 => ~e
  /\ l \in Restores /\ k > 0 => e
CpuInv ==
  \A c \in CPU : CpuOK(Pl(run[c]), run[c] \in spin, lock["tickslock"] = c, lock["ptable"] = c,
                       ncli[c], ints[c], intena[c])

TypeInv ==
  /\ ncli \in [CPU -> Nat] /\ intena \in [CPU -> BOOLEAN] /\ ints \in [CPU -> BOOLEAN]
  /\ lock \in [Lock -> CPU \cup {NCPU}]
  /\ state \in [Proc -> {"RUNNABLE", "RUNNING", "SLEEPING"}]
  /\ stk \in [Thread -> Seq([pc : Place, ints : BOOLEAN])]
  /\ spin \subseteq Thread /\ saved \in [Proc -> BOOLEAN]
  /\ DOMAIN nap = Proc /\ \A p \in Proc : DOMAIN nap[p] = {"n", "t0"}

-----------------------------------------------------------------------------
\* The calls of acquire: the lock each takes and the place that follows.
LEMMA AcquiresTable ==
  ASSUME NEW l \in DOMAIN Acquires
  PROVE  \/ l = "tick" /\ Acquires[l] = <<"tickslock", "tick_count">>
         \/ l = "tick_wakeup" /\ Acquires[l] = <<"ptable", "tick_wake">>
         \/ l = "yield" /\ Acquires[l] = <<"ptable", "yield_sched">>
         \/ l = "scheduler" /\ Acquires[l] = <<"ptable", "pick">>
         \/ l = "nap" /\ Acquires[l] = <<"tickslock", "nap_start">>
         \/ l = "nap_sleep" /\ Acquires[l] = <<"ptable", "nap_release">>
         \/ l = "nap_again" /\ Acquires[l] = <<"tickslock", "nap_test">>
BY DEF Acquires

\* Where a thread may wait for a lock.
LEMMA AcquiresPlaces ==
  DOMAIN Acquires = {"tick", "tick_wakeup", "yield", "scheduler", "nap", "nap_sleep", "nap_again"}
BY DEF Acquires

\* The calls of release: the lock each gives back and the place that follows.
LEMMA ReleasesTable ==
  ASSUME NEW l \in DOMAIN Releases
  PROVE  \/ l = "tick_woken" /\ Releases[l] = <<"ptable", "tick_done">>
         \/ l = "tick_done" /\ Releases[l] = <<"tickslock", "eoi">>
         \/ l = "yield_out" /\ Releases[l] = <<"ptable", "iret">>
         \/ l = "pick_none" /\ Releases[l] = <<"ptable", "sti">>
         \/ l = "nap_release" /\ Releases[l] = <<"tickslock", "nap_sched">>
         \/ l = "nap_woken" /\ Releases[l] = <<"ptable", "nap_again">>
         \/ l = "nap_out" /\ Releases[l] = <<"tickslock", "ret">>
         \/ l = "forkret" /\ Releases[l] = <<"ptable", "trapret">>
BY DEF Releases

Frame == [pc : Place, ints : BOOLEAN]

\* The thread t goes to the place m, on top of the stack it has.
Moved(t, m) ==
  /\ stk' \in [Thread -> Seq(Frame)]
  /\ \A u \in Thread : u # t => stk'[u] = stk[u]
  /\ Len(stk'[t]) = Len(stk[t])
  /\ stk'[t][Len(stk[t])].pc = m /\ stk'[t][Len(stk[t])].ints = stk[t][Len(stk[t])].ints
  /\ Len(stk[t]) = 2 => stk'[t][1] = stk[t][1]

\* Put changes the place on top of one stack, and nothing else of any stack.
LEMMA Moves ==
  ASSUME TypeInv, NEW t \in Thread, NEW m \in Place, stk' = Put(t, m), Len(stk[t]) \in {1, 2}
  PROVE  Moved(t, m)
<1> DEFINE k == Len(stk[t])
           s == [stk[t] EXCEPT ![k] = [stk[t][k] EXCEPT !.pc = m]]
<1>1. stk \in [Thread -> Seq(Frame)]  BY Zenon DEF TypeInv, Frame
<1>2. stk[t] \in Seq(Frame) /\ k \in 1 .. Len(stk[t])
  <2>1. stk[t] \in Seq(Frame)  BY <1>1
  <2>2. CASE k = 1  BY <2>1, <2>2
  <2>3. CASE k = 2  BY <2>1, <2>3
  <2> QED  BY <2>1, <2>2, <2>3
<1>3. stk[t][k] \in Frame  BY <1>2
<1>4. [stk[t][k] EXCEPT !.pc = m] = [pc |-> m, ints |-> stk[t][k].ints]  BY <1>3 DEF Frame
<1>5. [pc |-> m, ints |-> stk[t][k].ints] \in Frame  BY <1>3 DEF Frame
<1>6. s \in Seq(Frame) /\ Len(s) = Len(stk[t]) /\ s[k] = [pc |-> m, ints |-> stk[t][k].ints]
      /\ (k = 2 => s[1] = stk[t][1])
  BY <1>2, <1>4, <1>5, ExceptSeq, SMTT(30)
<1>7. stk' = [stk EXCEPT ![t] = s]  BY DEF Put
<1> HIDE DEF s
<1>8. stk'[t] = s /\ \A u \in Thread : u # t => stk'[u] = stk[u]  BY <1>1, <1>7
<1>9. stk' \in [Thread -> Seq(Frame)]  BY <1>1, <1>6, <1>7
<1> QED  BY <1>6, <1>8, <1>9 DEF Moved

\* A thread that keeps its stack is a case of Moved.
LEMMA Stays ==
  ASSUME TypeInv, NEW t \in Thread, stk' = stk
  PROVE  Moved(t, Pl(t))
BY Zenon DEF TypeInv, Moved, Pl, Top, Frame

\* The state of a process that runs, and of the scheduler behind it.
LEMMA Running ==
  ASSUME Params, TypeInv, StackInv, RunInv, NEW c \in CPU
  PROVE  /\ run[c] \in Thread /\ Len(stk[run[c]]) \in {1, 2} /\ Pl(run[c]) \in Place
         /\ run[c] \in Proc => state[run[c]] = "RUNNING"
         /\ \A d \in CPU : d # c => run[d] # run[c]
         /\ Len(stk[run[c]]) = 1 => Pl(run[c]) \in Own(run[c])
         /\ Len(stk[run[c]]) = 2 => Pl(run[c]) \in Handler
<1>1. run[c] \in Thread  BY DEF RunInv
<1>2. StackOK(stk[run[c]], Own(run[c]), run[c] \in spin)  BY <1>1 DEF StackInv
<1>3. Own(run[c]) \subseteq Place /\ Handler \subseteq Place  BY DEF Own, Place
<1>4. /\ Len(stk[run[c]]) \in {1, 2} /\ Pl(run[c]) \in Own(run[c]) \cup Handler
      /\ Len(stk[run[c]]) = 1 => Pl(run[c]) \in Own(run[c])
      /\ Len(stk[run[c]]) = 2 => Pl(run[c]) \in Handler
  BY <1>2 DEF StackOK, Pl, Top
<1>5. run[c] \in Proc => state[run[c]] = "RUNNING"  BY DEF RunInv
<1> QED  BY <1>1, <1>3, <1>4, <1>5 DEF RunInv

\* Handler, scheduler loop and system call have no place in common.
LEMMA KindsDiffer ==
  ASSUME NEW l
  PROVE  /\ l \in Handler => l \notin Call /\ l \notin Loop
         /\ l \in Call => l \notin Loop
         /\ Call # Loop
<1>1. /\ l \in Handler => l \notin Call /\ l \notin Loop
      /\ l \in Call => l \notin Loop
  BY DEF Handler, Call, Loop
<1>2. "user" \in Call /\ "user" \notin Loop  BY DEF Call, Loop
<1> QED  BY <1>1, <1>2

\* A step of the thread t that runs on processor c and stays there: what holds
\* of the others is kept, so what the step does to t and c is all there is to show.
LEMMA Elsewhere ==
  ASSUME Params, TypeInv, StackInv, RunInv, CpuInv,
         NEW c \in CPU, NEW t, t = run[c], NEW m,
         \A u \in Thread : u # t => stk'[u] = stk[u],
         StackOK(stk'[t], Own(t), t \in spin'), Pl(t)' = m, m \notin Parked,
         \A u \in Thread : u # t => (u \in spin' <=> u \in spin),
         run' = run, \A p \in Proc : p # t => saved'[p] = saved[p],
         \A p \in Proc : /\ state'[p] = "RUNNING" <=> state[p] = "RUNNING"
                         /\ state'[p] = "SLEEPING" => state[p] = "SLEEPING",
         \A d \in CPU : d # c => /\ ncli'[d] = ncli[d] /\ ints'[d] = ints[d] /\ intena'[d] = intena[d]
                                 /\ \A k \in Lock : lock'[k] = d <=> lock[k] = d,
         CpuOK(m, t \in spin', lock'["tickslock"] = c, lock'["ptable"] = c, ncli'[c], ints'[c], intena'[c])
  PROVE  StackInv' /\ RunInv' /\ CpuInv'
<1>1. /\ t \in Thread
      /\ t \in Proc => state[t] = "RUNNING"
      /\ \A d \in CPU : d # c => run[d] # t
  BY Running
<1>2. \A u \in Thread : u # t => stk'[u] = stk[u] /\ Pl(u)' = Pl(u)
  BY DEF Pl, Top
<1>3. StackInv'
  <2> SUFFICES ASSUME NEW u \in Thread PROVE StackOK(stk'[u], Own(u), u \in spin')
    BY DEF StackInv, Own
  <2>1. CASE u # t
    <3>1. StackOK(stk[u], Own(u), u \in spin)  BY DEF StackInv
    <3> QED  BY <1>2, <2>1, <3>1, Zenon DEF StackOK
  <2> QED  BY <2>1
<1>4. RunInv'
  <2>1. \A p \in Proc : p # t => Pl(p)' = Pl(p) /\ (p \in spin' <=> p \in spin)  BY <1>2, Zenon DEF Thread
  <2>2. \A d \in CPU : run[d] # d => Pl(d)' = Pl(d) /\ (d \in spin' <=> d \in spin)
    <3> SUFFICES ASSUME NEW d \in CPU, run[d] # d PROVE Pl(d)' = Pl(d) /\ (d \in spin' <=> d \in spin)
      OBVIOUS
    <3>1. d # t
      <4>1. d # c => t # d  BY DEF RunInv, Params
      <4> QED  BY <4>1
    <3> QED  BY <1>2, <3>1 DEF Thread
  <2>3. t \in Proc => state[t] = "RUNNING" /\ Pl(t)' \notin {"yield_back", "nap_back"}
    BY <1>1, Zenon DEF Parked
  <2>4. /\ \A p \in Proc : state'[p] # "RUNNING" => Pl(p)' \in Parked /\ p \notin spin'
        /\ \A p \in Proc : /\ state'[p] = "SLEEPING" => Pl(p)' = "nap_back"
                           /\ Pl(p)' = "yield_back" => ~saved'[p]
                           /\ Pl(p)' = "nap_back" => saved'[p]
    BY <2>1, <2>3 DEF RunInv
  <2>5. \A d \in CPU : run[d] # d => Pl(d)' = "pick" /\ d \notin spin'  BY <2>2 DEF RunInv
  <2> QED  BY <2>4, <2>5 DEF RunInv
<1>5. CpuInv'
  <2> SUFFICES ASSUME NEW d \in CPU
               PROVE  CpuOK(Pl(run[d])', run[d] \in spin', lock'["tickslock"] = d, lock'["ptable"] = d,
                            ncli'[d], ints'[d], intena'[d])
    BY Zenon DEF CpuInv, Pl, Top
  <2>1. CASE d = c  BY <2>1 DEF Pl, Top
  <2>2. CASE d # c
    <3>1. run[d] # t /\ run[d] \in Thread  BY <1>1, <2>2 DEF RunInv
    <3>2. Pl(run[d])' = Pl(run[d]) /\ (run[d] \in spin' <=> run[d] \in spin)  BY <1>2, <3>1 DEF Pl, Top
    <3>3. CpuOK(Pl(run[d]), run[d] \in spin, lock["tickslock"] = d, lock["ptable"] = d,
                ncli[d], ints[d], intena[d])
      BY DEF CpuInv
    <3>4. (lock'["tickslock"] = d <=> lock["tickslock"] = d) /\ (lock'["ptable"] = d <=> lock["ptable"] = d)
      BY <2>2 DEF Lock
    <3> QED  BY <2>2, <3>2, <3>3, <3>4 DEF CpuOK
  <2> QED  BY <2>1, <2>2
<1> QED  BY <1>3, <1>4, <1>5, Zenon

\* The same for a step that only moves t to another place.
LEMMA Local ==
  ASSUME Params, TypeInv, StackInv, RunInv, CpuInv,
         NEW c \in CPU, NEW t, t = run[c], NEW m \in Place, Moved(t, m),
         m \notin Parked, t \notin Proc => m \notin Yields,
         Pl(t) \in Handler <=> m \in Handler, Pl(t) \in Call <=> m \in Call,
         \A u \in Thread : u # t => (u \in spin' <=> u \in spin),
         t \in spin' => m \in DOMAIN Acquires,
         run' = run, \A p \in Proc : p # t => saved'[p] = saved[p],
         \A p \in Proc : /\ state'[p] = "RUNNING" <=> state[p] = "RUNNING"
                         /\ state'[p] = "SLEEPING" => state[p] = "SLEEPING",
         \A d \in CPU : d # c => /\ ncli'[d] = ncli[d] /\ ints'[d] = ints[d] /\ intena'[d] = intena[d]
                                 /\ \A k \in Lock : lock'[k] = d <=> lock[k] = d,
         CpuOK(m, t \in spin', lock'["tickslock"] = c, lock'["ptable"] = c, ncli'[c], ints'[c], intena'[c])
  PROVE  StackInv' /\ RunInv' /\ CpuInv'
<1>1. /\ t \in Thread /\ Len(stk[t]) \in {1, 2} /\ Pl(t) \in Place
      /\ t \in Proc => state[t] = "RUNNING"
      /\ \A d \in CPU : d # c => run[d] # t
      /\ Len(stk[t]) = 1 => Pl(t) \in Own(t)
      /\ Len(stk[t]) = 2 => Pl(t) \in Handler
  BY Running, Zenon
<1>2. \A u \in Thread : u # t => stk'[u] = stk[u] /\ Pl(u)' = Pl(u)
  BY Zenon DEF Moved, Pl, Top
<1>3. Pl(t)' = m  BY Zenon DEF Moved, Pl, Top
<1>4. m \in Own(t) \/ m \in Handler
  BY <1>1, KindsDiffer DEF Own, Place
<1>5. StackOK(stk'[t], Own(t), t \in spin')
  <2>1. StackOK(stk[t], Own(t), t \in spin)  BY <1>1 DEF StackInv
  <2>2. Own(t) = Loop => t \notin Proc  BY KindsDiffer DEF Own
  <2>3. CASE Len(stk[t]) = 1
    <3>1. Pl(t) \in Own(t)  BY <1>1, <2>3, Zenon
    <3>2. m \in Own(t)  BY <1>4, <3>1, KindsDiffer DEF Own
    <3> QED  BY <2>2, <2>3, <3>2, Zenon DEF Moved, StackOK
  <2>4. CASE Len(stk[t]) = 2
    <3>1. Pl(t) \in Handler  BY <1>1, <2>4, Zenon
    <3>2. stk[t][2].ints = TRUE /\ stk[t][1].pc \in Open \cap Own(t)  BY <2>1, <2>4 DEF StackOK
    <3> QED  BY <2>2, <2>4, <3>1, <3>2, Zenon DEF Moved, StackOK
  <2> QED  BY <1>1, <2>3, <2>4, Zenon
<1> QED  BY <1>2, <1>3, <1>5, Elsewhere DEF Moved

-----------------------------------------------------------------------------
Ctl == TypeInv /\ StackInv /\ RunInv /\ CpuInv

\* What is known of the thread on processor c.
LEMMA Here ==
  ASSUME Params, Ctl, NEW c \in CPU, NEW t, t = run[c]
  PROVE  /\ t \in Thread /\ Len(stk[t]) \in {1, 2} /\ Pl(t) \in Place
         /\ CpuOK(Pl(t), t \in spin, lock["tickslock"] = c, lock["ptable"] = c,
                  ncli[c], ints[c], intena[c])
         /\ t \in spin => Pl(t) \in DOMAIN Acquires
<1>1. t \in Thread /\ Len(stk[t]) \in {1, 2} /\ Pl(t) \in Place  BY Running DEF Ctl
<1>2. t \in spin => Pl(t) \in DOMAIN Acquires  BY <1>1 DEF Ctl, StackInv, StackOK, Pl, Top
<1> QED  BY <1>1, <1>2 DEF Ctl, CpuInv

\* acquire finds the lock not held by its own processor, and masks interrupts.
LEMMA acquireCtl == ASSUME Params, Ctl, NEW c \in CPU, acquire(c) PROVE Ctl'
<1>0. PICK t : t = run[c]  OBVIOUS
<1>1. /\ t \in Thread /\ Pl(t) \in Place
      /\ CpuOK(Pl(t), t \in spin, lock["tickslock"] = c, lock["ptable"] = c, ncli[c], ints[c], intena[c])
  BY <1>0, Here
<1>2. Pl(t) \in DOMAIN Acquires /\ t \notin spin  BY <1>0 DEF acquire, Pl
<1>3. lock[Acquires[Pl(t)][1]] # c
  BY <1>1, <1>2, AcquiresTable DEF CpuOK, HasTicks, HasPtable
<1>4. /\ spin' = spin \cup {t} /\ stk' = stk
      /\ ncli' = [ncli EXCEPT ![c] = @ + 1]
      /\ intena' = IF ncli[c] = 0 THEN [intena EXCEPT ![c] = ints[c]] ELSE intena
      /\ ints' = [ints EXCEPT ![c] = FALSE]
      /\ UNCHANGED <<run, state, saved, lock, nap>>
  BY <1>0, <1>3 DEF acquire, pushcli, procs, clock, Pl
<1>5. TypeInv'
  <2>1. ncli' \in [CPU -> Nat] /\ ints' \in [CPU -> BOOLEAN]  BY <1>4 DEF Ctl, TypeInv
  <2>2. intena' \in [CPU -> BOOLEAN]
    <3>1. ints[c] \in BOOLEAN /\ intena \in [CPU -> BOOLEAN]  BY DEF Ctl, TypeInv
    <3> QED  BY <1>4, <3>1
  <2> QED  BY <1>1, <1>4, <2>1, <2>2, Zenon DEF Ctl, TypeInv
<1>6. /\ ncli'[c] = ncli[c] + 1 /\ ints'[c] = FALSE /\ intena'[c] = IF ncli[c] = 0 THEN ints[c] ELSE intena[c]
      /\ \A d \in CPU : d # c => ncli'[d] = ncli[d] /\ ints'[d] = ints[d] /\ intena'[d] = intena[d]
  BY <1>4 DEF Ctl, TypeInv
<1>7. CpuOK(Pl(t), t \in spin', lock'["tickslock"] = c, lock'["ptable"] = c, ncli'[c], ints'[c], intena'[c])
  <2>1. t \in spin' /\ lock' = lock  BY <1>4
  <2> QED
    BY <1>1, <1>2, <1>6, <2>1, AcquiresTable
    DEF CpuOK, One, HasTicks, HasPtable, Open, On, Masked, Restores, Handler
<1>8. Moved(t, Pl(t))  BY <1>1, <1>4, Stays DEF Ctl
<1>9. Pl(t) \notin Parked  BY <1>2, AcquiresTable DEF Parked
<1>10. t \notin Proc => Pl(t) \notin Yields
  BY <1>1 DEF Ctl, StackInv, StackOK, Own, Pl, Top
<1>11. \A u \in Thread : u # t => (u \in spin' <=> u \in spin)  BY <1>4
<1>12. run' = run /\ state' = state /\ saved' = saved /\ lock' = lock  BY <1>4
<1>13. TypeInv /\ StackInv /\ RunInv /\ CpuInv  BY DEF Ctl
<1>14. StackInv' /\ RunInv' /\ CpuInv'
  BY <1>0, <1>1, <1>2, <1>6, <1>7, <1>8, <1>9, <1>10, <1>11, <1>12, <1>13, Local
<1> QED  BY <1>5, <1>14 DEF Ctl

\* The exchange that takes the lock: its holder and the place of the thread agree.
LEMMA xchgCtl == ASSUME Params, Ctl, NEW c \in CPU, xchg(c) PROVE Ctl'
<1>0. PICK t : t = run[c]  OBVIOUS
<1>1. /\ t \in Thread /\ Pl(t) \in Place /\ Len(stk[t]) \in {1, 2}
      /\ CpuOK(Pl(t), t \in spin, lock["tickslock"] = c, lock["ptable"] = c, ncli[c], ints[c], intena[c])
      /\ t \in spin => Pl(t) \in DOMAIN Acquires
  BY <1>0, Here, Zenon
<1> DEFINE k == Acquires[Pl(t)][1]
           m == Acquires[Pl(t)][2]
<1>2. /\ t \in spin /\ lock[k] = NCPU /\ lock' = [lock EXCEPT ![k] = c] /\ spin' = spin \ {t}
      /\ stk' = Put(t, m) /\ UNCHANGED <<ncli, intena, ints, run, state, saved, nap>>
  BY <1>0, Zenon DEF xchg, cpus, procs, clock, Goto, Pl
<1>3. Pl(t) \in DOMAIN Acquires  BY <1>1, <1>2, Zenon
<1>4. m \in Place /\ k \in Lock  BY <1>3, AcquiresTable DEF Lock, Place, Handler, Loop, Call
<1>5. Moved(t, m)  BY <1>1, <1>2, <1>4, Moves, Zenon DEF Ctl
<1>6. c # NCPU /\ \A d \in CPU : d # NCPU  BY DEF CPU, Params
<1>7. TypeInv'  BY <1>2, <1>4, <1>5, Zenon DEF Ctl, TypeInv, Moved, Frame
<1>8. /\ lock'[k] = c /\ \A x \in Lock : x # k => lock'[x] = lock[x]
      /\ \A d \in CPU : d # c => \A x \in Lock : lock'[x] = d <=> lock[x] = d
  BY <1>2, <1>4, <1>6, Zenon DEF Ctl, TypeInv
<1>9. CpuOK(m, t \in spin', lock'["tickslock"] = c, lock'["ptable"] = c, ncli'[c], ints'[c], intena'[c])
  <2>1. t \notin spin' /\ t \in spin /\ lock'[k] = c  BY <1>2, <1>8
  <2>2. ncli' = ncli /\ ints' = ints /\ intena' = intena  BY <1>2
  <2>3. \A x \in {"tickslock", "ptable"} : x # k => lock'[x] = lock[x]  BY <1>8 DEF Lock
  <2> QED
    BY <1>1, <1>3, <2>1, <2>2, <2>3, AcquiresTable
    DEF CpuOK, One, HasTicks, HasPtable, Open, On, Masked, Restores, Handler
<1>10. /\ m \notin Parked
       /\ Pl(t) \notin Yields => m \notin Yields
       /\ Pl(t) \in Handler <=> m \in Handler
       /\ Pl(t) \in Call <=> m \in Call
  BY <1>3, AcquiresTable DEF Parked, Yields, Handler, Call
<1>11. t \notin Proc => m \notin Yields
  <2>1. t \notin Proc => Pl(t) \notin Yields
    BY <1>1, Zenon DEF Ctl, StackInv, StackOK, Own, Pl, Top
  <2> QED  BY <1>10, <2>1
<1> HIDE DEF k, m
<1>12. /\ \A u \in Thread : u # t => (u \in spin' <=> u \in spin)
       /\ t \notin spin'
  BY <1>2
<1>13. /\ run' = run /\ state' = state /\ saved' = saved
       /\ ncli' = ncli /\ intena' = intena /\ ints' = ints
  BY <1>2
<1>14. TypeInv /\ StackInv /\ RunInv /\ CpuInv  BY DEF Ctl
<1>15. StackInv' /\ RunInv' /\ CpuInv'
  BY <1>0, <1>4, <1>5, <1>8, <1>9, <1>10, <1>11, <1>12, <1>13, <1>14, Local
<1> QED  BY <1>7, <1>15 DEF Ctl

\* release finds its lock held and interrupts off; the last one brings intena back.
LEMMA releaseCtl == ASSUME Params, Ctl, NEW c \in CPU, release(c) PROVE Ctl'
<1>0. PICK t : t = run[c]  OBVIOUS
<1>1. /\ t \in Thread /\ Pl(t) \in Place /\ Len(stk[t]) \in {1, 2}
      /\ CpuOK(Pl(t), t \in spin, lock["tickslock"] = c, lock["ptable"] = c, ncli[c], ints[c], intena[c])
      /\ t \in spin => Pl(t) \in DOMAIN Acquires
  BY <1>0, Here, Zenon
<1> DEFINE k == Releases[Pl(t)][1]
           m == Releases[Pl(t)][2]
<1>2. Pl(t) \in DOMAIN Releases  BY <1>0, Zenon DEF release, Pl
<1>3. t \notin spin  BY <1>1, <1>2, ReleasesTable, AcquiresPlaces, Zenon
<1>4. lock[k] = c /\ ints[c] = FALSE /\ ncli[c] # 0
  <2>1. ints[c] \in BOOLEAN  BY DEF Ctl, TypeInv
  <2> QED  BY <1>1, <1>2, <2>1, ReleasesTable DEF CpuOK, One, HasTicks, HasPtable, Open
<1>5. /\ lock' = [lock EXCEPT ![k] = NCPU] /\ stk' = Put(t, m)
      /\ ncli' = [ncli EXCEPT ![c] = @ - 1] /\ ints' = [ints EXCEPT ![c] = ncli[c] = 1 /\ intena[c]]
      /\ UNCHANGED <<intena, run, state, saved, spin, nap>>
  BY <1>0, <1>4, Zenon DEF release, popcli, procs, clock, Goto, Pl
<1>6. m \in Place /\ k \in Lock  BY <1>2, ReleasesTable DEF Lock, Place, Handler, Loop, Call
<1>7. Moved(t, m)  BY <1>1, <1>5, <1>6, Moves, Zenon DEF Ctl
<1>8. c # NCPU /\ \A d \in CPU : d # NCPU  BY DEF CPU, Params
<1>9. /\ ncli'[c] = ncli[c] - 1 /\ ncli[c] \in Nat /\ (ints'[c] <=> ncli[c] = 1 /\ intena[c]) /\ ints'[c] \in BOOLEAN
      /\ \A d \in CPU : d # c => ncli'[d] = ncli[d] /\ ints'[d] = ints[d] /\ intena'[d] = intena[d]
  BY <1>5, Zenon DEF Ctl, TypeInv
<1>10. TypeInv'
  <2>1. ncli' \in [CPU -> Nat]  BY <1>4, <1>5, <1>9 DEF Ctl, TypeInv
  <2>2. ints' \in [CPU -> BOOLEAN]  BY <1>5 DEF Ctl, TypeInv
  <2>3. lock' \in [Lock -> CPU \cup {NCPU}]  BY <1>5, Zenon DEF Ctl, TypeInv
  <2> QED  BY <1>5, <1>7, <2>1, <2>2, <2>3, Zenon DEF Ctl, TypeInv, Moved, Frame
<1>11. /\ lock'[k] = NCPU /\ \A x \in Lock : x # k => lock'[x] = lock[x]
       /\ \A d \in CPU : d # c => \A x \in Lock : lock'[x] = d <=> lock[x] = d
  BY <1>4, <1>5, <1>6, <1>8, Zenon DEF Ctl, TypeInv
<1>12. CpuOK(m, t \in spin', lock'["tickslock"] = c, lock'["ptable"] = c, ncli'[c], ints'[c], intena'[c])
  <2>1. t \notin spin' /\ lock'[k] # c /\ intena' = intena  BY <1>3, <1>5, <1>8, <1>11
  <2>2. \A x \in {"tickslock", "ptable"} : x # k => lock'[x] = lock[x]  BY <1>11 DEF Lock
  <2> QED
    BY <1>1, <1>2, <1>3, <1>9, <2>1, <2>2, ReleasesTable
    DEF CpuOK, One, HasTicks, HasPtable, Open, On, Masked, Restores, Handler
<1>13. /\ m \notin Parked /\ m \notin Yields
       /\ Pl(t) \in Handler <=> m \in Handler
       /\ Pl(t) \in Call <=> m \in Call
  BY <1>2, ReleasesTable DEF Parked, Yields, Handler, Call
<1> HIDE DEF k, m
<1>14. StackInv' /\ RunInv' /\ CpuInv'
  BY <1>0, <1>3, <1>5, <1>6, <1>7, <1>9, <1>11, <1>12, <1>13, Local DEF Ctl
<1> QED  BY <1>10, <1>14 DEF Ctl

\* A step to the place m that takes and gives back no lock.
LEMMA Plain ==
  ASSUME Params, Ctl, NEW c \in CPU, NEW t, t = run[c], NEW m \in Place,
         Pl(t) \notin DOMAIN Acquires, stk' = Put(t, m),
         m \notin Parked, t \notin Proc => m \notin Yields,
         Pl(t) \in Handler <=> m \in Handler, Pl(t) \in Call <=> m \in Call,
         UNCHANGED <<run, state, lock, spin>>,
         saved' = saved \/ saved' = [saved EXCEPT ![t] = FALSE],
         ncli' = ncli, ints' \in [CPU -> BOOLEAN], intena' \in [CPU -> BOOLEAN],
         \A d \in CPU : d # c => ints'[d] = ints[d] /\ intena'[d] = intena[d],
         DOMAIN nap' = Proc, \A p \in Proc : DOMAIN nap'[p] = {"n", "t0"},
         CpuOK(m, FALSE, lock["tickslock"] = c, lock["ptable"] = c, ncli[c], ints'[c], intena'[c])
  PROVE  Ctl'
<1>1. t \in Thread /\ Len(stk[t]) \in {1, 2} /\ t \notin spin  BY Here, Zenon
<1>2. TypeInv /\ StackInv /\ RunInv /\ CpuInv  BY Zenon DEF Ctl
<1>3. Moved(t, m)  BY <1>1, <1>2, Moves, Zenon
<1>4. TypeInv' /\ \A p \in Proc : p # t => saved'[p] = saved[p]
  <2>1. saved \in [Proc -> BOOLEAN]  BY <1>2, Zenon DEF TypeInv
  <2>2. saved' \in [Proc -> BOOLEAN] /\ \A p \in Proc : p # t => saved'[p] = saved[p]  BY <2>1, Zenon
  <2> QED  BY <1>2, <1>3, <2>2, Zenon DEF TypeInv, Moved, Frame
<1>5. CpuOK(m, t \in spin', lock'["tickslock"] = c, lock'["ptable"] = c, ncli'[c], ints'[c], intena'[c])
  <2>1. (t \in spin') = FALSE /\ lock' = lock /\ ncli' = ncli  BY <1>1
  <2> QED  BY <2>1, Zenon DEF CpuOK
<1>6. /\ \A u \in Thread : u # t => (u \in spin' <=> u \in spin)
      /\ t \notin spin' /\ run' = run /\ state' = state
      /\ \A d \in CPU : d # c => /\ ncli'[d] = ncli[d] /\ ints'[d] = ints[d] /\ intena'[d] = intena[d]
                                 /\ \A k \in Lock : lock'[k] = d <=> lock[k] = d
  BY <1>1, Zenon
<1>7. StackInv' /\ RunInv' /\ CpuInv'
  BY <1>2, <1>3, <1>4, <1>5, <1>6, Local
<1> QED  BY <1>4, <1>7, Zenon DEF Ctl

\* The types that Plain asks for, where the step leaves them alone.
LEMMA Types ==
  ASSUME Ctl
  PROVE  /\ saved \in [Proc -> BOOLEAN] /\ ints \in [CPU -> BOOLEAN] /\ intena \in [CPU -> BOOLEAN]
         /\ DOMAIN nap = Proc /\ \A p \in Proc : DOMAIN nap[p] = {"n", "t0"}
BY Zenon DEF Ctl, TypeInv

\* The tick is counted under tickslock.
LEMMA tick_countCtl == ASSUME Params, Ctl, NEW c \in CPU, tick_count(c) PROVE Ctl'
<1>0. PICK t : t = run[c]  OBVIOUS
<1>1. /\ Pl(t) = "tick_count" /\ stk' = Put(t, "tick_wakeup")
      /\ UNCHANGED <<ncli, intena, ints, run, state, saved, lock, spin, nap>>
  BY <1>0 DEF tick_count, Count, At, Goto, Pl, cpus, procs
<1>2. /\ "tick_wakeup" \in Place /\ "tick_wakeup" \notin Parked /\ "tick_wakeup" \notin Yields
      /\ Pl(t) \in Handler /\ "tick_wakeup" \in Handler /\ Pl(t) \notin Call /\ "tick_wakeup" \notin Call
      /\ Pl(t) \notin DOMAIN Acquires
  BY <1>1, AcquiresPlaces DEF Place, Parked, Yields, Handler, Call
<1>3. CpuOK(Pl(t), t \in spin, lock["tickslock"] = c, lock["ptable"] = c, ncli[c], ints[c], intena[c])
      /\ t \notin spin
  BY <1>0, <1>2, Here, Zenon
<1>4. CpuOK("tick_wakeup", FALSE, lock["tickslock"] = c, lock["ptable"] = c, ncli[c], ints'[c], intena'[c])
  BY <1>1, <1>3, Zenon DEF CpuOK, One, HasTicks, HasPtable, Open, On, Masked, Restores, Handler
<1> QED  BY <1>0, <1>1, <1>2, <1>4, Plain, Types, Zenon

\* Of the threads, only a process yields at the end of trap.
LEMMA eoiCtl == ASSUME Params, Ctl, NEW c \in CPU, eoi(c) PROVE Ctl'
<1>0. PICK t : t = run[c]  OBVIOUS
<1> DEFINE m == IF t \in Proc THEN IF state[t] = "RUNNING" THEN "yield" ELSE "iret" ELSE "iret"
<1>1. /\ Pl(t) = "eoi" /\ stk' = Put(t, m)
      /\ UNCHANGED <<ncli, intena, ints, run, state, saved, lock, spin, nap>>
  BY <1>0, Zenon DEF eoi, At, Goto, Pl, cpus, procs, clock
<1>2. m \in {"yield", "iret"} /\ (t \notin Proc => m = "iret")  OBVIOUS
<1> HIDE DEF m
<1>3. /\ m \in Place /\ m \notin Parked /\ (t \notin Proc => m \notin Yields)
      /\ Pl(t) \in Handler /\ m \in Handler /\ Pl(t) \notin Call /\ m \notin Call
      /\ Pl(t) \notin DOMAIN Acquires
  BY <1>1, <1>2, AcquiresPlaces DEF Place, Parked, Yields, Handler, Call
<1>4. CpuOK(Pl(t), t \in spin, lock["tickslock"] = c, lock["ptable"] = c, ncli[c], ints[c], intena[c])
      /\ t \notin spin
  BY <1>0, <1>3, Here, Zenon
<1>5. CpuOK(m, FALSE, lock["tickslock"] = c, lock["ptable"] = c, ncli[c], ints'[c], intena'[c])
  BY <1>1, <1>2, <1>4 DEF CpuOK, One, HasTicks, HasPtable, Open, On, Masked, Restores, Handler
<1> QED  BY <1>0, <1>1, <1>3, <1>5, Plain, Types, Zenon

\* The test of the clock in sys_sleep keeps tickslock.
LEMMA nap_testCtl == ASSUME Params, Ctl, NEW c \in CPU, nap_test(c) PROVE Ctl'
<1>0. PICK t : t = run[c]  OBVIOUS
<1> DEFINE m == IF Elapsed(t) < nap[t].n THEN "nap_sleep" ELSE "nap_out"
<1>1. /\ Pl(t) = "nap_test" /\ stk' = Put(t, m)
      /\ UNCHANGED <<ncli, intena, ints, run, state, saved, lock, spin, nap>>
  BY <1>0 DEF nap_test, At, Goto, Pl, cpus, procs, clock
<1>2. m \in {"nap_sleep", "nap_out"}  OBVIOUS
<1> HIDE DEF m
<1>3. /\ m \in Place /\ m \notin Parked /\ m \notin Yields
      /\ Pl(t) \notin Handler /\ m \notin Handler /\ Pl(t) \in Call /\ m \in Call
      /\ Pl(t) \notin DOMAIN Acquires
  BY <1>1, <1>2, AcquiresPlaces DEF Place, Parked, Yields, Handler, Call
<1>4. CpuOK(Pl(t), t \in spin, lock["tickslock"] = c, lock["ptable"] = c, ncli[c], ints[c], intena[c])
      /\ t \notin spin
  BY <1>0, <1>3, Here, Zenon
<1>5. CpuOK(m, FALSE, lock["tickslock"] = c, lock["ptable"] = c, ncli[c], ints'[c], intena'[c])
  BY <1>1, <1>2, <1>4 DEF CpuOK, One, HasTicks, HasPtable, Open, On, Masked, Restores, Handler
<1> QED  BY <1>0, <1>1, <1>3, <1>5, Plain, Types, Zenon

\* sys_sleep reads the clock under tickslock.
LEMMA nap_startCtl == ASSUME Params, Ctl, NEW c \in CPU, nap_start(c) PROVE Ctl'
<1>0. PICK t : t = run[c]  OBVIOUS
<1>1. /\ Pl(t) = "nap_start" /\ stk' = Put(t, "nap_test") /\ nap' = [nap EXCEPT ![t].t0 = ticks]
      /\ UNCHANGED <<ncli, intena, ints, run, state, saved, lock, spin>>
  BY <1>0 DEF nap_start, At, Goto, Pl, cpus, procs
<1>2. /\ "nap_test" \in Place /\ "nap_test" \notin Parked /\ "nap_test" \notin Yields
      /\ Pl(t) \notin Handler /\ "nap_test" \notin Handler /\ Pl(t) \in Call /\ "nap_test" \in Call
      /\ Pl(t) \notin DOMAIN Acquires
  BY <1>1, AcquiresPlaces DEF Place, Parked, Yields, Handler, Call
<1>3. CpuOK(Pl(t), t \in spin, lock["tickslock"] = c, lock["ptable"] = c, ncli[c], ints[c], intena[c])
      /\ t \notin spin
  BY <1>0, <1>2, Here, Zenon
<1>4. CpuOK("nap_test", FALSE, lock["tickslock"] = c, lock["ptable"] = c, ncli[c], ints'[c], intena'[c])
  BY <1>1, <1>3 DEF CpuOK, One, HasTicks, HasPtable, Open, On, Masked, Restores, Handler
<1>5. DOMAIN nap' = Proc /\ \A p \in Proc : DOMAIN nap'[p] = {"n", "t0"}
  BY <1>1, Types
<1> QED  BY <1>0, <1>1, <1>2, <1>4, <1>5, Plain, Types, Zenon

\* The call of sleep comes from user mode, with interrupts on.
LEMMA sys_sleepCtl == ASSUME Params, Ctl, NEW c \in CPU, sys_sleep(c) PROVE Ctl'
<1>0. PICK t : t = run[c]  OBVIOUS
<1>1. /\ Pl(t) = "user" /\ stk' = Put(t, "nap")
      /\ \E n \in Naps : nap' = [nap EXCEPT ![t] = [n |-> n, t0 |-> 0]]
      /\ UNCHANGED <<ncli, intena, ints, run, state, saved, lock, spin>>
  BY <1>0, Zenon DEF sys_sleep, At, Goto, Pl, cpus, procs
<1>2. /\ "nap" \in Place /\ "nap" \notin Parked /\ "nap" \notin Yields
      /\ Pl(t) \notin Handler /\ "nap" \notin Handler /\ Pl(t) \in Call /\ "nap" \in Call
      /\ Pl(t) \notin DOMAIN Acquires
  BY <1>1, AcquiresPlaces DEF Place, Parked, Yields, Handler, Call
<1>3. CpuOK(Pl(t), t \in spin, lock["tickslock"] = c, lock["ptable"] = c, ncli[c], ints[c], intena[c])
      /\ t \notin spin
  BY <1>0, <1>2, Here
<1>4. CpuOK("nap", FALSE, lock["tickslock"] = c, lock["ptable"] = c, ncli[c], ints'[c], intena'[c])
  BY <1>1, <1>3 DEF CpuOK, One, HasTicks, HasPtable, Open, On, Masked, Restores, Handler
<1>5. DOMAIN nap' = Proc /\ \A p \in Proc : DOMAIN nap'[p] = {"n", "t0"}
  BY <1>1, Types
<1> QED  BY <1>0, <1>1, <1>2, <1>4, <1>5, Plain, Types, Zenon

\* The return to user mode holds no lock and turns interrupts on.
LEMMA retCtl == ASSUME Params, Ctl, NEW c \in CPU, ret(c) PROVE Ctl'
<1>0. PICK t : t = run[c]  OBVIOUS
<1>1. /\ Pl(t) \in {"ret", "trapret"} /\ stk' = Put(t, "user") /\ ints' = [ints EXCEPT ![c] = TRUE]
      /\ nap' = [nap EXCEPT ![t] = [n |-> 0, t0 |-> 0]]
      /\ UNCHANGED <<ncli, intena, run, state, saved, lock, spin>>
  BY <1>0 DEF ret, At, Goto, Pl, procs
<1>2. /\ "user" \in Place /\ "user" \notin Parked /\ "user" \notin Yields
      /\ Pl(t) \notin Handler /\ "user" \notin Handler /\ Pl(t) \in Call /\ "user" \in Call
      /\ Pl(t) \notin DOMAIN Acquires
  BY <1>1, AcquiresPlaces DEF Place, Parked, Yields, Handler, Call
<1>3. CpuOK(Pl(t), t \in spin, lock["tickslock"] = c, lock["ptable"] = c, ncli[c], ints[c], intena[c])
      /\ t \notin spin
  BY <1>0, <1>2, Here, Zenon
<1>4. ints'[c] = TRUE /\ ints' \in [CPU -> BOOLEAN] /\ \A d \in CPU : d # c => ints'[d] = ints[d]
  BY <1>1, Types
<1>5. CpuOK("user", FALSE, lock["tickslock"] = c, lock["ptable"] = c, ncli[c], ints'[c], intena'[c])
  BY <1>1, <1>3, <1>4, Zenon DEF CpuOK, One, HasTicks, HasPtable, Open, On, Masked, Restores, Handler
<1>6. DOMAIN nap' = Proc /\ \A p \in Proc : DOMAIN nap'[p] = {"n", "t0"}
  BY <1>1, Types, Zenon
<1> QED  BY <1>0, <1>1, <1>2, <1>4, <1>5, <1>6, Plain, Types, Zenon

\* The scheduler's sti holds no lock.
LEMMA scheduler_stiCtl == ASSUME Params, Ctl, NEW c \in CPU, scheduler_sti(c) PROVE Ctl'
<1>0. PICK t : t = run[c]  OBVIOUS
<1>1. /\ Pl(t) = "sti" /\ stk' = Put(t, "scheduler") /\ ints' = [ints EXCEPT ![c] = TRUE]
      /\ UNCHANGED <<ncli, intena, run, state, saved, lock, spin, nap>>
  BY <1>0 DEF scheduler_sti, At, Goto, Pl, procs, clock
<1>2. /\ "scheduler" \in Place /\ "scheduler" \notin Parked /\ "scheduler" \notin Yields
      /\ Pl(t) \notin Handler /\ "scheduler" \notin Handler /\ Pl(t) \notin Call /\ "scheduler" \notin Call
      /\ Pl(t) \notin DOMAIN Acquires
  BY <1>1, AcquiresPlaces DEF Place, Loop, Parked, Yields, Handler, Call
<1>3. CpuOK(Pl(t), t \in spin, lock["tickslock"] = c, lock["ptable"] = c, ncli[c], ints[c], intena[c])
      /\ t \notin spin
  BY <1>0, <1>2, Here, Zenon
<1>4. ints'[c] = TRUE /\ ints' \in [CPU -> BOOLEAN] /\ \A d \in CPU : d # c => ints'[d] = ints[d]
  BY <1>1, Types, Zenon
<1>5. CpuOK("scheduler", FALSE, lock["tickslock"] = c, lock["ptable"] = c, ncli[c], ints'[c], intena'[c])
  BY <1>1, <1>3, <1>4, Zenon DEF CpuOK, One, HasTicks, HasPtable, Open, On, Masked, Restores, Handler
<1> QED  BY <1>0, <1>1, <1>2, <1>4, <1>5, Plain, Types, Zenon

\* Back from swtch the processor gets the intena that the thread had saved.
LEMMA sched_backCtl == ASSUME Params, Ctl, NEW c \in CPU, sched_back(c) PROVE Ctl'
<1>0. PICK t : t = run[c]  OBVIOUS
<1> DEFINE m == IF Pl(t) = "nap_back" THEN "nap_woken" ELSE "yield_out"
<1>1. /\ Pl(t) \in {"yield_back", "nap_back"} /\ stk' = Put(t, m)
      /\ intena' = [intena EXCEPT ![c] = saved[t]] /\ saved' = [saved EXCEPT ![t] = FALSE]
      /\ UNCHANGED <<ncli, ints, run, state, lock, spin, nap>>
  BY <1>0 DEF sched_back, Resumed, At, Goto, Pl, clock
<1>2. \/ Pl(t) = "nap_back" /\ m = "nap_woken"
      \/ Pl(t) = "yield_back" /\ m = "yield_out"
  BY <1>1
<1> HIDE DEF m
<1>3. t \in Thread /\ StackOK(stk[t], Own(t), t \in spin)  BY <1>0, Here, Zenon DEF Ctl, StackInv
<1>4. t \in Proc
  <2> SUFFICES ASSUME t \notin Proc PROVE FALSE  OBVIOUS
  <2>1. Own(t) = Loop  BY DEF Own
  <2>2. Pl(t) \notin Yields /\ Pl(t) \in Loop \cup Handler  BY <1>3, <2>1, Zenon DEF StackOK, Pl, Top
  <2> QED  BY <1>1, <2>2 DEF Yields, Loop, Handler
<1>5. /\ m \in Place /\ m \notin Parked
      /\ Pl(t) \in Handler <=> m \in Handler
      /\ Pl(t) \in Call <=> m \in Call
      /\ Pl(t) \notin DOMAIN Acquires
  BY <1>2, AcquiresPlaces DEF Place, Parked, Handler, Call
<1>6. CpuOK(Pl(t), t \in spin, lock["tickslock"] = c, lock["ptable"] = c, ncli[c], ints[c], intena[c])
      /\ t \notin spin
  BY <1>0, <1>5, Here, Zenon
<1>7. saved[t] \in BOOLEAN /\ (Pl(t) = "yield_back" => ~saved[t]) /\ (Pl(t) = "nap_back" => saved[t])
  BY <1>4, Types, Zenon DEF Ctl, RunInv
<1>8. /\ intena'[c] = saved[t] /\ intena' \in [CPU -> BOOLEAN]
      /\ \A d \in CPU : d # c => intena'[d] = intena[d]
  BY <1>1, <1>7, Types, Zenon
<1>9. CpuOK(m, FALSE, lock["tickslock"] = c, lock["ptable"] = c, ncli[c], ints'[c], intena'[c])
  BY <1>1, <1>2, <1>6, <1>7, <1>8, Zenon DEF CpuOK, One, HasTicks, HasPtable, Open, On, Masked, Restores, Handler
<1>10. /\ ints' \in [CPU -> BOOLEAN] /\ intena' \in [CPU -> BOOLEAN] /\ ncli' = ncli
       /\ saved' = [saved EXCEPT ![t] = FALSE]
       /\ \A d \in CPU : d # c => ints'[d] = ints[d] /\ intena'[d] = intena[d]
       /\ DOMAIN nap' = Proc /\ \A p \in Proc : DOMAIN nap'[p] = {"n", "t0"}
       /\ UNCHANGED <<run, state, lock, spin>> /\ stk' = Put(t, m)
  BY <1>1, <1>8, Types, Zenon
<1>11. t \notin Proc => m \notin Yields  BY <1>4
<1> QED  BY <1>0, <1>5, <1>9, <1>10, <1>11, Plain, Zenon

\* The frame the interrupt pushes; it found the thread at a place of its own.
LEMMA interruptCtl == ASSUME Params, Ctl, NEW c \in CPU, interrupt(c) PROVE Ctl'
<1>0. PICK t : t = run[c]  OBVIOUS
<1> DEFINE m == IF c = 0 THEN "tick" ELSE "eoi"
           f == [pc |-> m, ints |-> TRUE]
<1>1. /\ ints[c] /\ ints' = [ints EXCEPT ![c] = FALSE] /\ stk' = [stk EXCEPT ![t] = Append(@, f)]
      /\ UNCHANGED <<ncli, intena, run, state, saved, lock, spin, nap>>
  BY <1>0, Zenon DEF interrupt, procs, clock
<1>2. /\ t \in Thread /\ Len(stk[t]) \in {1, 2} /\ Pl(t) \in Place
      /\ CpuOK(Pl(t), t \in spin, lock["tickslock"] = c, lock["ptable"] = c, ncli[c], ints[c], intena[c])
  BY <1>0, Here, Zenon
<1>3. Pl(t) \in Open /\ t \notin spin  BY <1>1, <1>2, Zenon DEF CpuOK
<1>4. TypeInv /\ StackInv /\ RunInv /\ CpuInv  BY DEF Ctl
<1>5. StackOK(stk[t], Own(t), t \in spin)  BY <1>2, <1>4, Zenon DEF StackInv
<1>6. Len(stk[t]) = 1 /\ Pl(t) = stk[t][1].pc /\ stk[t][1].pc \in Open \cap Own(t)
  BY <1>3, <1>5, Zenon DEF StackOK, Pl, Top, Open, Handler
<1>7. m \in {"tick", "eoi"}  OBVIOUS
<1>8. f \in Frame /\ f.pc = m /\ f.ints = TRUE  BY <1>7 DEF Frame, Place, Handler
<1> HIDE DEF m, f
<1>9. stk \in [Thread -> Seq(Frame)]  BY <1>4, Zenon DEF TypeInv, Frame
<1>10. /\ stk'[t] = Append(stk[t], f) /\ stk' \in [Thread -> Seq(Frame)]
       /\ \A u \in Thread : u # t => stk'[u] = stk[u]
  <2>1. stk[t] \in Seq(Frame)  BY <1>2, <1>9, Zenon
  <2>2. Append(stk[t], f) \in Seq(Frame)  BY <1>8, <2>1
  <2>3. stk' = [stk EXCEPT ![t] = Append(stk[t], f)]  BY <1>1
  <2> QED  BY <1>2, <1>9, <2>2, <2>3, Zenon
<1>11. Len(stk'[t]) = 2 /\ stk'[t][1] = stk[t][1] /\ stk'[t][2] = f
  <2>1. stk[t] \in Seq(Frame) /\ Len(stk[t]) = 1  BY <1>2, <1>6, <1>9, Zenon
  <2> QED  BY <1>8, <1>10, <2>1
<1>12. Pl(t)' = m /\ \A u \in Thread : u # t => Pl(u)' = Pl(u)
  BY <1>8, <1>10, <1>11 DEF Pl, Top
<1>13. ints'[c] = FALSE /\ ints' \in [CPU -> BOOLEAN] /\ \A d \in CPU : d # c => ints'[d] = ints[d]
  BY <1>1, Types
<1>14. TypeInv'  BY <1>1, <1>4, <1>10, <1>13, Zenon DEF TypeInv, Frame
<1>15. StackOK(stk'[t], Own(t), t \in spin')
  BY <1>1, <1>3, <1>6, <1>7, <1>8, <1>11, Zenon DEF StackOK, Handler, Yields
<1>16. CpuOK(m, t \in spin', lock'["tickslock"] = c, lock'["ptable"] = c, ncli'[c], ints'[c], intena'[c])
  BY <1>1, <1>2, <1>3, <1>7, <1>13
  DEF CpuOK, One, HasTicks, HasPtable, Open, On, Masked, Restores, Handler
<1>17. m \notin Parked /\ run' = run /\ state' = state /\ saved' = saved /\ spin' = spin
       /\ ncli' = ncli /\ intena' = intena /\ lock' = lock
  BY <1>1, <1>7 DEF Parked
<1>18. StackInv' /\ RunInv' /\ CpuInv'
  BY <1>0, <1>4, <1>10, <1>12, <1>13, <1>15, <1>16, <1>17, Elsewhere, ZenonT(40)
<1> QED  BY <1>14, <1>18 DEF Ctl

\* The end of the interrupt: the thread is back where it was found.
LEMMA iretCtl == ASSUME Params, Ctl, NEW c \in CPU, iret(c) PROVE Ctl'
<1>0. PICK t : t = run[c]  OBVIOUS
<1>1. /\ Pl(t) = "iret" /\ ints' = [ints EXCEPT ![c] = Top(t).ints]
      /\ stk' = [stk EXCEPT ![t] = SubSeq(stk[t], 1, Len(stk[t]) - 1)]
      /\ UNCHANGED <<ncli, intena, run, state, saved, lock, spin, nap>>
  BY <1>0 DEF iret, At, Pl, procs, clock
<1>2. /\ t \in Thread /\ Len(stk[t]) \in {1, 2}
      /\ CpuOK(Pl(t), t \in spin, lock["tickslock"] = c, lock["ptable"] = c, ncli[c], ints[c], intena[c])
      /\ t \notin spin
  BY <1>0, <1>1, Here, AcquiresPlaces, Zenon
<1>3. TypeInv /\ StackInv /\ RunInv /\ CpuInv  BY DEF Ctl
<1>4. StackOK(stk[t], Own(t), t \in spin)  BY <1>2, <1>3, Zenon DEF StackInv
<1>5. Len(stk[t]) = 2 /\ stk[t][2].ints = TRUE /\ stk[t][1].pc \in Open \cap Own(t) /\ Pl(t) \in Handler
  <2>1. Pl(t) \in Handler /\ Pl(t) \notin Own(t)  BY <1>1 DEF Handler, Own, Call, Loop
  <2> QED  BY <1>4, <2>1, Zenon DEF StackOK, Pl, Top
<1> DEFINE m == stk[t][1].pc
<1>6. m \in Open /\ m \in Own(t)  BY <1>5
<1>7. stk \in [Thread -> Seq(Frame)]  BY <1>3, Zenon DEF TypeInv, Frame
<1>8. stk[t] \in Seq(Frame)  BY <1>2, <1>7
<1>9. /\ SubSeq(stk[t], 1, 1) \in Seq(Frame) /\ Len(SubSeq(stk[t], 1, 1)) = 1
      /\ SubSeq(stk[t], 1, 1)[1] = stk[t][1]
  BY <1>5, <1>8
<1>10. stk' = [stk EXCEPT ![t] = SubSeq(stk[t], 1, 1)]  BY <1>1, <1>5
<1>11. /\ stk'[t] = SubSeq(stk[t], 1, 1) /\ stk' \in [Thread -> Seq(Frame)]
       /\ \A u \in Thread : u # t => stk'[u] = stk[u]
  BY <1>2, <1>7, <1>9, <1>10, Zenon
<1>12. Len(stk'[t]) = 1 /\ stk'[t][1] = stk[t][1]  BY <1>9, <1>11
<1>13. Pl(t)' = m  BY <1>12 DEF Pl, Top
<1>14. ints'[c] = TRUE /\ ints' \in [CPU -> BOOLEAN] /\ \A d \in CPU : d # c => ints'[d] = ints[d]
  <2>1. Top(t).ints = TRUE  BY <1>5 DEF Top
  <2> QED  BY <1>1, <2>1, Types, Zenon
<1>15. TypeInv'  BY <1>1, <1>3, <1>11, <1>14, Zenon DEF TypeInv, Frame
<1> HIDE DEF m
<1>16. m \notin Parked /\ m \notin Yields  BY <1>6 DEF Open, Parked, Yields
<1>17. StackOK(stk'[t], Own(t), t \in spin')
  <2>1. stk'[t][1].pc = m /\ t \notin spin'  BY <1>1, <1>2, <1>12, Zenon DEF m
  <2> QED  BY <1>6, <1>12, <1>16, <2>1 DEF StackOK
<1>18. CpuOK(m, t \in spin', lock'["tickslock"] = c, lock'["ptable"] = c, ncli'[c], ints'[c], intena'[c])
  BY <1>1, <1>2, <1>6, <1>14
  DEF CpuOK, One, HasTicks, HasPtable, Open, On, Masked, Restores, Handler
<1>19. run' = run /\ state' = state /\ saved' = saved /\ spin' = spin
       /\ ncli' = ncli /\ intena' = intena /\ lock' = lock
  BY <1>1
<1>20. StackInv' /\ RunInv' /\ CpuInv'
  <2>1. \A u \in Thread : u # t => stk'[u] = stk[u]  BY <1>11, Zenon
  <2>2. \A u \in Thread : u # t => (u \in spin' <=> u \in spin)  BY <1>19, Zenon
  <2>3. \A p \in Proc : p # t => saved'[p] = saved[p]  BY <1>19, Zenon
  <2>4. \A p \in Proc : /\ state'[p] = "RUNNING" <=> state[p] = "RUNNING"
                        /\ state'[p] = "SLEEPING" => state[p] = "SLEEPING"
    BY <1>19, Zenon
  <2>5. \A d \in CPU : d # c => /\ ncli'[d] = ncli[d] /\ ints'[d] = ints[d] /\ intena'[d] = intena[d]
                                /\ \A k \in Lock : lock'[k] = d <=> lock[k] = d
    BY <1>14, <1>19, Zenon
  <2>6. run' = run /\ m \notin Parked  BY <1>16, <1>19, Zenon
  <2> QED  BY <1>0, <1>3, <1>13, <1>17, <1>18, <2>1, <2>2, <2>3, <2>4, <2>5, <2>6, Elsewhere
<1> QED  BY <1>15, <1>20 DEF Ctl

\* wakeup makes sleepers runnable; they are parked where sched left them.
LEMMA tick_wakeCtl == ASSUME Params, Ctl, NEW c \in CPU, tick_wake(c) PROVE Ctl'
<1>0. PICK t : t = run[c]  OBVIOUS
<1>1. /\ Pl(t) = "tick_wake" /\ stk' = Put(t, "tick_woken")
      /\ state' = [p \in Proc |-> IF state[p] = "SLEEPING" THEN "RUNNABLE" ELSE state[p]]
      /\ UNCHANGED <<ncli, intena, ints, run, saved, lock, spin, nap>>
  BY <1>0 DEF tick_wake, At, Goto, Pl, cpus, clock
<1>2. /\ t \in Thread /\ Len(stk[t]) \in {1, 2}
      /\ CpuOK(Pl(t), t \in spin, lock["tickslock"] = c, lock["ptable"] = c, ncli[c], ints[c], intena[c])
      /\ t \notin spin
  BY <1>0, <1>1, Here, AcquiresPlaces, Zenon
<1>3. TypeInv /\ StackInv /\ RunInv /\ CpuInv  BY DEF Ctl
<1>4. /\ "tick_woken" \in Place /\ "tick_woken" \notin Parked /\ "tick_woken" \notin Yields
      /\ Pl(t) \in Handler /\ "tick_woken" \in Handler /\ Pl(t) \notin Call /\ "tick_woken" \notin Call
  BY <1>1 DEF Place, Parked, Yields, Handler, Call
<1>5. Moved(t, "tick_woken")  BY <1>1, <1>2, <1>3, <1>4, Moves, Zenon
<1>6. state \in [Proc -> {"RUNNABLE", "RUNNING", "SLEEPING"}]  BY <1>3 DEF TypeInv
<1>7. /\ state' \in [Proc -> {"RUNNABLE", "RUNNING", "SLEEPING"}]
      /\ \A p \in Proc : /\ state'[p] = "RUNNING" <=> state[p] = "RUNNING"
                         /\ state'[p] = "SLEEPING" => state[p] = "SLEEPING"
  BY <1>1, <1>6
<1>8. TypeInv'  BY <1>1, <1>3, <1>5, <1>7, Zenon DEF TypeInv, Moved, Frame
<1>9. CpuOK("tick_woken", t \in spin', lock'["tickslock"] = c, lock'["ptable"] = c,
            ncli'[c], ints'[c], intena'[c])
  BY <1>1, <1>2, Zenon DEF CpuOK, One, HasTicks, HasPtable, Open, On, Masked, Restores, Handler
<1>10. /\ run' = run /\ saved' = saved /\ spin' = spin /\ ints' = ints
       /\ ncli' = ncli /\ intena' = intena /\ lock' = lock /\ t \notin spin'
  BY <1>1, <1>2
<1>11. StackInv' /\ RunInv' /\ CpuInv'
  BY <1>0, <1>3, <1>4, <1>5, <1>7, <1>9, <1>10, Local, Zenon
<1> QED  BY <1>8, <1>11 DEF Ctl

\* sched parks the process and goes on with the scheduler, which is at "pick".
LEMMA schedCtl ==
  ASSUME Params, Ctl, NEW c \in CPU, NEW st, NEW back, sched(c, st, back),
         \/ At(c, "yield_sched") /\ st = "RUNNABLE" /\ back = "yield_back"
         \/ At(c, "nap_sched") /\ st = "SLEEPING" /\ back = "nap_back"
  PROVE  Ctl'
<1>0. PICK t : t = run[c]  OBVIOUS
<1>1. \/ Pl(t) = "yield_sched" /\ st = "RUNNABLE" /\ back = "yield_back"
      \/ Pl(t) = "nap_sched" /\ st = "SLEEPING" /\ back = "nap_back"
  BY <1>0 DEF At, Pl
<1>2. /\ t \in Thread /\ Len(stk[t]) \in {1, 2}
      /\ CpuOK(Pl(t), t \in spin, lock["tickslock"] = c, lock["ptable"] = c, ncli[c], ints[c], intena[c])
      /\ t \notin spin
  BY <1>0, <1>1, Here, AcquiresPlaces, Zenon
<1>3. TypeInv /\ StackInv /\ RunInv /\ CpuInv  BY DEF Ctl
<1>4. StackOK(stk[t], Own(t), t \in spin)  BY <1>2, <1>3, Zenon DEF StackInv
<1>5. t \in Proc
  <2> SUFFICES ASSUME t \notin Proc PROVE FALSE  OBVIOUS
  <2>1. Own(t) = Loop  BY DEF Own
  <2>2. Pl(t) \notin Yields /\ Pl(t) \in Loop \cup Handler  BY <1>4, <2>1, Zenon DEF StackOK, Pl, Top
  <2> QED  BY <1>1, <2>2 DEF Yields, Loop, Handler
<1>6. ints[c] \in BOOLEAN /\ intena[c] \in BOOLEAN  BY Types
<1>7. /\ lock["ptable"] = c /\ lock["tickslock"] # c /\ ncli[c] = 1 /\ ints[c] = FALSE
      /\ intena[c] = (Pl(t) = "nap_sched")
  BY <1>1, <1>2, <1>6 DEF CpuOK, One, HasTicks, HasPtable, Open, Masked, Restores, Handler
<1>8. /\ state' = [state EXCEPT ![t] = st] /\ saved' = [saved EXCEPT ![t] = intena[c]]
      /\ run' = [run EXCEPT ![c] = c] /\ stk' = Put(t, back)
      /\ UNCHANGED <<ncli, intena, ints, lock, spin, nap>>
  BY <1>0, <1>7, Zenon DEF sched, Goto, cpus, clock
<1>9. back \in Place /\ back \in Parked /\ st \in {"RUNNABLE", "SLEEPING"}
  BY <1>1 DEF Place, Handler, Call, Parked
<1>10. Moved(t, back)  BY <1>2, <1>3, <1>8, <1>9, Moves, Zenon
<1>11. /\ Pl(t)' = back /\ \A u \in Thread : u # t => Pl(u)' = Pl(u) /\ stk'[u] = stk[u]
  BY <1>10 DEF Moved, Pl, Top
<1>12. c # t /\ c \in Thread /\ t # c  BY <1>5 DEF Params, Thread
<1>13. /\ \A p \in Proc : p # t => state'[p] = state[p] /\ saved'[p] = saved[p]
       /\ state'[t] = st /\ saved'[t] = intena[c]
       /\ state' \in [Proc -> {"RUNNABLE", "RUNNING", "SLEEPING"}] /\ saved' \in [Proc -> BOOLEAN]
  BY <1>3, <1>5, <1>6, <1>8, <1>9, Zenon DEF TypeInv
<1>14. run' \in [CPU -> Thread] /\ run'[c] = c /\ \A d \in CPU : d # c => run'[d] = run[d]
  BY <1>3, <1>8, <1>12, Zenon DEF RunInv
<1>15. TypeInv'  BY <1>3, <1>8, <1>10, <1>13, Zenon DEF TypeInv, Moved, Frame
<1>16. StackInv'
  <2> SUFFICES ASSUME NEW u \in Thread PROVE StackOK(stk'[u], Own(u), u \in spin)
    BY <1>8 DEF StackInv, Own
  <2>1. CASE u # t  BY <1>3, <1>11, <2>1 DEF StackInv
  <2>2. CASE u = t
    <3>1. Own(t) # Loop /\ Own(t) = Call  BY <1>5, KindsDiffer DEF Own
    <3>2. Pl(t) \in Handler <=> back \in Handler  BY <1>1 DEF Handler
    <3>3. Pl(t) \in Call <=> back \in Call  BY <1>1 DEF Call
    <3>4. StackOK(stk'[t], Own(t), t \in spin)
      BY <1>2, <1>4, <1>10, <3>1, <3>2, <3>3, Zenon DEF StackOK, Moved, Pl, Top
    <3> QED  BY <2>2, <3>4
  <2> QED  BY <2>1, <2>2
<1>17. RunInv'
  <2>1. \A d \in CPU : d # c => run[d] # t /\ run[d] # c
    BY <1>0, <1>3 DEF RunInv, Params
  <2>2. \A d \in CPU : run'[d] \in Proc \cup {d}  BY <1>3, <1>14, Zenon DEF RunInv
  <2>3. \A d, e \in CPU : run'[d] = run'[e] => d = e  BY <1>3, <1>14, <2>1 DEF RunInv
  <2>4. \A p \in Proc : state'[p] = "RUNNING" <=> \E d \in CPU : run'[d] = p
    <3> SUFFICES ASSUME NEW p \in Proc PROVE state'[p] = "RUNNING" <=> \E d \in CPU : run'[d] = p
      OBVIOUS
    <3>1. CASE p = t  BY <1>9, <1>12, <1>13, <1>14, <2>1, <3>1
    <3>2. CASE p # t
      <4>1. c # p  BY DEF Params
      <4>2. run[c] # p  BY <1>0, <3>2
      <4>3. (\E d \in CPU : run'[d] = p) <=> (\E d \in CPU : run[d] = p)  BY <1>14, <4>1, <4>2
      <4> QED  BY <1>3, <1>13, <3>2, <4>3 DEF RunInv
    <3> QED  BY <3>1, <3>2
  <2>5. \A p \in Proc : p # t => Pl(p)' = Pl(p)  BY <1>11 DEF Thread
  <2>6. \A p \in Proc : state'[p] # "RUNNING" => Pl(p)' \in Parked /\ p \notin spin
    <3> SUFFICES ASSUME NEW p \in Proc, state'[p] # "RUNNING" PROVE Pl(p)' \in Parked /\ p \notin spin
      OBVIOUS
    <3>1. CASE p = t  BY <1>2, <1>9, <1>11, <3>1, Zenon
    <3>2. CASE p # t
      <4>1. state[p] # "RUNNING" /\ Pl(p)' = Pl(p)  BY <1>13, <2>5, <3>2, Zenon
      <4> QED  BY <1>3, <4>1 DEF RunInv
    <3> QED  BY <3>1, <3>2
  <2>7. \A d \in CPU : run'[d] # d => Pl(d)' = "pick" /\ d \notin spin
    <3> SUFFICES ASSUME NEW d \in CPU, run'[d] # d PROVE Pl(d)' = "pick" /\ d \notin spin  OBVIOUS
    <3>1. d # c /\ run[d] # d  BY <1>14
    <3>2. d # t /\ d \in Thread  BY <1>5 DEF Params, Thread
    <3> QED  BY <1>3, <1>11, <3>1, <3>2, Zenon DEF RunInv
  <2>8. \A p \in Proc : /\ state'[p] = "SLEEPING" => Pl(p)' = "nap_back"
                        /\ Pl(p)' = "yield_back" => ~saved'[p]
                        /\ Pl(p)' = "nap_back" => saved'[p]
    <3> SUFFICES ASSUME NEW p \in Proc
                 PROVE  /\ state'[p] = "SLEEPING" => Pl(p)' = "nap_back"
                        /\ Pl(p)' = "yield_back" => ~saved'[p]
                        /\ Pl(p)' = "nap_back" => saved'[p]
      OBVIOUS
    <3>1. CASE p # t  BY <1>3, <1>13, <2>5, <3>1 DEF RunInv
    <3>2. CASE p = t  BY <1>1, <1>7, <1>11, <1>13, <3>2, Zenon
    <3> QED  BY <3>1, <3>2, Zenon
  <2> QED  BY <1>8, <1>14, <2>2, <2>3, <2>4, <2>6, <2>7, <2>8, Zenon DEF RunInv
<1>18. CpuInv'
  <2> SUFFICES ASSUME NEW d \in CPU, NEW u, u = run'[d]
               PROVE  CpuOK(Pl(u)', u \in spin, lock["tickslock"] = d, lock["ptable"] = d,
                            ncli[d], ints[d], intena[d])
    BY <1>8, Zenon DEF CpuInv, Pl, Top
  <2>1. CASE d # c
    <3>1. u = run[d] /\ u # t /\ u \in Thread  BY <1>0, <1>3, <1>14, <2>1 DEF RunInv
    <3>2. Pl(u)' = Pl(u)  BY <1>11, <3>1, Zenon
    <3> QED  BY <1>3, <3>1, <3>2 DEF CpuInv
  <2>2. CASE d = c
    <3>1. u = c /\ Pl(u)' = Pl(c)  BY <1>11, <1>12, <1>14, <2>2, Zenon
    <3>2. Pl(c) = "pick" /\ c \notin spin  BY <1>0, <1>3, <1>12, Zenon DEF RunInv
    <3> QED
      BY <1>7, <2>2, <3>1, <3>2 DEF CpuOK, One, HasTicks, HasPtable, Open, On, Masked, Restores, Handler
  <2> QED  BY <2>1, <2>2, Zenon
<1> QED  BY <1>15, <1>16, <1>17, <1>18 DEF Ctl

\* The scheduler runs a parked process under the ptable.lock that it took.
LEMMA scheduler_pickCtl == ASSUME Params, Ctl, NEW c \in CPU, scheduler_pick(c) PROVE Ctl'
<1>0. PICK t : t = run[c]  OBVIOUS
<1>1. Pl(t) = "pick"  BY <1>0 DEF scheduler_pick, At, Pl
<1>2. UNCHANGED <<ncli, intena, ints, saved, lock, spin, nap>>  BY DEF scheduler_pick, cpus, clock
<1>3. /\ t \in Thread /\ Len(stk[t]) \in {1, 2}
      /\ CpuOK(Pl(t), t \in spin, lock["tickslock"] = c, lock["ptable"] = c, ncli[c], ints[c], intena[c])
      /\ t \notin spin
  BY <1>0, <1>1, Here, AcquiresPlaces, Zenon
<1>4. TypeInv /\ StackInv /\ RunInv /\ CpuInv  BY DEF Ctl
<1>5. CASE stk' = Put(run[c], "pick_none") /\ UNCHANGED <<state, run>>
  <2>1. /\ "pick_none" \in Place /\ "pick_none" \notin Parked /\ "pick_none" \notin Yields
        /\ Pl(t) \notin Handler /\ "pick_none" \notin Handler /\ Pl(t) \notin Call /\ "pick_none" \notin Call
        /\ Pl(t) \notin DOMAIN Acquires
    BY <1>1, AcquiresPlaces DEF Place, Loop, Parked, Yields, Handler, Call
  <2>2. CpuOK("pick_none", FALSE, lock["tickslock"] = c, lock["ptable"] = c, ncli[c], ints'[c], intena'[c])
    BY <1>1, <1>2, <1>3, Zenon DEF CpuOK, One, HasTicks, HasPtable, Open, On, Masked, Restores, Handler
  <2> QED  BY <1>0, <1>2, <1>5, <2>1, <2>2, Plain, Types, Zenon
<1>6. ASSUME NEW p \in Proc, state[p] = "RUNNABLE", state' = [state EXCEPT ![p] = "RUNNING"],
             run' = [run EXCEPT ![c] = p], stk' = stk
      PROVE  Ctl'
  <2>1. t = c
    <3>1. StackOK(stk[t], Own(t), t \in spin)  BY <1>3, <1>4, Zenon DEF StackInv
    <3>2. t \notin Proc  BY <1>1, <3>1 DEF StackOK, Pl, Top, Own, Call, Handler
    <3> QED  BY <1>0, <1>4, <3>2, Zenon DEF RunInv
  <2>2. Pl(p) \in Parked /\ p \notin spin /\ \A d \in CPU : run[d] # p
    BY <1>4, <1>6 DEF RunInv
  <2>3. \A u : Pl(u)' = Pl(u)  BY <1>6 DEF Pl, Top
  <2>4. /\ run' \in [CPU -> Thread] /\ run'[c] = p /\ \A d \in CPU : d # c => run'[d] = run[d]
    BY <1>4, <1>6 DEF RunInv, Thread
  <2>5. /\ state'[p] = "RUNNING" /\ \A q \in Proc : q # p => state'[q] = state[q]
        /\ state' \in [Proc -> {"RUNNABLE", "RUNNING", "SLEEPING"}]
    BY <1>4, <1>6, Zenon DEF TypeInv
  <2>6. TypeInv'  BY <1>2, <1>4, <1>6, <2>5, Zenon DEF TypeInv
  <2>7. StackInv'  BY <1>2, <1>4, <1>6, Zenon DEF StackInv, Own
  <2>8. RunInv'
    <3>1. \A d \in CPU : run'[d] \in Proc \cup {d}  BY <1>4, <2>4, Zenon DEF RunInv
    <3>2. \A d, e \in CPU : run'[d] = run'[e] => d = e  BY <1>4, <2>2, <2>4 DEF RunInv
    <3>3. \A q \in Proc : state'[q] = "RUNNING" <=> \E d \in CPU : run'[d] = q
      <4> SUFFICES ASSUME NEW q \in Proc PROVE state'[q] = "RUNNING" <=> \E d \in CPU : run'[d] = q
        OBVIOUS
      <4>1. CASE q = p  BY <2>4, <2>5, <4>1
      <4>2. CASE q # p
        <5>1. run[c] # q  BY <1>0, <2>1 DEF Params
        <5>2. (\E d \in CPU : run'[d] = q) <=> (\E d \in CPU : run[d] = q)  BY <2>4, <4>2, <5>1
        <5> QED  BY <1>4, <2>5, <4>2, <5>2, Zenon DEF RunInv
      <4> QED  BY <4>1, <4>2
    <3>4. \A q \in Proc : state'[q] # "RUNNING" => Pl(q)' \in Parked /\ q \notin spin
      BY <1>4, <2>3, <2>5, Zenon DEF RunInv
    <3>5. \A d \in CPU : run'[d] # d => Pl(d)' = "pick" /\ d \notin spin
      BY <1>1, <1>3, <1>4, <2>1, <2>3, <2>4, Zenon DEF RunInv
    <3>6. \A q \in Proc : /\ state'[q] = "SLEEPING" => Pl(q)' = "nap_back"
                          /\ Pl(q)' = "yield_back" => ~saved[q]
                          /\ Pl(q)' = "nap_back" => saved[q]
      BY <1>4, <2>3, <2>5, Zenon DEF RunInv
    <3> QED  BY <1>2, <2>4, <3>1, <3>2, <3>3, <3>4, <3>5, <3>6, Zenon DEF RunInv
  <2>9. CpuInv'
    <3> SUFFICES ASSUME NEW d \in CPU, NEW u, u = run'[d]
                 PROVE  CpuOK(Pl(u), u \in spin, lock["tickslock"] = d, lock["ptable"] = d,
                              ncli[d], ints[d], intena[d])
      BY <1>2, <1>6, Zenon DEF CpuInv, Pl, Top
    <3>1. CASE d # c  BY <1>4, <2>4, <3>1, Zenon DEF CpuInv
    <3>2. CASE d = c
      <4>1. u = p /\ Pl(u) \in Parked /\ u \notin spin  BY <2>2, <2>4, <3>2
      <4> QED
        BY <1>1, <1>3, <3>2, <4>1, Zenon
        DEF CpuOK, One, HasTicks, HasPtable, Open, On, Masked, Restores, Handler, Parked
    <3> QED  BY <3>1, <3>2, Zenon
  <2> QED  BY <2>6, <2>7, <2>8, <2>9 DEF Ctl
<1> QED  BY <1>5, <1>6 DEF scheduler_pick, Goto

-----------------------------------------------------------------------------
\* At the start every scheduler is at its sti and every process in forkret.
LEMMA CtlInit == ASSUME Params, Init PROVE Ctl
<1>1. "forkret" \in Place /\ "sti" \in Place /\ "forkret" \in Call /\ "sti" \in Loop
  BY DEF Place, Call, Loop
<1>2. \A t \in Thread : /\ stk[t] \in Seq(Frame) /\ Len(stk[t]) = 1
                        /\ stk[t][1].pc = IF t \in Proc THEN "forkret" ELSE "sti"
  <2> SUFFICES ASSUME NEW t \in Thread
               PROVE  /\ stk[t] \in Seq(Frame) /\ Len(stk[t]) = 1
                      /\ stk[t][1].pc = IF t \in Proc THEN "forkret" ELSE "sti"
    OBVIOUS
  <2>1. [pc |-> "forkret", ints |-> TRUE] \in Frame /\ [pc |-> "sti", ints |-> FALSE] \in Frame
    BY <1>1 DEF Frame
  <2>2. CASE t \in Proc
    <3>1. stk[t] = <<[pc |-> "forkret", ints |-> TRUE]>>  BY <2>2, Zenon DEF Init
    <3> QED  BY <2>1, <2>2, <3>1
  <2>3. CASE t \notin Proc
    <3>1. stk[t] = <<[pc |-> "sti", ints |-> FALSE]>>  BY <2>3, Zenon DEF Init
    <3> QED  BY <2>1, <2>3, <3>1
  <2> QED  BY <2>2, <2>3
<1>3. \A t \in Thread : Pl(t) = IF t \in Proc THEN "forkret" ELSE "sti"  BY <1>2 DEF Pl, Top
<1>4. TypeInv
  <2>1. /\ ncli \in [CPU -> Nat] /\ intena \in [CPU -> BOOLEAN] /\ ints \in [CPU -> BOOLEAN]
        /\ lock \in [Lock -> CPU \cup {NCPU}]
        /\ state \in [Proc -> {"RUNNABLE", "RUNNING", "SLEEPING"}]
        /\ spin \subseteq Thread /\ saved \in [Proc -> BOOLEAN]
    BY DEF Init
  <2>2. DOMAIN nap = Proc /\ \A p \in Proc : DOMAIN nap[p] = {"n", "t0"}  BY Zenon DEF Init
  <2>3. stk \in [Thread -> Seq(Frame)]
    <3>1. DOMAIN stk = Thread /\ stk = [t \in Thread |-> stk[t]]  BY DEF Init
    <3> QED  BY <1>2, <3>1
  <2> QED  BY <2>1, <2>2, <2>3, Zenon DEF TypeInv, Frame
<1>5. StackInv
  <2> SUFFICES ASSUME NEW t \in Thread PROVE StackOK(stk[t], Own(t), t \in spin)  BY DEF StackInv
  <2>1. t \notin spin  BY DEF Init
  <2>2. stk[t][1].pc \in Own(t) /\ stk[t][1].pc \notin Yields  BY <1>1, <1>2 DEF Own, Yields
  <2> QED  BY <1>2, <2>1, <2>2, Zenon DEF StackOK
<1>6. RunInv
  <2>1. run = [c \in CPU |-> c] /\ spin = {} /\ state = [p \in Proc |-> "RUNNABLE"]  BY DEF Init
  <2>2. \A p \in Proc : Pl(p) = "forkret" /\ state[p] = "RUNNABLE"  BY <1>3, <2>1 DEF Thread
  <2>3. \A p \in Proc : p \notin CPU  BY DEF Params
  <2>4. run \in [CPU -> Thread] /\ \A c \in CPU : run[c] = c  BY <2>1 DEF Thread
  <2> QED  BY <2>1, <2>2, <2>3, <2>4 DEF RunInv, Parked
<1>7. CpuInv
  <2> SUFFICES ASSUME NEW c \in CPU
               PROVE  CpuOK(Pl(c), c \in spin, lock["tickslock"] = c, lock["ptable"] = c,
                            ncli[c], ints[c], intena[c])
    BY Zenon DEF CpuInv, Init
  <2>1. c # NCPU /\ c \notin Proc  BY DEF CPU, Params
  <2>2. Pl(c) = "sti"  BY <1>3, <2>1 DEF Thread
  <2>3. /\ c \notin spin /\ lock["tickslock"] # c /\ lock["ptable"] # c
        /\ ncli[c] = 0 /\ ints[c] = FALSE /\ intena[c] = FALSE
    BY <2>1, Zenon DEF Init, Lock
  <2> QED
    BY <2>2, <2>3 DEF CpuOK, One, HasTicks, HasPtable, Open, On, Masked, Restores, Handler
<1> QED  BY <1>4, <1>5, <1>6, <1>7 DEF Ctl

\* Every step keeps stacks, processors, locks and flags in agreement.
LEMMA CtlNext == ASSUME Params, Ctl, [Next]_vars PROVE Ctl'
<1>1. ASSUME UNCHANGED vars PROVE Ctl'
  <2>1. /\ ncli' = ncli /\ intena' = intena /\ ints' = ints /\ run' = run /\ lock' = lock
        /\ state' = state /\ stk' = stk /\ spin' = spin /\ saved' = saved /\ nap' = nap
    BY <1>1 DEF vars
  <2>2. TypeInv'  BY <2>1, Zenon DEF Ctl, TypeInv
  <2>3. StackInv'  BY <2>1 DEF Ctl, StackInv, Own
  <2>4. RunInv'  BY <2>1 DEF Ctl, RunInv, Pl, Top
  <2>5. CpuInv'  BY <2>1, Zenon DEF Ctl, CpuInv, Pl, Top
  <2> QED  BY <2>2, <2>3, <2>4, <2>5 DEF Ctl
<1>2. ASSUME NEW c \in CPU, yield_sched(c) PROVE Ctl'
  BY <1>2, schedCtl DEF yield_sched
<1>3. ASSUME NEW c \in CPU, nap_sched(c) PROVE Ctl'
  BY <1>3, schedCtl DEF nap_sched
<1> QED
  BY <1>1, <1>2, <1>3, acquireCtl, xchgCtl, releaseCtl, interruptCtl, iretCtl, retCtl, tick_countCtl,
     tick_wakeCtl, eoiCtl, sched_backCtl, scheduler_stiCtl, scheduler_pickCtl, sys_sleepCtl,
     nap_startCtl, nap_testCtl, Zenon
  DEF Next
=============================================================================
