----------------------------- MODULE CpuProofs -----------------------------
(***************************************************************************)
(* The sleepers of sys_sleep and the clock, and with them the theorem on   *)
(* locks, interrupt flags and sleepers.                                    *)
(***************************************************************************)
EXTENDS CpuControlProofs

Early(p) == Elapsed(p) < nap[p].n
Ticking == \E c \in CPU : Pl(run[c]) \in {"tick_wakeup", "tick_wake"}

\* A sleeper has looked at the clock under tickslock, and a tick that came
\* after it gave that lock up still has to wake it.
TickInv ==
  \A p \in Proc :
    /\ Pl(p) \in {"nap_sleep", "nap_release"} => Early(p)
    /\ Pl(p) = "nap_sched" \/ state[p] = "SLEEPING" => Early(p) \/ Ticking

Inv == TypeInv /\ StackInv /\ RunInv /\ CpuInv /\ TickInv

-----------------------------------------------------------------------------
\* A step of t, on processor c, at whose end t is at m: the clock does not
\* move, and t becomes a sleeper only along the way that sys_sleep prescribes.
LEMMA TickKept ==
  ASSUME Params, Ctl, TickInv, NEW c \in CPU, NEW t, t = run[c], NEW m, Pl(t)' = m,
         \A u \in Thread : u # t => Pl(u)' = Pl(u),
         ticks' = ticks, \A p \in Proc : p # t => nap'[p] = nap[p],
         \A d \in CPU : d # c => run'[d] = run[d],
         Pl(t) \in {"tick_wakeup", "tick_wake"} => run'[c] = t /\ m \in {"tick_wakeup", "tick_wake"},
         \A p \in Proc : p # t => (state'[p] = "SLEEPING" => state[p] = "SLEEPING"),
         m \in {"nap_sleep", "nap_release"} =>
           nap' = nap /\ (Pl(t) \in {"nap_sleep", "nap_release"} \/ Early(t)),
         m = "nap_sched" => nap' = nap /\ Pl(t) = "nap_release",
         t \in Proc /\ state'[t] = "SLEEPING" => nap' = nap /\ Pl(t) = "nap_sched"
  PROVE  TickInv'
<1>1. Ticking => Ticking'
  <2> SUFFICES ASSUME Ticking PROVE \E d \in CPU : \E u : u = run'[d] /\ Pl(u)' \in {"tick_wakeup", "tick_wake"}
    BY Zenon DEF Ticking, Pl, Top
  <2>1. PICK d \in CPU : Pl(run[d]) \in {"tick_wakeup", "tick_wake"}  BY DEF Ticking
  <2>2. CASE d = c  BY <2>1, <2>2
  <2>3. CASE d # c
    <3>1. run[d] # t /\ run[d] \in Thread  BY <2>3 DEF Ctl, RunInv
    <3>2. PICK u : u = run[d]  OBVIOUS
    <3>3. Pl(u)' = Pl(u)  BY <3>1, <3>2
    <3> QED  BY <2>1, <2>3, <3>2, <3>3
  <2> QED  BY <2>2, <2>3
<1>2. ASSUME NEW p \in Proc, nap'[p] = nap[p] PROVE Early(p)' = Early(p)
  BY <1>2 DEF Early, Elapsed
<1>3. ASSUME NEW p \in Proc, p # t
      PROVE  /\ Pl(p)' \in {"nap_sleep", "nap_release"} => Early(p)'
             /\ Pl(p)' = "nap_sched" \/ state'[p] = "SLEEPING" => Early(p)' \/ Ticking'
  <2>1. Pl(p)' = Pl(p) /\ Early(p)' = Early(p)  BY <1>2, <1>3 DEF Thread
  <2>2. state'[p] = "SLEEPING" => state[p] = "SLEEPING"  BY <1>3
  <2>3. /\ Pl(p) \in {"nap_sleep", "nap_release"} => Early(p)
        /\ Pl(p) = "nap_sched" \/ state[p] = "SLEEPING" => Early(p) \/ Ticking
    BY DEF TickInv
  <2> QED  BY <1>1, <2>1, <2>2, <2>3
<1>4. ASSUME t \in Proc
      PROVE  /\ m \in {"nap_sleep", "nap_release"} => Early(t)'
             /\ m = "nap_sched" \/ state'[t] = "SLEEPING" => Early(t)' \/ Ticking'
  <2>1. nap' = nap => Early(t)' = Early(t)  BY <1>2, <1>4
  <2>2. /\ Pl(t) \in {"nap_sleep", "nap_release"} => Early(t)
        /\ Pl(t) = "nap_sched" => Early(t) \/ Ticking
    BY <1>4 DEF TickInv
  <2> QED  BY <1>1, <1>4, <2>1, <2>2
<1> QED  BY <1>3, <1>4 DEF TickInv

\* The same for a step that goes to m, past the places of a sleeper.
LEMMA TickGoto ==
  ASSUME Params, Ctl, TickInv, NEW c \in CPU, NEW t, t = run[c], NEW m \in Place, stk' = Put(t, m),
         ticks' = ticks, run' = run, state' = state, nap' = nap \/ m \notin {"nap_sleep", "nap_release", "nap_sched"},
         \A p \in Proc : p # t => nap'[p] = nap[p],
         Pl(t) \in {"tick_wakeup", "tick_wake"} => m \in {"tick_wakeup", "tick_wake"},
         m \in {"nap_sleep", "nap_release"} => Pl(t) \in {"nap_sleep", "nap_release"} \/ Early(t),
         m = "nap_sched" => Pl(t) = "nap_release"
  PROVE  TickInv'
<1>1. /\ t \in Thread /\ Len(stk[t]) \in {1, 2} /\ TypeInv  BY Here DEF Ctl
<1>2. Moved(t, m)  BY <1>1, Moves
<1>3. Pl(t)' = m /\ \A u \in Thread : u # t => Pl(u)' = Pl(u)  BY <1>2, Zenon DEF Moved, Pl, Top
<1>4. t \in Proc => state'[t] = "RUNNING"  BY Running DEF Ctl
<1> QED  BY <1>3, <1>4, TickKept

\* A tick is counted while no sleeper is between its test and its release of tickslock.
LEMMA TickCount == ASSUME Params, Ctl, TickInv, NEW c \in CPU, tick_count(c) PROVE TickInv'
<1>0. PICK t : t = run[c]  OBVIOUS
<1>1. /\ Pl(t) = "tick_count" /\ stk' = Put(t, "tick_wakeup") /\ run' = run /\ state' = state
      /\ t \in Thread /\ Len(stk[t]) \in {1, 2} /\ TypeInv
  BY <1>0, Here DEF tick_count, Count, At, Goto, Pl, procs, Ctl
<1>2. Moved(t, "tick_wakeup")  BY <1>1, Moves DEF Place, Handler
<1>3. Pl(t)' = "tick_wakeup" /\ \A u \in Thread : u # t => Pl(u)' = Pl(u)  BY <1>2 DEF Moved, Pl, Top
<1>4. Ticking'
  <2>1. t = run'[c]  BY <1>0, <1>1
  <2> QED  BY <1>3, <2>1 DEF Ticking, Pl, Top
<1>5. lock["tickslock"] = c  BY <1>0, <1>1, Here DEF CpuOK, HasTicks
<1>6. ASSUME NEW p \in Proc, Pl(p)' \in {"nap_sleep", "nap_release"} PROVE FALSE
  <2>1. p # t /\ Pl(p)' = Pl(p)  BY <1>3, <1>6 DEF Thread
  <2>2. state[p] = "RUNNING"  BY <1>6, <2>1 DEF Ctl, RunInv, Parked
  <2>3. PICK d \in CPU : run[d] = p  BY <2>2 DEF Ctl, RunInv
  <2>4. lock["tickslock"] = d  BY <1>6, <2>1, <2>3, Here DEF CpuOK, HasTicks
  <2> QED  BY <1>0, <1>5, <2>1, <2>3, <2>4
<1> QED  BY <1>4, <1>6 DEF TickInv

\* The wakeup finds no process that is on its way to sleep inside ptable.lock.
LEMMA TickWake == ASSUME Params, Ctl, TickInv, NEW c \in CPU, tick_wake(c) PROVE TickInv'
<1>0. PICK t : t = run[c]  OBVIOUS
<1>1. /\ Pl(t) = "tick_wake" /\ stk' = Put(t, "tick_woken") /\ ticks' = ticks /\ nap' = nap
      /\ state' = [p \in Proc |-> IF state[p] = "SLEEPING" THEN "RUNNABLE" ELSE state[p]]
      /\ t \in Thread /\ Len(stk[t]) \in {1, 2} /\ TypeInv
  BY <1>0, Here, Zenon DEF tick_wake, At, Goto, Pl, clock, Ctl
<1>2. Moved(t, "tick_woken")  BY <1>1, Moves DEF Place, Handler
<1>3. Pl(t)' = "tick_woken" /\ \A u \in Thread : u # t => Pl(u)' = Pl(u)  BY <1>2 DEF Moved, Pl, Top
<1>4. lock["ptable"] = c  BY <1>0, <1>1, Here, Zenon DEF CpuOK, HasPtable
<1>5. ASSUME NEW p \in Proc, Pl(p)' = "nap_sched" PROVE FALSE
  <2>1. p # t /\ Pl(p)' = Pl(p)  BY <1>3, <1>5 DEF Thread
  <2>2. state[p] = "RUNNING"  BY <1>5, <2>1 DEF Ctl, RunInv, Parked
  <2>3. PICK d \in CPU : run[d] = p  BY <2>2 DEF Ctl, RunInv
  <2>4. lock["ptable"] = d  BY <1>5, <2>1, <2>3, Here DEF CpuOK, HasPtable
  <2> QED  BY <1>0, <1>4, <2>1, <2>3, <2>4
<1>6. \A p \in Proc : state'[p] # "SLEEPING"  BY <1>1
<1>7. ASSUME NEW p \in Proc, Pl(p)' \in {"nap_sleep", "nap_release"} PROVE Early(p)'
  <2>1. Pl(p)' = Pl(p)  BY <1>3, <1>7 DEF Thread
  <2>2. Early(p)  BY <1>7, <2>1 DEF TickInv
  <2> QED  BY <1>1, <2>2 DEF Early, Elapsed
<1> QED  BY <1>5, <1>6, <1>7 DEF TickInv

\* A process that goes to sleep is early, or the wakeup of its tick is still to come.
LEMMA TickSched ==
  ASSUME Params, Ctl, TickInv, NEW c \in CPU, NEW st, NEW back, sched(c, st, back),
         \/ At(c, "yield_sched") /\ st = "RUNNABLE" /\ back = "yield_back"
         \/ At(c, "nap_sched") /\ st = "SLEEPING" /\ back = "nap_back"
  PROVE  TickInv'
<1>0. PICK t : t = run[c]  OBVIOUS
<1>1. /\ \/ Pl(t) = "yield_sched" /\ st = "RUNNABLE" /\ back = "yield_back"
         \/ Pl(t) = "nap_sched" /\ st = "SLEEPING" /\ back = "nap_back"
      /\ t \in Thread /\ Len(stk[t]) \in {1, 2} /\ TypeInv
      /\ CpuOK(Pl(t), t \in spin, lock["tickslock"] = c, lock["ptable"] = c, ncli[c], ints[c], intena[c])
      /\ t \notin spin
  BY <1>0, Here, AcquiresPlaces, Zenon DEF At, Pl, Ctl
<1>2. lock["ptable"] = c /\ ncli[c] = 1 /\ ~ints[c]
  BY <1>1 DEF CpuOK, One, HasTicks, HasPtable, Open
<1>3. /\ state' = [state EXCEPT ![t] = st] /\ run' = [run EXCEPT ![c] = c] /\ stk' = Put(t, back)
      /\ ticks' = ticks /\ nap' = nap
  BY <1>0, <1>2, Zenon DEF sched, Goto, clock
<1>4. Moved(t, back)
  <2>1. back \in Place  BY <1>1 DEF Place, Handler, Call
  <2> QED  BY <1>1, <1>3, <2>1, Moves, Zenon
<1>5. Pl(t)' = back /\ \A u \in Thread : u # t => Pl(u)' = Pl(u)  BY <1>4 DEF Moved, Pl, Top
<1>6. /\ \A d \in CPU : d # c => run'[d] = run[d]
      /\ \A p \in Proc : p # t => state'[p] = state[p]
      /\ t \in Proc => state'[t] = st
  <2>1. state \in [Proc -> {"RUNNABLE", "RUNNING", "SLEEPING"}] /\ run \in [CPU -> Thread]
    BY Zenon DEF Ctl, RunInv, TypeInv
  <2> QED  BY <1>3, <2>1, Zenon
<1>7. back \notin {"nap_sleep", "nap_release", "nap_sched"} /\ Pl(t) \notin {"tick_wakeup", "tick_wake"}
  BY <1>1, Zenon
<1>8. t \in Proc /\ state'[t] = "SLEEPING" => Pl(t) = "nap_sched"  BY <1>1, <1>6, Zenon
<1> QED  BY <1>0, <1>3, <1>5, <1>6, <1>7, <1>8, TickKept

\* Locks taken and given back on the way to sleep keep tickslock, then ptable.
LEMMA TickLocks ==
  ASSUME Params, Ctl, TickInv, NEW c \in CPU, acquire(c) \/ xchg(c) \/ release(c)
  PROVE  TickInv'
<1>0. PICK t : t = run[c]  OBVIOUS
<1>1. /\ t \in Thread /\ Pl(t) \in Place
      /\ CpuOK(Pl(t), t \in spin, lock["tickslock"] = c, lock["ptable"] = c, ncli[c], ints[c], intena[c])
      /\ t \in spin => Pl(t) \in DOMAIN Acquires
      /\ t \in Proc => state[t] = "RUNNING"
  BY <1>0, Here, Running, Zenon DEF Ctl
<1>2. CASE acquire(c)
  <2>1. Pl(t) \in DOMAIN Acquires /\ t \notin spin  BY <1>0, <1>2, Zenon DEF acquire, Pl
  <2>2. lock[Acquires[Pl(t)][1]] # c
    <3>1. \A l \in DOMAIN Acquires : \/ Acquires[l][1] = "tickslock" /\ l \notin HasTicks
                                     \/ Acquires[l][1] = "ptable" /\ l \notin HasPtable
      BY AcquiresTable DEF HasTicks, HasPtable
    <3>2. (lock["tickslock"] = c <=> Pl(t) \in HasTicks) /\ (lock["ptable"] = c <=> Pl(t) \in HasPtable)
      BY <1>1, Zenon DEF CpuOK
    <3> QED  BY <2>1, <3>1, <3>2, Zenon
  <2>3. stk' = stk /\ run' = run /\ state' = state /\ ticks' = ticks /\ nap' = nap
    BY <1>0, <1>2, <2>2 DEF acquire, procs, clock, Pl
  <2>4. \A u : Pl(u)' = Pl(u)  BY <2>3 DEF Pl, Top
  <2>5. Pl(t) # "nap_sched"  BY <2>1, AcquiresPlaces
  <2> QED  BY <1>0, <1>1, <2>3, <2>4, <2>5, TickKept, Zenon
<1>3. CASE xchg(c)
  <2>1. /\ stk' = Put(t, Acquires[Pl(t)][2]) /\ Pl(t) \in DOMAIN Acquires
        /\ run' = run /\ state' = state /\ ticks' = ticks /\ nap' = nap
    BY <1>0, <1>1, <1>3, Zenon DEF xchg, procs, clock, Goto, Pl
  <2> DEFINE m == Acquires[Pl(t)][2]
  <2>2. /\ m \in Place /\ m # "nap_sched"
        /\ Pl(t) \in {"tick_wakeup", "tick_wake"} => m \in {"tick_wakeup", "tick_wake"}
        /\ m \in {"nap_sleep", "nap_release"} => Pl(t) \in {"nap_sleep", "nap_release"}
    BY <2>1, AcquiresTable DEF Place, Handler, Loop, Call
  <2> HIDE DEF m
  <2>3. stk' = Put(t, m)  BY <2>1 DEF m
  <2> QED  BY <1>0, <2>1, <2>2, <2>3, TickGoto
<1>4. CASE release(c)
  <2>1. Pl(t) \in DOMAIN Releases  BY <1>0, <1>4, Zenon DEF release, Pl
  <2>2. t \notin spin  BY <1>1, <2>1, ReleasesTable, AcquiresPlaces
  <2>3. lock[Releases[Pl(t)][1]] = c /\ ~ints[c] /\ ncli[c] # 0
    BY <1>1, <2>1, ReleasesTable DEF CpuOK, One, HasTicks, HasPtable, Open
  <2>4. /\ stk' = Put(t, Releases[Pl(t)][2])
        /\ run' = run /\ state' = state /\ ticks' = ticks /\ nap' = nap
    BY <1>0, <1>4, <2>3, Zenon DEF release, procs, clock, Goto, Pl
  <2> DEFINE m == Releases[Pl(t)][2]
  <2>5. /\ m \in Place /\ m \notin {"nap_sleep", "nap_release"}
        /\ Pl(t) \notin {"tick_wakeup", "tick_wake"}
        /\ m = "nap_sched" => Pl(t) = "nap_release"
    BY <2>1, ReleasesTable, SMTT(30) DEF Place, Handler, Loop, Call
  <2> HIDE DEF m
  <2>6. stk' = Put(t, m)  BY <2>4 DEF m
  <2> QED  BY <1>0, <2>4, <2>5, <2>6, TickGoto, Zenon
<1> QED  BY <1>2, <1>3, <1>4

\* An interrupt and its end are no places of a sleeper either.
LEMMA TickIntr ==
  ASSUME Params, Ctl, Ctl', TickInv, NEW c \in CPU, interrupt(c) \/ iret(c)
  PROVE  TickInv'
<1>0. PICK t : t = run[c]  OBVIOUS
<1>1. /\ t \in Thread /\ Len(stk[t]) \in {1, 2} /\ Pl(t) \in Place
      /\ CpuOK(Pl(t), t \in spin, lock["tickslock"] = c, lock["ptable"] = c, ncli[c], ints[c], intena[c])
      /\ t \in Proc => state[t] = "RUNNING"
  BY <1>0, Here, Running, Zenon DEF Ctl
<1>2. stk \in [Thread -> Seq(Frame)] /\ stk[t] \in Seq(Frame)  BY <1>1, Zenon DEF Ctl, TypeInv, Frame
<1>3. /\ run' = run /\ state' = state /\ ticks' = ticks /\ nap' = nap
  BY DEF interrupt, iret, procs, clock
<1>4. Pl(t) \notin {"tick_wakeup", "tick_wake"}
  BY <1>0, <1>1, Zenon DEF interrupt, iret, At, Pl, CpuOK, Open
<1>5. t = run'[c] /\ (ints'[c] = TRUE \/ Pl(t)' \in {"tick", "eoi"})
  <2>1. CASE interrupt(c)
    <3> DEFINE f == [pc |-> IF c = 0 THEN "tick" ELSE "eoi", ints |-> TRUE]
    <3>1. stk' = [stk EXCEPT ![t] = Append(stk[t], f)] /\ f.pc \in {"tick", "eoi"}
      BY <1>0, <2>1 DEF interrupt
    <3> HIDE DEF f
    <3>2. stk'[t] = Append(stk[t], f)  BY <1>1, <1>2, <3>1
    <3>3. stk'[t][Len(stk'[t])] = f  BY <1>2, <3>2
    <3> QED  BY <1>0, <1>3, <3>1, <3>3 DEF Pl, Top
  <2>2. CASE iret(c)
    <3>1. Pl(t) = "iret" /\ ints' = [ints EXCEPT ![c] = Top(t).ints]  BY <1>0, <2>2 DEF iret, At, Pl
    <3>2. Pl(t) \in Handler /\ Pl(t) \notin Own(t)  BY <3>1 DEF Handler, Own, Call, Loop
    <3>3. StackOK(stk[t], Own(t), t \in spin)  BY <1>1, Zenon DEF Ctl, StackInv
    <3>4. Top(t).ints = TRUE  BY <3>2, <3>3 DEF StackOK, Pl, Top
    <3> QED  BY <1>0, <1>3, <3>1, <3>4, Types
  <2> QED  BY <2>1, <2>2, Zenon
<1>6. Pl(t)' \notin {"nap_sleep", "nap_release", "nap_sched"}
  <2>1. CASE ints'[c] = TRUE
    <3>1. Pl(t)' = Pl(run[c])'  BY <1>5 DEF Pl, Top
    <3>2. Pl(run[c])' \in Open  BY <2>1, Zenon DEF Ctl, CpuInv, CpuOK
    <3> QED  BY <3>1, <3>2 DEF Open
  <2> QED  BY <1>5, <2>1, Zenon
<1>7. \A u \in Thread : u # t => Pl(u)' = Pl(u)
  <2>1. \A u \in Thread : u # t => stk'[u] = stk[u]  BY <1>0, <1>2, Zenon DEF interrupt, iret
  <2> QED  BY <2>1 DEF Pl, Top
<1>8. PICK m : m = Pl(t)'  OBVIOUS
<1> QED  BY <1>0, <1>1, <1>3, <1>4, <1>6, <1>7, <1>8, TickKept, Zenon

\* Running a process wakes nobody and puts nobody to sleep.
LEMMA TickPick == ASSUME Params, Ctl, TickInv, NEW c \in CPU, scheduler_pick(c) PROVE TickInv'
<1>0. PICK t : t = run[c]  OBVIOUS
<1>1. Pl(t) = "pick" /\ ticks' = ticks /\ nap' = nap  BY <1>0 DEF scheduler_pick, At, Pl, clock
<1>2. CASE stk' = Put(run[c], "pick_none") /\ UNCHANGED <<state, run>>
  BY <1>0, <1>1, <1>2, TickGoto DEF Place, Loop
<1>3. ASSUME NEW p \in Proc, state[p] = "RUNNABLE", state' = [state EXCEPT ![p] = "RUNNING"],
             run' = [run EXCEPT ![c] = p], stk' = stk
      PROVE  TickInv'
  <2>1. \A u : Pl(u)' = Pl(u)  BY <1>3 DEF Pl, Top
  <2>2. \A d \in CPU : d # c => run'[d] = run[d]  BY <1>3 DEF Ctl, RunInv
  <2>3. \A q \in Proc : state'[q] = "SLEEPING" => state[q] = "SLEEPING"  BY <1>3 DEF Ctl, TypeInv
  <2>4. t \in Proc => state[t] # "SLEEPING"  BY <1>0, Running DEF Ctl
  <2> QED  BY <1>0, <1>1, <2>1, <2>2, <2>3, <2>4, TickKept
<1> QED  BY <1>2, <1>3 DEF scheduler_pick, Goto

\* The other steps, of which only nap_test leads to a place of a sleeper.
LEMMA TickCalls ==
  ASSUME Params, Ctl, TickInv, NEW c \in CPU,
         \/ ret(c) \/ eoi(c) \/ sched_back(c) \/ scheduler_sti(c)
         \/ sys_sleep(c) \/ nap_start(c) \/ nap_test(c)
  PROVE  TickInv'
<1>0. PICK t : t = run[c]  OBVIOUS
<1>1. t \in Thread /\ DOMAIN nap = Proc  BY <1>0, Here, Types, Zenon
<1>2. ticks' = ticks /\ run' = run /\ state' = state
  BY DEF ret, eoi, sched_back, Resumed, scheduler_sti, sys_sleep, nap_start, nap_test, procs, clock
<1>3. \A p \in Proc : p # t => nap'[p] = nap[p]
  BY <1>0, <1>1, Zenon
  DEF ret, eoi, sched_back, Resumed, scheduler_sti, sys_sleep, nap_start, nap_test, clock
<1>4. Pl(t) \notin {"tick_wakeup", "tick_wake"}
  BY <1>0 DEF ret, eoi, sched_back, Resumed, scheduler_sti, sys_sleep, nap_start, nap_test, At, Pl
<1>5. ASSUME NEW m \in Place, stk' = Put(t, m), m \notin {"nap_sleep", "nap_release", "nap_sched"}
      PROVE  TickInv'
  <2>1. m \notin {"nap_sleep", "nap_release"} /\ m # "nap_sched"  BY <1>5, Zenon
  <2> QED  BY <1>0, <1>2, <1>3, <1>4, <1>5, <2>1, TickGoto
<1>6. CASE nap_test(c)
  <2> DEFINE m == IF Early(t) THEN "nap_sleep" ELSE "nap_out"
  <2>1. stk' = Put(t, m) /\ nap' = nap  BY <1>0, <1>6 DEF nap_test, Goto, clock, Early
  <2>2. m \in {"nap_sleep", "nap_out"} /\ (m = "nap_sleep" => Early(t))  OBVIOUS
  <2> HIDE DEF m
  <2>3. m \in Place /\ m # "nap_sched" /\ m # "nap_release"  BY <2>2 DEF Place, Call
  <2> QED  BY <1>0, <1>2, <1>3, <1>4, <2>1, <2>2, <2>3, TickGoto
<1>7. CASE ret(c)  BY <1>0, <1>5, <1>7 DEF ret, Goto, Place, Call
<1>8. CASE eoi(c)
  <2>1. PICK m \in {"yield", "iret"} : stk' = Put(t, m)  BY <1>0, <1>8, Zenon DEF eoi, Goto
  <2> QED  BY <1>5, <2>1 DEF Place, Handler
<1>9. CASE sched_back(c)
  <2>1. PICK m \in {"nap_woken", "yield_out"} : stk' = Put(t, m)
    BY <1>0, <1>9 DEF sched_back, Resumed, Goto
  <2> QED  BY <1>5, <2>1 DEF Place, Handler, Call
<1>10. CASE scheduler_sti(c)  BY <1>0, <1>5, <1>10 DEF scheduler_sti, Goto, Place, Loop
<1>11. CASE sys_sleep(c)  BY <1>0, <1>5, <1>11 DEF sys_sleep, Goto, Place, Call
<1>12. CASE nap_start(c)  BY <1>0, <1>5, <1>12 DEF nap_start, Goto, Place, Call
<1> QED  BY <1>6, <1>7, <1>8, <1>9, <1>10, <1>11, <1>12

\* The invariant is inductive.
LEMMA InvNext == ASSUME Params, Inv, [Next]_vars PROVE Inv'
<1>1. Ctl /\ TickInv  BY DEF Inv, Ctl
<1>2. Ctl'  BY <1>1, CtlNext
<1>3. TickInv'
  <2>1. ASSUME UNCHANGED vars PROVE TickInv'
    BY <1>1, <2>1, Zenon DEF vars, TickInv, Early, Elapsed, Ticking, Pl, Top
  <2>2. ASSUME NEW c \in CPU, yield_sched(c) PROVE TickInv'
    BY <1>1, <2>2, TickSched DEF yield_sched
  <2>3. ASSUME NEW c \in CPU, nap_sched(c) PROVE TickInv'
    BY <1>1, <2>3, TickSched DEF nap_sched
  <2> QED
    BY <1>1, <1>2, <2>1, <2>2, <2>3, TickCount, TickWake, TickLocks, TickIntr, TickPick, TickCalls
    DEF Next
<1> QED  BY <1>2, <1>3 DEF Inv, Ctl

\* The invariant holds at the start.
LEMMA InvInit == ASSUME Params, Init PROVE Inv
<1>1. Ctl  BY CtlInit
<1>2. \A p \in Proc : Pl(p) = "forkret" /\ state[p] = "RUNNABLE"
  BY DEF Init, Pl, Top, Thread
<1>3. TickInv  BY <1>2 DEF TickInv
<1> QED  BY <1>1, <1>3 DEF Inv, Ctl

\* spinlock.c, sched and the timer, for any number of processors, processes and
\* clock values: no panic, cpu->ncli counts the locks and masks interrupts,
\* cpu->intena follows its thread through swtch, handlers are not interrupted,
\* and a sleeper whose time is up has been or is about to be woken.
THEOREM LocksAreSound == ASSUME Params PROVE Spec => []LockingSound
<1>1. Inv => LockingSound
  <2> SUFFICES ASSUME Inv PROVE LockingSound  OBVIOUS
  <2>1. Ctl /\ TickInv  BY DEF Inv, Ctl
  <2>2. \A t \in Thread : Len(stk[t]) \in {1, 2} /\ Pl(t) \in Place
    <3> SUFFICES ASSUME NEW t \in Thread PROVE Len(stk[t]) \in {1, 2} /\ Pl(t) \in Place  OBVIOUS
    <3>1. StackOK(stk[t], Own(t), t \in spin)  BY <2>1 DEF Ctl, StackInv
    <3>2. Own(t) \subseteq Place /\ Handler \subseteq Place  BY DEF Own, Place
    <3> QED  BY <3>1, <3>2 DEF StackOK, Pl, Top
  <2>3. NoPanic
    <3>1. "panic" \notin Place  BY DEF Place, Handler, Loop, Call
    <3> QED  BY <2>2, <3>1 DEF NoPanic, Pl
  <2>4. NcliCountsLocks
    <3> SUFFICES ASSUME NEW c \in CPU
                 PROVE  /\ ncli[c] = One(lock["tickslock"] = c) + One(lock["ptable"] = c)
                                     + One(run[c] \in spin)
                        /\ ncli[c] > 0 => ~ints[c]
      BY DEF NcliCountsLocks
    <3>1. CpuOK(Pl(run[c]), run[c] \in spin, lock["tickslock"] = c, lock["ptable"] = c,
                ncli[c], ints[c], intena[c])
      BY <2>1 DEF Ctl, CpuInv
    <3>2. ncli[c] = One(lock["tickslock"] = c) + One(lock["ptable"] = c) + One(run[c] \in spin)
      BY <3>1 DEF CpuOK, One
    <3>3. ncli[c] > 0 => ~ints[c]
      BY <3>1 DEF CpuOK, One, HasTicks, HasPtable, Open
    <3> QED  BY <3>2, <3>3
  <2>5. IntenaFollows
    <3>1. \A t \in Thread : Len(stk[t]) <= 2
      <4> SUFFICES ASSUME NEW t \in Thread PROVE Len(stk[t]) <= 2  OBVIOUS
      <4>1. CASE Len(stk[t]) = 1  BY <4>1
      <4>2. CASE Len(stk[t]) = 2  BY <4>2
      <4> QED  BY <2>2, <4>1, <4>2
    <3>2. ASSUME NEW c \in CPU PROVE (At(c, "iret") => ~ints[c]) /\ (At(c, "ret") => ints[c])
      <4>1. /\ CpuOK(Pl(run[c]), run[c] \in spin, lock["tickslock"] = c, lock["ptable"] = c,
                     ncli[c], ints[c], intena[c])
            /\ run[c] \in spin => Pl(run[c]) \in DOMAIN Acquires
        BY <2>1, Here, Zenon
      <4> QED  BY <4>1, AcquiresPlaces DEF CpuOK, Open, On, At, Pl
    <3>3. \A c \in CPU : (At(c, "iret") => ~ints[c]) /\ (At(c, "ret") => ints[c])  BY <3>2
    <3> QED  BY <3>1, <3>3 DEF IntenaFollows
  <2>6. NoMissedTick  BY <2>1 DEF TickInv, NoMissedTick, Early, Ticking, Pl
  <2> QED  BY <2>3, <2>4, <2>5, <2>6 DEF LockingSound
<1>2. Init => Inv  BY InvInit
<1>3. Inv /\ [Next]_vars => Inv'  BY InvNext
<1> QED  BY <1>1, <1>2, <1>3, PTL DEF Spec
=============================================================================
