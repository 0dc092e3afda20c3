-------------------------------- MODULE Boot --------------------------------
(***************************************************************************)
(* Starting the processors (main.c, lapicstartap, entryother.S): the boot  *)
(* processor hands each of the others a stack through three words below    *)
(* the entry code at 0x7000, one processor at a time.  A page is known by  *)
(* its number; those below LOW are the 4 MB that entrypgdir maps.          *)
(***************************************************************************)
EXTENDS Naturals, Sequences

CONSTANTS CPU, bsp, NoCpu, LOW, TOP

VARIABLES step,         \* main: the calls made so far
          cur,          \* startothers: the processor being started
          code,         \* code-4: the stack to use
          freelist, use_lock,
          at, esp,      \* each processor: where it runs, on which stack
          ipis,         \* STARTUP interrupts on their way
          started, runnable     \* cpu->started; the first process is in the table

boot == <<step, cur, code>>
kmem == <<freelist, use_lock>>
ap == <<at, esp, ipis, started>>
vars == <<boot, kmem, ap, runnable>>

NoPage == TOP
\* Mutant: kinit2 does not come after startothers.
main_eager == <<"kinit1", "kinit2", "startothers", "userinit", "mpmain">>
main == <<"kinit1", "startothers", "kinit2", "userinit", "mpmain">>

Init ==
  /\ step = 1 /\ cur = NoCpu /\ code = NoPage
  /\ freelist = <<>> /\ use_lock = FALSE
  /\ at = [c \in CPU |-> IF c = bsp THEN "main" ELSE "reset"]
  /\ esp = [c \in CPU |-> NoPage] /\ ipis = [c \in CPU |-> 0]
  /\ started = [c \in CPU |-> FALSE] /\ runnable = FALSE

Calls(f) == at[bsp] = "main" /\ main[step] = f
Return == step' = step + 1

\* freerange frees the pages from the lowest up, each onto the head.
Pages(a, b) == [i \in 1 .. b - a |-> b - i]
kinit1 ==
  /\ Calls("kinit1") /\ Return /\ freelist' = Pages(0, LOW) \o freelist
  /\ UNCHANGED <<cur, code, use_lock, ap, runnable>>
kinit2 ==
  /\ Calls("kinit2") /\ Return
  /\ freelist' = Pages(LOW, TOP) \o freelist /\ use_lock' = TRUE
  /\ UNCHANGED <<cur, code, ap, runnable>>

kalloc == freelist # <<>> /\ freelist' = Tail(freelist)

\* The stack of the next processor, in the word below the code; INIT and two
\* STARTUP interrupts (lapicstartap).
Start(wait) ==
  \E c \in CPU \ {bsp} :
    /\ Calls("startothers") /\ (cur = NoCpu \/ ~wait) /\ at[c] = "reset"
    /\ kalloc /\ cur' = c /\ code' = Head(freelist)
    /\ at' = [at EXCEPT ![c] = "init"] /\ ipis' = [ipis EXCEPT ![c] = 2]
    /\ UNCHANGED <<step, use_lock, esp, started, runnable>>
\* Mutant: the next one is started before this one is up.
startothers_nowait == Start(FALSE)
startothers == Start(TRUE)
\* while(c->started == 0): the next processor, or no more.
startothers_wait ==
  /\ Calls("startothers") /\ cur # NoCpu /\ started[cur] /\ cur' = NoCpu
  /\ UNCHANGED <<step, code, kmem, ap, runnable>>
startothers_done ==
  /\ Calls("startothers") /\ cur = NoCpu /\ \A c \in CPU \ {bsp} : started[c]
  /\ Return /\ UNCHANGED <<cur, code, kmem, ap, runnable>>

userinit ==
  /\ Calls("userinit") /\ Return /\ kalloc /\ runnable' = TRUE
  /\ UNCHANGED <<cur, code, use_lock, ap>>
enter_mpmain ==
  /\ Calls("mpmain") /\ Return /\ at' = [at EXCEPT ![bsp] = "mpmain"]
  /\ UNCHANGED <<cur, code, kmem, esp, ipis, started, runnable>>

\* A STARTUP is only accepted by a processor waiting after INIT: external.
startup(c) ==
  /\ ipis[c] > 0 /\ ipis' = [ipis EXCEPT ![c] = @ - 1]
  /\ at' = IF at[c] = "init" THEN [at EXCEPT ![c] = "entryother"] ELSE at
  /\ UNCHANGED <<boot, kmem, esp, started, runnable>>
entryother(c) ==
  /\ at[c] = "entryother" /\ esp' = [esp EXCEPT ![c] = code]
  /\ at' = [at EXCEPT ![c] = "mpenter"]
  /\ UNCHANGED <<boot, kmem, ipis, started, runnable>>
\* switchkvm leaves entrypgdir.
mpenter(c) ==
  /\ at[c] = "mpenter" /\ at' = [at EXCEPT ![c] = "mpmain"]
  /\ UNCHANGED <<boot, kmem, esp, ipis, started, runnable>>
mpmain(c) ==
  /\ at[c] = "mpmain" /\ at' = [at EXCEPT ![c] = "scheduler"]
  /\ started' = [started EXCEPT ![c] = TRUE]
  /\ UNCHANGED <<boot, kmem, esp, ipis, runnable>>
\* A processor that runs a process allocates and frees pages.
process(c) ==
  /\ at[c] = "scheduler" /\ runnable
  /\ \/ kalloc
     \/ \E i \in 0 .. TOP - 1 : /\ i \notin {freelist[k] : k \in DOMAIN freelist} \cup {esp[x] : x \in CPU}
                                /\ freelist' = <<i>> \o freelist
  /\ UNCHANGED <<boot, use_lock, ap, runnable>>

Next ==
  \/ kinit1 \/ kinit2 \/ startothers \/ startothers_wait \/ startothers_done
  \/ userinit \/ enter_mpmain
  \/ \E c \in CPU : startup(c) \/ entryother(c) \/ mpenter(c) \/ mpmain(c) \/ process(c)
Spec == Init /\ [][Next]_vars

\* Every processor started runs on a stack of its own, which is not a free
\* page: the hand-over word is not overwritten before it is read.
OwnStack ==
  \A c \in CPU : esp[c] # NoPage =>
    /\ \A x \in CPU \ {c} : esp[x] # esp[c]
    /\ \A k \in DOMAIN freelist : freelist[k] # esp[c]

\* "must come after startothers()" (main.c:39): until a processor leaves
\* entrypgdir its stack lies in the memory that page table maps.
StackMapped == \A c \in CPU : at[c] = "mpenter" => esp[c] < LOW
=============================================================================
