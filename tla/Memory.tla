------------------------------- MODULE Memory -------------------------------
(***************************************************************************)
(* Physical pages (kalloc.c) and the address spaces built from them (vm.c) *)
(* by userinit, fork, exec, sbrk and wait.                                 *)
(*                                                                         *)
(* A page on kmem.freelist is like any other, so the list is its length.   *)
(* An address space has a page directory, the page tables of the kernel    *)
(* part, a set of user page tables, a set of mapped user pages and the     *)
(* subset with PTE_U.  One step is one kalloc, one kfree or one turn of a  *)
(* loop; the pages of a process are touched by that process, or by the     *)
(* parent that reaps it.                                                   *)
(***************************************************************************)
EXTENDS Integers, Sequences, FiniteSets, FiniteSetsExt

CONSTANTS
  Proc, NoProc, initproc,
  NFRAME,                     \* pages of physical memory
  PGSIZE, NPTENTRIES,         \* bytes in a page, entries in a page table
  KERNBASE,                   \* end of the user part, in bytes
  NKERN,                      \* page tables of the kernel part
  Images,                     \* programs: the ends of their segments, which start on a page
  Increments                  \* arguments of sbrk

VARIABLES
  nfree,                      \* length of kmem.freelist
  st, parent, kstack,         \* p->state, p->parent, those with a p->kstack
  mm, sz,                     \* p->pgdir and the one under construction; p->sz
  t,                          \* where each process is in the kernel
  torn                        \* history: a page table could not be allocated

vars == <<nfree, st, parent, kstack, mm, sz, t, torn>>

PGROUNDUP(n) == ((n + PGSIZE - 1) \div PGSIZE) * PGSIZE
Page(a) == a \div PGSIZE
PDX(a) == Page(a) \div NPTENTRIES
Pages == 0 .. Page(KERNBASE) - 1
NoSpace == [dir |-> 0, kern |-> 0, tabs |-> {}, pages |-> {}, user |-> {}]
Frames(s) == s.dir + s.kern + Cardinality(s.tabs) + Cardinality(s.pages)
User == [pc |-> "user", call |-> "none", a |-> 0, lim |-> 0, old |-> 0,
         seg |-> <<>>, kid |-> NoProc, ip |-> FALSE]

Where(p) == IF t[p].call \in {"sbrk", "shrink"} THEN "own" ELSE "new"
Work(p) == mm[p][Where(p)]
SetWork(p, s) == mm' = [mm EXCEPT ![p][Where(p)] = s]
Goto(p, l) == t' = [t EXCEPT ![p].pc = l]
At(p, a) == t' = [t EXCEPT ![p].a = a]
procs == <<st, parent, kstack, sz>>

Init ==
  LET first == [dir |-> 1, kern |-> NKERN, tabs |-> {0}, pages |-> {0}, user |-> {0}] IN
  /\ nfree = NFRAME - 1 - Frames(first)
  /\ st = [p \in Proc |-> IF p = initproc THEN "live" ELSE "unused"]
  /\ parent = [p \in Proc |-> initproc]
  /\ kstack = {initproc}
  /\ mm = [p \in Proc |-> [own |-> IF p = initproc THEN first ELSE NoSpace, new |-> NoSpace]]
  /\ sz = [p \in Proc |-> IF p = initproc THEN PGSIZE ELSE 0]
  /\ t = [p \in Proc |-> User]
  /\ torn = FALSE

\* Mutant: the empty list is not noticed.
kalloc_unchecked == nfree' = nfree - 1
kalloc == nfree > 0 /\ nfree' = nfree - 1
NoMemory == nfree = 0 /\ UNCHANGED nfree
kfree == nfree' = nfree + 1

\* A process whose first page is gone faults on its next instruction.
Runs(p) == st[p] = "live" /\ t[p].pc = "user" /\ 0 \in mm[p].own.user
Enter(p, call, l) == [User EXCEPT !.pc = l, !.call = call]
\* "goto bad": freevm starts over the user part.
Bad(p) == t' = [t EXCEPT ![p].pc = "freevm", ![p].a = 0, ![p].lim = KERNBASE]

fork(p) ==
  /\ Runs(p)
  /\ \E c \in Proc :
       /\ st[c] = "unused" /\ kalloc
       /\ st' = [st EXCEPT ![c] = "embryo"]
       /\ kstack' = kstack \cup {c}
       /\ t' = [t EXCEPT ![p] = [Enter(p, "fork", "setupkvm") EXCEPT !.kid = c, !.lim = sz[p]]]
  /\ UNCHANGED <<parent, mm, sz, torn>>

exec(p) ==
  /\ Runs(p)
  /\ \E img \in Images :
       t' = [t EXCEPT ![p] = [Enter(p, "exec", "setupkvm") EXCEPT !.seg = img, !.ip = TRUE]]
  /\ UNCHANGED <<nfree, procs, mm, torn>>

setupkvm_dir(p) ==
  /\ t[p].pc = "setupkvm"
  /\ \/ kalloc /\ SetWork(p, [NoSpace EXCEPT !.dir = 1]) /\ Goto(p, "kmap")
     \/ NoMemory /\ UNCHANGED mm /\ Goto(p, "bad")
  /\ UNCHANGED <<procs, torn>>

\* A missing page table makes setupkvm return 0: what it has is forgotten.
setupkvm_map(p) ==
  LET w == Work(p) IN
  /\ t[p].pc = "kmap"
  /\ \/ /\ kalloc
        /\ SetWork(p, [w EXCEPT !.kern = @ + 1])
        /\ Goto(p, IF w.kern + 1 < NKERN THEN "kmap"
                   ELSE IF t[p].call = "fork" THEN "copy" ELSE "load")
        /\ UNCHANGED torn
     \/ NoMemory /\ SetWork(p, NoSpace) /\ Goto(p, "bad") /\ torn' = TRUE
  /\ UNCHANGED procs

Copy(p, lim) ==
  LET a == t[p].a  own == mm[p].own IN
  /\ t[p].pc = "copy" /\ a < lim
  /\ \/ Page(a) \notin own.pages /\ Goto(p, "panic") /\ UNCHANGED nfree
     \/ Page(a) \in own.pages /\ kalloc /\ Goto(p, "map")
     \/ Page(a) \in own.pages /\ NoMemory /\ Bad(p)
  /\ UNCHANGED <<procs, mm, torn>>

\* Mutant: one byte too far.
copyuvm_inclusive(p) == Copy(p, t[p].lim + 1)
copyuvm(p) == Copy(p, t[p].lim)

\* fork's last part: the child owns the copy.
fork_done(p) ==
  LET c == t[p].kid IN
  /\ t[p].pc = "copy" /\ t[p].a >= t[p].lim
  /\ mm' = [mm EXCEPT ![c].own = mm[p].new, ![p].new = NoSpace]
  /\ sz' = [sz EXCEPT ![c] = sz[p]]
  /\ parent' = [parent EXCEPT ![c] = p]
  /\ st' = [st EXCEPT ![c] = "live"]
  /\ t' = [t EXCEPT ![p] = User]
  /\ UNCHANGED <<nfree, kstack, torn>>

\* Mutant: the guard page of the parent is an ordinary page of the child.
Flags_user(p, pg) == {pg}
\* copyuvm passes on the flags of the pte; allocuvm sets PTE_W|PTE_U.
Flags(p, pg) == IF t[p].call = "fork" THEN {pg} \cap mm[p].own.user ELSE {pg}

\* mappages for the page in hand.  allocuvm does not look at its result.
mappages(p) ==
  LET w == Work(p)  a == t[p].a  pg == Page(a)
      mapped == [w EXCEPT !.tabs = @ \cup {PDX(a)}, !.pages = @ \cup {pg},
                          !.user = @ \cup Flags(p, pg)]
      next == [t EXCEPT ![p].a = a + PGSIZE,
                        ![p].pc = IF t[p].call = "fork" THEN "copy" ELSE "alloc"] IN
  /\ t[p].pc = "map"
  /\ \/ pg \in w.pages /\ Goto(p, "panic") /\ UNCHANGED <<nfree, mm, torn>>
     \/ /\ pg \notin w.pages /\ PDX(a) \in w.tabs
        /\ SetWork(p, mapped) /\ t' = next /\ UNCHANGED <<nfree, torn>>
     \/ PDX(a) \notin w.tabs /\ kalloc /\ SetWork(p, mapped) /\ t' = next /\ UNCHANGED torn
     \/ /\ PDX(a) \notin w.tabs /\ NoMemory /\ torn' = TRUE
        /\ IF t[p].call = "fork" THEN Bad(p) ELSE t' = next
        /\ UNCHANGED mm
  /\ UNCHANGED procs

\* allocuvm(pgdir, old, new) up to its loop.
Alloc(p, old, new) == [t[p] EXCEPT !.pc = "alloc", !.old = old, !.lim = new, !.a = PGROUNDUP(old)]

AllocTurn(p, undo) ==
  /\ t[p].pc = "alloc" /\ t[p].a < t[p].lim
  /\ \/ kalloc /\ Goto(p, "map")
     \/ NoMemory /\ t' = [t EXCEPT ![p].pc = "dealloc", ![p].a = undo]
  /\ UNCHANGED <<procs, mm, torn>>

\* Mutant: out of memory, and the pages allocated so far stay.
allocuvm_no_undo(p) == AllocTurn(p, t[p].lim)
allocuvm(p) == AllocTurn(p, PGROUNDUP(t[p].old))

\* One turn of the loop of deallocuvm.
DeallocTurn(p) ==
  LET w == Work(p)  a == t[p].a  pg == Page(a) IN
  \/ PDX(a) \notin w.tabs /\ At(p, a + NPTENTRIES * PGSIZE) /\ UNCHANGED <<nfree, mm>>
  \/ PDX(a) \in w.tabs /\ pg \notin w.pages /\ At(p, a + PGSIZE) /\ UNCHANGED <<nfree, mm>>
  \/ /\ pg \in w.pages /\ kfree /\ At(p, a + PGSIZE)
     /\ SetWork(p, [w EXCEPT !.pages = @ \ {pg}, !.user = @ \ {pg}])

deallocuvm(p) ==
  /\ t[p].pc = "dealloc" /\ t[p].a < t[p].lim
  /\ DeallocTurn(p)
  /\ UNCHANGED <<procs, torn>>

\* The callers of deallocuvm: growproc sets p->sz unless the new size is 0,
\* which it takes for a failure; allocuvm returns 0.
dealloc_done(p) ==
  /\ t[p].pc = "dealloc" /\ t[p].a >= t[p].lim
  /\ IF t[p].call = "exec" THEN Bad(p) ELSE t' = [t EXCEPT ![p] = User]
  /\ sz' = IF t[p].call = "shrink" /\ t[p].old > 0 THEN [sz EXCEPT ![p] = t[p].old] ELSE sz
  /\ UNCHANGED <<nfree, st, parent, kstack, mm, torn>>

freevm(p) ==
  LET w == Work(p) IN
  /\ t[p].pc = "freevm"
  /\ \/ t[p].a < t[p].lim /\ DeallocTurn(p)
     \/ /\ t[p].a >= t[p].lim /\ w.tabs # {} /\ kfree
        /\ SetWork(p, [w EXCEPT !.tabs = @ \ {Min(@)}]) /\ UNCHANGED t
     \/ /\ t[p].a >= t[p].lim /\ w.tabs = {} /\ w.kern > 0 /\ kfree
        /\ SetWork(p, [w EXCEPT !.kern = @ - 1]) /\ UNCHANGED t
     \/ /\ t[p].a >= t[p].lim /\ w.tabs = {} /\ w.kern = 0 /\ kfree
        /\ SetWork(p, [w EXCEPT !.dir = 0]) /\ Goto(p, "bad")
  /\ UNCHANGED <<procs, torn>>

\* After freevm, or with no pgdir: what the caller still gives back.
Undo(p, stack) ==
  LET c == t[p].kid IN
  /\ t[p].pc = "bad"
  /\ t' = [t EXCEPT ![p] = User]
  /\ nfree' = IF t[p].call = "fork" THEN nfree + stack ELSE nfree
  /\ kstack' = kstack \ {c}
  /\ st' = IF c # NoProc THEN [st EXCEPT ![c] = "unused"] ELSE st
  /\ UNCHANGED <<parent, mm, sz, torn>>

\* Mutant: the kernel stack of the child is not given back.
bad_keeps_kstack(p) == Undo(p, 0)
bad(p) == Undo(p, 1)

growproc_done(p) ==
  /\ t[p].pc = "alloc" /\ t[p].call = "sbrk" /\ t[p].a >= t[p].lim
  /\ sz' = [sz EXCEPT ![p] = t[p].lim]
  /\ t' = [t EXCEPT ![p] = User]
  /\ UNCHANGED <<nfree, st, parent, kstack, mm, torn>>

\* sbrk(n): a size past KERNBASE fails at once, one below 0 wraps around to
\* such a size and changes nothing.
sys_sbrk(p) ==
  /\ Runs(p) /\ p # initproc
  /\ \E n \in Increments :
       LET new == sz[p] + n IN
       /\ new \in 0 .. KERNBASE - 1
       /\ t' = [t EXCEPT ![p] =
            IF n > 0 THEN [Enter(p, "sbrk", "alloc") EXCEPT !.old = sz[p], !.lim = new, !.a = PGROUNDUP(sz[p])]
            ELSE [Enter(p, "shrink", "dealloc") EXCEPT !.old = new, !.lim = sz[p], !.a = PGROUNDUP(new)]]
  /\ UNCHANGED <<nfree, procs, mm, torn>>

\* The next program header.  Reading it may fail, and so may allocuvm.
exec_load(p) ==
  LET old == t[p].old IN
  /\ t[p].pc = "load" /\ t[p].seg # <<>>
  /\ \/ Bad(p)
     \/ /\ Head(t[p].seg) < KERNBASE
        /\ t' = [t EXCEPT ![p] = [Alloc(p, old, Max({old, Head(t[p].seg)})) EXCEPT !.seg = Tail(@)]]
  /\ UNCHANGED <<nfree, procs, mm, torn>>

\* All segments are in: the inode goes, two pages for guard and stack.
exec_stack(p) ==
  LET top == PGROUNDUP(t[p].old) IN
  /\ t[p].pc = "load" /\ t[p].seg = <<>>
  /\ IF top + 2 * PGSIZE >= KERNBASE
     THEN t' = [t EXCEPT ![p] = [@ EXCEPT !.ip = FALSE, !.pc = "freevm", !.a = 0, !.lim = KERNBASE]]
     ELSE t' = [t EXCEPT ![p] = [Alloc(p, top, top + 2 * PGSIZE) EXCEPT !.ip = FALSE]]
  /\ UNCHANGED <<nfree, procs, mm, torn>>

\* allocuvm returns to exec: loaduvm, which needs the page tables of the
\* segment and may find the file too short, or the arguments.
alloc_done(p) ==
  LET there == \A a \in t[p].old .. t[p].lim - 1 : PDX(a) \in Work(p).tabs
      go(l) == t' = [t EXCEPT ![p].pc = l, ![p].old = t[p].lim] IN
  /\ t[p].pc = "alloc" /\ t[p].call = "exec" /\ t[p].a >= t[p].lim
  /\ \/ ~t[p].ip /\ go("args")
     \/ t[p].ip /\ there /\ (go("load") \/ Bad(p))
     \/ t[p].ip /\ ~there /\ go("panic")
  /\ UNCHANGED <<nfree, procs, mm, torn>>

\* clearpteu and copyout need the page tables; copyout needs the stack page.
exec_args(p) ==
  LET w == Work(p)  top == t[p].old
      there == {PDX(top - 2 * PGSIZE), PDX(top - PGSIZE)} \subseteq w.tabs
      clear == [w EXCEPT !.user = @ \ {Page(top) - 2}] IN
  /\ t[p].pc = "args"
  /\ \/ there /\ SetWork(p, clear) /\ Page(top) - 1 \in w.user /\ Goto(p, "commit")
     \/ there /\ SetWork(p, clear) /\ Bad(p)
     \/ ~there /\ UNCHANGED mm /\ Goto(p, "panic")
  /\ UNCHANGED <<nfree, procs, torn>>

exec_commit(p) ==
  /\ t[p].pc = "commit"
  /\ mm' = [mm EXCEPT ![p] = [own |-> @.new, new |-> @.own]]
  /\ sz' = [sz EXCEPT ![p] = t[p].old]
  /\ Bad(p)
  /\ UNCHANGED <<nfree, st, parent, kstack, torn>>

exit(p) ==
  /\ st[p] = "live" /\ t[p].pc = "user" /\ p # initproc
  /\ st' = [st EXCEPT ![p] = "zombie"]
  /\ parent' = [c \in Proc |-> IF parent[c] = p THEN initproc ELSE parent[c]]
  /\ UNCHANGED <<nfree, kstack, mm, sz, t, torn>>

\* wait: kfree(p->kstack), then freevm(p->pgdir).
wait(p) ==
  /\ Runs(p)
  /\ \E c \in Proc :
       /\ st[c] = "zombie" /\ parent[c] = p /\ c \in kstack
       /\ kfree /\ kstack' = kstack \ {c}
       /\ mm' = [mm EXCEPT ![p].new = mm[c].own, ![c].own = NoSpace]
       /\ t' = [t EXCEPT ![p] = [Enter(p, "wait", "freevm") EXCEPT !.kid = c, !.lim = KERNBASE]]
  /\ UNCHANGED <<st, parent, sz, torn>>

\* A fault in the first process: exit() panics with "init exiting".
init_exit ==
  /\ t[initproc].pc = "user" /\ ~Runs(initproc)
  /\ Goto(initproc, "panic")
  /\ UNCHANGED <<nfree, procs, mm, torn>>

panicked(p) == t[p].pc = "panic" /\ UNCHANGED vars

Next == init_exit \/ \E p \in Proc :
  \/ fork(p) \/ exec(p) \/ sys_sbrk(p) \/ exit(p) \/ wait(p)
  \/ setupkvm_dir(p) \/ setupkvm_map(p) \/ copyuvm(p) \/ fork_done(p) \/ mappages(p)
  \/ allocuvm(p) \/ alloc_done(p) \/ growproc_done(p) \/ deallocuvm(p) \/ dealloc_done(p)
  \/ freevm(p) \/ bad(p)
  \/ exec_load(p) \/ exec_stack(p) \/ exec_args(p) \/ exec_commit(p)
  \/ panicked(p)

Spec == Init /\ [][Next]_vars

\* Sizes and sets are in range.
TypeOK ==
  /\ nfree \in 0 .. NFRAME
  /\ st \in [Proc -> {"unused", "embryo", "live", "zombie"}]
  /\ kstack \subseteq Proc /\ sz \in [Proc -> 0 .. KERNBASE - 1]
  /\ \A p \in Proc : \A s \in {mm[p].own, mm[p].new} :
       s.dir \in {0, 1} /\ s.kern \in 0 .. NKERN /\ s.user \subseteq s.pages /\ s.pages \subseteq Pages

Held == Cardinality(kstack) + MapThenSumSet(
          LAMBDA p : Frames(mm[p].own) + Frames(mm[p].new) + (IF t[p].pc = "map" THEN 1 ELSE 0), Proc)

\* No page is lost or given back twice by any path of fork, exec, sbrk and
\* wait through success, a failed kalloc or a failed read, however the calls
\* interleave, as long as no page table allocation fails.
PagesConserved == ~torn => nfree + Held = NFRAME

\* A process in user mode has exactly the pages that p->sz promises: what
\* copyuvm relies on, after any sequence of sbrk calls that are not multiples
\* of a page, some of which ran out of memory.
SizeBacked ==
  ~torn => \A p \in Proc : Runs(p) => mm[p].own.pages = 0 .. Page(PGROUNDUP(sz[p])) - 1

\* Neither "remap" nor "copyuvm: page not present", "loaduvm: address should
\* exist" nor "clearpteu".  Segments are taken to start on a page: loaduvm
\* panics on any other.
NoPanic == ~torn => \A p \in Proc : t[p].pc # "panic"

\* A child starts with the pages of its parent, the same ones out of reach.
Copies == \A c \in Proc : st[c] = "embryo" /\ st'[c] = "live" =>
  LET old == mm[parent'[c]].own  new == mm'[c].own IN
  new.pages = old.pages /\ new.user = old.user
ForkCopies == [][Copies]_vars
=============================================================================
