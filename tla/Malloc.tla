------------------------------- MODULE Malloc -------------------------------
(***************************************************************************)
(* malloc and free of the user library (umalloc.c).  Addresses count       *)
(* headers: 0 is base, which lies below the heap, and the heap is          *)
(* 1 .. HEAP - 1.  ptr and size are the header fields, 0 where no header   *)
(* is in use.                                                              *)
(***************************************************************************)
EXTENDS Naturals, FiniteSets

CONSTANTS HEAP,     \* bound: the end of the largest heap
          CORE,     \* morecore's least request, 4096
          Units     \* bound: sizes asked for, in headers

VARIABLES ptr, size, freep, brk,
          live,     \* history: the blocks the program holds
          core      \* history: the headers that morecore got

vars == <<ptr, size, freep, brk, live, core>>
Addr == 0 .. HEAP - 1
Null == HEAP

Init ==
  /\ ptr = [a \in Addr |-> 0] /\ size = [a \in Addr |-> 0]
  /\ freep = Null /\ brk = 1 /\ live = {} /\ core = {}

Larger(a, b) == IF a > b THEN a ELSE b

\* free: the block after which bp belongs, from p on.
RECURSIVE Before(_, _, _)
Before(pt, p, bp) ==
  IF \/ bp > p /\ bp < pt[p]
     \/ p >= pt[p] /\ (bp > p \/ bp < pt[p])
  THEN p ELSE Before(pt, pt[p], bp)

\* The fields after free, as [ptr, size, freep].
Insert(pt, sz, fp, bp, join) ==
  LET p == Before(pt, fp, bp)
      nx == pt[p]
      up == bp + sz[bp] = nx
      s1 == [sz EXCEPT ![bp] = IF up THEN @ + sz[nx] ELSE @, ![nx] = IF up THEN 0 ELSE @]
      p1 == [pt EXCEPT ![bp] = IF up THEN pt[nx] ELSE nx, ![nx] = IF up THEN 0 ELSE @]
      down == join /\ p + s1[p] = bp IN
  [size |-> [s1 EXCEPT ![p] = IF down THEN @ + s1[bp] ELSE @, ![bp] = IF down THEN 0 ELSE @],
   ptr |-> [p1 EXCEPT ![p] = IF down THEN p1[bp] ELSE bp, ![bp] = IF down THEN 0 ELSE @],
   freep |-> p]
\* Mutant: not joined to the block below.
Freed_apart(pt, sz, fp, bp) == Insert(pt, sz, fp, bp, FALSE)
Freed(pt, sz, fp, bp) == Insert(pt, sz, fp, bp, TRUE)

free(bp) ==
  LET h == Freed(ptr, size, freep, bp) IN
  /\ bp \in live /\ live' = live \ {bp}
  /\ ptr' = h.ptr /\ size' = h.size /\ freep' = h.freep
  /\ UNCHANGED <<brk, core>>

\* The first block with room after prev, as its predecessor; Null when the
\* search comes back to freep.
RECURSIVE Fits(_, _, _, _)
Fits(pt, sz, fp, prev) ==
  [n \in Units |->
    IF sz[pt[prev]] >= n THEN prev
    ELSE IF pt[prev] = fp THEN Null ELSE Fits(pt, sz, fp, pt[prev])[n]]

\* Take n units from the block after prev: all of it, or its tail.
Carve(pt, sz, prev, n, rest) ==
  LET p == pt[prev]  all == sz[p] = n  b == IF all THEN p ELSE p + sz[p] - n IN
  /\ ptr' = IF all THEN [pt EXCEPT ![prev] = pt[p], ![p] = 0] ELSE pt
  /\ size' = [sz EXCEPT ![p] = IF all THEN n ELSE rest, ![b] = n]
  /\ freep' = prev /\ live' = live \cup {b}
\* Mutant: the remainder keeps its size.
take_whole(pt, sz, prev, n) == Carve(pt, sz, prev, n, sz[pt[prev]])
take(pt, sz, prev, n) == Carve(pt, sz, prev, n, sz[pt[prev]] - n)

malloc(n) ==
  LET fp == IF freep = Null THEN 0 ELSE freep
      prev == Fits(ptr, size, fp, fp)[n]
      nu == Larger(n, CORE)
      h == Freed(ptr, [size EXCEPT ![brk] = nu], fp, brk) IN
  \/ prev # Null /\ take(ptr, size, prev, n) /\ UNCHANGED <<brk, core>>
  \* morecore, and the search goes on from where it freed the new block
  \/ /\ prev = Null /\ brk + nu <= HEAP
     /\ brk' = brk + nu /\ core' = core \cup (brk .. brk + nu - 1)
     /\ take(h.ptr, h.size, Fits(h.ptr, h.size, h.freep, h.freep)[n], n)
  \* sbrk fails
  \/ /\ prev = Null /\ brk + nu > HEAP /\ freep' = fp
     /\ UNCHANGED <<ptr, size, brk, live, core>>

\* The program moves its break itself.
sbrk == brk + 1 < HEAP /\ brk' = brk + 1 /\ UNCHANGED <<ptr, size, freep, live, core>>

Next == sbrk \/ (\E n \in Units : malloc(n)) \/ (\E b \in Addr : free(b))
Spec == Init /\ [][Next]_vars

RECURSIVE ListFrom(_, _)
ListFrom(a, seen) == IF a = 0 \/ a \in seen THEN seen ELSE ListFrom(ptr[a], seen \cup {a})
FreeBlocks == ListFrom(ptr[0], {})
Block(a) == a .. a + size[a] - 1

\* The blocks the program holds and the blocks on the free list are disjoint
\* and together are what morecore got: nothing is handed out twice or lost.
HeapPartitioned ==
  /\ \A a, b \in live \cup FreeBlocks : a # b => Block(a) \cap Block(b) = {}
  /\ live \cap FreeBlocks = {}
  /\ UNION {Block(a) : a \in live \cup FreeBlocks} = core

\* The free list is in address order and no two of its blocks touch.
FreeListCoalesced ==
  freep # Null => \A a \in FreeBlocks :
    ptr[a] # 0 => a + size[a] < ptr[a]
=============================================================================
