----------------------------- MODULE PipeProofs -----------------------------
(***************************************************************************)
(* What holds of pipe.c for any number of processes, any PIPESIZE and any  *)
(* width of the counters that PIPESIZE divides.                            *)
(***************************************************************************)
EXTENDS Pipe, Sequences, SequenceTheorems, TLAPS

Writing == {"w_lock", "w_loop", "w_sleep", "asleep_w"}
Reading == {"r_lock", "r_test", "r_sleep", "asleep_r", "r_copy"}

-----------------------------------------------------------------------------
(* Arithmetic of the counters. *)

Counter == 0 .. UMAX - 1
Dist(r, w) == (w + UMAX - r) % UMAX     \* the unsigned difference w - r
Succ(r)    == (r + 1) % UMAX
Past(r)    == (r + PIPESIZE) % UMAX

\* The three unsigned operations by cases: each wraps at most once.
LEMMA ByCases ==
  ASSUME NEW r \in Counter, NEW w \in Counter
  PROVE  /\ Dist(r, w) = IF r <= w THEN w - r ELSE w + UMAX - r
         /\ Succ(r) = IF r + 1 < UMAX THEN r + 1 ELSE 0
         /\ Past(r) = IF r + PIPESIZE < UMAX THEN r + PIPESIZE ELSE r + PIPESIZE - UMAX
<1> USE PipeAssumption DEF Counter
<1>1. r <= w => Dist(r, w) = w - r  BY DEF Dist
<1>2. w < r => Dist(r, w) = w + UMAX - r  BY DEF Dist
<1>3. r + 1 < UMAX => Succ(r) = r + 1  BY DEF Succ
<1>4. r + 1 = UMAX => Succ(r) = 0  BY DEF Succ
<1>5. r + PIPESIZE < UMAX => Past(r) = r + PIPESIZE  BY DEF Past
<1>6. r + PIPESIZE >= UMAX => Past(r) = r + PIPESIZE - UMAX  BY DEF Past
<1> QED  BY <1>1, <1>2, <1>3, <1>4, <1>5, <1>6

\* The number of bytes in the buffer and the two tests of the code agree, and a
\* byte put or taken changes the number by one, whichever counter wraps.
LEMMA Counting ==
  ASSUME NEW r \in Counter, NEW w \in Counter, Dist(r, w) <= PIPESIZE
  PROVE  /\ Dist(r, w) \in 0 .. PIPESIZE /\ Succ(r) \in Counter /\ Succ(w) \in Counter
         /\ r = w <=> Dist(r, w) = 0
         /\ w = Past(r) <=> Dist(r, w) = PIPESIZE
         /\ r # w => Dist(Succ(r), w) = Dist(r, w) - 1
         /\ w # Past(r) => Dist(r, Succ(w)) = Dist(r, w) + 1
<1>1. /\ Dist(r, w) = IF r <= w THEN w - r ELSE w + UMAX - r
      /\ Succ(r) = IF r + 1 < UMAX THEN r + 1 ELSE 0
      /\ Past(r) = IF r + PIPESIZE < UMAX THEN r + PIPESIZE ELSE r + PIPESIZE - UMAX
  BY ByCases
<1>2. Succ(w) = IF w + 1 < UMAX THEN w + 1 ELSE 0  BY ByCases
<1>3. Succ(r) \in Counter /\ Succ(w) \in Counter  BY <1>1, <1>2, PipeAssumption DEF Counter
<1>4. Dist(Succ(r), w) = IF Succ(r) <= w THEN w - Succ(r) ELSE w + UMAX - Succ(r)
  BY <1>3, ByCases
<1>5. Dist(r, Succ(w)) = IF r <= Succ(w) THEN Succ(w) - r ELSE Succ(w) + UMAX - r
  BY <1>3, ByCases
<1> QED  BY <1>1, <1>2, <1>3, <1>4, <1>5, PipeAssumption DEF Counter

-----------------------------------------------------------------------------
(* Types, and the locals of a call. *)

TypeInv ==
  /\ TypeOK
  /\ readopen \in BOOLEAN /\ writeopen \in BOOLEAN /\ aborted \in BOOLEAN
  /\ i \in [Proc -> Nat]

\* A process inside read or write asked for at least one byte and holds the end
\* it uses; outside, its locals are gone.
CallInv ==
  \A p \in Proc :
    /\ pc[p] \in Writing => n[p] \in Length /\ <<p, "w">> \in fd
    /\ pc[p] \in Reading => n[p] \in Length /\ <<p, "r">> \in fd
    /\ pc[p] \notin Writing \cup Reading => n[p] = 0 /\ i[p] = 0

Inv1 == TypeInv /\ CallInv

\* Types and calls at the start.
LEMMA Inv1Init == Init => Inv1
<1> SUFFICES ASSUME Init PROVE Inv1  OBVIOUS
<1> USE PipeAssumption DEF Init
<1>1. nread = 0 /\ nwrite = 0 /\ (0 + UMAX - 0) % UMAX = 0
  <2>1. 0 \in Counter  BY DEF Counter
  <2>2. Dist(0, 0) = 0  BY <2>1, ByCases
  <2> QED  BY <2>2 DEF Dist
<1>2. TypeOK
  BY <1>1 DEF TypeOK, Locked, Waiting, Closing, Asleep, End
<1>3. TypeInv  BY <1>2, Zenon DEF TypeInv
<1>4. CallInv  BY DEF CallInv, Writing, Reading
<1> QED  BY <1>3, <1>4 DEF Inv1

\* A byte more of a call that has one left to move.
LEMMA OneMore ==
  ASSUME TypeInv, NEW p \in Proc, i' = [i EXCEPT ![p] = i[p] + 1], i[p] < n[p]
  PROVE  i' \in [Proc -> Nat] /\ \A x \in Proc : i'[x] \in 0 .. n[x]
<1>1. i \in [Proc -> Nat] /\ \A x \in Proc : i[x] \in 0 .. n[x] /\ n[x] \in Length \cup {0}
  BY DEF TypeInv, TypeOK
<1>2. n[p] \in Nat /\ i[p] \in Nat
  <2>1. Length \subseteq Nat  BY PipeAssumption
  <2>2. n[p] \in Length \cup {0} /\ i[p] \in Nat  BY <1>1
  <2>3. CASE n[p] \in Length  BY <2>1, <2>2, <2>3, Zenon
  <2>4. CASE n[p] = 0  BY <2>2, <2>4
  <2> QED  BY <2>2, <2>3, <2>4
<1>3. i'[p] = i[p] + 1  BY <1>1
<1>4. i'[p] \in 0 .. n[p]  BY <1>2, <1>3
<1> QED  BY <1>1, <1>2, <1>4

\* Every step keeps the types, the distance of the counters and what a call knows of itself.
LEMMA Inv1Next == Inv1 /\ [Next]_vars => Inv1'
<1> SUFFICES ASSUME Inv1, [Next]_vars PROVE Inv1'  OBVIOUS
<1> USE PipeAssumption DEF Inv1, TypeInv, TypeOK, CallInv, Writing, Reading, Locked, Waiting, Closing, Asleep, End, ring, ends
<1>1. ASSUME NEW p \in Proc, pipealloc(p) PROVE Inv1'
  <2>1. 0 \in Counter  BY DEF Counter
  <2>a. Dist(0, 0) = 0  BY <2>1, ByCases
  <2>2. (0 + UMAX - 0) % UMAX = 0  BY <2>a DEF Dist
  <2>3. fd' \subseteq Proc \X End /\ data' \in [0 .. PIPESIZE - 1 -> Byte]  BY <1>1 DEF pipealloc
  <2>4. readopen' \in BOOLEAN /\ writeopen' \in BOOLEAN /\ aborted' \in BOOLEAN  BY <1>1, Zenon DEF pipealloc
  <2>5. /\ nread' = 0 /\ nwrite' = 0 /\ lock' = NoProc /\ UNCHANGED <<killed, pc, n, i>>
        /\ \A x \in Proc : pc[x] = "user"
    BY <1>1 DEF pipealloc
  <2>6. TypeOK'  BY <2>1, <2>2, <2>3, <2>5 DEF Counter
  <2> QED  BY <2>4, <2>5, <2>6
<1>2. ASSUME NEW p \in Proc, NEW x \in Proc, filedup(p, x) PROVE Inv1'
  <2> DEFINE new == {<<x, e>> : e \in {d \in End : <<p, d>> \in fd}}
  <2>a. fd' = fd \cup new  BY <1>2 DEF filedup
  <2>b. new \subseteq Proc \X End
    <3> SUFFICES ASSUME NEW y \in new PROVE y \in Proc \X End  BY Zenon
    <3>1. PICK e \in End : y = <<x, e>>  BY Zenon
    <3> QED  BY <3>1
  <2>1. fd' \subseteq Proc \X End /\ fd \subseteq fd'
    <3> HIDE DEF new
    <3> QED  BY <2>a, <2>b
  <2>2. killed' \subseteq Proc  BY <1>2 DEF filedup
  <2>3. UNCHANGED <<ring, ends, lock, pc, n, i, aborted>>  BY <1>2 DEF filedup
  <2> QED  BY <2>1, <2>2, <2>3
<1>3. ASSUME NEW p \in Proc, NEW e \in End, fileclose(p, e) PROVE Inv1'
  <2>1. fd' \subseteq Proc \X End /\ \A x \in Proc, d \in End : x # p => (<<x, d>> \in fd' <=> <<x, d>> \in fd)
    BY <1>3, SMTT(30) DEF fileclose
  <2>3. pc[p] = "user" /\ UNCHANGED <<ring, ends, lock, killed, n, i, aborted>>  BY <1>3 DEF fileclose
  <2>2. PICK l \in {"user", "close_w", "close_r"} : pc' = [pc EXCEPT ![p] = l]
    <3>1. CASE \E x \in Proc : <<x, e>> \in fd'
      <4>1. pc' = [pc EXCEPT ![p] = "user"]  BY <1>3, <2>3, <3>1, ZenonT(40) DEF fileclose
      <4> QED  BY <4>1
    <3>2. CASE ~\E x \in Proc : <<x, e>> \in fd'
      <4>1. Goto(p, IF e = "w" THEN "close_w" ELSE "close_r")  BY <1>3, <3>2 DEF fileclose
      <4> QED  BY <4>1, Zenon DEF Goto
    <3> QED  BY <3>1, <3>2, Zenon
  <2> QED  BY <2>1, <2>2, <2>3
<1>4. ASSUME NEW p \in Proc, pipeclose(p) PROVE Inv1'
  <2>1. readopen' \in BOOLEAN /\ writeopen' \in BOOLEAN  BY <1>4, Zenon DEF pipeclose
  <2>2. /\ pc' \in [Proc -> {"user"} \cup Locked \cup Waiting \cup Closing \cup Asleep]
        /\ \A x \in Proc : /\ pc[x] \in Locked <=> pc'[x] \in Locked
                           /\ pc[x] \in Writing <=> pc'[x] \in Writing
                           /\ pc[x] \in Reading <=> pc'[x] \in Reading
    BY <1>4 DEF pipeclose, WakeReaders, WakeWriters
  <2>3. UNCHANGED <<ring, lock, fd, killed, n, i, aborted>>  BY <1>4 DEF pipeclose
  <2> QED  BY <2>1, <2>2, <2>3
<1>5. ASSUME NEW p \in Proc, kill(p) PROVE Inv1'
  BY <1>5, SMTT(30) DEF kill, Goto
<1>6. ASSUME NEW p \in Proc, NEW len \in Length, pipewrite(p, len) PROVE Inv1'
  <2>1. /\ pc[p] = "user" /\ <<p, "w">> \in fd /\ n' = [n EXCEPT ![p] = len]
        /\ pc' = [pc EXCEPT ![p] = "w_lock"]
        /\ UNCHANGED <<ring, ends, lock, fd, killed, i, aborted>>
    BY <1>6 DEF pipewrite, Goto
  <2>2. i[p] = 0 /\ len \in Nat  BY <2>1, Zenon
  <2>3. TypeOK'
    <3>1. \A x \in Proc : i[x] \in 0 .. n'[x]  BY <2>1, <2>2
    <3>2. pc' \in [Proc -> {"user"} \cup Locked \cup Waiting \cup Closing \cup Asleep]  BY <2>1
    <3>3. \A x \in Proc : pc'[x] \in Locked <=> lock = x  BY <2>1
    <3>4. n' \in [Proc -> Length \cup {0}]  BY <2>1
    <3> QED  BY <2>1, <3>1, <3>2, <3>3, <3>4
  <2>4. CallInv'  BY <2>1, Zenon
  <2> QED  BY <2>1, <2>3, <2>4, Zenon
<1>7. ASSUME NEW p \in Proc, NEW len \in Length, piperead(p, len) PROVE Inv1'
  <2>1. /\ pc[p] = "user" /\ <<p, "r">> \in fd /\ n' = [n EXCEPT ![p] = len]
        /\ pc' = [pc EXCEPT ![p] = "r_lock"]
        /\ UNCHANGED <<ring, ends, lock, fd, killed, i, aborted>>
    BY <1>7 DEF piperead, Goto
  <2>2. i[p] = 0 /\ len \in Nat  BY <2>1, Zenon
  <2>3. TypeOK'
    <3>1. \A x \in Proc : i[x] \in 0 .. n'[x]  BY <2>1, <2>2
    <3>2. pc' \in [Proc -> {"user"} \cup Locked \cup Waiting \cup Closing \cup Asleep]  BY <2>1
    <3>3. \A x \in Proc : pc'[x] \in Locked <=> lock = x  BY <2>1
    <3>4. n' \in [Proc -> Length \cup {0}]  BY <2>1
    <3> QED  BY <2>1, <3>1, <3>2, <3>3, <3>4
  <2>4. CallInv'  BY <2>1, Zenon
  <2> QED  BY <2>1, <2>3, <2>4
<1>8. ASSUME NEW p \in Proc, acquire(p) PROVE Inv1'
  BY <1>8 DEF acquire, Goto
<1>9. ASSUME NEW p \in Proc, pipewrite_put(p) PROVE Inv1'
  <2>1. nwrite' \in Counter /\ Dist(nread, nwrite') <= PIPESIZE
    <3>1. nread \in Counter /\ nwrite \in Counter /\ Dist(nread, nwrite) <= PIPESIZE
      BY DEF Counter, Dist
    <3>2. nwrite # Past(nread) /\ nwrite' = Succ(nwrite)
      BY <1>9 DEF pipewrite_put, Full, Past, Succ
    <3>3. /\ Dist(nread, nwrite) \in 0 .. PIPESIZE /\ Dist(nread, nwrite) # PIPESIZE
          /\ nwrite' \in Counter /\ Dist(nread, nwrite') = Dist(nread, nwrite) + 1
      BY <3>1, <3>2, Counting
    <3> QED  BY <3>3
  <2>2. data' \in [0 .. PIPESIZE - 1 -> Byte]  BY <1>9 DEF pipewrite_put
  <2>3. /\ i' = [i EXCEPT ![p] = i[p] + 1] /\ i[p] < n[p] /\ pc[p] = "w_loop"
        /\ UNCHANGED <<nread, ends, lock, fd, killed, pc, n, aborted>>
    BY <1>9 DEF pipewrite_put
  <2>4. i' \in [Proc -> Nat] /\ \A x \in Proc : i'[x] \in 0 .. n[x]  BY <2>3, OneMore, Zenon
  <2>5. TypeOK'  BY <2>1, <2>2, <2>3, <2>4, Zenon DEF Counter, Dist
  <2>6. CallInv'  BY <2>3, Zenon
  <2> QED  BY <2>3, <2>4, <2>5, <2>6, Zenon
<1>10. ASSUME NEW p \in Proc, pipewrite_fail(p) PROVE Inv1'
  BY <1>10 DEF pipewrite_fail, Return, Goto
<1>11. ASSUME NEW p \in Proc, pipewrite_full(p) PROVE Inv1'
  BY <1>11, SMTT(30) DEF pipewrite_full, WakeReaders
<1>12. ASSUME NEW p \in Proc, pipewrite_done(p) PROVE Inv1'
  BY <1>12, SMTT(30) DEF pipewrite_done, WakeReaders, Return
<1>13. ASSUME NEW p \in Proc, sleep(p) PROVE Inv1'
  BY <1>13 DEF sleep, Goto
<1>14. ASSUME NEW p \in Proc, piperead_fail(p) PROVE Inv1'
  BY <1>14 DEF piperead_fail, Return, Goto
<1>15. ASSUME NEW p \in Proc, piperead_test(p) PROVE Inv1'
  <2>1. PICK l \in {"r_sleep", "r_copy"} : pc' = [pc EXCEPT ![p] = l]
    BY <1>15, SMTT(30) DEF piperead_test, Goto
  <2>2. pc[p] = "r_test" /\ UNCHANGED <<ring, ends, lock, fd, killed, n, i, aborted>>
    BY <1>15 DEF piperead_test
  <2> QED  BY <2>1, <2>2
<1>16. ASSUME NEW p \in Proc, piperead_get(p) PROVE Inv1'
  <2>1. nread' \in Counter /\ Dist(nread', nwrite) <= PIPESIZE
    <3>1. nread \in Counter /\ nwrite \in Counter /\ Dist(nread, nwrite) <= PIPESIZE
      BY DEF Counter, Dist
    <3>2. nread # nwrite /\ nread' = Succ(nread)  BY <1>16 DEF piperead_get, Empty, Succ
    <3>3. /\ Dist(nread, nwrite) \in 0 .. PIPESIZE
          /\ nread' \in Counter /\ Dist(nread', nwrite) = Dist(nread, nwrite) - 1
      BY <3>1, <3>2, Counting
    <3> QED  BY <3>3
  <2>2. /\ i' = [i EXCEPT ![p] = i[p] + 1] /\ i[p] < n[p] /\ pc[p] = "r_copy"
        /\ UNCHANGED <<data, nwrite, ends, lock, fd, killed, pc, n, aborted>>
    BY <1>16, Zenon DEF piperead_get
  <2>3. i' \in [Proc -> Nat] /\ \A x \in Proc : i'[x] \in 0 .. n[x]  BY <2>2, OneMore, Zenon
  <2>4. TypeOK'  BY <2>1, <2>2, <2>3, Zenon DEF Counter, Dist
  <2>5. CallInv'  BY <2>2, Zenon
  <2> QED  BY <2>2, <2>3, <2>4, <2>5, Zenon
<1>17. ASSUME NEW p \in Proc, piperead_done(p) PROVE Inv1'
  BY <1>17, SMTT(30) DEF piperead_done, WakeWriters, Return
<1>18. CASE UNCHANGED vars
  BY <1>18 DEF vars
<1> HIDE DEF Inv1
<1> QED
  BY <1>1, <1>2, <1>3, <1>4, <1>5, <1>6, <1>7, <1>8, <1>9, <1>10, <1>11, <1>12,
     <1>13, <1>14, <1>15, <1>16, <1>17, <1>18 DEF Next, HolderStep

\* The pipe of pipe.c is well typed: its counters differ by at most PIPESIZE in
\* unsigned arithmetic, and p->lock is held by the process inside the section.
THEOREM TypeCorrect == Spec => []TypeOK
<1>1. Init => Inv1  BY Inv1Init
<1>2. Inv1 /\ [Next]_vars => Inv1'  BY Inv1Next
<1>3. Inv1 => TypeOK  BY DEF Inv1, TypeInv
<1> QED  BY <1>1, <1>2, <1>3, PTL DEF Spec

-----------------------------------------------------------------------------
(* The two ends and the page.  An end is open as long as somebody has it or is
   on the way to close it, and only one process can be on that way. *)

EndInv ==
  /\ \A p \in Proc : <<p, "w">> \in fd \/ pc[p] = "close_w" => writeopen
  /\ \A p \in Proc : <<p, "r">> \in fd \/ pc[p] = "close_r" => readopen
  /\ \A p, x \in Proc : pc[p] = "close_w" => <<x, "w">> \notin fd /\ (pc[x] = "close_w" => x = p)
  /\ \A p, x \in Proc : pc[p] = "close_r" => <<x, "r">> \notin fd /\ (pc[x] = "close_r" => x = p)
  /\ freed = IF readopen \/ writeopen THEN 0 ELSE 1

\* Both ends are open at the start.
LEMMA EndInvInit == Init => EndInv
BY DEF Init, EndInv

\* Steps that keep the descriptors, the ends and who is closing.
LEMMA EndInvKept ==
  ASSUME EndInv, UNCHANGED <<fd, ends>>,
         \A x \in Proc : /\ pc'[x] = "close_w" => pc[x] = "close_w"
                         /\ pc'[x] = "close_r" => pc[x] = "close_r"
  PROVE  EndInv'
BY DEF EndInv, ends

\* Every step keeps the flags of the two ends and the descriptors in agreement.
LEMMA EndInvNext == Inv1 /\ EndInv /\ [Next]_vars => EndInv'
<1> SUFFICES ASSUME Inv1, EndInv, [Next]_vars PROVE EndInv'  OBVIOUS
<1>0. pc \in [Proc -> {"user"} \cup Locked \cup Waiting \cup Closing \cup Asleep]
      /\ readopen \in BOOLEAN /\ writeopen \in BOOLEAN
  BY DEF Inv1, TypeInv, TypeOK
<1>1. ASSUME NEW p \in Proc, pipealloc(p) PROVE EndInv'
  BY <1>1 DEF pipealloc, EndInv
<1>2. ASSUME NEW p \in Proc, NEW x \in Proc, filedup(p, x) PROVE EndInv'
  <2>1. \A y \in Proc, e \in End : <<y, e>> \in fd' => <<y, e>> \in fd \/ <<p, e>> \in fd
    BY <1>2, Zenon DEF filedup
  <2>2. UNCHANGED <<pc, readopen, writeopen, freed>>  BY <1>2 DEF filedup, ends
  <2> QED  BY <2>1, <2>2, Zenon DEF EndInv, End
<1>3. ASSUME NEW p \in Proc, NEW e \in End, fileclose(p, e) PROVE EndInv'
  <2>1. pc[p] = "user" /\ <<p, e>> \in fd /\ fd' = fd \ {<<p, e>>}
        /\ UNCHANGED <<readopen, writeopen, freed>>
    BY <1>3 DEF fileclose, ends
  <2>2. CASE \E x \in Proc : <<x, e>> \in fd'
    <3>1. UNCHANGED pc  BY <1>3, <2>2 DEF fileclose
    <3> QED  BY <2>1, <3>1 DEF EndInv
  <2>3. CASE e = "w" /\ \A x \in Proc : <<x, e>> \notin fd'
    <3>1. pc' = [pc EXCEPT ![p] = "close_w"]  BY <1>3, <2>3, Zenon DEF fileclose, Goto
    <3>2. \A x \in Proc : pc[x] # "close_w"  BY <2>1, <2>3 DEF EndInv
    <3> QED  BY <1>0, <2>1, <2>3, <3>1, <3>2 DEF EndInv
  <2>4. CASE e = "r" /\ \A x \in Proc : <<x, e>> \notin fd'
    <3>1. pc' = [pc EXCEPT ![p] = "close_r"]  BY <1>3, <2>4, Zenon DEF fileclose, Goto
    <3>2. \A x \in Proc : pc[x] # "close_r"  BY <2>1, <2>4 DEF EndInv
    <3> QED  BY <1>0, <2>1, <2>4, <3>1, <3>2 DEF EndInv
  <2> QED  BY <2>2, <2>3, <2>4 DEF End
<1>4. ASSUME NEW p \in Proc, pipeclose(p) PROVE EndInv'
  <2>1. CASE pc[p] = "close_w"
    <3>1. /\ writeopen' = FALSE /\ readopen' = readopen /\ fd' = fd
          /\ freed' = freed + (IF ~readopen' /\ ~writeopen' THEN 1 ELSE 0)
          /\ \A x \in Proc : /\ pc'[x] = "close_w" => pc[x] = "close_w" /\ x # p
                             /\ pc'[x] = "close_r" => pc[x] = "close_r"
      BY <1>4, <2>1 DEF pipeclose, WakeReaders
    <3>2. writeopen /\ freed = 0  BY <2>1, Zenon DEF EndInv
    <3> QED  BY <1>0, <2>1, <3>1, <3>2 DEF EndInv
  <2>2. CASE pc[p] = "close_r"
    <3>1. /\ readopen' = FALSE /\ writeopen' = writeopen /\ fd' = fd
          /\ freed' = freed + (IF ~readopen' /\ ~writeopen' THEN 1 ELSE 0)
          /\ \A x \in Proc : /\ pc'[x] = "close_r" => pc[x] = "close_r" /\ x # p
                             /\ pc'[x] = "close_w" => pc[x] = "close_w"
      BY <1>4, <2>2 DEF pipeclose, WakeWriters
    <3>2. readopen /\ freed = 0  BY <2>2, Zenon DEF EndInv
    <3> QED  BY <1>0, <2>2, <3>1, <3>2 DEF EndInv
  <2> QED  BY <1>4, <2>1, <2>2 DEF pipeclose, Closing
<1>5. ASSUME NEW p \in Proc, kill(p) PROVE EndInv'
  BY <1>0, <1>5, EndInvKept DEF kill, Goto
<1>6. ASSUME NEW p \in Proc, NEW len \in Length, pipewrite(p, len) \/ piperead(p, len) PROVE EndInv'
  BY <1>0, <1>6, EndInvKept DEF pipewrite, piperead, Goto
<1>7. ASSUME NEW p \in Proc, acquire(p) PROVE EndInv'
  BY <1>0, <1>7, EndInvKept DEF acquire, Goto
<1>8. ASSUME NEW p \in Proc, HolderStep(p) PROVE EndInv'
  <2>1. UNCHANGED <<fd, ends>>
    BY <1>8, Zenon DEF HolderStep, pipewrite_put, pipewrite_fail, pipewrite_full, pipewrite_done, sleep,
       piperead_fail, piperead_test, piperead_get, piperead_done
  <2>2. \A x \in Proc : /\ pc'[x] = "close_w" => pc[x] = "close_w"
                        /\ pc'[x] = "close_r" => pc[x] = "close_r"
    BY <1>0, <1>8 DEF HolderStep, pipewrite_put, pipewrite_fail, pipewrite_full, pipewrite_done, sleep,
       piperead_fail, piperead_test, piperead_get, piperead_done, Goto, WakeReaders, WakeWriters
  <2> QED  BY <2>1, <2>2, EndInvKept
<1>9. CASE UNCHANGED vars
  BY <1>9, EndInvKept DEF vars
<1> QED  BY <1>1, <1>2, <1>3, <1>4, <1>5, <1>6, <1>7, <1>8, <1>9 DEF Next

\* The page of a pipe is freed at most once, and then no process is in, or on
\* its way into, the code of pipe.c that uses it.
THEOREM NeverUsedAfterFree == Spec => []NoUseAfterFree
<1>1. Init => Inv1 /\ EndInv  BY Inv1Init, EndInvInit
<1>2. Inv1 /\ EndInv /\ [Next]_vars => Inv1' /\ EndInv'  BY Inv1Next, EndInvNext
<1>3. Inv1 /\ EndInv => NoUseAfterFree
  <2> SUFFICES ASSUME Inv1, EndInv PROVE NoUseAfterFree  OBVIOUS
  <2>1. freed \in 0 .. 1 /\ (freed = 1 => ~readopen /\ ~writeopen)  BY DEF EndInv
  <2>2. ASSUME freed = 1, NEW p \in Proc PROVE pc[p] = "user"
    <3>1. pc[p] \notin Writing \cup Reading \cup Closing
      BY <2>1, <2>2, Zenon DEF EndInv, Inv1, CallInv, Closing
    <3> QED  BY <3>1 DEF Inv1, TypeInv, TypeOK, Locked, Waiting, Closing, Asleep, Writing, Reading
  <2> QED  BY <2>1, <2>2 DEF NoUseAfterFree
<1> QED  BY <1>1, <1>2, <1>3, PTL DEF Spec

-----------------------------------------------------------------------------
(* Sleep and wakeup.  The process that is about to sleep holds p->lock, so what
   it tested is still so; a sleeper is passed on from the state in which it fell
   asleep to the process whose wakeup is still to come. *)

SleepInv ==
  /\ \A p \in Proc : /\ pc[p] = "r_sleep" => Empty /\ writeopen
                     /\ pc[p] = "w_sleep" => Full /\ readopen
  /\ SleepJustifiedUnlessAborted

\* A reader that has copied nothing yet has something to copy, or an end of file.
EofInv == \A p \in Proc : pc[p] = "r_copy" /\ i[p] = 0 => ~(Empty /\ writeopen)

\* Nobody sleeps at the start.
LEMMA SleepInvInit == Init => SleepInv /\ EofInv
BY DEF Init, SleepInv, EofInv, SleepJustifiedUnlessAborted

\* Only the holder of p->lock is inside the section.
LEMMA OneInside ==
  ASSUME Inv1, NEW p \in Proc, NEW x \in Proc, pc[p] \in Locked, pc[x] \in Locked
  PROVE  x = p
BY DEF Inv1, TypeInv, TypeOK

\* Nobody is left asleep for what is there.
LEMMA SleepInvNext == Inv1 /\ EndInv /\ SleepInv /\ [Next]_vars => SleepInv'
<1> SUFFICES ASSUME Inv1, EndInv, SleepInv, [Next]_vars PROVE SleepInv'  OBVIOUS
<1>0. /\ pc \in [Proc -> {"user"} \cup Locked \cup Waiting \cup Closing \cup Asleep]
      /\ \A p \in Proc : pc[p] \in Locked <=> lock = p
  BY DEF Inv1, TypeInv, TypeOK
<1> USE DEF SleepInv, SleepJustifiedUnlessAborted
<1>1. ASSUME NEW p \in Proc, pipealloc(p) PROVE SleepInv'
  BY <1>1 DEF pipealloc
<1>2. ASSUME NEW p \in Proc, NEW x \in Proc, filedup(p, x) PROVE SleepInv'
  BY <1>2 DEF filedup, ring, ends, Empty, Full
<1>3. ASSUME NEW p \in Proc, NEW e \in End, fileclose(p, e) PROVE SleepInv'
  <2>1. UNCHANGED <<nread, nwrite, readopen, writeopen, aborted>>
    BY <1>3 DEF fileclose, ring, ends
  <2>2. \A x \in Proc : pc'[x] = pc[x] \/ (pc[x] = "user" /\ pc'[x] \in Closing)
    BY <1>0, <1>3 DEF fileclose, Goto, Closing
  <2> QED  BY <2>1, <2>2 DEF Empty, Full, Closing
<1>4. ASSUME NEW p \in Proc, pipeclose(p) PROVE SleepInv'
  <2>1. UNCHANGED <<nread, nwrite, aborted>> /\ \A x \in Proc : pc[x] \notin Locked
    BY <1>0, <1>4, PipeAssumption DEF pipeclose, ring
  <2>2. CASE pc[p] = "close_w"
    BY <1>4, <2>1, <2>2 DEF pipeclose, WakeReaders, Empty, Full, Locked
  <2>3. CASE pc[p] = "close_r"
    BY <1>4, <2>1, <2>3 DEF pipeclose, WakeWriters, Empty, Full, Locked
  <2> QED  BY <1>4, <2>2, <2>3 DEF pipeclose, Closing
<1>5. ASSUME NEW p \in Proc, kill(p) PROVE SleepInv'
  BY <1>0, <1>5 DEF kill, Goto, ring, ends, Empty, Full
<1>6. ASSUME NEW p \in Proc, NEW len \in Length, pipewrite(p, len) \/ piperead(p, len) PROVE SleepInv'
  BY <1>0, <1>6 DEF pipewrite, piperead, Goto, ring, ends, Empty, Full
<1>7. ASSUME NEW p \in Proc, acquire(p) PROVE SleepInv'
  BY <1>0, <1>7 DEF acquire, Goto, ring, ends, Empty, Full, Waiting
<1>8. ASSUME NEW p \in Proc, pipewrite_put(p) PROVE SleepInv'
  <2>1. \A x \in Proc : pc[x] \in Locked => x = p  BY <1>8, OneInside DEF pipewrite_put, Locked
  <2> QED  BY <1>8, <2>1 DEF pipewrite_put, Locked
<1>9. ASSUME NEW p \in Proc, pipewrite_fail(p) PROVE SleepInv'
  <2>1. \A x \in Proc : pc[x] \in Locked => x = p  BY <1>9, OneInside DEF pipewrite_fail, Locked
  <2>2. (\A x \in Proc : pc[x] # "asleep_r") \/ aborted'
    BY <1>9, Zenon DEF pipewrite_fail, Inv1, CallInv, EndInv, Reading
  <2> QED  BY <1>0, <1>9, <2>1, <2>2 DEF pipewrite_fail, Locked, Goto, ring, ends, Empty, Full
<1>10. ASSUME NEW p \in Proc, pipewrite_full(p) PROVE SleepInv'
  <2>1. \A x \in Proc : pc[x] \in Locked => x = p  BY <1>10, OneInside DEF pipewrite_full, Locked
  <2> QED  BY <1>10, <2>1 DEF pipewrite_full, WakeReaders, Locked, ring, ends, Empty, Full
<1>11. ASSUME NEW p \in Proc, pipewrite_done(p) PROVE SleepInv'
  <2>1. \A x \in Proc : pc[x] \in Locked => x = p  BY <1>11, OneInside DEF pipewrite_done, Locked
  <2> QED  BY <1>11, <2>1 DEF pipewrite_done, WakeReaders, Locked, ring, ends, Empty, Full
<1>12. ASSUME NEW p \in Proc, sleep(p) PROVE SleepInv'
  BY <1>0, <1>12 DEF sleep, Goto, ring, ends, Empty, Full
<1>13. ASSUME NEW p \in Proc, piperead_fail(p) PROVE SleepInv'
  BY <1>0, <1>13 DEF piperead_fail, Goto, ring, ends, Empty, Full
<1>14. ASSUME NEW p \in Proc, piperead_test(p) PROVE SleepInv'
  BY <1>0, <1>14 DEF piperead_test, Goto, ring, ends, Empty, Full
<1>15. ASSUME NEW p \in Proc, piperead_get(p) PROVE SleepInv'
  <2>1. \A x \in Proc : pc[x] \in Locked => x = p  BY <1>15, OneInside DEF piperead_get, Locked
  <2> QED  BY <1>15, <2>1 DEF piperead_get, Locked
<1>16. ASSUME NEW p \in Proc, piperead_done(p) PROVE SleepInv'
  <2>1. \A x \in Proc : pc[x] \in Locked => x = p  BY <1>16, OneInside DEF piperead_done, Locked
  <2> QED  BY <1>16, <2>1 DEF piperead_done, WakeWriters, Locked, ring, ends, Empty, Full
<1>17. CASE UNCHANGED vars
  BY <1>17 DEF vars, ring, ends, Empty, Full
<1> HIDE DEF SleepInv
<1> QED
  BY <1>1, <1>2, <1>3, <1>4, <1>5, <1>6, <1>7, <1>8, <1>9, <1>10, <1>11, <1>12,
     <1>13, <1>14, <1>15, <1>16, <1>17 DEF Next, HolderStep

\* No process sleeps for bytes, room or an end that is already there, except a
\* reader of a pipe that a killed writer has left full (pipewrite's return -1).
THEOREM NobodySleepsInVain == Spec => []SleepJustifiedUnlessAborted
<1>1. Init => Inv1 /\ EndInv /\ SleepInv  BY Inv1Init, EndInvInit, SleepInvInit
<1>2. Inv1 /\ EndInv /\ SleepInv /\ [Next]_vars => Inv1' /\ EndInv' /\ SleepInv'
  BY Inv1Next, EndInvNext, SleepInvNext
<1>3. SleepInv => SleepJustifiedUnlessAborted  BY DEF SleepInv
<1> QED  BY <1>1, <1>2, <1>3, PTL DEF Spec

\* A reader that enters the copy finds bytes or a closed write end.
LEMMA EofInvNext == Inv1 /\ EofInv /\ [Next]_vars => EofInv'
<1> SUFFICES ASSUME Inv1, EofInv, [Next]_vars PROVE EofInv'  OBVIOUS
<1>0. /\ pc \in [Proc -> {"user"} \cup Locked \cup Waiting \cup Closing \cup Asleep]
      /\ \A p \in Proc : pc[p] \in Locked <=> lock = p
      /\ i \in [Proc -> Nat]
  BY DEF Inv1, TypeInv, TypeOK
<1> USE DEF EofInv
<1>1. ASSUME NEW p \in Proc, pipealloc(p) PROVE EofInv'
  BY <1>1 DEF pipealloc
<1>2. ASSUME NEW p \in Proc, NEW x \in Proc, filedup(p, x) PROVE EofInv'
  BY <1>2, Zenon DEF filedup, ring, ends, Empty
<1>3. ASSUME NEW p \in Proc, NEW e \in End, fileclose(p, e) PROVE EofInv'
  BY <1>0, <1>3, Zenon DEF fileclose, Goto, ring, ends, Empty
<1>4. ASSUME NEW p \in Proc, pipeclose(p) PROVE EofInv'
  <2>1. \A x \in Proc : pc[x] \notin Locked  BY <1>0, <1>4, PipeAssumption DEF pipeclose
  <2> QED  BY <1>4, <2>1 DEF pipeclose, WakeReaders, WakeWriters, Locked
<1>5. ASSUME NEW p \in Proc, kill(p) PROVE EofInv'
  BY <1>0, <1>5 DEF kill, Goto, ring, ends, Empty
<1>6. ASSUME NEW p \in Proc, NEW len \in Length, pipewrite(p, len) \/ piperead(p, len) PROVE EofInv'
  BY <1>0, <1>6 DEF pipewrite, piperead, Goto, ring, ends, Empty
<1>7. ASSUME NEW p \in Proc, acquire(p) PROVE EofInv'
  BY <1>0, <1>7 DEF acquire, Goto, ring, ends, Empty
<1>8. ASSUME NEW p \in Proc, pipewrite_put(p) PROVE EofInv'
  <2>1. \A x \in Proc : pc[x] \in Locked => x = p  BY <1>8, OneInside DEF pipewrite_put, Locked
  <2> QED  BY <1>8, <2>1, Zenon DEF pipewrite_put, Locked
<1>9. ASSUME NEW p \in Proc, pipewrite_fail(p) \/ piperead_fail(p) PROVE EofInv'
  BY <1>0, <1>9 DEF pipewrite_fail, piperead_fail, Return, Goto, ring, ends, Empty
<1>10. ASSUME NEW p \in Proc, pipewrite_full(p) PROVE EofInv'
  BY <1>10 DEF pipewrite_full, WakeReaders, ring, ends, Empty
<1>11. ASSUME NEW p \in Proc, pipewrite_done(p) \/ piperead_done(p) PROVE EofInv'
  BY <1>0, <1>11 DEF pipewrite_done, piperead_done, WakeReaders, WakeWriters, Return, ring, ends, Empty
<1>12. ASSUME NEW p \in Proc, sleep(p) PROVE EofInv'
  BY <1>0, <1>12 DEF sleep, Goto, ring, ends, Empty
<1>13. ASSUME NEW p \in Proc, piperead_test(p) PROVE EofInv'
  BY <1>0, <1>13 DEF piperead_test, Goto, ring, ends, Empty
<1>14. ASSUME NEW p \in Proc, piperead_get(p) PROVE EofInv'
  <2>1. \A x \in Proc : pc[x] \in Locked => x = p  BY <1>14, OneInside DEF piperead_get, Locked
  <2>2. i'[p] > 0 /\ UNCHANGED pc  BY <1>0, <1>14 DEF piperead_get
  <2> QED  BY <2>1, <2>2 DEF Locked
<1>15. CASE UNCHANGED vars
  BY <1>15, Zenon DEF vars, ring, ends, Empty
<1> HIDE DEF EofInv
<1> QED
  BY <1>1, <1>2, <1>3, <1>4, <1>5, <1>6, <1>7, <1>8, <1>9, <1>10, <1>11, <1>12,
     <1>13, <1>14, <1>15 DEF Next, HolderStep

\* A read that returns 0 has found the write end closed and every byte read.
THEOREM ZeroIsEndOfFile == Spec => EndOfFile
<1> DEFINE Step == \A p \in Proc : piperead_done(p) /\ i[p] = 0 => Empty /\ ~writeopen
<1>1. Init => Inv1 /\ EofInv  BY Inv1Init, SleepInvInit
<1>2. Inv1 /\ EofInv /\ [Next]_vars => Inv1' /\ EofInv'  BY Inv1Next, EofInvNext
<1>3. Inv1 /\ EofInv => Step
  <2> SUFFICES ASSUME Inv1, EofInv, NEW p \in Proc, piperead_done(p), i[p] = 0
               PROVE  Empty /\ ~writeopen
    OBVIOUS
  <2>1. pc[p] = "r_copy" /\ (i[p] = n[p] \/ Empty)  BY DEF piperead_done
  <2>2. n[p] # 0  BY <2>1, PipeAssumption, Zenon DEF Inv1, CallInv, Reading
  <2> QED  BY <2>1, <2>2 DEF EofInv
<1>4. Spec => [](Inv1 /\ EofInv)  BY <1>1, <1>2, PTL DEF Spec
<1>5. [](Inv1 /\ EofInv) => [][Step]_vars  BY <1>3, PTL
<1> QED  BY <1>4, <1>5 DEF EndOfFile


-----------------------------------------------------------------------------
(* The ring buffer implements the queue.  Its slots are the counters modulo
   PIPESIZE; that a counter may wrap at UMAX without moving a slot is where
   the divisibility of UMAX by PIPESIZE is used. *)

Slot(a) == a % PIPESIZE

\* The c bytes of buffer d from counter r on.
Contents(d, r, c) == [k \in 1 .. c |-> d[Slot(r + k - 1)]]

\* Division with remainder.
LEMMA DivMod ==
  ASSUME NEW a \in Nat, NEW m \in Nat \ {0}
  PROVE  \E k \in Nat : \E s \in 0 .. m - 1 : s = a % m /\ m * k \in Nat /\ a = m * k + s
<1>1. /\ a \div m \in Nat /\ a % m \in 0 .. m - 1 /\ m * (a \div m) \in Nat
      /\ a = m * (a \div m) + (a % m)
  BY SMT
<1> QED  BY <1>1, Zenon

\* The remainder is determined by the division.
LEMMA Remainder ==
  ASSUME NEW m \in Nat \ {0}, NEW k \in Nat, NEW s \in 0 .. m - 1
  PROVE  (m * k + s) % m = s
BY SMT

\* A multiple of a sum.
LEMMA Distributes ==
  ASSUME NEW m \in Nat, NEW k \in Nat, NEW l \in Nat
  PROVE  m * (k + l) = m * k + m * l
BY SMT

\* A turn of the counter leaves the slot where it is.
LEMMA SlotWraps ==
  ASSUME NEW a \in Nat
  PROVE  Slot(a + UMAX) = Slot(a)
<1>1. PICK k \in Nat, s \in 0 .. PIPESIZE - 1 :
        s = a % PIPESIZE /\ PIPESIZE * k \in Nat /\ a = PIPESIZE * k + s
  BY PipeAssumption, DivMod
<1>2. PICK l \in Nat, t \in 0 .. PIPESIZE - 1 :
        t = UMAX % PIPESIZE /\ PIPESIZE * l \in Nat /\ UMAX = PIPESIZE * l + t
  BY PipeAssumption, DivMod
<1>3. t = 0  BY <1>2, PipeAssumption
<1>4. PIPESIZE * (k + l) = PIPESIZE * k + PIPESIZE * l /\ k + l \in Nat
  BY PipeAssumption, Distributes
<1>5. a + UMAX = PIPESIZE * (k + l) + s  BY <1>1, <1>2, <1>3, <1>4
<1>6. (PIPESIZE * (k + l) + s) % PIPESIZE = s  BY <1>4, PipeAssumption, Remainder
<1> QED  BY <1>1, <1>5, <1>6 DEF Slot

\* Counters less than PIPESIZE apart have different slots.
LEMMA SlotsDiffer ==
  ASSUME NEW a \in Nat, NEW d \in 1 .. PIPESIZE - 1
  PROVE  Slot(a + d) # Slot(a)
<1>1. PICK k \in Nat, s \in 0 .. PIPESIZE - 1 :
        s = a % PIPESIZE /\ PIPESIZE * k \in Nat /\ a = PIPESIZE * k + s
  BY PipeAssumption, DivMod, Zenon
<1>2. CASE s + d < PIPESIZE
  <2>1. s + d \in 0 .. PIPESIZE - 1 /\ s + d # s  BY <1>2, PipeAssumption
  <2>2. a + d = PIPESIZE * k + (s + d)  BY <1>1, PipeAssumption
  <2>3. (PIPESIZE * k + (s + d)) % PIPESIZE = s + d  BY <2>1, PipeAssumption, Remainder
  <2> QED  BY <2>1, <2>2, <2>3, <1>1, Zenon DEF Slot
<1>3. CASE s + d >= PIPESIZE
  <2>1. s + d - PIPESIZE \in 0 .. PIPESIZE - 1 /\ s + d - PIPESIZE # s  BY <1>3, PipeAssumption
  <2>2. PIPESIZE * (k + 1) = PIPESIZE * k + PIPESIZE * 1 /\ PIPESIZE * 1 = PIPESIZE /\ k + 1 \in Nat
    BY PipeAssumption, Distributes
  <2>3. a + d = PIPESIZE * (k + 1) + (s + d - PIPESIZE)  BY <1>1, <2>2, PipeAssumption
  <2>4. (PIPESIZE * (k + 1) + (s + d - PIPESIZE)) % PIPESIZE = s + d - PIPESIZE
    BY <2>1, <2>2, PipeAssumption, Remainder, Zenon
  <2> QED  BY <2>1, <2>3, <2>4, <1>1, Zenon DEF Slot
<1> QED  BY <1>2, <1>3, PipeAssumption

\* Where the write counter points, and where the read counter goes.
LEMMA Slots ==
  ASSUME NEW r \in Counter, NEW w \in Counter
  PROVE  /\ Slot(w) \in 0 .. PIPESIZE - 1
         /\ Slot(r + Dist(r, w)) = Slot(w)
         /\ \A k \in Nat : Slot(Succ(r) + k) = Slot(r + k + 1)
<1>1. /\ Dist(r, w) = IF r <= w THEN w - r ELSE w + UMAX - r
      /\ Succ(r) = IF r + 1 < UMAX THEN r + 1 ELSE 0
  BY ByCases
<1>2. w \in Nat /\ r \in Nat /\ UMAX \in Nat  BY PipeAssumption DEF Counter
<1>3. Slot(w) \in 0 .. PIPESIZE - 1  BY <1>2, PipeAssumption DEF Slot
<1>4. Slot(r + Dist(r, w)) = Slot(w)
  <2>1. CASE r <= w
    <3>1. r + Dist(r, w) = w  BY <1>1, <1>2, <2>1
    <3> QED  BY <3>1
  <2>2. CASE w < r
    <3>1. r + Dist(r, w) = w + UMAX  BY <1>1, <1>2, <2>2
    <3> QED  BY <3>1, <1>2, SlotWraps
  <2> QED  BY <1>2, <2>1, <2>2
<1>5. ASSUME NEW k \in Nat PROVE Slot(Succ(r) + k) = Slot(r + k + 1)
  <2>1. CASE r + 1 < UMAX
    <3>1. Succ(r) + k = r + k + 1  BY <1>1, <1>2, <2>1
    <3> QED  BY <3>1
  <2>2. CASE r + 1 = UMAX
    <3>1. Succ(r) + k = k /\ r + k + 1 = k + UMAX  BY <1>1, <1>2, <2>2
    <3> QED  BY <3>1, SlotWraps
  <2> QED  BY <1>2, <2>1, <2>2 DEF Counter
<1> QED  BY <1>3, <1>4, <1>5

\* The bytes between two counters, as a sequence.
LEMMA ContentsSeq ==
  ASSUME NEW d \in [0 .. PIPESIZE - 1 -> Byte], NEW r \in Nat, NEW c \in Nat
  PROVE  /\ Contents(d, r, c) \in Seq(Byte)
         /\ Len(Contents(d, r, c)) = c
         /\ \A k \in 1 .. c : Contents(d, r, c)[k] = d[Slot(r + k - 1)]
<1>1. \A k \in 1 .. c : Slot(r + k - 1) \in 0 .. PIPESIZE - 1
  <2> TAKE k \in 1 .. c
  <2>1. r + k - 1 \in Nat  OBVIOUS
  <2> QED  BY <2>1, PipeAssumption DEF Slot
<1>2. \A k \in 1 .. c : d[Slot(r + k - 1)] \in Byte  BY <1>1
<1> QED  BY <1>2 DEF Contents

\* A byte stored at the slot of nwrite goes to the end of the queue: it falls on
\* none of the bytes that are in the buffer.
LEMMA PutAppends ==
  ASSUME NEW d \in [0 .. PIPESIZE - 1 -> Byte], NEW b \in Byte,
         NEW r \in Counter, NEW w \in Counter, Dist(r, w) <= PIPESIZE, w # Past(r)
  PROVE  Contents([d EXCEPT ![Slot(w)] = b], r, Dist(r, Succ(w)))
           = Append(Contents(d, r, Dist(r, w)), b)
<1> DEFINE c == Dist(r, w)
           e == [d EXCEPT ![Slot(w)] = b]
<1>1. c \in Nat /\ c < PIPESIZE /\ Dist(r, Succ(w)) = c + 1  BY Counting, PipeAssumption
<1>2. r \in Nat  BY DEF Counter
<1>3. Slot(w) \in 0 .. PIPESIZE - 1 /\ Slot(r + c) = Slot(w)  BY Slots
<1> HIDE DEF c
<1>4. e \in [0 .. PIPESIZE - 1 -> Byte] /\ e[Slot(w)] = b
      /\ \A s \in 0 .. PIPESIZE - 1 : s # Slot(w) => e[s] = d[s]
  BY <1>3
<1> HIDE DEF e
<1>5. /\ Contents(d, r, c) \in Seq(Byte) /\ Len(Contents(d, r, c)) = c
      /\ \A k \in 1 .. c : Contents(d, r, c)[k] = d[Slot(r + k - 1)]
  BY <1>1, <1>2, ContentsSeq, Zenon
<1>6. /\ Contents(e, r, c + 1) \in Seq(Byte) /\ Len(Contents(e, r, c + 1)) = c + 1
      /\ \A k \in 1 .. c + 1 : Contents(e, r, c + 1)[k] = e[Slot(r + k - 1)]
  <2>1. c + 1 \in Nat  BY <1>1
  <2> QED  BY <2>1, <1>2, <1>4, ContentsSeq, Zenon
<1>7. /\ Append(Contents(d, r, c), b) \in Seq(Byte)
      /\ Len(Append(Contents(d, r, c), b)) = c + 1
      /\ \A k \in 1 .. c : Append(Contents(d, r, c), b)[k] = Contents(d, r, c)[k]
      /\ Append(Contents(d, r, c), b)[c + 1] = b
  BY <1>5, AppendProperties
<1>8. ASSUME NEW k \in 1 .. c + 1
      PROVE  Contents(e, r, c + 1)[k] = Append(Contents(d, r, c), b)[k]
  <2>1. CASE k = c + 1
    <3>1. r + k - 1 = r + c  BY <1>1, <1>2, <2>1
    <3>2. Contents(e, r, c + 1)[k] = e[Slot(w)]  BY <1>3, <1>6, <3>1
    <3> QED  BY <3>2, <1>4, <1>7, <2>1
  <2>2. CASE k \in 1 .. c
    <3> DEFINE a == r + k - 1
               x == c - k + 1
    <3>1. a \in Nat /\ x \in 1 .. PIPESIZE - 1 /\ a + x = r + c
      BY <1>1, <1>2, <2>2, PipeAssumption
    <3>2. Slot(a) # Slot(w)
      <4> HIDE DEF a, x
      <4>1. Slot(a + x) # Slot(a)  BY <3>1, SlotsDiffer
      <4> QED  BY <3>1, <4>1, <1>3
    <3>3. Slot(a) \in 0 .. PIPESIZE - 1  BY <3>1, PipeAssumption DEF Slot
    <3>4. e[Slot(a)] = d[Slot(a)]  BY <3>2, <3>3, <1>4
    <3> QED  BY <3>4, <2>2, <1>5, <1>6, <1>7
  <2>3. k = c + 1 \/ k \in 1 .. c  BY <1>1
  <2> QED  BY <2>1, <2>2, <2>3, Zenon
<1>9. Contents(e, r, c + 1) = Append(Contents(d, r, c), b)  BY <1>6, <1>7, <1>8, SeqEqual
<1> QED  BY <1>1, <1>9, Zenon DEF c, e

\* Moving nread on takes the first byte off the queue.
LEMMA GetTakes ==
  ASSUME NEW d \in [0 .. PIPESIZE - 1 -> Byte],
         NEW r \in Counter, NEW w \in Counter, Dist(r, w) <= PIPESIZE, r # w
  PROVE  /\ Contents(d, r, Dist(r, w)) # <<>>
         /\ Contents(d, Succ(r), Dist(Succ(r), w)) = Tail(Contents(d, r, Dist(r, w)))
<1> DEFINE c == Dist(r, w)
           t == Contents(d, r, c)
           u == Contents(d, Succ(r), c - 1)
<1>1. c \in Nat \ {0} /\ Dist(Succ(r), w) = c - 1 /\ Succ(r) \in Counter
  BY Counting, PipeAssumption
<1>2. r \in Nat /\ Succ(r) \in Nat /\ c - 1 \in Nat  BY <1>1 DEF Counter
<1>3. \A k \in Nat : Slot(Succ(r) + k) = Slot(r + k + 1)  BY Slots
<1> HIDE DEF c
<1>4. t \in Seq(Byte) /\ Len(t) = c /\ \A k \in 1 .. c : t[k] = d[Slot(r + k - 1)]
  BY <1>1, <1>2, ContentsSeq, Zenon
<1>5. u \in Seq(Byte) /\ Len(u) = c - 1 /\ \A k \in 1 .. c - 1 : u[k] = d[Slot(Succ(r) + k - 1)]
  BY <1>2, ContentsSeq, Zenon
<1> HIDE DEF t, u
<1>6. t # <<>>  BY <1>1, <1>4
<1>7. Tail(t) \in Seq(Byte) /\ Len(Tail(t)) = c - 1 /\ \A k \in 1 .. c - 1 : Tail(t)[k] = t[k + 1]
  BY <1>1, <1>4, <1>6, HeadTailProperties
<1>8. ASSUME NEW k \in 1 .. c - 1 PROVE u[k] = Tail(t)[k]
  <2>1. k - 1 \in Nat /\ k + 1 \in 1 .. c /\ Succ(r) + k - 1 = Succ(r) + (k - 1)
        /\ r + (k - 1) + 1 = r + (k + 1) - 1
    BY <1>1, <1>2
  <2>2. u[k] = d[Slot(Succ(r) + (k - 1))]  BY <1>5, <2>1
  <2>3. Tail(t)[k] = d[Slot(r + (k + 1) - 1)]  BY <1>4, <1>7, <2>1
  <2>4. Slot(Succ(r) + (k - 1)) = Slot(r + (k - 1) + 1)  BY <1>3, <2>1
  <2> QED  BY <2>1, <2>2, <2>3, <2>4, Zenon
<1>9. u = Tail(t)  BY <1>5, <1>7, <1>8, SeqEqual
<1> QED  BY <1>1, <1>6, <1>9 DEF c, t, u

\* The refinement mapping: the bytes from nread to nwrite.
LEMMA QueueIs == Queue = Contents(data, nread, Dist(nread, nwrite))
BY DEF Queue, Count, Contents, Dist, Slot

\* A step that changes neither the ring nor the flags is one the queue does not see.
LEMMA QueueKept ==
  ASSUME UNCHANGED <<data, nread, nwrite, readopen, writeopen>>
  PROVE  UNCHANGED Abstract!vars
BY DEF Abstract!vars, Queue, Count

\* The initial states are those of the queue.
LEMMA FifoInit == Init => Abstract!Init
<1> SUFFICES ASSUME Init PROVE Abstract!Init  OBVIOUS
<1>1. nread = 0 /\ nwrite = 0 /\ readopen = TRUE /\ writeopen = TRUE  BY DEF Init
<1>2. 0 \in Counter  BY PipeAssumption DEF Counter
<1>3. Count = 0
  <2>1. Dist(0, 0) = 0  BY <1>2, ByCases
  <2> QED  BY <1>1, <2>1 DEF Count, Dist
<1>4. Queue = <<>>  BY <1>3 DEF Queue
<1> QED  BY <1>1, <1>4 DEF Abstract!Init

\* Every step is a step of the queue or leaves it alone.
LEMMA FifoNext == Inv1 /\ EndInv /\ [Next]_vars => [Abstract!Next]_(Abstract!vars)
<1> SUFFICES ASSUME Inv1, EndInv, [Next]_vars PROVE [Abstract!Next]_(Abstract!vars)  OBVIOUS
<1> DEFINE Goal == [Abstract!Next]_(Abstract!vars)
<1>0. /\ data \in [0 .. PIPESIZE - 1 -> Byte]
      /\ nread \in Counter /\ nwrite \in Counter /\ Dist(nread, nwrite) <= PIPESIZE
      /\ readopen \in BOOLEAN /\ writeopen \in BOOLEAN
  BY DEF Inv1, TypeInv, TypeOK, Counter, Dist
<1>1. ASSUME NEW p \in Proc, pipealloc(p) PROVE Goal
  <2>1. /\ nread' = 0 /\ nwrite' = 0 /\ readopen' = TRUE /\ writeopen' = TRUE /\ freed > 0
    BY <1>1 DEF pipealloc
  <2>2. ~readopen /\ ~writeopen  BY <2>1 DEF EndInv
  <2>3. 0 \in Counter  BY PipeAssumption DEF Counter
  <2>4. Count' = 0
    <3>1. Dist(0, 0) = 0  BY <2>3, ByCases
    <3> QED  BY <2>1, <3>1 DEF Count, Dist
  <2>5. Queue' = <<>>  BY <2>4 DEF Queue
  <2>6. Abstract!Renew  BY <2>1, <2>2, <2>5 DEF Abstract!Renew
  <2> QED  BY <2>6 DEF Abstract!Next
<1>2. ASSUME NEW p \in Proc, pipeclose(p) PROVE Goal
  <2>1. UNCHANGED Queue  BY <1>2 DEF pipeclose, ring, Queue, Count
  <2>2. CASE pc[p] = "close_w"
    <3>1. writeopen /\ writeopen' = FALSE /\ readopen' = readopen
      BY <1>2, <2>2, Zenon DEF pipeclose, EndInv
    <3>2. Abstract!CloseWrite  BY <2>1, <3>1 DEF Abstract!CloseWrite
    <3> QED  BY <3>2 DEF Abstract!Next
  <2>3. CASE pc[p] = "close_r"
    <3>1. readopen /\ readopen' = FALSE /\ writeopen' = writeopen
      BY <1>2, <2>3, Zenon DEF pipeclose, EndInv
    <3>2. Abstract!CloseRead  BY <2>1, <3>1 DEF Abstract!CloseRead
    <3> QED  BY <3>2 DEF Abstract!Next
  <2> QED  BY <1>2, <2>2, <2>3 DEF pipeclose
<1>3. ASSUME NEW p \in Proc, pipewrite_put(p) PROVE Goal
  <2>1. PICK b \in Byte : data' = [data EXCEPT ![nwrite % PIPESIZE] = b]
    BY <1>3, Zenon DEF pipewrite_put
  <2>2. /\ pc[p] = "w_loop" /\ nwrite # Past(nread)
        /\ nwrite' = Succ(nwrite) /\ UNCHANGED <<nread, readopen, writeopen>>
    BY <1>3 DEF pipewrite_put, Full, Past, Succ, ends
  <2>3. writeopen  BY <2>2, Zenon DEF Inv1, CallInv, EndInv, Writing
  <2>4. data' = [data EXCEPT ![Slot(nwrite)] = b]  BY <2>1 DEF Slot
  <2>5. Queue' = Contents(data', nread', Dist(nread', nwrite'))
    BY DEF Queue, Count, Contents, Dist, Slot
  <2>6. Queue' = Append(Queue, b)  BY <1>0, <2>2, <2>4, <2>5, QueueIs, PutAppends, Zenon
  <2>7. Len(Queue) < PIPESIZE
    <3>1. Dist(nread, nwrite) \in 0 .. PIPESIZE /\ Dist(nread, nwrite) # PIPESIZE /\ nread \in Nat
      BY <1>0, <2>2, Counting DEF Counter
    <3>2. Dist(nread, nwrite) \in Nat /\ Dist(nread, nwrite) < PIPESIZE  BY <3>1, PipeAssumption
    <3>3. Len(Contents(data, nread, Dist(nread, nwrite))) = Dist(nread, nwrite)
      BY <1>0, <3>1, <3>2, ContentsSeq
    <3> QED  BY <3>2, <3>3, QueueIs
  <2>8. Abstract!Put  BY <2>2, <2>3, <2>6, <2>7 DEF Abstract!Put
  <2> QED  BY <2>8 DEF Abstract!Next
<1>4. ASSUME NEW p \in Proc, piperead_get(p) PROVE Goal
  <2>1. /\ pc[p] = "r_copy" /\ nread # nwrite
        /\ nread' = Succ(nread) /\ UNCHANGED <<data, nwrite, readopen, writeopen>>
    BY <1>4 DEF piperead_get, Empty, Succ, ends
  <2>2. readopen  BY <2>1, Zenon DEF Inv1, CallInv, EndInv, Reading
  <2>3. Queue' = Contents(data', nread', Dist(nread', nwrite'))
    BY DEF Queue, Count, Contents, Dist, Slot
  <2>4. Queue # <<>> /\ Queue' = Tail(Queue)  BY <1>0, <2>1, <2>3, QueueIs, GetTakes
  <2>5. Abstract!Get  BY <2>1, <2>2, <2>4 DEF Abstract!Get
  <2> QED  BY <2>5 DEF Abstract!Next
<1>5. ASSUME UNCHANGED <<data, nread, nwrite, readopen, writeopen>> PROVE Goal
  BY <1>5, QueueKept
<1> HIDE DEF Goal
<1>6. ASSUME NEW p \in Proc, NEW x \in Proc, filedup(p, x) PROVE Goal
  BY <1>5, <1>6 DEF filedup, ring, ends
<1>7. ASSUME NEW p \in Proc, NEW e \in End, fileclose(p, e) PROVE Goal
  BY <1>5, <1>7 DEF fileclose, ring, ends
<1>8. ASSUME NEW p \in Proc, kill(p) PROVE Goal
  BY <1>5, <1>8 DEF kill, ring, ends
<1>9. ASSUME NEW p \in Proc, NEW len \in Length, pipewrite(p, len) \/ piperead(p, len) PROVE Goal
  BY <1>5, <1>9 DEF pipewrite, piperead, ring, ends
<1>10. ASSUME NEW p \in Proc, acquire(p) \/ sleep(p) PROVE Goal
  BY <1>5, <1>10 DEF acquire, sleep, ring, ends
<1>11. ASSUME NEW p \in Proc, pipewrite_fail(p) \/ pipewrite_full(p) \/ pipewrite_done(p) PROVE Goal
  BY <1>5, <1>11 DEF pipewrite_fail, pipewrite_full, pipewrite_done, ring, ends
<1>12. ASSUME NEW p \in Proc, piperead_fail(p) \/ piperead_test(p) \/ piperead_done(p) PROVE Goal
  BY <1>5, <1>12, Zenon DEF piperead_fail, piperead_test, piperead_done, ring, ends
<1>13. ASSUME UNCHANGED vars PROVE Goal
  BY <1>5, <1>13 DEF vars, ring, ends
<1>14. Goal
  BY <1>1, <1>2, <1>3, <1>4, <1>6, <1>7, <1>8, <1>9, <1>10, <1>11, <1>12, <1>13
     DEF Next, HolderStep
<1> QED  BY <1>14 DEF Goal

\* The ring buffer with its two wrapping counters, the locks, the sleeps and the
\* reference counts implement a first-in first-out queue with two ends: pipe.c
\* never loses, repeats or reorders a byte, whatever PIPESIZE and UMAX are.
THEOREM ImplementsFifo == Spec => IsFifo
<1>1. Init => Inv1 /\ EndInv  BY Inv1Init, EndInvInit
<1>2. Inv1 /\ EndInv /\ [Next]_vars => Inv1' /\ EndInv'  BY Inv1Next, EndInvNext
<1> QED  BY <1>1, <1>2, FifoInit, FifoNext, PTL DEF Spec, IsFifo, Abstract!Spec
=============================================================================
