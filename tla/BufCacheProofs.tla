--------------------------- MODULE BufCacheProofs ---------------------------
(***************************************************************************)
(* Proofs about module BufCache, for any number of processes, buffers and  *)
(* sectors, with any number of buffers held at once by a process: no       *)
(* sleeper is forgotten, no circle of processes waits for each other, the  *)
(* drive answers the request it was given, and the cache implements        *)
(* Blocks, one value and one holder for each sector.                       *)
(***************************************************************************)
EXTENDS BufCache, SequenceTheorems, FiniteSetTheorems, WellFoundedInduction, TLAPS

\* What the model takes of its constants: the markers are no sector, no value,
\* and the ranks are numbers.
Ranked == Rank \in [Sector -> Nat]
Params == NBUF \in Nat /\ NoSector \notin Sector /\ Lost \notin Val /\ Ranked

Status == {"idle", "busy", "done", "error"}

\* Types; the list has every buffer.
TypeInv ==
  /\ lru \in [Buf -> Buf] /\ IsInjective(lru)
  /\ \A x \in Buf : \E k \in Buf : lru[k] = x
  /\ sector \in [Buf -> Sector \cup {NoSector}] /\ data \in [Buf -> Val]
  /\ busy \subseteq Buf /\ valid \subseteq Buf /\ dirty \subseteq Buf
  /\ idequeue \in Seq(Buf)
  /\ disk \in [Sector -> Val] /\ failed \subseteq Sector
  /\ drive \in [st : Status, wr : BOOLEAN, s : Sector \cup {NoSector}, v : Val \cup {Lost}]
  /\ pc \in [Handle -> {"user", "bget", "bget_sleep", "panic"} \cup Holding]
  /\ b \in [Handle -> Buf \cup {0}] /\ want \in [Handle -> Sector \cup {NoSector}]

\* B_BUSY is the lock of a buffer: it is held by exactly one process, which has
\* the sector it asked for.
HoldInv ==
  /\ \A p \in Handle : pc[p] \in {"bget", "bget_sleep"} => want[p] \in Sector
  /\ \A p \in Handle : pc[p] \in Holding =>
       want[p] \in Sector /\ b[p] \in busy /\ sector[b[p]] = want[p]
  /\ \A p, q \in Handle : pc[p] \in Holding /\ pc[q] \in Holding /\ b[p] = b[q] => p = q
  /\ \A x \in busy : \E p \in Handle : pc[p] \in Holding /\ b[p] = x
  /\ \A p \in Handle : pc[p] = "bget_sleep" => b[p] \in busy /\ sector[b[p]] = want[p]

\* A sector is in one buffer; what the log pins has been read.
BufInv ==
  /\ \A x, y \in Buf : sector[x] = sector[y] /\ sector[x] \in Sector => x = y
  /\ \A x \in valid : sector[x] \in Sector
  /\ dirty \subseteq valid

\* A buffer has something to transfer exactly while its request is to be made
\* or in the queue, and each request has one process that sleeps for it.
Pending(x) == x \notin valid \ dirty
QueueInv ==
  /\ IsInjective(idequeue)
  /\ \A i \in 1 .. Len(idequeue) :
       /\ Pending(idequeue[i])
       /\ \E p \in Handle : pc[p] = "io_sleep" /\ b[p] = idequeue[i]
  /\ \A p \in Handle :
       /\ pc[p] = "io_sleep" => \E i \in 1 .. Len(idequeue) : idequeue[i] = b[p]
       /\ pc[p] = "iderw" => Pending(b[p])
       /\ pc[p] = "io_woken" => ~Pending(b[p])
       /\ pc[p] = "held" => b[p] \in valid

\* What the drive is told, and what it has done, is what the head of the queue
\* asks for.
DriveInv ==
  /\ drive.st = "idle" <=> idequeue = <<>>
  /\ idequeue # <<>> =>
       /\ drive.s = sector[idequeue[1]]
       /\ drive.wr <=> idequeue[1] \in dirty
       /\ drive.wr => drive.v = data[idequeue[1]] \/ drive.st = "error"
  /\ drive.st = "done" => drive.v = disk[drive.s]
  /\ drive.st = "error" => drive.s \in failed

\* A clean buffer agrees with the disk, unless the drive failed.
CleanInv == \A x \in valid \ dirty : sector[x] \in failed \/ data[x] = disk[sector[x]]

\* A process is inside bread or bwrite with one handle, and asks for a sector of
\* lower rank than those it holds.
NestInv ==
  \A p, q \in Handle : p # q /\ Owner[p] = Owner[q] /\ pc[p] \notin {"user", "held"} =>
    /\ pc[q] \in {"user", "held"}
    /\ pc[p] \in {"bget", "bget_sleep"} /\ pc[q] = "held" => Rank[want[p]] < Rank[want[q]]

Inv == TypeInv /\ HoldInv /\ BufInv /\ QueueInv /\ DriveInv /\ CleanInv /\ NestInv

-----------------------------------------------------------------------------
\* A set of numbers up to n that is not empty has a greatest one.
LEMMA Greatest ==
  ASSUME NEW n \in Nat, NEW T, T \subseteq 1 .. n, T # {}
  PROVE  \E k \in T : \A j \in T : j <= k
<1> DEFINE U == {n - k : k \in T}
<1>1. U \subseteq Nat /\ U # {}
  <2>1. ASSUME NEW k \in T PROVE n - k \in Nat
    <3>1. k \in 1 .. n  OBVIOUS
    <3> QED  BY <3>1
  <2> QED  BY <2>1, Zenon
<1>2. PICK u \in U : \A v \in U : ~(<<v, u>> \in OpToRel(<, Nat))
  <2> HIDE DEF U
  <2> QED  BY <1>1, NatLessThanWellFounded, WFMin, Zenon
<1>3. PICK k \in T : u = n - k  OBVIOUS
<1>4. ASSUME NEW j \in T PROVE j <= k
  <2>1. n - j \in U  OBVIOUS
  <2>2. ~(n - j < n - k)
    <3>1. ~(<<n - j, u>> \in OpToRel(<, Nat))  BY <1>2, <2>1, Zenon
    <3>2. n - j \in Nat /\ n - k \in Nat  OBVIOUS
    <3> QED  BY <1>3, <3>1, <3>2 DEF OpToRel
  <2>3. j \in 1 .. n /\ k \in 1 .. n  OBVIOUS
  <2> HIDE DEF U
  <2> QED  BY <2>2, <2>3
<1> QED  BY <1>3, <1>4, Zenon

\* Taking an element out of its place in a list of all of 1 .. n and putting it
\* first gives a list of all of 1 .. n again.
Whole(l, n) == l \in [1 .. n -> 1 .. n] /\ IsInjective(l) /\ \A x \in 1 .. n : \E k \in 1 .. n : l[k] = x

\* brelse puts a buffer in front of the others: the list still has each buffer once.
LEMMA MovedToFront ==
  ASSUME NEW n \in Nat, NEW l, Whole(l, n), NEW x \in 1 .. n
  PROVE  Whole(<<x>> \o Without(l, CHOOSE k \in 1 .. n : l[k] = x), n)
<1> DEFINE k == CHOOSE j \in 1 .. n : l[j] = x
<1>a. /\ l \in [1 .. n -> 1 .. n] /\ \A y \in 1 .. n : \E j \in 1 .. n : l[j] = y
      /\ \A i, j \in 1 .. n : l[i] = l[j] => i = j
  BY DEF Whole, IsInjective
<1>1. k \in 1 .. n /\ l[k] = x  BY <1>a
<1> HIDE DEF k
<1> DEFINE m == [i \in 1 .. n |-> IF i = 1 THEN x ELSE IF i <= k THEN l[i - 1] ELSE l[i]]
<1>2. l \in Seq(1 .. n) /\ Len(l) = n  BY <1>a
<1>3. /\ SubSeq(l, 1, k - 1) \in Seq(1 .. n) /\ Len(SubSeq(l, 1, k - 1)) = k - 1
      /\ \A i \in 1 .. k - 1 : SubSeq(l, 1, k - 1)[i] = l[i]
  <2>1. \A i \in 1 .. k - 1 : l[i] \in 1 .. n  BY <1>a, <1>1, SMTT(30)
  <2>2. 1 \in Int /\ k - 1 \in Int  BY <1>1
  <2>3. /\ SubSeq(l, 1, k - 1) \in Seq(1 .. n)
        /\ Len(SubSeq(l, 1, k - 1)) = IF 1 <= k - 1 THEN (k - 1) - 1 + 1 ELSE 0
        /\ \A i \in 1 .. (k - 1) - 1 + 1 : SubSeq(l, 1, k - 1)[i] = l[1 + i - 1]
    BY <2>1, <2>2, SubSeqProperties
  <2>4. (k - 1) - 1 + 1 = k - 1 /\ \A i \in 1 .. k - 1 : 1 + i - 1 = i  BY <1>1
  <2> QED  BY <1>1, <2>3, <2>4
<1>4. /\ SubSeq(l, k + 1, n) \in Seq(1 .. n) /\ Len(SubSeq(l, k + 1, n)) = n - k
      /\ \A i \in 1 .. n - k : SubSeq(l, k + 1, n)[i] = l[k + i]
  <2>1. \A i \in k + 1 .. n : l[i] \in 1 .. n  BY <1>a, <1>1, SMTT(30)
  <2>2. k + 1 \in Int /\ n \in Int  BY <1>1
  <2>3. /\ SubSeq(l, k + 1, n) \in Seq(1 .. n)
        /\ Len(SubSeq(l, k + 1, n)) = IF k + 1 <= n THEN n - (k + 1) + 1 ELSE 0
        /\ \A i \in 1 .. n - (k + 1) + 1 : SubSeq(l, k + 1, n)[i] = l[(k + 1) + i - 1]
    BY <2>1, <2>2, SubSeqProperties
  <2>4. n - (k + 1) + 1 = n - k /\ \A i \in 1 .. n - k : (k + 1) + i - 1 = k + i  BY <1>1
  <2> QED  BY <1>1, <2>3, <2>4
<1>5. /\ Without(l, k) \in Seq(1 .. n) /\ Len(Without(l, k)) = n - 1
      /\ \A i \in 1 .. n - 1 : Without(l, k)[i] = IF i < k THEN l[i] ELSE l[i + 1]
  <2> DEFINE c == SubSeq(l, 1, k - 1) \o SubSeq(l, k + 1, n)
  <2>1. Without(l, k) = c  BY <1>2 DEF Without
  <2>2. /\ c \in Seq(1 .. n) /\ Len(c) = (k - 1) + (n - k)
        /\ \A i \in 1 .. (k - 1) + (n - k) :
             c[i] = IF i <= k - 1 THEN SubSeq(l, 1, k - 1)[i] ELSE SubSeq(l, k + 1, n)[i - (k - 1)]
    <3>1. ASSUME NEW s1 \in Seq(1 .. n), NEW s2 \in Seq(1 .. n), Len(s1) = k - 1, Len(s2) = n - k
          PROVE  /\ s1 \o s2 \in Seq(1 .. n) /\ Len(s1 \o s2) = (k - 1) + (n - k)
                 /\ \A i \in 1 .. (k - 1) + (n - k) :
                      (s1 \o s2)[i] = IF i <= k - 1 THEN s1[i] ELSE s2[i - (k - 1)]
      <4>1. /\ s1 \o s2 \in Seq(1 .. n) /\ Len(s1 \o s2) = Len(s1) + Len(s2)
            /\ \A i \in 1 .. Len(s1) + Len(s2) :
                 (s1 \o s2)[i] = IF i <= Len(s1) THEN s1[i] ELSE s2[i - Len(s1)]
        BY ConcatProperties
      <4> QED  BY <3>1, <4>1
    <3> QED  BY <1>3, <1>4, <3>1, SMTT(30)
  <2>3. (k - 1) + (n - k) = n - 1  BY <1>1
  <2>4. ASSUME NEW i \in 1 .. n - 1 PROVE c[i] = IF i < k THEN l[i] ELSE l[i + 1]
    <3>1. CASE i < k
      <4>1. c[i] = SubSeq(l, 1, k - 1)[i] /\ i \in 1 .. k - 1  BY <1>1, <2>2, <2>3, <3>1
      <4> QED  BY <1>3, <3>1, <4>1
    <3>2. CASE ~(i < k)
      <4>a. i \in 1 .. (k - 1) + (n - k) /\ ~(i <= k - 1) /\ i - (k - 1) \in 1 .. n - k
        BY <1>1, <3>2
      <4>1. c[i] = SubSeq(l, k + 1, n)[i - (k - 1)] /\ i - (k - 1) \in 1 .. n - k
        BY <2>2, <4>a, Zenon
      <4>2. k + (i - (k - 1)) = i + 1  BY <1>1
      <4> QED  BY <1>4, <3>2, <4>1, <4>2, Zenon
    <3> QED  BY <3>1, <3>2, Zenon
  <2> HIDE DEF c
  <2> QED  BY <2>1, <2>2, <2>3, <2>4
<1>6. <<x>> \o Without(l, k) = m
  <2> DEFINE d == <<x>> \o Without(l, k)
  <2>1. /\ d \in Seq(1 .. n) /\ Len(d) = 1 + (n - 1)
        /\ \A i \in 1 .. 1 + (n - 1) : d[i] = IF i <= 1 THEN <<x>>[i] ELSE Without(l, k)[i - 1]
    <3>1. <<x>> \in Seq(1 .. n) /\ Len(<<x>>) = 1  OBVIOUS
    <3> QED  BY <1>5, <3>1, ConcatProperties
  <2>2. 1 + (n - 1) = n  OBVIOUS
  <2>3. ASSUME NEW i \in 1 .. n PROVE d[i] = m[i]
    <3>1. CASE i = 1  BY <2>1, <2>2, <3>1
    <3>2. CASE i # 1
      <4>1. d[i] = Without(l, k)[i - 1] /\ i - 1 \in 1 .. n - 1  BY <2>1, <2>2, <3>2
      <4>2. Without(l, k)[i - 1] = IF i - 1 < k THEN l[i - 1] ELSE l[(i - 1) + 1]  BY <1>5, <4>1, SMTT(30)
      <4>3. (i - 1) + 1 = i /\ (i - 1 < k <=> i <= k)  BY <1>1
      <4>4. m[i] = IF i <= k THEN l[i - 1] ELSE l[i]  BY <3>2
      <4> HIDE DEF d, m
      <4> QED  BY <4>1, <4>2, <4>3, <4>4
    <3> QED  BY <3>1, <3>2, Zenon
  <2>4. DOMAIN d = 1 .. n /\ d = [i \in 1 .. n |-> d[i]]
    <3> HIDE DEF d
    <3> QED  BY <2>1, <2>2
  <2>5. m = [i \in 1 .. n |-> m[i]]  OBVIOUS
  <2> HIDE DEF d, m
  <2>6. [i \in 1 .. n |-> d[i]] = [i \in 1 .. n |-> m[i]]  BY <2>3
  <2> QED  BY <2>4, <2>5, <2>6, Zenon DEF d
<1>b. ASSUME NEW i \in 1 .. n
      PROVE  /\ i = 1 => m[i] = x
             /\ i # 1 /\ i <= k => m[i] = l[i - 1] /\ i - 1 \in 1 .. n /\ i - 1 # k
             /\ ~(i <= k) => m[i] = l[i] /\ i # k
  BY <1>1
<1>7. m \in [1 .. n -> 1 .. n]
  <2>1. \A i \in 1 .. n : m[i] \in 1 .. n  BY <1>a, <1>b
  <2>2. m = [i \in 1 .. n |-> m[i]]  OBVIOUS
  <2> HIDE DEF m
  <2> QED  BY <2>1, <2>2
<1>8. ASSUME NEW i \in 1 .. n, NEW j \in 1 .. n, m[i] = m[j] PROVE i = j
  <2> HIDE DEF m
  <2>a. \A u \in 1 .. n : u # 1 => m[u] # x
    <3> SUFFICES ASSUME NEW u \in 1 .. n, u # 1, m[u] = l[k] PROVE FALSE  BY <1>1
    <3>1. CASE u <= k
      <4>1. m[u] = l[u - 1] /\ u - 1 \in 1 .. n /\ u - 1 # k  BY <1>b, <3>1
      <4> QED  BY <1>a, <1>1, <4>1, Zenon
    <3>2. CASE ~(u <= k)
      <4>1. m[u] = l[u] /\ u # k  BY <1>b, <3>2
      <4> QED  BY <1>a, <1>1, <4>1, Zenon
    <3> QED  BY <3>1, <3>2
  <2>1. i = 1 => j = 1  BY <1>b, <1>8, <2>a
  <2>2. j = 1 => i = 1  BY <1>b, <1>8, <2>a
  <2>3. ASSUME i # 1, j # 1 PROVE i = j
    <3>1. CASE i <= k /\ j <= k
      <4>1. l[i - 1] = l[j - 1] /\ i - 1 \in 1 .. n /\ j - 1 \in 1 .. n  BY <1>b, <1>8, <2>3, <3>1
      <4>2. i - 1 = j - 1  BY <1>a, <4>1
      <4> QED  BY <4>2
    <3>2. CASE i <= k /\ ~(j <= k)
      <4>1. l[i - 1] = l[j] /\ i - 1 \in 1 .. n  BY <1>b, <1>8, <2>3, <3>2
      <4>2. i - 1 = j  BY <1>a, <4>1
      <4> QED  BY <1>1, <3>2, <4>2
    <3>3. CASE ~(i <= k) /\ j <= k
      <4>1. l[i] = l[j - 1] /\ j - 1 \in 1 .. n  BY <1>b, <1>8, <2>3, <3>3
      <4>2. i = j - 1  BY <1>a, <4>1
      <4> QED  BY <1>1, <3>3, <4>2
    <3>4. CASE ~(i <= k) /\ ~(j <= k)  BY <1>a, <1>b, <1>8, <3>4, ZenonT(40)
    <3> QED  BY <3>1, <3>2, <3>3, <3>4
  <2> QED  BY <2>1, <2>2, <2>3
<1>9. ASSUME NEW y \in 1 .. n PROVE \E i \in 1 .. n : m[i] = y
  <2>1. PICK j \in 1 .. n : l[j] = y  BY <1>a
  <2>2. CASE j = k  BY <1>1, <2>1, <2>2
  <2>3. CASE j < k
    <3>1. j + 1 \in 1 .. n /\ j + 1 # 1 /\ j + 1 <= k /\ (j + 1) - 1 = j  BY <1>1, <2>3
    <3>2. m[j + 1] = l[j]  BY <3>1
    <3> QED  BY <2>1, <3>1, <3>2
  <2>4. CASE j > k
    <3>1. m[j] = l[j]  BY <1>1, <2>4
    <3> QED  BY <2>1, <3>1
  <2> QED  BY <1>1, <2>2, <2>3, <2>4
<1>c. IsInjective(m)
  <2>1. DOMAIN m = 1 .. n  OBVIOUS
  <2> HIDE DEF m
  <2> QED  BY <1>8, <2>1 DEF IsInjective
<1>d. Whole(m, n)
  <2> HIDE DEF m
  <2> QED  BY <1>7, <1>9, <1>c, Zenon DEF Whole
<1> HIDE DEF m
<1> QED  BY <1>6, <1>d, Zenon DEF k

\* What bget recycles is a buffer, neither busy nor dirty.
LEMMA Recycles ==
  ASSUME Params, TypeInv, NEW p \in Handle, bget_recycle(p)
  PROVE  \E x \in Buf \ (busy \cup dirty) :
           /\ pc[p] = "bget" /\ Cached(want[p]) = {}
           /\ sector' = [sector EXCEPT ![x] = want[p]]
           /\ valid' = valid \ {x} /\ dirty' = dirty /\ busy' = busy \cup {x}
           /\ b' = [b EXCEPT ![p] = x] /\ pc' = [pc EXCEPT ![p] = "iderw"]
           /\ UNCHANGED <<lru, data, hw, want>>
<1> DEFINE free == {k \in Buf : lru[k] \notin busy \cup dirty}
           last == CHOOSE k \in free : \A j \in free : j <= k
<1>1. free # {}  BY DEF bget_recycle, Recycle
<1>2. last \in free
  <2>1. free \subseteq 1 .. NBUF /\ NBUF \in Nat  BY DEF Buf, Params
  <2>2. \E k \in free : \A j \in free : j <= k
    <3> HIDE DEF free
    <3> QED  BY <1>1, <2>1, Greatest, Zenon
  <2> HIDE DEF free
  <2> QED  BY <2>2
<1>3. lru[last] \in Buf \ (busy \cup dirty)
  <2> HIDE DEF last
  <2> QED  BY <1>2 DEF TypeInv
<1>4. /\ pc[p] = "bget" /\ Cached(want[p]) = {}
      /\ sector' = [sector EXCEPT ![lru[last]] = want[p]]
      /\ valid' = valid \ {lru[last]} /\ dirty' = dirty \ {lru[last]} /\ busy' = busy \cup {lru[last]}
      /\ b' = [b EXCEPT ![p] = lru[last]] /\ pc' = [pc EXCEPT ![p] = "iderw"]
      /\ UNCHANGED <<lru, data, hw, want>>
  BY DEF bget_recycle, Recycle, Take, Goto
<1>5. dirty \ {lru[last]} = dirty
  <2> HIDE DEF last
  <2> QED  BY <1>3
<1> HIDE DEF last
<1> QED  BY <1>3, <1>4, <1>5, Zenon

\* The types hold at the start.
LEMMA TypeInit == ASSUME Params, Init PROVE TypeInv
<1> USE DEF Params, Init, Buf
<1>1. lru \in [Buf -> Buf] /\ IsInjective(lru)  BY DEF IsInjective
<1>2. ASSUME NEW x \in Buf PROVE \E k \in Buf : lru[k] = x
  <2>1. NBUF + 1 - x \in Buf /\ NBUF + 1 - (NBUF + 1 - x) = x  OBVIOUS
  <2> QED  BY <2>1
<1>3. drive \in [st : Status, wr : BOOLEAN, s : Sector \cup {NoSector}, v : Val \cup {Lost}]
  BY DEF Idle, Status
<1>4. idequeue \in Seq(Buf) /\ data \in [Buf -> Val]  OBVIOUS
<1> QED  BY <1>1, <1>2, <1>3, <1>4 DEF TypeInv, Holding

\* Every step keeps the types.
LEMMA TypeNext == ASSUME Params, TypeInv, HoldInv, QueueInv, DriveInv, [Next]_vars PROVE TypeInv'
<1> USE DEF Params, TypeInv, flags, hw, Goto, Holding
<1> DEFINE PC == {"user", "bget", "bget_sleep", "panic"} \cup Holding
<1>a. ASSUME NEW x PROVE Woken(x) \in [Handle -> PC]  BY DEF Woken
<1>b. ASSUME NEW x \in Buf, sector[x] \in Sector
      PROVE  Command(x) \in [st : Status, wr : BOOLEAN, s : Sector \cup {NoSector}, v : Val \cup {Lost}]
  BY <1>b DEF Command, Status
<1>1. ASSUME NEW p \in Handle, NEW s \in Sector, bread(p, s) PROVE TypeInv'
  BY <1>1 DEF bread
<1>2. ASSUME NEW p \in Handle, bget_hit(p) PROVE TypeInv'
  BY <1>2 DEF bget_hit, Take, Cached
<1>3. ASSUME NEW p \in Handle, bget_sleep(p) PROVE TypeInv'
  BY <1>3 DEF bget_sleep, Cached
<1>4. ASSUME NEW p \in Handle, bget_recycle(p) PROVE TypeInv'
  <2>1. PICK x \in Buf \ (busy \cup dirty) :
           /\ sector' = [sector EXCEPT ![x] = want[p]]
           /\ valid' = valid \ {x} /\ dirty' = dirty /\ busy' = busy \cup {x}
           /\ b' = [b EXCEPT ![p] = x] /\ pc' = [pc EXCEPT ![p] = "iderw"]
           /\ UNCHANGED <<lru, data, hw, want>>
    BY <1>4, Recycles
  <2> QED  BY <2>1
<1>5. ASSUME NEW p \in Handle, bget_panic(p) PROVE TypeInv'
  BY <1>5 DEF bget_panic, NoBuffer
<1>6. ASSUME NEW p \in Handle, NEW v \in Val, bwrite(p, v) PROVE TypeInv'
  <2>1. b[p] \in Buf  BY <1>6 DEF bwrite, HoldInv
  <2> QED  BY <1>6, <2>1 DEF bwrite
<1>7. ASSUME NEW p \in Handle, NEW v \in Val, log_write(p, v) PROVE TypeInv'
  <2>1. b[p] \in Buf  BY <1>7, Zenon DEF log_write, HoldInv
  <2> QED  BY <1>7, <2>1 DEF log_write
<1>8. ASSUME NEW p \in Handle, brelse(p) PROVE TypeInv'
  <2>1. b[p] \in Buf  BY <1>8, Zenon DEF brelse, Release, HoldInv
  <2>2. Whole(lru, NBUF)  BY DEF Whole, Buf
  <2>3. lru' = <<b[p]>> \o Without(lru, CHOOSE k \in Buf : lru[k] = b[p])
    BY <1>8 DEF brelse, Release, Others
  <2>4. Whole(lru', NBUF)  BY <2>1, <2>2, <2>3, MovedToFront, Zenon DEF Buf
  <2>5. /\ lru' \in [Buf -> Buf] /\ IsInjective(lru')
        /\ \A x \in Buf : \E k \in Buf : lru'[k] = x
    BY <2>4 DEF Whole, Buf
  <2>6. pc' \in [Handle -> PC]  BY <1>8, <1>a DEF brelse, Release
  <2> QED  BY <1>8, <2>5, <2>6, Zenon DEF brelse, Release
<1>9. ASSUME NEW p \in Handle, iderw(p) PROVE TypeInv'
  <2>1. b[p] \in Buf /\ sector[b[p]] \in Sector  BY <1>9 DEF iderw, HoldInv
  <2>2. idequeue' \in Seq(Buf)  BY <1>9, <2>1 DEF iderw
  <2>3. drive' \in [st : Status, wr : BOOLEAN, s : Sector \cup {NoSector}, v : Val \cup {Lost}]
    BY <1>9, <1>b, <2>1 DEF iderw
  <2> QED  BY <1>9, <2>2, <2>3 DEF iderw
<1>10. ASSUME NEW p \in Handle, iderw_wait(p) PROVE TypeInv'
  BY <1>10, Zenon DEF iderw_wait
<1>11. ASSUME transfer PROVE TypeInv'
  <2>1. drive.s \in Sector
    <3>1. idequeue # <<>>  BY <1>11 DEF transfer, DriveInv
    <3>2. 1 \in 1 .. Len(idequeue)  BY <3>1
    <3>3. PICK p \in Handle : pc[p] = "io_sleep" /\ b[p] = idequeue[1]  BY <3>2 DEF QueueInv
    <3> QED  BY <3>1, <3>3 DEF HoldInv, DriveInv
  <2>2. disk' \in [Sector -> Val]
    <3>1. drive.wr => drive.v \in Val
      <4>1. idequeue # <<>>  BY <1>11 DEF transfer, DriveInv
      <4>2. drive.wr => drive.v = data[idequeue[1]]  BY <1>11, <4>1 DEF transfer, DriveInv
      <4>3. idequeue[1] \in Buf  BY <4>1
      <4> QED  BY <4>2, <4>3
    <3> QED  BY <1>11, <3>1, Zenon DEF transfer
  <2>3. drive' \in [st : Status, wr : BOOLEAN, s : Sector \cup {NoSector}, v : Val \cup {Lost}]
    BY <1>11, <2>1, <2>2, Zenon DEF transfer, Status
  <2> QED  BY <1>11, <2>2, <2>3 DEF transfer
<1>12. ASSUME error PROVE TypeInv'
  <2>1. drive.s \in Sector
    <3>1. idequeue # <<>>  BY <1>12 DEF error, DriveInv
    <3>2. 1 \in 1 .. Len(idequeue)  BY <3>1
    <3>3. PICK p \in Handle : pc[p] = "io_sleep" /\ b[p] = idequeue[1]  BY <3>2 DEF QueueInv
    <3> QED  BY <3>1, <3>3 DEF HoldInv, DriveInv
  <2> QED  BY <1>12, <2>1, SMTT(30) DEF error, Status
<1>13. ASSUME ideintr PROVE TypeInv'
  <2>1. idequeue # <<>> /\ idequeue[1] \in Buf /\ Head(idequeue) = idequeue[1]  BY <1>13 DEF ideintr
  <2>2. idequeue' \in Seq(Buf)  BY <1>13, <2>1 DEF ideintr
  <2>3. drive' \in [st : Status, wr : BOOLEAN, s : Sector \cup {NoSector}, v : Val \cup {Lost}]
    <3>1. CASE Len(idequeue) > 1
      <4>1. 2 \in 1 .. Len(idequeue) /\ idequeue[2] \in Buf  BY <3>1
      <4>2. PICK p \in Handle : pc[p] = "io_sleep" /\ b[p] = idequeue[2]  BY <4>1 DEF QueueInv
      <4>3. sector[idequeue[2]] \in Sector  BY <4>2 DEF HoldInv
      <4> QED  BY <1>13, <3>1, <4>1, <4>3, <1>b DEF ideintr
    <3>2. CASE ~(Len(idequeue) > 1)
      BY <1>13, <3>2 DEF ideintr, Idle, Status
    <3> QED  BY <3>1, <3>2
  <2>4. data' \in [Buf -> Val]
    <3>1. drive.st = "done" => drive.v \in Val
      <4>1. PICK p \in Handle : pc[p] = "io_sleep" /\ b[p] = idequeue[1]
        <5>1. 1 \in 1 .. Len(idequeue)  BY <2>1
        <5> QED  BY <5>1 DEF QueueInv
      <4>2. drive.s \in Sector  BY <2>1, <4>1 DEF HoldInv, DriveInv
      <4> QED  BY <4>2 DEF DriveInv
    <3> QED  BY <1>13, <2>1, <3>1 DEF ideintr
  <2>5. pc' \in [Handle -> PC] /\ valid' \subseteq Buf /\ dirty' \subseteq Buf
    BY <1>13, <2>1, <1>a DEF ideintr
  <2> QED  BY <1>13, <2>2, <2>3, <2>4, <2>5, Zenon DEF ideintr
<1>14. ASSUME UNCHANGED vars PROVE TypeInv'
  BY <1>14 DEF vars
<1> QED
  BY <1>1, <1>2, <1>3, <1>4, <1>5, <1>6, <1>7, <1>8, <1>9, <1>10, <1>11, <1>12, <1>13, <1>14, Zenon DEF Next, bget

-----------------------------------------------------------------------------
\* A buffer goes from one holder to the next, whatever the sleepers do.
LEMMA HoldNext ==
  ASSUME Params, TypeInv, HoldInv, BufInv, QueueInv, [Next]_vars
  PROVE  HoldInv'
<1> USE DEF Params, HoldInv, flags, hw, Goto, Holding
<1>t. /\ pc \in [Handle -> {"user", "bget", "bget_sleep", "panic"} \cup Holding]
      /\ b \in [Handle -> Buf \cup {0}] /\ want \in [Handle -> Sector \cup {NoSector}]
      /\ sector \in [Buf -> Sector \cup {NoSector}] /\ busy \subseteq Buf
  BY DEF TypeInv
<1>w. ASSUME NEW x, pc' = Woken(x), UNCHANGED <<busy, sector, b, want>> PROVE HoldInv'
  <2>1. \A q \in Handle : /\ pc'[q] \in Holding <=> pc[q] \in Holding
                          /\ pc'[q] = "bget_sleep" => pc[q] = "bget_sleep"
                          /\ pc'[q] = "bget" => pc[q] \in {"bget", "bget_sleep"}
    BY <1>t, <1>w DEF Woken
  <2> QED  BY <1>w, <2>1
<1>1. ASSUME NEW p \in Handle, NEW s \in Sector, bread(p, s) PROVE HoldInv'
  BY <1>t, <1>1 DEF bread
<1>2. ASSUME NEW p \in Handle, bget_hit(p) PROVE HoldInv'
  <2>1. PICK x \in Buf \ busy : /\ sector[x] = want[p] /\ pc[p] = "bget"
                                /\ busy' = busy \cup {x} /\ b' = [b EXCEPT ![p] = x]
                                /\ pc' = [pc EXCEPT ![p] = IF x \in valid THEN "held" ELSE "iderw"]
                                /\ UNCHANGED <<sector, want>>
    BY <1>2, Zenon DEF bget_hit, Take, Cached
  <2>2. pc'[p] \in {"held", "iderw"}  BY <1>t, <2>1
  <2>3. \A q \in Handle : q # p => pc'[q] = pc[q] /\ b'[q] = b[q]  BY <1>t, <2>1
  <2>4. b'[p] = x  BY <1>t, <2>1
  <2> QED  BY <2>1, <2>2, <2>3, <2>4
<1>3. ASSUME NEW p \in Handle, bget_sleep(p) PROVE HoldInv'
  BY <1>t, <1>3 DEF bget_sleep, Cached
<1>4. ASSUME NEW p \in Handle, bget_recycle(p) PROVE HoldInv'
  <2>1. PICK x \in Buf \ (busy \cup dirty) :
           /\ pc[p] = "bget"
           /\ sector' = [sector EXCEPT ![x] = want[p]] /\ busy' = busy \cup {x}
           /\ b' = [b EXCEPT ![p] = x] /\ pc' = [pc EXCEPT ![p] = "iderw"]
           /\ UNCHANGED <<lru, data, hw, want>>
    BY <1>4, Recycles
  <2>2. pc'[p] = "iderw" /\ b'[p] = x /\ sector'[x] = want[p]  BY <1>t, <2>1
  <2>3. \A q \in Handle : q # p => pc'[q] = pc[q] /\ b'[q] = b[q]  BY <1>t, <2>1
  <2>4. \A y \in Buf : y # x => sector'[y] = sector[y]  BY <1>t, <2>1
  <2> QED  BY <1>t, <2>1, <2>2, <2>3, <2>4
<1>5. ASSUME NEW p \in Handle, bget_panic(p) PROVE HoldInv'
  BY <1>t, <1>5 DEF bget_panic, NoBuffer
<1>6. ASSUME NEW p \in Handle, NEW v \in Val, bwrite(p, v) PROVE HoldInv'
  BY <1>t, <1>6 DEF bwrite
<1>7. ASSUME NEW p \in Handle, NEW v \in Val, log_write(p, v) PROVE HoldInv'
  BY <1>t, <1>7 DEF log_write
<1>8. ASSUME NEW p \in Handle, brelse(p) PROVE HoldInv'
  <2>1. /\ pc[p] = "held" /\ busy' = busy \ {b[p]} /\ pc' = [Woken(b[p]) EXCEPT ![p] = "user"]
        /\ b' = [b EXCEPT ![p] = 0] /\ want' = [want EXCEPT ![p] = NoSector] /\ UNCHANGED sector
    BY <1>8 DEF brelse, Release
  <2>2. \A q \in Handle : q # p => /\ b'[q] = b[q] /\ want'[q] = want[q]
                                   /\ pc'[q] \in Holding <=> pc[q] \in Holding
                                   /\ pc'[q] = "bget_sleep" => pc[q] = "bget_sleep" /\ b[q] # b[p]
                                   /\ pc'[q] = "bget" => pc[q] \in {"bget", "bget_sleep"}
    BY <1>t, <2>1 DEF Woken
  <2>3. pc'[p] = "user"  BY <1>t, <2>1 DEF Woken
  <2>4. \A q \in Handle : q # p /\ pc[q] \in Holding => b[q] # b[p]  BY <2>1
  <2> QED  BY <2>1, <2>2, <2>3, <2>4
<1>9. ASSUME NEW p \in Handle, iderw(p) PROVE HoldInv'
  BY <1>t, <1>9 DEF iderw
<1>10. ASSUME NEW p \in Handle, iderw_wait(p) PROVE HoldInv'
  BY <1>t, <1>10 DEF iderw_wait
<1>11. ASSUME transfer PROVE HoldInv'
  BY <1>11 DEF transfer
<1>12. ASSUME error PROVE HoldInv'
  BY <1>12 DEF error
<1>13. ASSUME ideintr PROVE HoldInv'
  BY <1>w, <1>13, Zenon DEF ideintr
<1>14. ASSUME UNCHANGED vars PROVE HoldInv'
  BY <1>14, Zenon DEF vars
<1> QED
  BY <1>1, <1>2, <1>3, <1>4, <1>5, <1>6, <1>7, <1>8, <1>9, <1>10, <1>11, <1>12, <1>13, <1>14, Zenon DEF Next, bget

\* Every step keeps at most one buffer per sector.
LEMMA BufNext ==
  ASSUME Params, TypeInv, HoldInv, BufInv, QueueInv, DriveInv, [Next]_vars
  PROVE  BufInv'
<1> USE DEF Params, BufInv, flags, hw, Goto
<1>t. /\ sector \in [Buf -> Sector \cup {NoSector}] /\ idequeue \in Seq(Buf)
      /\ busy \subseteq Buf /\ valid \subseteq Buf /\ dirty \subseteq Buf
  BY DEF TypeInv
<1>1. ASSUME NEW p \in Handle, NEW s \in Sector, bread(p, s) PROVE BufInv'
  BY <1>1 DEF bread
<1>2. ASSUME NEW p \in Handle, bget_hit(p) PROVE BufInv'
  BY <1>2 DEF bget_hit
<1>3. ASSUME NEW p \in Handle, bget_sleep(p) PROVE BufInv'
  BY <1>3 DEF bget_sleep
<1>4. ASSUME NEW p \in Handle, bget_recycle(p) PROVE BufInv'
  <2>1. PICK x \in Buf \ (busy \cup dirty) :
           /\ Cached(want[p]) = {} /\ sector' = [sector EXCEPT ![x] = want[p]]
           /\ valid' = valid \ {x} /\ dirty' = dirty
    BY <1>4, Recycles, Zenon
  <2>2. \A y \in Buf : sector[y] # want[p]  BY <2>1 DEF Cached
  <2>3. sector'[x] = want[p] /\ \A y \in Buf : y # x => sector'[y] = sector[y]  BY <1>t, <2>1
  <2> QED  BY <1>t, <2>1, <2>2, <2>3, Zenon
<1>5. ASSUME NEW p \in Handle, bget_panic(p) PROVE BufInv'
  BY <1>5, Zenon DEF bget_panic, NoBuffer
<1>6. ASSUME NEW p \in Handle, NEW v \in Val, bwrite(p, v) PROVE BufInv'
  <2>1. b[p] \in valid  BY <1>6, Zenon DEF bwrite, QueueInv
  <2> QED  BY <1>6, <2>1, Zenon DEF bwrite
<1>7. ASSUME NEW p \in Handle, NEW v \in Val, log_write(p, v) PROVE BufInv'
  <2>1. b[p] \in valid  BY <1>7, Zenon DEF log_write, QueueInv
  <2> QED  BY <1>7, <2>1, Zenon DEF log_write
<1>8. ASSUME NEW p \in Handle, brelse(p) PROVE BufInv'
  BY <1>8 DEF brelse, Release
<1>9. ASSUME NEW p \in Handle, iderw(p) PROVE BufInv'
  BY <1>9 DEF iderw
<1>10. ASSUME NEW p \in Handle, iderw_wait(p) PROVE BufInv'
  BY <1>10 DEF iderw_wait
<1>11. ASSUME transfer PROVE BufInv'
  BY <1>11 DEF transfer
<1>12. ASSUME error PROVE BufInv'
  BY <1>12 DEF error
<1>13. ASSUME ideintr PROVE BufInv'
  <2>1. idequeue # <<>> /\ Head(idequeue) = idequeue[1] /\ 1 \in 1 .. Len(idequeue)
    BY <1>t, <1>13 DEF ideintr
  <2>2. PICK p \in Handle : pc[p] = "io_sleep" /\ b[p] = idequeue[1]  BY <2>1, Zenon DEF QueueInv
  <2>3. sector[idequeue[1]] \in Sector  BY <2>2 DEF HoldInv, Holding
  <2>4. /\ valid' = valid \cup {idequeue[1]} /\ dirty' = dirty \ {idequeue[1]} /\ UNCHANGED sector
    BY <1>13, <2>1 DEF ideintr
  <2> QED  BY <2>3, <2>4
<1>14. ASSUME UNCHANGED vars PROVE BufInv'
  BY <1>14 DEF vars
<1> QED
  BY <1>1, <1>2, <1>3, <1>4, <1>5, <1>6, <1>7, <1>8, <1>9, <1>10, <1>11, <1>12, <1>13, <1>14, Zenon DEF Next, bget

\* A request behind the others, and the first one taken away.
LEMMA Appended ==
  ASSUME NEW S, NEW s \in Seq(S), NEW x \in S, IsInjective(s), \A i \in 1 .. Len(s) : s[i] # x
  PROVE  /\ Append(s, x) \in Seq(S) /\ IsInjective(Append(s, x)) /\ Append(s, x) # <<>>
         /\ Len(Append(s, x)) = Len(s) + 1 /\ Append(s, x)[Len(s) + 1] = x
         /\ \A i \in 1 .. Len(s) : Append(s, x)[i] = s[i]
<1> DEFINE a == Append(s, x)
<1>1. /\ a \in Seq(S) /\ a # <<>> /\ Len(a) = Len(s) + 1 /\ a[Len(s) + 1] = x
      /\ \A i \in 1 .. Len(s) : a[i] = s[i]
  BY AppendProperties
<1>2. DOMAIN a = 1 .. Len(s) + 1 /\ DOMAIN s = 1 .. Len(s) /\ Len(s) \in Nat  BY <1>1
<1>3. \A i, j \in 1 .. Len(s) : s[i] = s[j] => i = j  BY <1>2 DEF IsInjective
<1> HIDE DEF a
<1>4. ASSUME NEW i \in 1 .. Len(s) + 1, NEW j \in 1 .. Len(s) + 1, a[i] = a[j] PROVE i = j
  <2>1. CASE i = Len(s) + 1 \/ j = Len(s) + 1  BY <1>1, <1>2, <1>4, <2>1
  <2>2. CASE i # Len(s) + 1 /\ j # Len(s) + 1
    <3>1. i \in 1 .. Len(s) /\ j \in 1 .. Len(s)  BY <1>2, <2>2
    <3> QED  BY <1>1, <1>3, <1>4, <3>1
  <2> QED  BY <2>1, <2>2
<1>5. IsInjective(a)  BY <1>2, <1>4 DEF IsInjective
<1> QED  BY <1>1, <1>5 DEF a

\* ideintr takes the first request off the queue.
LEMMA FirstTaken ==
  ASSUME NEW S, NEW s \in Seq(S), s # <<>>, IsInjective(s)
  PROVE  /\ Tail(s) \in Seq(S) /\ IsInjective(Tail(s)) /\ Len(Tail(s)) = Len(s) - 1
         /\ Head(s) = s[1] /\ Len(s) \in Nat \ {0}
         /\ \A i \in 1 .. Len(Tail(s)) :
              Tail(s)[i] = s[i + 1] /\ i + 1 \in 1 .. Len(s) /\ Tail(s)[i] # s[1]
         /\ \A i \in 1 .. Len(s) : s[i] # s[1] => \E j \in 1 .. Len(Tail(s)) : Tail(s)[j] = s[i]
<1> DEFINE t == Tail(s)
<1>1. /\ t \in Seq(S) /\ Len(t) = Len(s) - 1 /\ Head(s) = s[1] /\ Len(s) \in Nat \ {0}
      /\ \A i \in 1 .. Len(t) : t[i] = s[i + 1]
  BY HeadTailProperties
<1>2. DOMAIN t = 1 .. Len(t) /\ DOMAIN s = 1 .. Len(s)  BY <1>1
<1>3. \A i, j \in 1 .. Len(s) : s[i] = s[j] => i = j  BY <1>2 DEF IsInjective
<1> HIDE DEF t
<1>4. ASSUME NEW i \in 1 .. Len(t)
      PROVE  t[i] = s[i + 1] /\ i + 1 \in 1 .. Len(s) /\ t[i] # s[1]
  <2>1. t[i] = s[i + 1] /\ i + 1 \in 1 .. Len(s) /\ 1 \in 1 .. Len(s) /\ i + 1 # 1  BY <1>1
  <2> QED  BY <1>3, <2>1
<1>5. ASSUME NEW i \in 1 .. Len(t), NEW j \in 1 .. Len(t), t[i] = t[j] PROVE i = j
  <2>1. i + 1 = j + 1  BY <1>3, <1>4, <1>5
  <2> QED  BY <2>1
<1>6. ASSUME NEW i \in 1 .. Len(s), s[i] # s[1] PROVE \E j \in 1 .. Len(t) : t[j] = s[i]
  <2>1. i - 1 \in 1 .. Len(t) /\ (i - 1) + 1 = i  BY <1>1, <1>6
  <2>2. t[i - 1] = s[(i - 1) + 1]  BY <1>1, <2>1
  <2> QED  BY <2>1, <2>2
<1>7. IsInjective(t)  BY <1>2, <1>5 DEF IsInjective
<1> QED  BY <1>1, <1>4, <1>6, <1>7 DEF t

\* The queue's head is the buffer of one process that sleeps for it.
LEMMA HeadHeld ==
  ASSUME TypeInv, HoldInv, QueueInv, idequeue # <<>>
  PROVE  /\ 1 \in 1 .. Len(idequeue) /\ Head(idequeue) = idequeue[1]
         /\ idequeue[1] \in busy /\ idequeue[1] \in Buf /\ sector[idequeue[1]] \in Sector
         /\ Pending(idequeue[1])
<1>1. 1 \in 1 .. Len(idequeue) /\ Head(idequeue) = idequeue[1]  BY DEF TypeInv
<1>2. PICK p \in Handle : pc[p] = "io_sleep" /\ b[p] = idequeue[1]  BY <1>1 DEF QueueInv
<1>3. Pending(idequeue[1])  BY <1>1 DEF QueueInv
<1> QED  BY <1>1, <1>2, <1>3 DEF HoldInv, Holding, TypeInv

\* The queue has exactly the requests that wait for the drive, each once.
LEMMA QueueNext ==
  ASSUME Params, TypeInv, HoldInv, BufInv, QueueInv, [Next]_vars
  PROVE  QueueInv'
<1> USE DEF QueueInv, Pending, flags, hw, Goto
<1>t. /\ pc \in [Handle -> {"user", "bget", "bget_sleep", "panic"} \cup Holding]
      /\ b \in [Handle -> Buf \cup {0}] /\ idequeue \in Seq(Buf)
  BY DEF TypeInv
<1>h. \A p, q \in Handle : pc[p] \in Holding /\ pc[q] \in Holding /\ b[p] = b[q] => p = q
  BY Zenon DEF HoldInv
<1>1. ASSUME NEW p \in Handle, NEW s \in Sector, bread(p, s) PROVE QueueInv'
  BY <1>t, <1>1 DEF bread
<1>2. ASSUME NEW p \in Handle, bget_hit(p) PROVE QueueInv'
  <2>1. PICK x \in Buf \ busy : /\ pc[p] = "bget" /\ b' = [b EXCEPT ![p] = x]
                                /\ pc' = [pc EXCEPT ![p] = IF x \in valid THEN "held" ELSE "iderw"]
                                /\ UNCHANGED <<valid, dirty, idequeue>>
    BY <1>2, Zenon DEF bget_hit, Take, Cached
  <2>2. b'[p] = x /\ pc'[p] = (IF x \in valid THEN "held" ELSE "iderw")  BY <1>t, <2>1
  <2>3. \A q \in Handle : q # p => pc'[q] = pc[q] /\ b'[q] = b[q]  BY <1>t, <2>1, Zenon
  <2>4. \A q \in Handle : pc[q] = "io_sleep" => q # p  BY <2>1
  <2> QED  BY <2>1, <2>2, <2>3, <2>4
<1>3. ASSUME NEW p \in Handle, bget_sleep(p) PROVE QueueInv'
  <2>1. /\ pc[p] = "bget" /\ pc' = [pc EXCEPT ![p] = "bget_sleep"]
        /\ \A q \in Handle : q # p => b'[q] = b[q]
        /\ UNCHANGED <<valid, dirty, idequeue>>
    BY <1>t, <1>3 DEF bget_sleep
  <2>2. pc'[p] = "bget_sleep" /\ \A q \in Handle : q # p => pc'[q] = pc[q]  BY <1>t, <2>1
  <2>3. \A q \in Handle : pc[q] = "io_sleep" => q # p  BY <2>1
  <2> QED  BY <2>1, <2>2, <2>3
<1>4. ASSUME NEW p \in Handle, bget_recycle(p) PROVE QueueInv'
  <2>1. PICK x \in Buf \ (busy \cup dirty) :
           /\ pc[p] = "bget" /\ valid' = valid \ {x} /\ dirty' = dirty
           /\ b' = [b EXCEPT ![p] = x] /\ pc' = [pc EXCEPT ![p] = "iderw"]
           /\ UNCHANGED idequeue
    <3>1. Params /\ TypeInv /\ bget_recycle(p)  BY <1>4
    <3> QED  BY <3>1, Recycles
  <2>2. b'[p] = x /\ pc'[p] = "iderw"  BY <1>t, <2>1
  <2>3. \A q \in Handle : q # p => pc'[q] = pc[q] /\ b'[q] = b[q]  BY <1>t, <2>1
  <2>4. \A q \in Handle : pc[q] \in Holding => b[q] # x /\ q # p  BY <2>1 DEF HoldInv, Holding
  <2> QED  BY <2>1, <2>2, <2>3, <2>4 DEF Holding
<1>5. ASSUME NEW p \in Handle, bget_panic(p) PROVE QueueInv'
  BY <1>t, <1>5 DEF bget_panic, NoBuffer
<1>6. ASSUME NEW p \in Handle, NEW v \in Val, bwrite(p, v) PROVE QueueInv'
  <2>1. /\ pc[p] = "held" /\ pc' = [pc EXCEPT ![p] = "iderw"] /\ dirty' = dirty \cup {b[p]}
        /\ UNCHANGED <<valid, b, idequeue>>
    BY <1>6, Zenon DEF bwrite
  <2>2. \A q \in Handle : q # p /\ pc[q] \in Holding => b[q] # b[p]  BY <1>h, <2>1, Zenon DEF Holding
  <2>3. pc'[p] = "iderw" /\ \A q \in Handle : q # p => pc'[q] = pc[q]  BY <1>t, <2>1
  <2> QED  BY <2>1, <2>2, <2>3 DEF Holding
<1>7. ASSUME NEW p \in Handle, NEW v \in Val, log_write(p, v) PROVE QueueInv'
  <2>1. /\ pc[p] = "held" /\ dirty' = dirty \cup {b[p]} /\ UNCHANGED <<valid, pc, b, idequeue>>
    BY <1>7, Zenon DEF log_write
  <2>2. \A q \in Handle : q # p /\ pc[q] \in Holding => b[q] # b[p]  BY <1>h, <2>1, Zenon DEF Holding
  <2> QED  BY <2>1, <2>2, Zenon DEF Holding
<1>8. ASSUME NEW p \in Handle, brelse(p) PROVE QueueInv'
  <2>1. /\ pc[p] = "held" /\ pc' = [Woken(b[p]) EXCEPT ![p] = "user"]
        /\ b' = [b EXCEPT ![p] = 0] /\ UNCHANGED <<valid, dirty, idequeue>>
    BY <1>8 DEF brelse, Release
  <2>2. \A q \in Handle : q # p /\ pc[q] \in Holding => b[q] # b[p]  BY <1>h, <2>1 DEF Holding
  <2>3. pc'[p] = "user"  BY <1>t, <2>1 DEF Woken
  <2>4. \A q \in Handle : q # p =>
          b'[q] = b[q] /\ \A l \in Holding : pc'[q] = l <=> pc[q] = l
    BY <1>t, <2>1, <2>2, Zenon DEF Woken, Holding
  <2> QED  BY <2>1, <2>3, <2>4, SMTT(30) DEF Holding
<1>9. ASSUME NEW p \in Handle, iderw(p) PROVE QueueInv'
  <2>1. /\ pc[p] = "iderw" /\ pc' = [pc EXCEPT ![p] = "io_sleep"]
        /\ idequeue' = Append(idequeue, b[p]) /\ UNCHANGED <<valid, dirty, b>>
    BY <1>9, Zenon DEF iderw
  <2>2. b[p] \in Buf  BY <2>1, Zenon DEF HoldInv, Holding, TypeInv
  <2>3. \A i \in 1 .. Len(idequeue) : idequeue[i] # b[p]
    <3> SUFFICES ASSUME NEW i \in 1 .. Len(idequeue), idequeue[i] = b[p] PROVE FALSE  OBVIOUS
    <3>1. PICK q \in Handle : pc[q] = "io_sleep" /\ b[q] = idequeue[i]  OBVIOUS
    <3> QED  BY <1>h, <2>1, <3>1, ZenonT(40) DEF Holding
  <2>4. /\ IsInjective(idequeue') /\ Len(idequeue') = Len(idequeue) + 1
        /\ idequeue'[Len(idequeue) + 1] = b[p] /\ \A i \in 1 .. Len(idequeue) : idequeue'[i] = idequeue[i]
    BY <1>t, <2>1, <2>2, <2>3, Appended
  <2>5. pc'[p] = "io_sleep" /\ \A q \in Handle : q # p => pc'[q] = pc[q]  BY <1>t, <2>1
  <2>6. ASSUME NEW i \in 1 .. Len(idequeue')
        PROVE  idequeue'[i] \notin valid' \ dirty' /\ \E q \in Handle : pc'[q] = "io_sleep" /\ b'[q] = idequeue'[i]
    <3>1. CASE i = Len(idequeue) + 1  BY <2>1, <2>4, <2>5, <3>1
    <3>2. CASE i # Len(idequeue) + 1
      <4>1. i \in 1 .. Len(idequeue)  BY <1>t, <2>4, <3>2
      <4>2. idequeue'[i] = idequeue[i]  BY <2>4, <4>1
      <4>3. PICK q \in Handle : pc[q] = "io_sleep" /\ b[q] = idequeue[i]  BY <4>1
      <4>4. q # p  BY <2>1, <4>3
      <4> QED  BY <2>1, <2>5, <4>1, <4>2, <4>3, <4>4
    <3> QED  BY <3>1, <3>2
  <2>7. ASSUME NEW q \in Handle, pc'[q] = "io_sleep"
        PROVE  \E i \in 1 .. Len(idequeue') : idequeue'[i] = b'[q]
    <3>0. Len(idequeue) \in Nat  BY <1>t
    <3>1. CASE q = p
      <4>1. Len(idequeue) + 1 \in 1 .. Len(idequeue')  BY <2>4, <3>0
      <4> QED  BY <2>1, <2>4, <3>1, <4>1
    <3>2. CASE q # p
      <4>1. PICK i \in 1 .. Len(idequeue) : idequeue[i] = b[q]  BY <2>5, <2>7, <3>2, Zenon
      <4>2. i \in 1 .. Len(idequeue')  BY <2>4, <3>0
      <4> QED  BY <2>1, <2>4, <4>1, <4>2, Zenon
    <3> QED  BY <3>1, <3>2, Zenon
  <2>8. ASSUME NEW q \in Handle
        PROVE  /\ pc'[q] = "iderw" => b'[q] \notin valid' \ dirty'
               /\ pc'[q] = "io_woken" => b'[q] \in valid' \ dirty'
               /\ pc'[q] = "held" => b'[q] \in valid'
    BY <2>1, <2>5, Zenon
  <2> QED  BY <2>4, <2>6, <2>7, <2>8, Zenon
<1>10. ASSUME NEW p \in Handle, iderw_wait(p) PROVE QueueInv'
  <2>1. pc[p] = "io_woken" /\ b[p] \in valid \ dirty  BY <1>10, Zenon DEF iderw_wait
  <2>2. pc' = [pc EXCEPT ![p] = "held"] /\ UNCHANGED <<valid, dirty, b, idequeue>>
    BY <1>10, <2>1, Zenon DEF iderw_wait
  <2>3. pc'[p] = "held" /\ \A q \in Handle : q # p => pc'[q] = pc[q]  BY <1>t, <2>2
  <2> QED  BY <2>1, <2>2, <2>3
<1>11. ASSUME transfer PROVE QueueInv'
  BY <1>11 DEF transfer
<1>12. ASSUME error PROVE QueueInv'
  BY <1>12 DEF error
<1>13. ASSUME ideintr PROVE QueueInv'
  <2> DEFINE x == idequeue[1]
  <2>1. idequeue # <<>>  BY <1>13, Zenon DEF ideintr
  <2>2. /\ Tail(idequeue) \in Seq(Buf) /\ IsInjective(Tail(idequeue)) /\ Head(idequeue) = x
        /\ \A i \in 1 .. Len(Tail(idequeue)) :
              /\ Tail(idequeue)[i] = idequeue[i + 1] /\ i + 1 \in 1 .. Len(idequeue)
              /\ Tail(idequeue)[i] # x
        /\ \A i \in 1 .. Len(idequeue) : idequeue[i] # x =>
              \E j \in 1 .. Len(Tail(idequeue)) : Tail(idequeue)[j] = idequeue[i]
    BY <1>t, <2>1, FirstTaken
  <2>3. /\ valid' = valid \cup {x} /\ dirty' = dirty \ {x} /\ pc' = Woken(x)
        /\ idequeue' = Tail(idequeue) /\ UNCHANGED b
    BY <1>13, <2>2, Zenon DEF ideintr
  <2>4. PICK p \in Handle : pc[p] = "io_sleep" /\ b[p] = x
    <3>1. 1 \in 1 .. Len(idequeue)  BY <1>t, <2>1
    <3> QED  BY <3>1
  <2> HIDE DEF x
  <2>5. \A q \in Handle : q # p /\ pc[q] \in Holding => b[q] # x  BY <1>h, <2>4 DEF Holding
  <2>6. pc'[p] = "io_woken" /\ \A q \in Handle, l \in Holding : q # p => (pc'[q] = l <=> pc[q] = l)
    BY <1>t, <2>3, <2>4, <2>5 DEF Woken, Holding
  <2>7. ASSUME NEW i \in 1 .. Len(idequeue')
        PROVE  idequeue'[i] \notin valid' \ dirty' /\ \E q \in Handle : pc'[q] = "io_sleep" /\ b'[q] = idequeue'[i]
    <3>1. idequeue'[i] = idequeue[i + 1] /\ i + 1 \in 1 .. Len(idequeue) /\ idequeue'[i] # x
      BY <2>2, <2>3, Zenon
    <3>2. PICK q \in Handle : pc[q] = "io_sleep" /\ b[q] = idequeue[i + 1]  BY <3>1, Zenon
    <3>3. q # p  BY <2>4, <3>1, <3>2, Zenon
    <3>4. pc'[q] = "io_sleep"  BY <2>6, <3>2, <3>3, Zenon DEF Holding
    <3>5. Pending(idequeue[i + 1])  BY <3>1, Zenon
    <3> QED  BY <2>3, <3>1, <3>2, <3>4, <3>5, Zenon
  <2>8. ASSUME NEW q \in Handle, pc'[q] = "io_sleep"
        PROVE  \E i \in 1 .. Len(idequeue') : idequeue'[i] = b'[q]
    <3>1. q # p  BY <2>6, <2>8, Zenon
    <3>2. pc[q] = "io_sleep"  BY <2>6, <2>8, <3>1, Zenon DEF Holding
    <3>3. b[q] # x  BY <2>5, <3>1, <3>2 DEF Holding
    <3>4. PICK i \in 1 .. Len(idequeue) : idequeue[i] = b[q]  BY <3>2, Zenon
    <3> QED  BY <2>2, <2>3, <3>3, <3>4
  <2>9. ASSUME NEW q \in Handle
        PROVE  /\ pc'[q] = "iderw" => b'[q] \notin valid' \ dirty'
               /\ pc'[q] = "io_woken" => b'[q] \in valid' \ dirty'
               /\ pc'[q] = "held" => b'[q] \in valid'
    <3>1. CASE q = p  BY <2>3, <2>4, <2>6, <3>1, Zenon
    <3>2. CASE q # p
      <4>1. \A l \in Holding : pc'[q] = l => pc[q] = l /\ b[q] # x  BY <2>5, <2>6, <3>2, Zenon
      <4> QED  BY <2>3, <4>1, Zenon DEF Holding
    <3> QED  BY <3>1, <3>2, Zenon
  <2> QED  BY <2>2, <2>3, <2>7, <2>8, <2>9, Zenon
<1>14. ASSUME UNCHANGED vars PROVE QueueInv'
  BY <1>14, Zenon DEF vars
<1> QED
  BY <1>1, <1>2, <1>3, <1>4, <1>5, <1>6, <1>7, <1>8, <1>9, <1>10, <1>11, <1>12, <1>13, <1>14, Zenon DEF Next, bget

-----------------------------------------------------------------------------
\* The drive works on the head of the queue.
LEMMA DriveNext ==
  ASSUME Params, TypeInv, HoldInv, BufInv, QueueInv, DriveInv, [Next]_vars
  PROVE  DriveInv'
<1> USE DEF flags, hw, Goto
<1> DEFINE told == <<drive, idequeue, sector, dirty, data, disk, failed>>
<1>t. /\ sector \in [Buf -> Sector \cup {NoSector}] /\ data \in [Buf -> Val] /\ idequeue \in Seq(Buf)
      /\ disk \in [Sector -> Val]
      /\ drive \in [st : Status, wr : BOOLEAN, s : Sector \cup {NoSector}, v : Val \cup {Lost}]
  BY DEF TypeInv
<1>0. ASSUME UNCHANGED told PROVE DriveInv'
  BY <1>0, Zenon DEF DriveInv
<1>x. ASSUME NEW p \in Handle, pc[p] = "held", NEW v, data' = [data EXCEPT ![b[p]] = v],
             dirty' = dirty \cup {b[p]}, UNCHANGED <<drive, idequeue, sector, disk, failed>>
      PROVE  DriveInv'
  <2>1. CASE idequeue = <<>>  BY <1>x, <2>1, Zenon DEF DriveInv
  <2>2. CASE idequeue # <<>>
    <3>1. PICK q \in Handle : pc[q] = "io_sleep" /\ b[q] = idequeue[1]
      <4>1. 1 \in 1 .. Len(idequeue)  BY <2>2, HeadHeld
      <4> QED  BY <4>1, Zenon DEF QueueInv
    <3>2. b[p] # idequeue[1]  BY <1>x, <3>1 DEF HoldInv, Holding
    <3>3. idequeue[1] \in Buf  BY <2>2, HeadHeld
    <3>4. data'[idequeue[1]] = data[idequeue[1]] /\ (idequeue[1] \in dirty' <=> idequeue[1] \in dirty)
      BY <1>t, <1>x, <3>2, <3>3, Zenon
    <3> QED  BY <1>x, <2>2, <3>4, Zenon DEF DriveInv
  <2> QED  BY <2>1, <2>2
<1>1. ASSUME NEW p \in Handle, NEW s \in Sector, bread(p, s) PROVE DriveInv'
  BY <1>0, <1>1 DEF bread
<1>2. ASSUME NEW p \in Handle, bget_hit(p) PROVE DriveInv'
  BY <1>0, <1>2 DEF bget_hit
<1>3. ASSUME NEW p \in Handle, bget_sleep(p) PROVE DriveInv'
  BY <1>0, <1>3 DEF bget_sleep
<1>4. ASSUME NEW p \in Handle, bget_recycle(p) PROVE DriveInv'
  <2>1. PICK x \in Buf \ (busy \cup dirty) :
           /\ sector' = [sector EXCEPT ![x] = want[p]] /\ dirty' = dirty
           /\ UNCHANGED <<data, drive, idequeue, disk, failed>>
    BY <1>4, Recycles
  <2>2. idequeue # <<>> => sector'[idequeue[1]] = sector[idequeue[1]]
    <3> SUFFICES ASSUME idequeue # <<>> PROVE sector'[idequeue[1]] = sector[idequeue[1]]  OBVIOUS
    <3>1. idequeue[1] \in busy /\ idequeue[1] \in Buf  BY HeadHeld
    <3> QED  BY <1>t, <2>1, <3>1
  <2> QED  BY <2>1, <2>2, Zenon DEF DriveInv
<1>5. ASSUME NEW p \in Handle, bget_panic(p) PROVE DriveInv'
  BY <1>0, <1>5 DEF bget_panic, NoBuffer
<1>6. ASSUME NEW p \in Handle, NEW v \in Val, bwrite(p, v) PROVE DriveInv'
  BY <1>6, <1>x, Zenon DEF bwrite
<1>7. ASSUME NEW p \in Handle, NEW v \in Val, log_write(p, v) PROVE DriveInv'
  BY <1>7, <1>x, Zenon DEF log_write
<1>8. ASSUME NEW p \in Handle, brelse(p) PROVE DriveInv'
  BY <1>0, <1>8 DEF brelse, Release
<1>9. ASSUME NEW p \in Handle, iderw(p) PROVE DriveInv'
  <2>1. /\ idequeue' = Append(idequeue, b[p]) /\ b[p] \in Buf
        /\ drive' = IF idequeue = <<>> THEN Command(b[p]) ELSE drive
        /\ UNCHANGED <<sector, dirty, data, disk, failed>>
    BY <1>9, Zenon DEF iderw, HoldInv, Holding, TypeInv
  <2>2. idequeue' # <<>>  BY <1>t, <2>1
  <2>3. CASE idequeue = <<>>
    <3>1. idequeue'[1] = b[p]  BY <1>t, <2>1, <2>3
    <3>2. drive' = [st |-> "busy", wr |-> b[p] \in dirty, s |-> sector[b[p]], v |-> data[b[p]]]
      BY <2>1, <2>3, Zenon DEF Command
    <3>3. drive'.st = "busy" /\ (drive'.wr <=> b[p] \in dirty) /\ drive'.s = sector[b[p]] /\ drive'.v = data[b[p]]
      BY <3>2, Zenon
    <3> QED  BY <2>1, <2>2, <3>1, <3>3, Zenon DEF DriveInv
  <2>4. CASE idequeue # <<>>
    <3>1. idequeue'[1] = idequeue[1]  BY <1>t, <2>1, <2>4
    <3> QED  BY <2>1, <2>2, <2>4, <3>1, Zenon DEF DriveInv
  <2> QED  BY <2>3, <2>4
<1>10. ASSUME NEW p \in Handle, iderw_wait(p) PROVE DriveInv'
  BY <1>0, <1>10, Zenon DEF iderw_wait
<1>11. ASSUME transfer PROVE DriveInv'
  <2>1. /\ drive.st = "busy" /\ disk' = IF drive.wr THEN [disk EXCEPT ![drive.s] = drive.v] ELSE disk
        /\ drive' = [drive EXCEPT !.st = "done", !.v = disk'[drive.s]]
        /\ UNCHANGED <<idequeue, sector, dirty, data, failed>>
    BY <1>11 DEF transfer
  <2>2. drive'.st = "done" /\ drive'.wr = drive.wr /\ drive'.s = drive.s /\ drive'.v = disk'[drive.s]
    BY <1>t, <2>1
  <2>3. idequeue # <<>>  BY <2>1 DEF DriveInv
  <2>4. drive.s \in Sector  BY <2>3, HeadHeld, Zenon DEF DriveInv
  <2>5. drive.wr => disk'[drive.s] = drive.v  BY <1>t, <2>1, <2>4
  <2> QED  BY <2>1, <2>2, <2>3, <2>5 DEF DriveInv
<1>12. ASSUME error PROVE DriveInv'
  <2>1. /\ drive.st = "busy" /\ drive' = [drive EXCEPT !.st = "error"] /\ failed' = failed \cup {drive.s}
        /\ UNCHANGED <<idequeue, sector, dirty, data, disk>>
    BY <1>12 DEF error
  <2>2. drive'.st = "error" /\ drive'.wr = drive.wr /\ drive'.s = drive.s /\ drive'.v = drive.v
    BY <1>t, <2>1
  <2> QED  BY <2>1, <2>2 DEF DriveInv
<1>13. ASSUME ideintr PROVE DriveInv'
  <2> DEFINE x == idequeue[1]
  <2>1. idequeue # <<>>  BY <1>13 DEF ideintr
  <2>2. Head(idequeue) = x /\ x \in Buf  BY <2>1, HeadHeld
  <2>3. /\ idequeue' = Tail(idequeue) /\ dirty' = dirty \ {x}
        /\ \A y \in Buf : y # x => data'[y] = data[y]
        /\ drive' = IF Len(idequeue) > 1 THEN Command(idequeue[2]) ELSE Idle
        /\ UNCHANGED <<sector, disk, failed>>
    BY <1>t, <1>13, <2>2 DEF ideintr
  <2>4. CASE Len(idequeue) > 1
    <3>1. idequeue' # <<>> /\ idequeue'[1] = idequeue[2] /\ idequeue[2] \in Buf
      <4>1. Len(idequeue) \in Nat /\ 2 \in 1 .. Len(idequeue)  BY <1>t, <2>4
      <4>2. /\ Tail(idequeue) \in Seq(Buf) /\ Len(Tail(idequeue)) = Len(idequeue) - 1
            /\ \A i \in 1 .. Len(Tail(idequeue)) : Tail(idequeue)[i] = idequeue[i + 1]
        BY <1>t, <2>1, HeadTailProperties
      <4>3. 1 \in 1 .. Len(Tail(idequeue)) /\ 1 + 1 = 2  BY <4>1, <4>2
      <4>4. Tail(idequeue)[1] = idequeue[2]  BY <4>2, <4>3
      <4>5. Tail(idequeue) # <<>>  BY <4>3, SMTT(30)
      <4> QED  BY <1>t, <2>3, <4>1, <4>4, <4>5
    <3>2. idequeue[2] # x
      <4>1. 1 \in DOMAIN idequeue /\ 2 \in DOMAIN idequeue  BY <1>t, <2>4
      <4> QED  BY <4>1 DEF QueueInv, IsInjective
    <3>3. drive' = [st |-> "busy", wr |-> idequeue[2] \in dirty, s |-> sector[idequeue[2]], v |-> data[idequeue[2]]]
      BY <2>3, <2>4, Zenon DEF Command
    <3>4. /\ drive'.st = "busy" /\ (drive'.wr <=> idequeue[2] \in dirty)
          /\ drive'.s = sector[idequeue[2]] /\ drive'.v = data[idequeue[2]]
      BY <3>3, Zenon
    <3> HIDE DEF x
    <3> QED  BY <2>3, <3>1, <3>2, <3>4, Zenon DEF DriveInv
  <2>5. CASE ~(Len(idequeue) > 1)
    <3>1. idequeue' = <<>>  BY <1>t, <2>1, <2>3, <2>5
    <3>2. drive'.st = "idle"  BY <2>3, <2>5, Zenon DEF Idle
    <3> QED  BY <3>1, <3>2, Zenon DEF DriveInv
  <2> QED  BY <2>4, <2>5
<1>14. ASSUME UNCHANGED vars PROVE DriveInv'
  BY <1>0, <1>14 DEF vars
<1> QED
  BY <1>1, <1>2, <1>3, <1>4, <1>5, <1>6, <1>7, <1>8, <1>9, <1>10, <1>11, <1>12, <1>13, <1>14, Zenon DEF Next, bget

\* A valid buffer without changes to write is a copy of its sector.
LEMMA CleanNext ==
  ASSUME Params, TypeInv, HoldInv, BufInv, QueueInv, DriveInv, CleanInv, [Next]_vars
  PROVE  CleanInv'
<1> USE DEF flags, hw, Goto
<1> DEFINE kept == <<valid, dirty, sector, data, disk, failed>>
<1>t. /\ sector \in [Buf -> Sector \cup {NoSector}] /\ data \in [Buf -> Val]
      /\ valid \subseteq Buf /\ disk \in [Sector -> Val]
  BY DEF TypeInv
<1>0. ASSUME UNCHANGED kept PROVE CleanInv'
  BY <1>0 DEF CleanInv
<1>x. ASSUME NEW p \in Handle, NEW v, data' = [data EXCEPT ![b[p]] = v],
             dirty' = dirty \cup {b[p]}, UNCHANGED <<valid, sector, disk, failed>>
      PROVE  CleanInv'
  <2>1. \A y \in valid \ dirty' : data'[y] = data[y] /\ y \notin dirty  BY <1>t, <1>x
  <2> QED  BY <1>x, <2>1 DEF CleanInv
<1>1. ASSUME NEW p \in Handle, NEW s \in Sector, bread(p, s) PROVE CleanInv'
  BY <1>0, <1>1 DEF bread
<1>2. ASSUME NEW p \in Handle, bget_hit(p) PROVE CleanInv'
  BY <1>0, <1>2 DEF bget_hit
<1>3. ASSUME NEW p \in Handle, bget_sleep(p) PROVE CleanInv'
  BY <1>0, <1>3 DEF bget_sleep
<1>4. ASSUME NEW p \in Handle, bget_recycle(p) PROVE CleanInv'
  <2>1. PICK x \in Buf \ (busy \cup dirty) :
           /\ sector' = [sector EXCEPT ![x] = want[p]] /\ valid' = valid \ {x} /\ dirty' = dirty
           /\ UNCHANGED <<data, disk, failed>>
    BY <1>4, Recycles
  <2>2. \A y \in valid' : sector'[y] = sector[y]  BY <1>t, <2>1
  <2> QED  BY <2>1, <2>2 DEF CleanInv
<1>5. ASSUME NEW p \in Handle, bget_panic(p) PROVE CleanInv'
  BY <1>0, <1>5 DEF bget_panic, NoBuffer
<1>6. ASSUME NEW p \in Handle, NEW v \in Val, bwrite(p, v) PROVE CleanInv'
  BY <1>6, <1>x, Zenon DEF bwrite
<1>7. ASSUME NEW p \in Handle, NEW v \in Val, log_write(p, v) PROVE CleanInv'
  BY <1>7, <1>x, Zenon DEF log_write
<1>8. ASSUME NEW p \in Handle, brelse(p) PROVE CleanInv'
  BY <1>0, <1>8 DEF brelse, Release
<1>9. ASSUME NEW p \in Handle, iderw(p) PROVE CleanInv'
  BY <1>0, <1>9 DEF iderw
<1>10. ASSUME NEW p \in Handle, iderw_wait(p) PROVE CleanInv'
  BY <1>0, <1>10 DEF iderw_wait
<1>11. ASSUME transfer PROVE CleanInv'
  <2>1. /\ drive.st = "busy" /\ disk' = IF drive.wr THEN [disk EXCEPT ![drive.s] = drive.v] ELSE disk
        /\ UNCHANGED <<valid, dirty, sector, data, failed>>
    BY <1>11 DEF transfer
  <2>2. idequeue # <<>>  BY <2>1 DEF DriveInv
  <2>3. /\ drive.s = sector[idequeue[1]] /\ (drive.wr => idequeue[1] \in dirty)
        /\ idequeue[1] \in Buf /\ drive.s \in Sector
    BY <2>2, HeadHeld DEF DriveInv
  <2>4. ASSUME NEW y \in valid \ dirty PROVE disk'[sector[y]] = disk[sector[y]]
    <3>1. drive.wr => sector[y] # drive.s  BY <1>t, <2>3 DEF BufInv
    <3>2. sector[y] \in Sector  BY DEF BufInv
    <3> QED  BY <1>t, <2>1, <3>1, <3>2
  <2> QED  BY <2>1, <2>4 DEF CleanInv
<1>12. ASSUME error PROVE CleanInv'
  BY <1>12 DEF error, CleanInv
<1>13. ASSUME ideintr PROVE CleanInv'
  <2> DEFINE x == idequeue[1]
  <2>1. idequeue # <<>> /\ drive.st \in {"done", "error"}  BY <1>13 DEF ideintr
  <2>2. Head(idequeue) = x /\ x \in Buf /\ Pending(x)  BY <2>1, HeadHeld
  <2>3. /\ valid' = valid \cup {x} /\ dirty' = dirty \ {x}
        /\ data' = IF x \notin dirty /\ drive.st = "done" THEN [data EXCEPT ![x] = drive.v] ELSE data
        /\ UNCHANGED <<sector, disk, failed>>
    BY <1>13, <2>2 DEF ideintr
  <2>4. drive.s = sector[x] /\ (drive.wr <=> x \in dirty)  BY <2>1 DEF DriveInv
  <2>5. sector[x] \in failed \/ data'[x] = disk[sector[x]]
    <3>1. CASE drive.st = "error"  BY <2>4, <3>1 DEF DriveInv
    <3>2. CASE drive.st = "done" /\ x \in dirty
      <4>1. drive.v = disk[sector[x]] /\ drive.v = data[x]  BY <2>1, <2>4, <3>2, Zenon DEF DriveInv
      <4> QED  BY <2>3, <3>2, <4>1, Zenon
    <3>3. CASE drive.st = "done" /\ x \notin dirty
      <4>1. drive.v = disk[sector[x]]  BY <2>4, <3>3 DEF DriveInv
      <4>2. data'[x] = drive.v  BY <1>t, <2>2, <2>3, <3>3
      <4> QED  BY <4>1, <4>2, Zenon
    <3> QED  BY <2>1, <3>1, <3>2, <3>3, Zenon
  <2>6. \A y \in Buf : y # x => data'[y] = data[y]  BY <1>t, <2>3
  <2> HIDE DEF x
  <2> QED  BY <1>t, <2>3, <2>5, <2>6 DEF CleanInv
<1>14. ASSUME UNCHANGED vars PROVE CleanInv'
  BY <1>0, <1>14 DEF vars
<1> QED
  BY <1>1, <1>2, <1>3, <1>4, <1>5, <1>6, <1>7, <1>8, <1>9, <1>10, <1>11, <1>12, <1>13, <1>14, Zenon DEF Next, bget

-----------------------------------------------------------------------------
\* The process of a handle reads on with it alone, and downwards.
LEMMA NestNext ==
  ASSUME TypeInv, HoldInv, QueueInv, NestInv, [Next]_vars
  PROVE  NestInv'
<1> USE DEF NestInv, flags, hw, Goto
<1> DEFINE Busy == {"bget", "bget_sleep", "panic", "iderw", "io_sleep", "io_woken"}
<1>t. /\ pc \in [Handle -> {"user", "held"} \cup Busy]
      /\ want \in [Handle -> Sector \cup {NoSector}]
  BY DEF TypeInv, Holding
\* A step of a handle that is inside bread or bwrite.
<1>m. ASSUME NEW p \in Handle, pc[p] \notin {"user", "held"}, NEW l, pc' = [pc EXCEPT ![p] = l],
             l \in {"bget", "bget_sleep"} => pc[p] \in {"bget", "bget_sleep"}, UNCHANGED want
      PROVE  NestInv'
  <2>1. pc'[p] = l /\ \A q \in Handle : q # p => pc'[q] = pc[q]  BY <1>t, <1>m
  <2>2. \A q \in Handle : q # p /\ Owner[q] = Owner[p] => pc[q] \in {"user", "held"}
    BY <1>m, Zenon
  <2> QED  BY <1>m, <2>1, <2>2
\* A step of a handle at rest, and the others of its process are at rest too.
<1>f. ASSUME NEW p \in Handle, Free(p)
      PROVE  \A q \in Handle : q # p /\ Owner[q] = Owner[p] => pc[q] \in {"user", "held"}
  BY <1>f, Zenon DEF Free, Beside
<1>w. ASSUME NEW x, pc' = Woken(x), UNCHANGED want PROVE NestInv'
  <2>1. \A q \in Handle : /\ pc'[q] \in {"user", "held"} <=> pc[q] \in {"user", "held"}
                          /\ pc'[q] = "held" <=> pc[q] = "held"
                          /\ pc'[q] \in {"bget", "bget_sleep"} => pc[q] \in {"bget", "bget_sleep"}
    BY <1>t, <1>w DEF Woken
  <2> QED  BY <1>w, <2>1
<1>1. ASSUME NEW p \in Handle, NEW s \in Sector, bread(p, s) PROVE NestInv'
  <2>1. /\ pc' = [pc EXCEPT ![p] = "bget"] /\ want' = [want EXCEPT ![p] = s] /\ Free(p)
        /\ \A q \in Handle : q # p /\ Owner[q] = Owner[p] /\ pc[q] = "held" => Rank[s] < Rank[want[q]]
    BY <1>1, Zenon DEF bread, Beside
  <2>2. pc'[p] = "bget" /\ want'[p] = s /\ \A q \in Handle : q # p => pc'[q] = pc[q] /\ want'[q] = want[q]
    BY <1>t, <2>1
  <2>3. \A q \in Handle : q # p /\ Owner[q] = Owner[p] => pc[q] \in {"user", "held"}
    BY <1>f, <2>1, Zenon
  <2> QED  BY <2>1, <2>2, <2>3
<1>2. ASSUME NEW p \in Handle, bget_hit(p) PROVE NestInv'
  <2>1. PICK x : /\ pc[p] = "bget" /\ UNCHANGED want
                 /\ pc' = [pc EXCEPT ![p] = IF x \in valid THEN "held" ELSE "iderw"]
    BY <1>2, Zenon DEF bget_hit, Take
  <2> QED  BY <1>m, <2>1
<1>3. ASSUME NEW p \in Handle, bget_sleep(p) PROVE NestInv'
  BY <1>m, <1>3 DEF bget_sleep
<1>4. ASSUME NEW p \in Handle, bget_recycle(p) PROVE NestInv'
  <2>1. pc[p] = "bget" /\ pc' = [pc EXCEPT ![p] = "iderw"] /\ UNCHANGED want
    BY <1>4 DEF bget_recycle, Recycle, Take
  <2> QED  BY <1>m, <2>1
<1>5. ASSUME NEW p \in Handle, bget_panic(p) PROVE NestInv'
  BY <1>m, <1>5 DEF bget_panic, NoBuffer
<1>6. ASSUME NEW p \in Handle, NEW v \in Val, bwrite(p, v) PROVE NestInv'
  <2>1. pc' = [pc EXCEPT ![p] = "iderw"] /\ UNCHANGED want /\ Free(p)  BY <1>6, Zenon DEF bwrite
  <2>2. pc'[p] = "iderw" /\ \A q \in Handle : q # p => pc'[q] = pc[q]  BY <1>t, <2>1
  <2>3. \A q \in Handle : q # p /\ Owner[q] = Owner[p] => pc[q] \in {"user", "held"}
    BY <1>f, <2>1, Zenon
  <2> QED  BY <2>1, <2>2, <2>3
<1>7. ASSUME NEW p \in Handle, NEW v \in Val, log_write(p, v) PROVE NestInv'
  BY <1>7, Zenon DEF log_write
<1>8. ASSUME NEW p \in Handle, brelse(p) PROVE NestInv'
  <2>1. /\ pc[p] = "held" /\ pc' = [Woken(b[p]) EXCEPT ![p] = "user"]
        /\ want' = [want EXCEPT ![p] = NoSector]
    BY <1>8, Zenon DEF brelse, Release
  <2>2. pc'[p] = "user" /\ \A q \in Handle : q # p =>
          /\ want'[q] = want[q]
          /\ pc'[q] \in {"user", "held"} <=> pc[q] \in {"user", "held"}
          /\ pc'[q] = "held" <=> pc[q] = "held"
          /\ pc'[q] \in {"bget", "bget_sleep"} => pc[q] \in {"bget", "bget_sleep"}
    BY <1>t, <2>1 DEF Woken
  <2> QED  BY <2>2
<1>9. ASSUME NEW p \in Handle, iderw(p) PROVE NestInv'
  BY <1>m, <1>9 DEF iderw
<1>10. ASSUME NEW p \in Handle, iderw_wait(p) PROVE NestInv'
  <2>1. /\ pc[p] = "io_woken" /\ UNCHANGED want
        /\ pc' = [pc EXCEPT ![p] = IF b[p] \in valid \ dirty THEN "held" ELSE "io_sleep"]
    BY <1>10, Zenon DEF iderw_wait
  <2> QED  BY <1>m, <2>1
<1>11. ASSUME transfer PROVE NestInv'
  BY <1>11, Zenon DEF transfer
<1>12. ASSUME error PROVE NestInv'
  BY <1>12, Zenon DEF error
<1>13. ASSUME ideintr PROVE NestInv'
  BY <1>w, <1>13, Zenon DEF ideintr
<1>14. ASSUME UNCHANGED vars PROVE NestInv'
  BY <1>14, Zenon DEF vars
<1> QED
  BY <1>1, <1>2, <1>3, <1>4, <1>5, <1>6, <1>7, <1>8, <1>9, <1>10, <1>11, <1>12, <1>13, <1>14, Zenon DEF Next, bget

-----------------------------------------------------------------------------
\* The invariant holds at the start.
LEMMA InvInit == ASSUME Params, Init PROVE Inv
<1>1. TypeInv  BY TypeInit
<1>2. HoldInv /\ BufInv /\ CleanInv
  BY Zenon DEF Params, Init, HoldInv, BufInv, CleanInv, Holding
<1>n. NestInv  BY DEF Init, NestInv
<1>3. QueueInv /\ DriveInv
  BY DEF Init, QueueInv, DriveInv, Pending, Idle, IsInjective
<1> QED  BY <1>1, <1>2, <1>3, <1>n DEF Inv

\* The invariant is inductive.
LEMMA InvNext == ASSUME Params, Inv, [Next]_vars PROVE Inv'
<1>1. TypeInv /\ HoldInv /\ BufInv /\ QueueInv /\ DriveInv /\ CleanInv /\ NestInv  BY DEF Inv
<1>2. TypeInv'  BY <1>1, TypeNext
<1>3. HoldInv'  BY <1>1, HoldNext
<1>4. BufInv'  BY <1>1, BufNext
<1>5. QueueInv'  BY <1>1, QueueNext
<1>6. DriveInv'  BY <1>1, DriveNext
<1>7. CleanInv'  BY <1>1, CleanNext
<1>8. NestInv'  BY <1>1, NestNext
<1> QED  BY <1>2, <1>3, <1>4, <1>5, <1>6, <1>7, <1>8 DEF Inv

\* The invariant holds in every reachable state.
LEMMA Always == ASSUME Params PROVE Spec => []Inv
<1>1. Init => Inv  BY InvInit
<1>2. Inv /\ [Next]_vars => Inv'  BY InvNext
<1> QED  BY <1>1, <1>2, PTL DEF Spec

\* Of any sleepers of bget, the one that asks for the lowest rank waits for a
\* process that does not sleep.
LEMMA NoCircleOfSleepers == ASSUME Params, Inv PROVE NoCircle
<1> SUFFICES ASSUME NEW S, S \subseteq {p \in Handle : pc[p] = "bget_sleep"}, S # {}
             PROVE  \E p \in S : \A q \in Handle : pc[q] \in Holding /\ b[q] = b[p] =>
                      \A k \in S : Owner[k] # Owner[q]
  BY DEF NoCircle
<1>0. HoldInv /\ NestInv /\ Ranked  BY Zenon DEF Inv, Params
<1>1. \A p \in S : p \in Handle /\ pc[p] = "bget_sleep" /\ want[p] \in Sector /\ sector[b[p]] = want[p]
  BY <1>0, Zenon DEF HoldInv
<1> DEFINE U == {Rank[want[p]] : p \in S}
<1>2. U \subseteq Nat /\ U # {}
  <2>1. \A p \in S : Rank[want[p]] \in Nat  BY <1>0, <1>1 DEF Ranked
  <2> QED  BY <2>1, Zenon
<1>3. PICK u \in U : \A v \in U : ~(<<v, u>> \in OpToRel(<, Nat))
  <2> HIDE DEF U
  <2> QED  BY <1>2, NatLessThanWellFounded, WFMin, Zenon
<1>4. PICK p \in S : u = Rank[want[p]]  OBVIOUS
<1>5. ASSUME NEW q \in Handle, pc[q] \in Holding, b[q] = b[p], NEW k \in S
      PROVE  Owner[k] # Owner[q]
  <2> SUFFICES ASSUME Owner[k] = Owner[q] PROVE FALSE  OBVIOUS
  <2>1. k \in Handle /\ pc[k] = "bget_sleep"  BY <1>1, Zenon
  <2>2. k # q  BY <1>5, <2>1 DEF Holding
  <2>3. pc[q] = "held" /\ Rank[want[k]] < Rank[want[q]]
    <3>1. pc[q] \in {"user", "held"}  BY <1>0, <2>1, <2>2 DEF NestInv
    <3>2. pc[q] = "held"  BY <1>5, <3>1 DEF Holding
    <3> QED  BY <1>0, <2>1, <2>2, <3>2 DEF NestInv
  <2>4. want[q] = want[p]
    <3>1. sector[b[q]] = want[q]  BY <1>0, <1>5, Zenon DEF HoldInv
    <3> QED  BY <1>1, <1>5, <3>1, Zenon
  <2>5. Rank[want[k]] \in U /\ Rank[want[k]] \in Nat /\ u \in Nat
    <3>1. Rank[want[k]] \in U  OBVIOUS
    <3> HIDE DEF U
    <3> QED  BY <1>2, <3>1, Zenon
  <2>6. ~(<<Rank[want[k]], u>> \in OpToRel(<, Nat))  BY <1>3, <2>5, Zenon
  <2>7. Rank[want[k]] < u  BY <1>4, <2>3, <2>4, Zenon
  <2> HIDE DEF U
  <2> QED  BY <2>5, <2>6, <2>7 DEF OpToRel
<1> QED  BY <1>5, Zenon

\* What bread hands out is the sector asked for and is its caller's alone, the
\* drive answers the request at the head of idequeue, and whoever sleeps in bget
\* or iderw has somebody that will wake it, with no circle of processes that each
\* hold what the next one waits for (bio.c, ide.c).
THEOREM CacheIsSound == ASSUME Params PROVE Spec => []CacheSound
<1>1. Inv => CacheSound
  <2> SUFFICES ASSUME Inv PROVE CacheSound  OBVIOUS
  <2>0. TypeInv /\ HoldInv /\ BufInv /\ QueueInv /\ DriveInv  BY DEF Inv
  <2>1. TypeOK  BY <2>0 DEF TypeInv, QueueInv, TypeOK
  <2>2. HeldIsWanted  BY <2>0, Zenon DEF HoldInv, QueueInv, HeldIsWanted
  <2>3. DriveServesHead
    <3>1. idequeue # <<>> => Head(idequeue) = idequeue[1]  BY <2>0, HeadHeld
    <3> QED  BY <2>0, <3>1 DEF DriveInv, DriveServesHead
  <2>4. SleeperHasWaker
    <3> SUFFICES ASSUME NEW p \in Handle
                 PROVE  /\ pc[p] = "io_sleep" => b[p] \in Range(idequeue)
                        /\ pc[p] = "bget_sleep" => \E q \in Handle : pc[q] \in Holding /\ b[q] = b[p]
      BY DEF SleeperHasWaker
    <3>1. DOMAIN idequeue = 1 .. Len(idequeue)  BY <2>0 DEF TypeInv
    <3>2. pc[p] = "io_sleep" => b[p] \in Range(idequeue)  BY <2>0, <3>1, Zenon DEF QueueInv, Range
    <3>3. pc[p] = "bget_sleep" => \E q \in Handle : pc[q] \in Holding /\ b[q] = b[p]
      BY <2>0, Zenon DEF HoldInv
    <3> QED  BY <3>2, <3>3
  <2>5. NoCircle  BY NoCircleOfSleepers
  <2> QED  BY <2>1, <2>2, <2>3, <2>4, <2>5 DEF CacheSound
<1> QED  BY <1>1, Always, PTL

-----------------------------------------------------------------------------
\* The value of a sector, for any cache and disk.
MemAt(F, V, S, D, K, s) ==
  IF s \in F THEN Lost
  ELSE IF \E x \in V : S[x] = s THEN D[CHOOSE x \in V : S[x] = s] ELSE K[s]

\* The value of a sector: lost, that of its valid buffer, or that of the disk.
LEMMA MemCases ==
  ASSUME NEW F, NEW V, NEW S, NEW D, NEW K, NEW s,
         \A x, y \in V : S[x] = s /\ S[y] = s => x = y
  PROVE  /\ s \in F => MemAt(F, V, S, D, K, s) = Lost
         /\ \A x \in V : s \notin F /\ S[x] = s => MemAt(F, V, S, D, K, s) = D[x]
         /\ s \notin F /\ (\A x \in V : S[x] # s) => MemAt(F, V, S, D, K, s) = K[s]
<1>1. s \in F => MemAt(F, V, S, D, K, s) = Lost  BY DEF MemAt
<1>2. ASSUME NEW x \in V, s \notin F, S[x] = s PROVE MemAt(F, V, S, D, K, s) = D[x]
  <2>1. (CHOOSE y \in V : S[y] = s) = x  BY <1>2
  <2> QED  BY <1>2, <2>1, Zenon DEF MemAt
<1>3. s \notin F /\ (\A x \in V : S[x] # s) => MemAt(F, V, S, D, K, s) = K[s]  BY DEF MemAt
<1> QED  BY <1>1, <1>2, <1>3, Zenon

\* The value of a sector in a reachable state.
LEMMA MemNow ==
  ASSUME TypeInv, BufInv, NEW s \in Sector
  PROVE  /\ s \in failed => Mem[s] = Lost
         /\ \A x \in valid : s \notin failed /\ sector[x] = s => Mem[s] = data[x]
         /\ s \notin failed /\ (\A x \in valid : sector[x] # s) => Mem[s] = disk[s]
<1>1. Mem[s] = MemAt(failed, valid, sector, data, disk, s)  BY Zenon DEF Mem, MemAt
<1>2. \A x, y \in valid : sector[x] = s /\ sector[y] = s => x = y  BY DEF TypeInv, BufInv
<1> QED  BY <1>1, <1>2, MemCases

\* The same, after a step.
LEMMA MemThen ==
  ASSUME TypeInv', BufInv', NEW s \in Sector
  PROVE  /\ s \in failed' => Mem'[s] = Lost
         /\ \A x \in valid' : s \notin failed' /\ sector'[x] = s => Mem'[s] = data'[x]
         /\ s \notin failed' /\ (\A x \in valid' : sector'[x] # s) => Mem'[s] = disk'[s]
<1>1. Mem'[s] = MemAt(failed', valid', sector', data', disk', s)  BY DEF Mem, MemAt
<1>2. \A x, y \in valid' : sector'[x] = s /\ sector'[y] = s => x = y  BY DEF TypeInv, BufInv
<1> QED  BY <1>1, <1>2, MemCases

\* Two functions on Sector that agree are equal.
LEMMA MemAgree == ASSUME \A s \in Sector : Mem'[s] = Mem[s] PROVE Mem' = Mem
<1>1. Mem = [s \in Sector |-> Mem[s]] /\ Mem' = [s \in Sector |-> Mem'[s]]  BY Zenon DEF Mem
<1> QED  BY <1>1

\* A step that changes no buffer and no sector changes no abstract block.
LEMMA MemKept == ASSUME UNCHANGED <<failed, valid, sector, data, disk>> PROVE Mem' = Mem
BY DEF Mem

\* A step that moves nobody into or out of a held buffer changes no holders.
LEMMA HoldersKept ==
  ASSUME \A q \in Handle : /\ pc'[q] \in Holding <=> pc[q] \in Holding
                           /\ pc[q] \in Holding => sector'[b'[q]] = sector[b[q]]
  PROVE  Holders' = Holders
BY Zenon DEF Holders

\* A process that takes a buffer becomes the only holder of the sector it wants.
LEMMA Takes ==
  ASSUME Inv, NEW p \in Handle, pc[p] = "bget", NEW x \in Buf \ busy, sector'[x] = want[p],
         \A y \in Buf : sector[y] = want[p] => y = x,
         \A y \in Buf : y # x => sector'[y] = sector[y],
         b' = [b EXCEPT ![p] = x], pc'[p] \in Holding, \A q \in Handle : q # p => pc'[q] = pc[q],
         Mem' = Mem
  PROVE  Cache!Next
<1>1. want[p] \in Sector  BY Zenon DEF Inv, HoldInv
<1>2. \A q \in Handle : pc[q] \in Holding => q # p /\ b[q] # x /\ b[q] \in Buf
  BY DEF Inv, HoldInv, TypeInv, Holding
<1>3. b'[p] = x /\ \A q \in Handle : q # p => b'[q] = b[q]  BY Zenon DEF Inv, TypeInv
<1>4. \A q \in Handle : pc[q] \in Holding => sector'[b'[q]] = sector[b[q]] /\ sector[b[q]] # want[p]
  BY <1>2, <1>3
<1>5. Holders[want[p]] = {}  BY <1>1, <1>4, Zenon DEF Holders
<1>6. Holders' = [Holders EXCEPT ![want[p]] = {p}]
  <2>1. Holders = [s \in Sector |-> Holders[s]] /\ Holders' = [s \in Sector |-> Holders'[s]]
    BY Zenon DEF Holders
  <2>2. ASSUME NEW s \in Sector PROVE Holders'[s] = IF s = want[p] THEN {p} ELSE Holders[s]
    <3>1. \A q \in Handle : q \in Holders'[s] <=> (q = p /\ s = want[p]) \/ (q # p /\ q \in Holders[s])
      BY <1>2, <1>3, <1>4 DEF Holders
    <3>2. Holders[s] \subseteq Handle /\ Holders'[s] \subseteq Handle /\ p \notin Holders[s]
      BY <1>2, Zenon DEF Holders
    <3>3. s = want[p] => Holders[s] = {}  BY <1>5, Zenon
    <3> QED  BY <3>1, <3>2, <3>3, ZenonT(40)
  <2> QED  BY <2>1, <2>2
<1>7. Cache!Get(p, want[p])  BY <1>5, <1>6, Zenon DEF Cache!Get
<1> QED  BY <1>1, <1>7, Zenon DEF Cache!Next

\* The holder of a buffer writes it: the sector has the value, if it is not lost.
LEMMA Writes ==
  ASSUME Params, Inv, Inv', NEW p \in Handle, pc[p] = "held", NEW v \in Val,
         data' = [data EXCEPT ![b[p]] = v], UNCHANGED <<failed, valid, sector, disk>>,
         Holders' = Holders
  PROVE  Cache!Next \/ UNCHANGED <<Mem, Holders>>
<1> DEFINE s == sector[b[p]]
<1>1. b[p] \in Buf /\ s \in Sector /\ b[p] \in valid
  BY Zenon DEF Inv, HoldInv, QueueInv, Holding, TypeInv
<1>2. TypeInv /\ BufInv /\ TypeInv' /\ BufInv'  BY Zenon DEF Inv
<1>3. data \in [Buf -> Val] /\ valid \subseteq Buf  BY <1>2, Zenon DEF TypeInv
<1>4. ASSUME NEW t \in Sector, t # s \/ s \in failed PROVE Mem'[t] = Mem[t]
  <2>1. CASE t \in failed  BY <1>2, <2>1, MemNow, MemThen, Zenon
  <2>2. CASE t \notin failed /\ \A x \in valid : sector[x] # t
    BY <1>2, <2>2, MemNow, MemThen, Zenon
  <2>3. ASSUME t \notin failed, NEW x \in valid, sector[x] = t PROVE Mem'[t] = Mem[t]
    <3>1. data'[x] = data[x]  BY <1>3, <1>4, <2>3, Zenon
    <3>2. Mem[t] = data[x]  BY <1>2, <2>3, MemNow, Zenon
    <3>3. Mem'[t] = data'[x]  BY <1>2, <2>3, MemThen, Zenon
    <3> QED  BY <3>1, <3>2, <3>3, Zenon
  <2> QED  BY <2>1, <2>2, <2>3, Zenon
<1>5. CASE s \in failed
  BY <1>4, <1>5, MemAgree
<1>6. CASE s \notin failed
  <2>1. Mem'[s] = v
    <3>1. Mem'[s] = data'[b[p]]  BY <1>1, <1>2, <1>6, MemThen, Zenon
    <3> QED  BY <1>1, <1>3, <3>1, Zenon
  <2>2. Mem[s] # Lost
    <3>1. Mem[s] = data[b[p]]  BY <1>1, <1>2, <1>6, MemNow, Zenon
    <3> QED  BY <1>1, <1>3, <3>1, Zenon DEF Params
  <2>3. Mem' = [Mem EXCEPT ![s] = v]
    <3>1. Mem = [t \in Sector |-> Mem[t]] /\ Mem' = [t \in Sector |-> Mem'[t]]  BY DEF Mem
    <3> HIDE DEF s
    <3> QED  BY <1>4, <2>1, <3>1
  <2>4. Holders[s] = {p}
    <3>1. p \in Holders[s]  BY <1>1, Zenon DEF Holders, Holding
    <3>2. ASSUME NEW q \in Holders[s] PROVE q = p
      <4>1. q \in Handle /\ pc[q] \in Holding /\ sector[b[q]] = s  BY <1>1, <3>2, Zenon DEF Holders
      <4>2. b[q] \in Buf  BY <4>1, Zenon DEF Inv, HoldInv, TypeInv
      <4>3. b[q] = b[p]  BY <1>1, <4>1, <4>2, Zenon DEF Inv, BufInv
      <4> QED  BY <4>1, <4>3 DEF Inv, HoldInv, Holding
    <3> QED  BY <3>1, <3>2, Zenon
  <2>5. Cache!Write(p, s)  BY <2>2, <2>3, <2>4, Zenon DEF Cache!Write
  <2> QED  BY <1>1, <2>5, Zenon DEF Cache!Next
<1> QED  BY <1>5, <1>6

\* The initial states are those of the abstract blocks.
LEMMA RefInit == ASSUME Params, Init PROVE Cache!Init
<1>1. Inv  BY InvInit
<1>2. \A s \in Sector : Mem[s] = disk[s]
  BY <1>1, MemNow, Zenon DEF Inv, Init
<1>3. Mem \in [Sector -> Val]
  <2>1. Mem = [s \in Sector |-> Mem[s]]  BY DEF Mem
  <2>2. \A s \in Sector : Mem[s] \in Val  BY <1>2 DEF Init
  <2> QED  BY <2>1, <2>2
<1>4. Holders = [s \in Sector |-> {}]  BY DEF Holders, Init, Holding
<1> QED  BY <1>3, <1>4 DEF Cache!Init

\* Every step is a step of the abstract blocks or leaves them alone.
LEMMA RefNext ==
  ASSUME Params, Inv, Inv', [Next]_vars
  PROVE  Cache!Next \/ UNCHANGED <<Mem, Holders>>
<1> USE DEF flags, hw, Goto
<1> DEFINE Goal == Cache!Next \/ UNCHANGED <<Mem, Holders>>
<1>i. /\ TypeInv /\ HoldInv /\ BufInv /\ QueueInv /\ DriveInv /\ CleanInv
      /\ TypeInv' /\ BufInv' /\ CleanInv'
  BY DEF Inv
<1>t. /\ pc \in [Handle -> {"user", "bget", "bget_sleep", "panic"} \cup Holding]
      /\ b \in [Handle -> Buf \cup {0}] /\ valid \subseteq Buf
      /\ sector \in [Buf -> Sector \cup {NoSector}] /\ data \in [Buf -> Val]
      /\ disk \in [Sector -> Val] /\ failed \subseteq Sector
  BY <1>i, Zenon DEF TypeInv
\* A step of p that neither begins nor ends its hold.
<1>s. ASSUME NEW p \in Handle, NEW l, pc' = [pc EXCEPT ![p] = l], l \in Holding <=> pc[p] \in Holding,
             \A q \in Handle : pc[q] \in Holding => b'[q] = b[q], UNCHANGED sector
      PROVE  Holders' = Holders
  <2>1. \A q \in Handle : pc'[q] \in Holding <=> pc[q] \in Holding  BY <1>t, <1>s
  <2> QED  BY <1>s, <2>1, HoldersKept, Zenon
\* A wakeup.
<1>w. ASSUME NEW x, pc' = Woken(x), UNCHANGED <<b, sector>> PROVE Holders' = Holders
  <2>1. \A q \in Handle : pc'[q] \in Holding <=> pc[q] \in Holding  BY <1>t, <1>w, Zenon DEF Woken, Holding
  <2> QED  BY <1>w, <2>1, HoldersKept, Zenon
<1> HIDE DEF Goal
<1>1. ASSUME NEW p \in Handle, NEW s \in Sector, bread(p, s) PROVE Goal
  <2>1. Holders' = Holders  BY <1>1, <1>s, Zenon DEF bread, Holding
  <2>2. Mem' = Mem  BY <1>1, MemKept DEF bread
  <2> QED  BY <2>1, <2>2 DEF Goal
<1>2. ASSUME NEW p \in Handle, bget_hit(p) PROVE Goal
  <2>1. PICK x \in Buf \ busy : /\ sector[x] = want[p] /\ pc[p] = "bget" /\ b' = [b EXCEPT ![p] = x]
                                /\ pc' = [pc EXCEPT ![p] = IF x \in valid THEN "held" ELSE "iderw"]
    BY <1>2, Zenon DEF bget_hit, Take, Cached
  <2>2. Mem' = Mem /\ UNCHANGED sector  BY <1>2, MemKept, Zenon DEF bget_hit
  <2>3. pc'[p] \in Holding /\ \A q \in Handle : q # p => pc'[q] = pc[q]  BY <1>t, <2>1, Zenon DEF Holding
  <2>4. \A y \in Buf : sector[y] = want[p] => y = x  BY <1>i, <2>1 DEF HoldInv, BufInv
  <2>5. Cache!Next  BY <2>1, <2>2, <2>3, <2>4, Takes, Zenon
  <2> QED  BY <2>5 DEF Goal
<1>3. ASSUME NEW p \in Handle, bget_sleep(p) PROVE Goal
  <2>1. Holders' = Holders
    <3>1. pc[p] = "bget" /\ pc' = [pc EXCEPT ![p] = "bget_sleep"] /\ UNCHANGED sector
      BY <1>3, Zenon DEF bget_sleep
    <3>2. \A q \in Handle : q # p => b'[q] = b[q]  BY <1>t, <1>3, Zenon DEF bget_sleep
    <3> QED  BY <1>s, <3>1, <3>2, Zenon DEF Holding
  <2>2. Mem' = Mem  BY <1>3, MemKept, Zenon DEF bget_sleep
  <2> QED  BY <2>1, <2>2 DEF Goal
<1>4. ASSUME NEW p \in Handle, bget_recycle(p) PROVE Goal
  <2>1. PICK x \in Buf \ (busy \cup dirty) :
           /\ pc[p] = "bget" /\ Cached(want[p]) = {}
           /\ sector' = [sector EXCEPT ![x] = want[p]]
           /\ valid' = valid \ {x} /\ dirty' = dirty
           /\ b' = [b EXCEPT ![p] = x] /\ pc' = [pc EXCEPT ![p] = "iderw"]
           /\ UNCHANGED <<data, disk, failed>>
    BY <1>4, <1>i, Recycles, Zenon
  <2>2. sector'[x] = want[p] /\ \A y \in Buf : y # x => sector'[y] = sector[y]  BY <1>t, <2>1, Zenon
  <2>3. \A y \in Buf : sector[y] # want[p]  BY <2>1, Zenon DEF Cached
  <2>4. ASSUME NEW s \in Sector PROVE Mem'[s] = Mem[s]
    <3>1. CASE s \in failed  BY <1>i, <2>1, <3>1, MemNow, MemThen, Zenon
    <3>2. ASSUME s \notin failed, NEW y \in valid, y # x, sector[y] = s PROVE Mem'[s] = Mem[s]
      <4>1. Mem[s] = data[y]  BY <1>i, <3>2, MemNow, Zenon
      <4>2. y \in valid' /\ sector'[y] = s  BY <1>t, <2>1, <2>2, <3>2, Zenon
      <4>3. Mem'[s] = data'[y]  BY <1>i, <2>1, <3>2, <4>2, MemThen, Zenon
      <4> QED  BY <2>1, <4>1, <4>3, Zenon
    <3>3. ASSUME s \notin failed, \A y \in valid : y # x => sector[y] # s PROVE Mem'[s] = Mem[s]
      <4>1. \A y \in valid' : sector'[y] # s  BY <1>t, <2>1, <2>2, <3>3, Zenon
      <4>2. Mem'[s] = disk[s]  BY <1>i, <2>1, <3>3, <4>1, MemThen, Zenon
      <4>3. CASE x \in valid /\ sector[x] = s
        <5>1. Mem[s] = data[x]  BY <1>i, <3>3, <4>3, MemNow, Zenon
        <5>2. data[x] = disk[s]  BY <1>i, <2>1, <3>3, <4>3, Zenon DEF CleanInv
        <5> QED  BY <4>2, <5>1, <5>2
      <4>4. CASE ~(x \in valid /\ sector[x] = s)
        <5>1. \A y \in valid : sector[y] # s  BY <3>3, <4>4
        <5> QED  BY <1>i, <3>3, <4>2, <5>1, MemNow, Zenon
      <4> QED  BY <4>3, <4>4, Zenon
    <3> QED  BY <3>1, <3>2, <3>3, Zenon
  <2>5. Mem' = Mem  BY <2>4, MemAgree
  <2>6. pc'[p] \in Holding /\ \A q \in Handle : q # p => pc'[q] = pc[q]  BY <1>t, <2>1, Zenon DEF Holding
  <2>7. Cache!Next  BY <2>1, <2>2, <2>3, <2>5, <2>6, Takes, ZenonT(40)
  <2> QED  BY <2>7 DEF Goal
<1>5. ASSUME NEW p \in Handle, bget_panic(p) PROVE Goal
  <2>1. Holders' = Holders  BY <1>5, <1>s, Zenon DEF bget_panic, NoBuffer, Holding
  <2>2. Mem' = Mem  BY <1>5, MemKept, Zenon DEF bget_panic, NoBuffer
  <2> QED  BY <2>1, <2>2 DEF Goal
<1>6. ASSUME NEW p \in Handle, NEW v \in Val, bwrite(p, v) PROVE Goal
  <2>1. Holders' = Holders  BY <1>6, <1>s, Zenon DEF bwrite, Holding
  <2> QED  BY <1>6, <2>1, Writes, Zenon DEF bwrite, Goal
<1>7. ASSUME NEW p \in Handle, NEW v \in Val, log_write(p, v) PROVE Goal
  <2>1. Holders' = Holders  BY <1>7, HoldersKept, Zenon DEF log_write
  <2> QED  BY <1>7, <2>1, Writes, Zenon DEF log_write, Goal
<1>8. ASSUME NEW p \in Handle, brelse(p) PROVE Goal
  <2>1. /\ pc[p] = "held" /\ pc' = [Woken(b[p]) EXCEPT ![p] = "user"] /\ b' = [b EXCEPT ![p] = 0]
        /\ UNCHANGED <<sector, valid, data, disk, failed>>
    BY <1>8, Zenon DEF brelse, Release
  <2>2. Mem' = Mem  BY <2>1, MemKept
  <2>3. pc'[p] = "user" /\ \A q \in Handle : q # p => b'[q] = b[q] /\ (pc'[q] \in Holding <=> pc[q] \in Holding)
    BY <1>t, <2>1, Zenon DEF Woken, Holding
  <2> DEFINE s == sector[b[p]]
  <2>4. s \in Sector /\ b[p] \in Buf  BY <1>i, <2>1, Zenon DEF HoldInv, Holding, TypeInv
  <2>5. \A q \in Handle : pc[q] \in Holding /\ sector[b[q]] = s => q = p
    <3> SUFFICES ASSUME NEW q \in Handle, pc[q] \in Holding, sector[b[q]] = s PROVE q = p  BY Zenon
    <3>1. b[q] \in Buf  BY <1>i, Zenon DEF HoldInv, TypeInv
    <3>2. b[q] = b[p]  BY <1>i, <2>4, <3>1, Zenon DEF BufInv
    <3> QED  BY <1>i, <2>1, <3>2, Zenon DEF HoldInv, Holding
  <2>6. Holders[s] = {p}  BY <2>1, <2>4, <2>5, Zenon DEF Holders, Holding
  <2>7. Holders' = [Holders EXCEPT ![s] = {}]
    <3>1. Holders = [t \in Sector |-> Holders[t]] /\ Holders' = [t \in Sector |-> Holders'[t]]
      BY Zenon DEF Holders
    <3>2. ASSUME NEW t \in Sector PROVE Holders'[t] = IF t = s THEN {} ELSE Holders[t]
      <4>1. \A q \in Handle : q \in Holders'[t] <=> q # p /\ q \in Holders[t]
        BY <2>1, <2>3, Zenon DEF Holders, Holding
      <4>2. \A q \in Handle : q \in Holders[t] => (q = p <=> t = s)
        BY <2>5, Zenon DEF Holders
      <4>3. Holders[t] \subseteq Handle /\ Holders'[t] \subseteq Handle  BY Zenon DEF Holders
      <4> HIDE DEF s
      <4> QED  BY <4>1, <4>2, <4>3, Zenon
    <3> HIDE DEF s
    <3> QED  BY <3>1, <3>2
  <2>8. Cache!Put(p, s)  BY <2>2, <2>6, <2>7, Zenon DEF Cache!Put
  <2> QED  BY <2>4, <2>8 DEF Cache!Next, Goal
<1>9. ASSUME NEW p \in Handle, iderw(p) PROVE Goal
  <2>1. Holders' = Holders  BY <1>9, <1>s, Zenon DEF iderw, Holding
  <2>2. Mem' = Mem  BY <1>9, MemKept, Zenon DEF iderw
  <2> QED  BY <2>1, <2>2 DEF Goal
<1>10. ASSUME NEW p \in Handle, iderw_wait(p) PROVE Goal
  <2>1. Holders' = Holders  BY <1>10, <1>s, Zenon DEF iderw_wait, Holding
  <2>2. Mem' = Mem  BY <1>10, MemKept, Zenon DEF iderw_wait
  <2> QED  BY <2>1, <2>2 DEF Goal
<1>11. ASSUME transfer PROVE Goal
  <2>1. Holders' = Holders  BY <1>11, HoldersKept DEF transfer
  <2>2. /\ drive.st = "busy" /\ disk' = IF drive.wr THEN [disk EXCEPT ![drive.s] = drive.v] ELSE disk
        /\ UNCHANGED <<sector, valid, data, failed>>
    BY <1>11 DEF transfer
  <2>3. idequeue # <<>>  BY <1>i, <2>2, Zenon DEF DriveInv
  <2>4. drive.wr => idequeue[1] \in valid /\ sector[idequeue[1]] = drive.s
    BY <1>i, <2>3, Zenon DEF DriveInv, BufInv
  <2>5. ASSUME NEW s \in Sector PROVE Mem'[s] = Mem[s]
    <3>1. CASE s \in failed  BY <1>i, <2>2, <3>1, MemNow, MemThen, Zenon
    <3>2. ASSUME s \notin failed, NEW y \in valid, sector[y] = s PROVE Mem'[s] = Mem[s]
      <4>1. Mem[s] = data[y]  BY <1>i, <3>2, MemNow, Zenon
      <4>2. Mem'[s] = data'[y]  BY <1>i, <2>2, <3>2, MemThen, Zenon
      <4> QED  BY <2>2, <4>1, <4>2, Zenon
    <3>3. ASSUME s \notin failed, \A y \in valid : sector[y] # s PROVE Mem'[s] = Mem[s]
      <4>1. drive.wr => s # drive.s  BY <2>4, <3>3
      <4>2. disk'[s] = disk[s]  BY <1>t, <2>2, <4>1, Zenon
      <4>3. Mem[s] = disk[s]  BY <1>i, <3>3, MemNow, Zenon
      <4>4. Mem'[s] = disk'[s]  BY <1>i, <2>2, <3>3, MemThen, Zenon
      <4> QED  BY <4>2, <4>3, <4>4
    <3> QED  BY <3>1, <3>2, <3>3, Zenon
  <2>6. Mem' = Mem  BY <2>5, MemAgree
  <2> QED  BY <2>1, <2>6 DEF Goal
<1>12. ASSUME error PROVE Goal
  <2>1. Holders' = Holders  BY <1>12, HoldersKept DEF error
  <2>2. /\ drive.st = "busy" /\ failed' = failed \cup {drive.s}
        /\ UNCHANGED <<sector, valid, data, disk>>
    BY <1>12 DEF error
  <2>3. idequeue # <<>>  BY <1>i, <2>2, Zenon DEF DriveInv
  <2>4. drive.s \in Sector  BY <1>i, <2>3, HeadHeld, Zenon DEF DriveInv
  <2>5. ASSUME NEW s \in Sector PROVE Mem'[s] = IF s = drive.s THEN Lost ELSE Mem[s]
    <3>1. CASE s \in failed \/ s = drive.s  BY <1>i, <2>2, <3>1, MemNow, MemThen, Zenon
    <3>2. ASSUME s \notin failed', NEW y \in valid, sector[y] = s PROVE Mem'[s] = Mem[s]
      <4>1. Mem[s] = data[y]  BY <1>i, <2>2, <3>2, MemNow, Zenon
      <4>2. Mem'[s] = data'[y]  BY <1>i, <2>2, <3>2, MemThen, Zenon
      <4> QED  BY <2>2, <4>1, <4>2, Zenon
    <3>3. ASSUME s \notin failed', \A y \in valid : sector[y] # s PROVE Mem'[s] = Mem[s]
      <4>1. Mem[s] = disk[s]  BY <1>i, <2>2, <3>3, MemNow, Zenon
      <4>2. Mem'[s] = disk'[s]  BY <1>i, <2>2, <3>3, MemThen, Zenon
      <4> QED  BY <2>2, <4>1, <4>2, Zenon
    <3> QED  BY <2>2, <3>1, <3>2, <3>3, Zenon
  <2>6. Mem' = [Mem EXCEPT ![drive.s] = Lost]
    <3>1. Mem = [t \in Sector |-> Mem[t]] /\ Mem' = [t \in Sector |-> Mem'[t]]  BY Zenon DEF Mem
    <3> QED  BY <2>5, <3>1
  <2>7. Cache!Fail(drive.s)  BY <2>1, <2>6 DEF Cache!Fail
  <2> QED  BY <2>4, <2>7 DEF Cache!Next, Goal
<1>13. ASSUME ideintr PROVE Goal
  <2> DEFINE x == idequeue[1]
  <2>1. idequeue # <<>>  BY <1>13, Zenon DEF ideintr
  <2>2. Head(idequeue) = x /\ x \in Buf /\ Pending(x)  BY <1>i, <2>1, HeadHeld
  <2>3. /\ valid' = valid \cup {x} /\ dirty' = dirty \ {x} /\ pc' = Woken(x)
        /\ data' = IF x \notin dirty /\ drive.st = "done" THEN [data EXCEPT ![x] = drive.v] ELSE data
        /\ UNCHANGED <<sector, disk, failed, b>>
    BY <1>13, <2>2, Zenon DEF ideintr
  <2> HIDE DEF x
  <2>4. Holders' = Holders  BY <1>w, <2>3, Zenon
  <2>5. ASSUME NEW s \in Sector PROVE Mem'[s] = Mem[s]
    <3>1. CASE s \in failed  BY <1>i, <2>3, <3>1, MemNow, MemThen, Zenon
    <3>2. ASSUME s \notin failed, NEW y \in valid, y # x \/ x \in dirty, sector[y] = s PROVE Mem'[s] = Mem[s]
      <4>1. data'[y] = data[y] /\ y \in valid'  BY <1>t, <2>3, <3>2, Zenon
      <4>2. Mem[s] = data[y]  BY <1>i, <3>2, MemNow, Zenon
      <4>3. Mem'[s] = data'[y]  BY <1>i, <2>3, <3>2, <4>1, MemThen, Zenon
      <4> QED  BY <4>1, <4>2, <4>3, Zenon
    <3>3. ASSUME s \notin failed, \A y \in valid : sector[y] # s PROVE Mem'[s] = Mem[s]
      <4>1. Mem[s] = disk[s]  BY <1>i, <3>3, MemNow
      <4>2. CASE sector[x] = s
        <5>1. x \in valid' \ dirty'  BY <2>3, Zenon
        <5>2. data'[x] = disk'[s]  BY <1>i, <2>3, <3>3, <4>2, <5>1, Zenon DEF CleanInv
        <5>3. Mem'[s] = data'[x]  BY <1>i, <2>3, <3>3, <4>2, <5>1, MemThen, Zenon
        <5> QED  BY <2>3, <4>1, <5>2, <5>3, Zenon
      <4>3. CASE sector[x] # s
        <5>1. \A y \in valid' : sector'[y] # s  BY <2>3, <3>3, <4>3, Zenon
        <5>2. Mem'[s] = disk'[s]  BY <1>i, <2>3, <3>3, <5>1, MemThen, Zenon
        <5> QED  BY <2>3, <4>1, <5>2, Zenon
      <4> QED  BY <4>2, <4>3, Zenon
    <3>4. x \in valid => x \in dirty  BY <2>2 DEF Pending
    <3> QED  BY <3>1, <3>2, <3>3, <3>4, Zenon
  <2>6. Mem' = Mem  BY <2>5, MemAgree
  <2> QED  BY <2>4, <2>6 DEF Goal
<1>14. ASSUME UNCHANGED vars PROVE Goal
  <2>1. Holders' = Holders  BY <1>14, HoldersKept, Zenon DEF vars
  <2>2. Mem' = Mem  BY <1>14, MemKept, Zenon DEF vars
  <2> QED  BY <2>1, <2>2 DEF Goal
<1>15. Goal
  BY <1>1, <1>2, <1>3, <1>4, <1>5, <1>6, <1>7, <1>8, <1>9, <1>10, <1>11, <1>12, <1>13, <1>14, Zenon DEF Next, bget
<1> QED  BY <1>15 DEF Goal

\* bio.c over ide.c implements Blocks: every sector has one value and one holder
\* at a time, whatever is evicted, queued or reordered below.
THEOREM ImplementsBlocks == ASSUME Params PROVE Spec => IsOneCopy
<1>1. Init => Cache!Init  BY RefInit
<1>2. Inv /\ Inv' /\ [Next]_vars => [Cache!Next]_<<Mem, Holders>>
  BY RefNext
<1> QED  BY <1>1, <1>2, Always, PTL DEF Spec, IsOneCopy, Cache!Spec

-----------------------------------------------------------------------------
\* A bget that finds no buffer finds each busy for a process or pinned by the log.
LEMMA PanicOnlyPinned ==
  ASSUME Params, IsFiniteSet(Handle), Inv
  PROVE  Suffices
<1> SUFFICES ASSUME NEW p \in Handle, bget_panic(p)
             PROVE  Cardinality(dirty \ busy) + Cardinality({q \in Handle : pc[q] \in Holding}) >= NBUF
  BY DEF Suffices
<1> DEFINE H == {q \in Handle : pc[q] \in Holding}
           f == [q \in H |-> b[q]]
<1>0. busy \subseteq Buf /\ dirty \subseteq Buf /\ NBUF \in Nat  BY Zenon DEF Inv, TypeInv, Params
<1>1. Buf \subseteq busy \cup dirty  BY Zenon DEF bget_panic, NoBuffer
<1>4. IsFiniteSet(H)
  <2>1. H \subseteq Handle  OBVIOUS
  <2> HIDE DEF H
  <2> QED  BY <2>1, FS_Subset
<1>5. f \in Surjection(H, busy)
  <2>1. \A q \in H : b[q] \in busy  BY Zenon DEF Inv, HoldInv
  <2>2. \A x \in busy : \E q \in H : b[q] = x  BY Zenon DEF Inv, HoldInv
  <2> HIDE DEF H
  <2>3. f \in [H -> busy]  BY <2>1
  <2>4. \A x \in busy : \E q \in H : f[q] = x  BY <2>2
  <2> HIDE DEF f
  <2> QED  BY <2>3, <2>4 DEF Surjection
<1>6. IsFiniteSet(busy) /\ Cardinality(busy) <= Cardinality(H)
  <2> HIDE DEF H, f
  <2> QED  BY <1>4, <1>5, FS_Surjection
<1>7. IsFiniteSet(Buf) /\ Cardinality(Buf) = NBUF
  BY <1>0, FS_Interval DEF Buf
<1>8. IsFiniteSet(dirty \ busy)
  <2>1. IsFiniteSet(dirty)  BY <1>0, <1>7, FS_Subset
  <2> QED  BY <2>1, FS_Difference, Zenon
<1>9. Cardinality(Buf) = Cardinality(busy) + Cardinality(dirty \ busy)
  <2>1. Buf = busy \cup (dirty \ busy) /\ busy \cap (dirty \ busy) = {}  BY <1>0, <1>1
  <2>2. /\ Cardinality(busy \cup (dirty \ busy))
           = Cardinality(busy) + Cardinality(dirty \ busy) - Cardinality(busy \cap (dirty \ busy))
    BY <1>6, <1>8, FS_Union, Zenon
  <2>3. Cardinality({}) = 0  BY FS_EmptySet
  <2>4. Cardinality(busy) \in Nat /\ Cardinality(dirty \ busy) \in Nat
    BY <1>6, <1>8, FS_CardinalityType
  <2>5. Cardinality(busy \cap (dirty \ busy)) = 0  BY <2>1, <2>3, Zenon
  <2>6. Cardinality(Buf) = Cardinality(busy \cup (dirty \ busy))  BY <2>1, Zenon
  <2> QED  BY <2>2, <2>4, <2>5, <2>6
<1>10. Cardinality(busy) \in Nat /\ Cardinality(dirty \ busy) \in Nat /\ Cardinality(H) \in Nat
  <2> HIDE DEF H
  <2> QED  BY <1>4, <1>6, <1>8, FS_CardinalityType, Zenon
<1>11. Cardinality(dirty \ busy) + Cardinality(H) >= NBUF
  <2> HIDE DEF H, f
  <2> QED  BY <1>0, <1>6, <1>7, <1>9, <1>10
<1> QED  BY <1>11

\* "bget: no buffers" (bio.c) is reached only when every buffer is held by a
\* process, however many it has, or pinned by the log: no path leaks one.
THEOREM BuffersDoSuffice == ASSUME Params, IsFiniteSet(Handle) PROVE Spec => BuffersSuffice
<1>1. Inv /\ [Next]_vars => [Suffices]_vars  BY PanicOnlyPinned
<1> QED  BY <1>1, Always, PTL DEF Spec, BuffersSuffice
=============================================================================
