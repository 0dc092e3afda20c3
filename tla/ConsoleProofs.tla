--------------------------- MODULE ConsoleProofs ---------------------------
(***************************************************************************)
(* What holds of the console's input ring for any number of readers, any   *)
(* INPUT_BUF and any width of the counters that INPUT_BUF divides.         *)
(***************************************************************************)
EXTENDS Console, SequenceTheorems, TLAPS

\* 128 and 2^32 in the code: the counters tell a full ring from an empty one,
\* and the cell of a counter stays the same when it wraps.
Params ==
  /\ INPUT_BUF \in Nat \ {0} /\ UMAX \in Nat /\ UMAX > INPUT_BUF
  /\ UMAX % INPUT_BUF = 0

Counter == 0 .. UMAX - 1
Place == {"user", "acquire", "awake", "loop", "sleep", "return"}

\* The ring and the places of the readers.
TypeInv ==
  /\ buf \in [0 .. INPUT_BUF - 1 -> Plain \cup {"nul", "nl", "D"}]
  /\ r \in Counter /\ w \in Counter /\ e \in Counter
  /\ pc \in [Proc -> Place]

Inv == TypeInv /\ RingInOrder /\ SleepJustified

-----------------------------------------------------------------------------
(* Arithmetic of the counters. *)

\* The unsigned operations by cases: each wraps at most once.
LEMMA ByCases ==
  ASSUME Params, NEW a \in Counter, NEW b \in Counter
  PROVE  /\ Diff(a, b) = IF b <= a THEN a - b ELSE a + UMAX - b
         /\ Inc(a) = IF a + 1 < UMAX THEN a + 1 ELSE 0
         /\ Dec(a) = IF a = 0 THEN UMAX - 1 ELSE a - 1
         /\ (a + INPUT_BUF) % UMAX
              = IF a + INPUT_BUF < UMAX THEN a + INPUT_BUF ELSE a + INPUT_BUF - UMAX
         /\ Diff(a, b) \in Counter /\ Inc(a) \in Counter /\ Dec(a) \in Counter
<1> USE DEF Params, Counter
<1>1. b <= a => Diff(a, b) = a - b  BY DEF Diff
<1>2. a < b => Diff(a, b) = a + UMAX - b  BY DEF Diff
<1>3. a + 1 < UMAX => Inc(a) = a + 1  BY DEF Inc
<1>4. a + 1 = UMAX => Inc(a) = 0  BY DEF Inc
<1>5. a = 0 => Dec(a) = UMAX - 1  BY DEF Dec
<1>6. a > 0 => Dec(a) = a - 1  BY DEF Dec
<1>7. a + INPUT_BUF < UMAX => (a + INPUT_BUF) % UMAX = a + INPUT_BUF  OBVIOUS
<1>8. a + INPUT_BUF >= UMAX => (a + INPUT_BUF) % UMAX = a + INPUT_BUF - UMAX  OBVIOUS
<1> QED  BY <1>1, <1>2, <1>3, <1>4, <1>5, <1>6, <1>7, <1>8

\* One end of a distance moves by one.
LEMMA Moving ==
  ASSUME Params, NEW a \in Counter, NEW b \in Counter
  PROVE  /\ Diff(a, b) = 0 <=> a = b
         /\ Diff(a, b) < UMAX - 1 => Diff(Inc(a), b) = Diff(a, b) + 1
         /\ a # b => Diff(Dec(a), b) = Diff(a, b) - 1 /\ Diff(a, Inc(b)) = Diff(a, b) - 1
         /\ Diff(a, b) = INPUT_BUF <=> a = (b + INPUT_BUF) % UMAX
<1>1. /\ Diff(a, b) = IF b <= a THEN a - b ELSE a + UMAX - b
      /\ Inc(a) = IF a + 1 < UMAX THEN a + 1 ELSE 0
      /\ Dec(a) = IF a = 0 THEN UMAX - 1 ELSE a - 1
      /\ Inc(a) \in Counter /\ Dec(a) \in Counter
  BY ByCases
<1>2. /\ Inc(b) = IF b + 1 < UMAX THEN b + 1 ELSE 0
      /\ (b + INPUT_BUF) % UMAX
           = IF b + INPUT_BUF < UMAX THEN b + INPUT_BUF ELSE b + INPUT_BUF - UMAX
      /\ Inc(b) \in Counter
  BY ByCases, Zenon
<1>3. Diff(Inc(a), b) = IF b <= Inc(a) THEN Inc(a) - b ELSE Inc(a) + UMAX - b  BY <1>1, ByCases, Zenon
<1>4. Diff(Dec(a), b) = IF b <= Dec(a) THEN Dec(a) - b ELSE Dec(a) + UMAX - b  BY <1>1, ByCases, Zenon
<1>5. Diff(a, Inc(b)) = IF Inc(b) <= a THEN a - Inc(b) ELSE a + UMAX - Inc(b)  BY <1>2, ByCases, Zenon
<1>6. UMAX \in Nat /\ INPUT_BUF \in Nat /\ 0 < INPUT_BUF /\ INPUT_BUF < UMAX  BY DEF Params
<1> QED  BY <1>1, <1>2, <1>3, <1>4, <1>5, <1>6 DEF Counter

\* Distances along the ring add up.
LEMMA Adding ==
  ASSUME Params, NEW a \in Counter, NEW b \in Counter, NEW c \in Counter,
         Diff(b, c) <= Diff(a, c)
  PROVE  /\ Diff(a, b) = Diff(a, c) - Diff(b, c)
         /\ \A k \in 0 .. Diff(a, b) :
              Diff(a, k) \in Counter /\ Diff(Diff(a, k), c) = Diff(a, c) - k
<1>1. /\ Diff(a, c) = IF c <= a THEN a - c ELSE a + UMAX - c
      /\ Diff(b, c) = IF c <= b THEN b - c ELSE b + UMAX - c
      /\ Diff(a, b) = IF b <= a THEN a - b ELSE a + UMAX - b
      /\ Diff(a, b) \in Counter
  BY ByCases
<1>2. UMAX \in Nat  BY DEF Params
<1>3. Diff(a, b) = Diff(a, c) - Diff(b, c)  BY <1>1, <1>2 DEF Counter
<1>4. ASSUME NEW k \in 0 .. Diff(a, b)
      PROVE  Diff(a, k) \in Counter /\ Diff(Diff(a, k), c) = Diff(a, c) - k
  <2>1. k \in Counter /\ k <= Diff(a, b)  BY <1>1, <1>2 DEF Counter
  <2>2. Diff(a, k) = (IF k <= a THEN a - k ELSE a + UMAX - k) /\ Diff(a, k) \in Counter
    BY <2>1, ByCases
  <2>3. Diff(Diff(a, k), c) = IF c <= Diff(a, k) THEN Diff(a, k) - c ELSE Diff(a, k) + UMAX - c
    BY <2>2, ByCases
  <2>4. k <= Diff(a, c)  BY <1>1, <1>2, <1>3, <2>1 DEF Counter
  <2> QED  BY <1>1, <1>2, <2>1, <2>2, <2>3, <2>4 DEF Counter
<1> QED  BY <1>3, <1>4

-----------------------------------------------------------------------------
(* The indices stay in order and a sleeper has nothing to read. *)

\* An empty ring, and everybody in user mode.
LEMMA InvInit == ASSUME Params, Init PROVE Inv
<1>1. 0 \in Counter  BY DEF Params, Counter
<1>2. Diff(0, 0) = 0  BY <1>1, Moving
<1>3. TypeInv  BY <1>1 DEF Init, TypeInv, Place, Params
<1>4. RingInOrder  BY <1>2 DEF Init, RingInOrder, Params
<1>5. SleepJustified  BY DEF Init, SleepJustified
<1> QED  BY <1>3, <1>4, <1>5 DEF Inv

\* What is known of the distances in a state.
LEMMA Distances ==
  ASSUME Params, Inv
  PROVE  /\ Diff(w, r) \in Nat /\ Diff(e, r) \in Nat /\ Diff(e, w) \in Nat
         /\ Diff(w, r) <= Diff(e, r) /\ Diff(e, r) <= INPUT_BUF /\ INPUT_BUF < UMAX
         /\ Diff(e, r) = INPUT_BUF => w = e
         /\ INPUT_BUF \in Nat /\ UMAX \in Nat
<1>1. Diff(w, r) \in Counter /\ Diff(e, r) \in Counter /\ Diff(e, w) \in Counter
  BY ByCases, Zenon DEF Inv, TypeInv
<1> QED  BY <1>1 DEF Inv, RingInOrder, Params, Counter

\* A step of the reader changes the ring by at most r, past a committed character.
LEMMA Reads ==
  ASSUME Params, Inv, UNCHANGED <<buf, w, e>>, r' = r \/ (r # w /\ r' = Inc(r))
  PROVE  RingInOrder' /\ r' \in Counter
<1>1. CASE r' = r  BY <1>1 DEF Inv, TypeInv, RingInOrder, Diff
<1>2. CASE r # w /\ r' = Inc(r)
  <2>1. Diff(w, r') = Diff(w, r) - 1 /\ Diff(w, r) # 0
    BY <1>2, Moving, Zenon DEF Inv, TypeInv
  <2>2. e # r  BY <2>1, Distances, Moving DEF Inv, TypeInv
  <2>3. Diff(e, r') = Diff(e, r) - 1  BY <1>2, <2>2, Moving, Zenon DEF Inv, TypeInv
  <2>4. r' \in Counter  BY <1>2, ByCases, Zenon DEF Inv, TypeInv
  <2>5. w' = w /\ e' = e  OBVIOUS
  <2>6. /\ Diff(w, r') <= Diff(e, r') /\ Diff(e, r') <= INPUT_BUF /\ Diff(e, r') # INPUT_BUF
    BY <2>1, <2>3, Distances
  <2> QED  BY <2>4, <2>5, <2>6 DEF RingInOrder, Diff
<1> QED  BY <1>1, <1>2

\* Typing a character.
LEMMA Types ==
  ASSUME Params, Inv, NEW c \in Plain \cup {"nl", "D"}, key(c)
  PROVE  /\ Inv' /\ r' = r /\ Diff(w, r) <= Diff(w', r)
         /\ Diff(e, r) < INPUT_BUF /\ buf' = [buf EXCEPT ![Cell(e)] = c]
         /\ Diff(w', r) <= Diff(e, r) + 1
<1>1. /\ Diff(e, r) < INPUT_BUF /\ buf' = [buf EXCEPT ![Cell(e)] = c] /\ e' = Inc(e) /\ r' = r
      /\ \/ w' = Inc(e) /\ pc' = wakeup(pc)
         \/ w' = w /\ pc' = pc /\ Inc(e) # (r + INPUT_BUF) % UMAX
  BY Zenon DEF key, Typed, Room, EndsLine
<1>a. r \in Counter /\ e \in Counter  BY DEF Inv, TypeInv
<1>b. Diff(e, r) < UMAX - 1  BY <1>1, Distances
<1>2. Diff(Inc(e), r) = Diff(e, r) + 1 /\ Inc(e) \in Counter
  BY <1>a, <1>b, Moving, ByCases, Zenon
<1>3. Diff(Inc(e), r) = INPUT_BUF => Inc(e) = (r + INPUT_BUF) % UMAX
  BY <1>2, Moving, Zenon DEF Inv, TypeInv
<1>4. TypeInv'
  <2>1. buf' \in [0 .. INPUT_BUF - 1 -> Plain \cup {"nul", "nl", "D"}]  BY <1>1, Zenon DEF Inv, TypeInv
  <2>2. pc' \in [Proc -> Place]  BY <1>1 DEF Inv, TypeInv, wakeup, Place
  <2> QED  BY <1>1, <1>2, <2>1, <2>2, Zenon DEF Inv, TypeInv
<1>5. Diff(w', r) <= Diff(Inc(e), r) /\ Diff(w, r) <= Diff(w', r)
  BY <1>1, <1>2, Distances
<1>6. RingInOrder'
  <2>1. Diff(e', r) = INPUT_BUF => w' = e'  BY <1>1, <1>3
  <2>2. Diff(w', r) <= Diff(e', r) /\ Diff(e', r) <= INPUT_BUF  BY <1>1, <1>2, <1>5, Distances
  <2> QED  BY <1>1, <2>1, <2>2 DEF RingInOrder, Diff
<1>7. SleepJustified'
  <2>1. CASE pc' = wakeup(pc)  BY <2>1 DEF SleepJustified, wakeup
  <2>2. CASE w' = w /\ pc' = pc  BY <1>1, <2>2 DEF Inv, SleepJustified
  <2> QED  BY <1>1, <2>1, <2>2
<1> QED  BY <1>1, <1>2, <1>4, <1>5, <1>6, <1>7 DEF Inv

\* Erasing characters that are not committed.
LEMMA Edits ==
  ASSUME Params, Inv, backspace \/ kill_line
  PROVE  Inv' /\ UNCHANGED <<buf, r, w>>
<1>1. UNCHANGED <<buf, r, w, pc>>  BY Zenon DEF backspace, kill_line
<1>a. r \in Counter /\ w \in Counter /\ e \in Counter  BY DEF Inv, TypeInv
<1>b. Diff(w, r) <= Diff(e, r)  BY Distances
<1>2. /\ e' \in Counter /\ Diff(w, r) <= Diff(e', r) /\ Diff(e', r) <= INPUT_BUF
      /\ Diff(e', r) = INPUT_BUF => w = e'
  <2>1. CASE backspace
    <3>1. e # w /\ e' = Dec(e) /\ e' \in Counter  BY <1>a, <2>1, ByCases, Zenon DEF backspace
    <3>2. Diff(e, w) # 0  BY <1>a, <3>1, Moving, Zenon
    <3>3. Diff(e, w) = Diff(e, r) - Diff(w, r)  BY <1>a, <1>b, Adding
    <3>4. e # r  BY <1>a, <3>2, <3>3, Distances, Moving
    <3>5. Diff(e', r) = Diff(e, r) - 1  BY <1>a, <3>1, <3>4, Moving
    <3> QED  BY <3>1, <3>2, <3>3, <3>5, Distances
  <2>2. CASE kill_line
    <3>1. PICK k \in 0 .. Diff(e, w) : e' = Diff(e, k)  BY <2>2, Zenon DEF kill_line
    <3>2. Diff(e, w) = Diff(e, r) - Diff(w, r)  BY <1>a, <1>b, Adding
    <3>3. e' \in Counter /\ Diff(e', r) = Diff(e, r) - k
      BY <1>a, <1>b, <3>1, Adding
    <3>4. k \in Nat /\ k <= Diff(e, w)  BY <3>1, Distances
    <3>5. Diff(e', r) = INPUT_BUF => k = 0 /\ w = e  BY <3>2, <3>3, <3>4, Distances
    <3>6. Diff(e, 0) = e
      <4>1. 0 \in Counter /\ e \in Nat /\ e >= 0  BY DEF Params, Counter, Inv, TypeInv
      <4> QED  BY <1>a, <4>1, ByCases
    <3> QED  BY <3>1, <3>2, <3>3, <3>4, <3>5, <3>6, Distances
  <2> QED  BY <2>1, <2>2
<1>3. TypeInv' /\ SleepJustified'  BY <1>1, <1>2, Zenon DEF Inv, TypeInv, SleepJustified
<1>4. RingInOrder'  BY <1>1, <1>2 DEF RingInOrder, Diff
<1> QED  BY <1>1, <1>3, <1>4 DEF Inv

\* What a step of a process does to the ring and to the sleepers.
LEMMA Reader ==
  ASSUME Params, Inv, NEW p \in Proc,
         read(p) \/ enter(p) \/ empty(p) \/ take(p) \/ done(p) \/ return(p) \/ kill(p)
  PROVE  /\ UNCHANGED <<buf, w, e>> /\ (r' = r \/ (r # w /\ r' = Inc(r)))
         /\ pc' \in [Proc -> Place]
         /\ \A q \in Proc : pc'[q] = "sleep" => r' = w
<1>a. pc \in [Proc -> Place] /\ \A q \in Proc : pc[q] = "sleep" => r = w
  BY DEF Inv, TypeInv, SleepJustified
<1>1. CASE read(p) \/ enter(p) \/ done(p) \/ return(p)
  <2>1. UNCHANGED input  BY <1>1, Zenon DEF read, enter, done, return
  <2>2. \E l \in Place \ {"sleep"} : pc' = [pc EXCEPT ![p] = l]
    <3>1. {"acquire", "loop", "return", "user"} \subseteq Place \ {"sleep"}  BY DEF Place
    <3> QED  BY <1>1, <3>1 DEF read, enter, done, return, Leave
  <2> QED  BY <1>a, <2>1, <2>2 DEF input
<1>2. CASE empty(p)
  <2>1. UNCHANGED input /\ r = w  BY <1>2, Zenon DEF empty
  <2>2. pc' = [pc EXCEPT ![p] = IF killed[p] THEN "return" ELSE "sleep"]  BY <1>2 DEF empty, Leave
  <2>3. pc' \in [Proc -> Place]  BY <1>a, <2>2 DEF Place
  <2> QED  BY <2>1, <2>3 DEF input
<1>3. CASE take(p)
  <2>1. r # w /\ (r' = r \/ r' = Inc(r)) /\ UNCHANGED <<buf, w, e>>  BY <1>3, Zenon DEF take, Take
  <2>2. pc' = pc \/ pc' = [pc EXCEPT ![p] = "return"]  BY <1>3, Zenon DEF take, Take, Leave
  <2>3. pc' \in [Proc -> Place] /\ \A q \in Proc : pc'[q] # "sleep"
    BY <1>a, <2>1, <2>2 DEF Place
  <2> QED  BY <2>1, <2>3
<1>4. CASE kill(p)
  <2>1. UNCHANGED input /\ (pc' = pc \/ pc' = [pc EXCEPT ![p] = "awake"])  BY <1>4, Zenon DEF kill
  <2>2. pc' \in [Proc -> Place] /\ \A q \in Proc : pc'[q] = "sleep" => pc[q] = "sleep"
    BY <1>a, <2>1 DEF Place
  <2> QED  BY <1>a, <2>1, <2>2 DEF input
<1> QED  BY <1>1, <1>2, <1>3, <1>4

\* Every step of the interrupt and of the readers preserves the invariant.
LEMMA InvNext == ASSUME Params, Inv, [Next]_vars PROVE Inv'
<1>1. CASE consoleintr
  <2>1. (\E c \in Plain \cup {"nl", "D"} : key(c)) \/ backspace \/ kill_line
    BY <1>1, Zenon DEF consoleintr
  <2> QED  BY <2>1, Types, Edits, Zenon
<1>2. ASSUME NEW p \in Proc,
             read(p) \/ enter(p) \/ empty(p) \/ take(p) \/ done(p) \/ return(p) \/ kill(p)
      PROVE  Inv'
  <2>1. /\ UNCHANGED <<buf, w, e>> /\ (r' = r \/ (r # w /\ r' = Inc(r)))
        /\ pc' \in [Proc -> Place]
        /\ \A q \in Proc : pc'[q] = "sleep" => r' = w
    BY <1>2, Reader, Zenon
  <2>2. RingInOrder' /\ r' \in Counter  BY <2>1, Reads, Zenon
  <2>3. TypeInv' /\ SleepJustified'  BY <2>1, <2>2, Zenon DEF Inv, TypeInv, SleepJustified
  <2> QED  BY <2>2, <2>3 DEF Inv
<1>3. CASE UNCHANGED vars
  BY <1>3, Zenon DEF vars, input, Inv, TypeInv, RingInOrder, SleepJustified, Diff
<1> QED  BY <1>1, <1>2, <1>3, Zenon DEF Next

\* Inv always holds: the indices of the ring stay in order, within one turn,
\* when they wrap, and nobody sleeps on &input.r with something to read.
THEOREM RingIsSound == ASSUME Params PROVE Spec => []RingSound
<1>1. Init => Inv  BY InvInit
<1>2. Inv /\ [Next]_vars => Inv'  BY InvNext
<1>3. Inv => RingSound  BY DEF Inv, RingSound
<1> QED  BY <1>1, <1>2, <1>3, PTL DEF Spec

-----------------------------------------------------------------------------
(* The committed characters form a queue. *)

Char == Plain \cup {"nul", "nl", "D"}

\* The k characters from a on.
Text(b, a, k) == [i \in 1 .. k |-> b[Cell(a + i - 1)]]

\* Division, with the quotient as a witness.
LEMMA DivMod ==
  ASSUME NEW a \in Nat, NEW m \in Nat \ {0}
  PROVE  \E k \in Nat : \E s \in 0 .. m - 1 : s = a % m /\ m * k \in Nat /\ a = m * k + s
<1>1. /\ a \div m \in Nat /\ a % m \in 0 .. m - 1 /\ m * (a \div m) \in Nat
      /\ a = m * (a \div m) + (a % m)
  BY SMT
<1> QED  BY <1>1, Zenon

\* The remainder is determined by the division.
LEMMA Remainder ==
  ASSUME NEW m \in Nat \ {0}, NEW k \in Nat, NEW s \in 0 .. m - 1
  PROVE  (m * k + s) % m = s
BY SMT

\* A multiple of a sum.
LEMMA Distributes ==
  ASSUME NEW m \in Nat, NEW k \in Nat, NEW l \in Nat
  PROVE  m * (k + l) = m * k + m * l
BY SMT

\* A counter that wraps stays at its cell.
LEMMA CellWraps == ASSUME Params, NEW a \in Nat PROVE Cell(a + UMAX) = Cell(a)
<1>0. INPUT_BUF \in Nat \ {0} /\ UMAX \in Nat /\ UMAX % INPUT_BUF = 0  BY DEF Params
<1>1. PICK k \in Nat, s \in 0 .. INPUT_BUF - 1 :
        s = a % INPUT_BUF /\ INPUT_BUF * k \in Nat /\ a = INPUT_BUF * k + s
  BY <1>0, DivMod
<1>2. PICK l \in Nat : INPUT_BUF * l \in Nat /\ UMAX = INPUT_BUF * l
  <2>1. PICK l \in Nat, t \in 0 .. INPUT_BUF - 1 :
          t = UMAX % INPUT_BUF /\ INPUT_BUF * l \in Nat /\ UMAX = INPUT_BUF * l + t
    BY <1>0, DivMod
  <2>2. t = 0  BY <1>0, <2>1
  <2> QED  BY <2>1, <2>2
<1>3. INPUT_BUF * (k + l) = INPUT_BUF * k + INPUT_BUF * l /\ k + l \in Nat  BY <1>0, Distributes
<1>4. a + UMAX = INPUT_BUF * (k + l) + s  BY <1>1, <1>2, <1>3
<1>5. (INPUT_BUF * (k + l) + s) % INPUT_BUF = s  BY <1>0, <1>3, Remainder
<1> QED  BY <1>1, <1>4, <1>5 DEF Cell

\* Counters less than INPUT_BUF apart have different cells.
LEMMA CellsDiffer ==
  ASSUME Params, NEW a \in Nat, NEW d \in 1 .. INPUT_BUF - 1
  PROVE  Cell(a + d) # Cell(a)
<1>0. INPUT_BUF \in Nat \ {0}  BY DEF Params
<1>1. PICK k \in Nat, s \in 0 .. INPUT_BUF - 1 :
        s = a % INPUT_BUF /\ INPUT_BUF * k \in Nat /\ a = INPUT_BUF * k + s
  BY <1>0, DivMod, Zenon
<1>2. CASE s + d < INPUT_BUF
  <2>1. s + d \in 0 .. INPUT_BUF - 1 /\ s + d # s  BY <1>0, <1>2
  <2>2. a + d = INPUT_BUF * k + (s + d)  BY <1>0, <1>1
  <2>3. (INPUT_BUF * k + (s + d)) % INPUT_BUF = s + d  BY <1>0, <2>1, Remainder
  <2> QED  BY <1>1, <2>1, <2>2, <2>3, Zenon DEF Cell
<1>3. CASE s + d >= INPUT_BUF
  <2>1. s + d - INPUT_BUF \in 0 .. INPUT_BUF - 1 /\ s + d - INPUT_BUF # s  BY <1>0, <1>3
  <2>2. INPUT_BUF * (k + 1) = INPUT_BUF * k + INPUT_BUF * 1 /\ INPUT_BUF * 1 = INPUT_BUF /\ k + 1 \in Nat
    BY <1>0, Distributes
  <2>3. a + d = INPUT_BUF * (k + 1) + (s + d - INPUT_BUF)  BY <1>0, <1>1, <2>2
  <2>4. (INPUT_BUF * (k + 1) + (s + d - INPUT_BUF)) % INPUT_BUF = s + d - INPUT_BUF
    BY <1>0, <2>1, <2>2, Remainder, Zenon
  <2> QED  BY <1>1, <2>1, <2>3, <2>4, Zenon DEF Cell
<1> QED  BY <1>0, <1>2, <1>3

\* Where e points, seen from r, and where r goes.
LEMMA Cells ==
  ASSUME Params, NEW a \in Counter, NEW b \in Counter
  PROVE  /\ Cell(b + Diff(a, b)) = Cell(a)
         /\ \A k \in Nat : Cell(Inc(b) + k) = Cell(b + k + 1)
<1>1. /\ Diff(a, b) = IF b <= a THEN a - b ELSE a + UMAX - b
      /\ Inc(b) = IF b + 1 < UMAX THEN b + 1 ELSE 0
  BY ByCases
<1>2. a \in Nat /\ b \in Nat /\ UMAX \in Nat  BY DEF Params, Counter
<1>3. Cell(b + Diff(a, b)) = Cell(a)
  <2>1. CASE b <= a
    <3>1. b + Diff(a, b) = a  BY <1>1, <1>2, <2>1
    <3> QED  BY <3>1
  <2>2. CASE a < b
    <3>1. b + Diff(a, b) = a + UMAX  BY <1>1, <1>2, <2>2
    <3> QED  BY <1>2, <3>1, CellWraps
  <2> QED  BY <1>2, <2>1, <2>2
<1>4. ASSUME NEW k \in Nat PROVE Cell(Inc(b) + k) = Cell(b + k + 1)
  <2>1. CASE b + 1 < UMAX
    <3>1. Inc(b) + k = b + k + 1  BY <1>1, <1>2, <2>1
    <3> QED  BY <3>1
  <2>2. CASE b + 1 = UMAX
    <3>1. Inc(b) + k = k /\ b + k + 1 = k + UMAX  BY <1>1, <1>2, <2>2
    <3> QED  BY <3>1, CellWraps
  <2> QED  BY <1>2, <2>1, <2>2 DEF Counter
<1> QED  BY <1>3, <1>4

\* The characters as a sequence.
LEMMA TextSeq ==
  ASSUME Params, NEW b \in [0 .. INPUT_BUF - 1 -> Char], NEW a \in Nat, NEW k \in Nat
  PROVE  /\ Text(b, a, k) \in Seq(Char) /\ Len(Text(b, a, k)) = k
         /\ \A i \in 1 .. k : Text(b, a, k)[i] = b[Cell(a + i - 1)]
<1>1. ASSUME NEW i \in 1 .. k PROVE Cell(a + i - 1) \in 0 .. INPUT_BUF - 1
  <2>1. a + i - 1 \in Nat  OBVIOUS
  <2> QED  BY <2>1 DEF Cell, Params
<1>2. \A i \in 1 .. k : b[Cell(a + i - 1)] \in Char  BY <1>1
<1> QED  BY <1>2 DEF Text

\* Two rings have the same k characters from a on.
Same(b, c, a, k) == \A i \in 1 .. k : c[Cell(a + i - 1)] = b[Cell(a + i - 1)]

\* A longer text from the same place, equal on the cells of the shorter one.
LEMMA Longer ==
  ASSUME Params, NEW b \in [0 .. INPUT_BUF - 1 -> Char], NEW c \in [0 .. INPUT_BUF - 1 -> Char],
         NEW a \in Nat, NEW k \in Nat, NEW l \in Nat, k <= l, Same(b, c, a, k)
  PROVE  /\ Len(Text(b, a, k)) <= Len(Text(c, a, l))
         /\ SubSeq(Text(c, a, l), 1, Len(Text(b, a, k))) = Text(b, a, k)
<1> DEFINE t == Text(b, a, k)
           u == Text(c, a, l)
<1>1. t \in Seq(Char) /\ Len(t) = k /\ \A i \in 1 .. k : t[i] = b[Cell(a + i - 1)]
  BY TextSeq, Zenon
<1>2. u \in Seq(Char) /\ Len(u) = l /\ \A i \in 1 .. l : u[i] = c[Cell(a + i - 1)]
  BY TextSeq, Zenon
<1> HIDE DEF t, u
<1>3. \A i \in 1 .. k : i \in 1 .. l  OBVIOUS
<1>4. SubSeq(u, 1, k) \in Seq(Char) /\ Len(SubSeq(u, 1, k)) = k
      /\ \A i \in 1 .. k : SubSeq(u, 1, k)[i] = u[i]
  BY <1>2
<1>5. \A i \in 1 .. k : SubSeq(u, 1, k)[i] = t[i]  BY <1>1, <1>2, <1>3, <1>4, Zenon DEF Same
<1>6. SubSeq(u, 1, k) = t  BY <1>1, <1>4, <1>5, SeqEqual
<1> QED  BY <1>1, <1>2, <1>6 DEF t, u

\* Moving r on takes the first character.
LEMMA Shorter ==
  ASSUME Params, NEW b \in [0 .. INPUT_BUF - 1 -> Char], NEW a \in Counter, NEW k \in Nat \ {0}
  PROVE  Text(b, a, k) # <<>> /\ Text(b, Inc(a), k - 1) = Tail(Text(b, a, k))
<1> DEFINE t == Text(b, a, k)
           u == Text(b, Inc(a), k - 1)
<1>1. a \in Nat /\ Inc(a) \in Nat /\ k - 1 \in Nat  BY ByCases DEF Counter
<1>2. \A i \in Nat : Cell(Inc(a) + i) = Cell(a + i + 1)  BY Cells, Zenon
<1>3. t \in Seq(Char) /\ Len(t) = k /\ \A i \in 1 .. k : t[i] = b[Cell(a + i - 1)]
  BY <1>1, TextSeq, Zenon
<1>4. u \in Seq(Char) /\ Len(u) = k - 1 /\ \A i \in 1 .. k - 1 : u[i] = b[Cell(Inc(a) + i - 1)]
  BY <1>1, TextSeq, Zenon
<1> HIDE DEF t, u
<1>5. t # <<>>  BY <1>3
<1>6. Tail(t) \in Seq(Char) /\ Len(Tail(t)) = k - 1 /\ \A i \in 1 .. k - 1 : Tail(t)[i] = t[i + 1]
  BY <1>3, <1>5, HeadTailProperties
<1>7. ASSUME NEW i \in 1 .. k - 1 PROVE u[i] = Tail(t)[i]
  <2>1. i - 1 \in Nat /\ i + 1 \in 1 .. k /\ Inc(a) + i - 1 = Inc(a) + (i - 1)
        /\ a + (i - 1) + 1 = a + (i + 1) - 1
    BY <1>1
  <2>2. u[i] = b[Cell(Inc(a) + (i - 1))]  BY <1>4, <2>1
  <2>3. Tail(t)[i] = b[Cell(a + (i + 1) - 1)]  BY <1>3, <1>6, <2>1
  <2>4. Cell(Inc(a) + (i - 1)) = Cell(a + (i - 1) + 1)  BY <1>2, <2>1
  <2> QED  BY <2>1, <2>2, <2>3, <2>4, Zenon
<1>8. u = Tail(t)  BY <1>4, <1>6, <1>7, SeqEqual
<1> QED  BY <1>5, <1>8 DEF t, u

\* Every step adds to the end of the committed characters or takes the first.
LEMMA QueueNext == ASSUME Params, Inv, [Next]_vars PROVE Queues \/ UNCHANGED vars
<1>a. buf \in [0 .. INPUT_BUF - 1 -> Char] /\ r \in Counter /\ w \in Counter /\ e \in Counter
  BY DEF Inv, TypeInv, Char
<1>b. Committed = Text(buf, r, Diff(w, r)) /\ Committed' = Text(buf', r', Diff(w', r'))
  BY DEF Committed, Text, Diff, Cell
<1>c. r \in Nat /\ Diff(w, r) \in Nat  BY <1>a, Distances DEF Counter
<1>1. ASSUME NEW c \in Plain \cup {"nl", "D"}, key(c) PROVE Queues
  <2>1. /\ Inv' /\ r' = r /\ Diff(w, r) <= Diff(w', r)
        /\ Diff(e, r) < INPUT_BUF /\ buf' = [buf EXCEPT ![Cell(e)] = c]
    BY <1>1, Types
  <2>2. buf' \in [0 .. INPUT_BUF - 1 -> Char] /\ Diff(w', r) \in Nat
    <3>1. buf' \in [0 .. INPUT_BUF - 1 -> Char] /\ w' \in Counter  BY <2>1 DEF Inv, TypeInv, Char
    <3>2. Diff(w', r) \in Counter  BY <1>a, <3>1, ByCases, Zenon
    <3> QED  BY <3>1, <3>2 DEF Counter
  <2>3. Cell(r + Diff(e, r)) = Cell(e)  BY <1>a, Cells, Zenon
  <2>4. ASSUME NEW i \in 1 .. Diff(w, r)
        PROVE  buf'[Cell(r + i - 1)] = buf[Cell(r + i - 1)]
    <3> DEFINE a == r + i - 1
               d == Diff(e, r) - i + 1
    <3>1. a \in Nat /\ d \in 1 .. INPUT_BUF - 1 /\ a + d = r + Diff(e, r)  BY <1>c, <2>1, Distances
    <3>2. Cell(a) # Cell(e)
      <4> HIDE DEF a, d
      <4>1. Cell(a + d) # Cell(a)  BY <3>1, CellsDiffer, Zenon
      <4> QED  BY <2>3, <3>1, <4>1, Zenon
    <3>3. Cell(a) \in 0 .. INPUT_BUF - 1  BY <3>1 DEF Cell, Params
    <3> QED  BY <1>a, <2>1, <3>2, <3>3
  <2>5. /\ Len(Text(buf, r, Diff(w, r))) <= Len(Text(buf', r, Diff(w', r)))
        /\ SubSeq(Text(buf', r, Diff(w', r)), 1, Len(Text(buf, r, Diff(w, r)))) = Text(buf, r, Diff(w, r))
    <3> DEFINE c1 == buf'
               k == Diff(w, r)
               l == Diff(w', r)
    <3>1. /\ c1 \in [0 .. INPUT_BUF - 1 -> Char] /\ k \in Nat /\ l \in Nat /\ k <= l
          /\ Same(buf, c1, r, k)
      BY <1>c, <2>1, <2>2, <2>4, Zenon DEF Same
    <3> HIDE DEF c1, k, l
    <3>2. /\ Len(Text(buf, r, k)) <= Len(Text(c1, r, l))
          /\ SubSeq(Text(c1, r, l), 1, Len(Text(buf, r, k))) = Text(buf, r, k)
      BY <1>a, <1>c, <3>1, Longer, SMTT(30)
    <3> QED  BY <3>2, Zenon DEF c1, k, l
  <2> QED  BY <1>b, <2>1, <2>5, Zenon DEF Queues
<1>2. ASSUME UNCHANGED <<buf, r, w>> PROVE Queues
  <2>1. Committed' = Text(buf, r, Diff(w, r))  BY <1>2 DEF Committed, Text, Diff, Cell
  <2>2. Diff(w, r) <= Diff(w, r)  BY <1>c
  <2>3. /\ Len(Text(buf, r, Diff(w, r))) <= Len(Text(buf, r, Diff(w, r)))
        /\ SubSeq(Text(buf, r, Diff(w, r)), 1, Len(Text(buf, r, Diff(w, r)))) = Text(buf, r, Diff(w, r))
    BY <1>a, <1>c, <2>2, Longer, Zenon DEF Same
  <2> QED  BY <1>b, <2>1, <2>3, Zenon DEF Queues
<1>3. ASSUME UNCHANGED <<buf, w>>, r # w, r' = Inc(r) PROVE Queues
  <2>1. Diff(w, Inc(r)) = Diff(w, r) - 1 /\ Diff(w, r) # 0  BY <1>a, <1>3, Moving, Zenon
  <2>2. Text(buf, r, Diff(w, r)) # <<>>
        /\ Text(buf, Inc(r), Diff(w, r) - 1) = Tail(Text(buf, r, Diff(w, r)))
    BY <1>a, <1>c, <2>1, Shorter, Zenon
  <2>3. Committed' = Text(buf, Inc(r), Diff(w, r) - 1)  BY <1>3, <2>1 DEF Committed, Text, Diff, Cell
  <2> QED  BY <1>b, <2>2, <2>3, Zenon DEF Queues
<1>4. CASE consoleintr
  <2>1. (\E c \in Plain \cup {"nl", "D"} : key(c)) \/ backspace \/ kill_line
    BY <1>4, Zenon DEF consoleintr
  <2> QED  BY <1>1, <1>2, <2>1, Edits, Zenon
<1>5. ASSUME NEW p \in Proc,
             read(p) \/ enter(p) \/ empty(p) \/ take(p) \/ done(p) \/ return(p) \/ kill(p)
      PROVE  Queues
  BY <1>2, <1>3, <1>5, Reader, Zenon
<1> QED  BY <1>4, <1>5, Zenon DEF Next

\* Committed characters are read in the order they were typed, each once: typing
\* and editing never touch them and a reader takes the first.
THEOREM CommittedIsAQueue == ASSUME Params PROVE Spec => CommittedIsQueue
<1>1. Init => Inv  BY InvInit
<1>2. Inv /\ [Next]_vars => Inv' /\ [Queues]_vars  BY InvNext, QueueNext
<1> QED  BY <1>1, <1>2, PTL DEF Spec, CommittedIsQueue
=============================================================================
