---------------------------- MODULE SignalProofs ----------------------------
(***************************************************************************)
(* What holds of the signal extension for any registers' contents, any     *)
(* size of the stack and any number of interrupted handlers, when the      *)
(* program, its handler and its restorer are at different addresses.       *)
(***************************************************************************)
EXTENDS Signal, SequenceTheorems, TLAPS

\* The program, the handler and the restorer do not overlap, and neither -1 nor
\* the place of a process that has exited is in any of them.
Layout ==
  /\ StackTop \in Nat \ {0}
  /\ MainLoc \cap HandlerLoc = {}
  /\ \A l \in MainLoc \cup HandlerLoc : l \notin {Handler, Restorer, RestorerBody, None, Dead}
  /\ Handler \notin {Restorer, RestorerBody, None, Dead}
  /\ Restorer \notin {RestorerBody, None, Dead}
  /\ RestorerBody \notin {None, Dead}
  /\ None # Dead

Frame == [eax : Word, ecx : Word, edx : Word, ebp : Word, esp : Addr,
          next : MainNext \cup HandlerNext, ret : {None, Restorer}]

Top == frames[Len(frames)]

\* The words that the restorer reads, below the stack pointer at the fault.
Saved(f) ==
  /\ f.esp > 7
  /\ stack[f.esp - 1] = Resume /\ stack[f.esp - 2] = f.ebp
  /\ stack[f.esp - 3] = f.eax /\ stack[f.esp - 4] = f.ecx /\ stack[f.esp - 5] = f.edx

\* Between a fault and the return of the restorer, the place in the code fixes
\* where the two stack pointers are relative to the last frame.
StackInv ==
  /\ eip \in HandlerLoc \cup {Handler, Restorer, RestorerBody} => frames # <<>> /\ Saved(Top)
  /\ eip = Handler => esp = Top.esp - 7 /\ ebp = Top.ebp /\ stack[Top.esp - 7] = Top.ret
  /\ eip \in HandlerLoc =>
       /\ Top.esp > 8 /\ esp = Top.esp - 8 /\ ebp = Top.esp - 8
       /\ stack[Top.esp - 8] = Top.ebp /\ stack[Top.esp - 7] = Top.ret
  /\ eip = Restorer => esp = Top.esp - 6 /\ ebp = Top.ebp
  /\ eip = RestorerBody => esp = Top.esp - 7 /\ ebp = Top.esp - 7

SigType ==
  /\ handler \in [{SIGFPE, SIGOTHER, RESTORER} -> {None, Handler, Restorer}]
  /\ handler[SIGFPE] \in {None, Handler} /\ handler[RESTORER] \in {None, Restorer}
  /\ eax \in Word /\ ecx \in Word /\ edx \in Word /\ ebp \in Word
  /\ esp \in Addr /\ eip \in Code \cup {None, Dead}
  /\ stack \in [Addr -> Word]
  /\ frames \in Seq(Frame)

SigInv == SigType /\ StackInv /\ HandlersOwn

USE DEF SIGFPE, SIGOTHER, RESTORER, regs

\* The record of the last delivery is a frame.
LEMMA TopFrame ==
  ASSUME frames \in Seq(Frame), frames # <<>>
  PROVE  Top \in Frame
<1>1. Len(frames) \in 1 .. Len(frames)  BY EmptySeq
<1> QED  BY <1>1, ElementOfSeq DEF Top

\* The invariant holds at the start.
LEMMA SigInit == Layout /\ Init => SigInv
<1> SUFFICES ASSUME Layout, Init PROVE SigInv  OBVIOUS
<1>1. SigType
  <2>1. eax \in Word /\ ecx \in Word /\ edx \in Word /\ ebp \in Word  BY DEF Init, Word
  <2>2. stack \in [Addr -> Word] /\ esp \in Addr  BY DEF Init, Word, Addr, Layout
  <2>3. eip \in Code  BY DEF Init, Code, MainLoc
  <2>4. frames \in Seq(Frame)  BY EmptySeq DEF Init
  <2>5. /\ handler \in [{SIGFPE, SIGOTHER, RESTORER} -> {None, Handler, Restorer}]
        /\ handler[SIGFPE] = None /\ handler[RESTORER] = None
    BY DEF Init
  <2> QED  BY <2>1, <2>2, <2>3, <2>4, <2>5 DEF SigType
<1>2. StackInv
  <2>1. eip \in MainLoc  BY DEF Init, MainLoc
  <2> QED  BY <2>1 DEF Layout, StackInv
<1>3. HandlersOwn  BY DEF Init, HandlersOwn
<1> QED  BY <1>1, <1>2, <1>3 DEF SigInv

\* Outside the handler and the restorer nothing is said about the stack.
LEMMA Outside ==
  ASSUME Layout, eip' \in MainLoc \cup {None, Dead}
  PROVE  StackInv'
BY DEF Layout, StackInv

\* The handlers of a process that neither registers one nor is replaced.
LEMMA OwnKept ==
  ASSUME HandlersOwn, eip # Dead, UNCHANGED <<handler, registered>>
  PROVE  HandlersOwn'
BY DEF HandlersOwn

\* The types of the fields of the last record.
LEMMA TopTyped ==
  ASSUME Layout, SigInv, frames # <<>>
  PROVE  /\ Top.esp \in 1 .. StackTop /\ Top.ebp \in Word /\ Top.ret \in {None, Restorer}
         /\ Top.eax \in Word /\ Top.ecx \in Word /\ Top.edx \in Word
BY TopFrame DEF SigInv, SigType, Frame, Addr

\* leave; ret: from the handler to the restorer of its frame.
LEMMA HandlerReturn ==
  ASSUME Layout, SigInv, handler_return
  PROVE  frames # <<>> /\ ebp' = Top.ebp /\ eip' = Top.ret /\ esp' = Top.esp - 6
<1> DEFINE t == Top.esp
<1>1. eip \in HandlerLoc /\ ebp' = stack[ebp] /\ eip' = stack[ebp + 1] /\ esp' = ebp + 2
  BY DEF handler_return
<1>2. frames # <<>> /\ ebp = t - 8 /\ stack[t - 8] = Top.ebp /\ stack[t - 7] = Top.ret
  BY <1>1 DEF SigInv, StackInv
<1>3. t \in 1 .. StackTop  BY <1>2, TopTyped
<1> HIDE DEF t
<1>4. ebp + 1 = t - 7 /\ ebp + 2 = t - 6  BY <1>2, <1>3
<1> QED  BY <1>1, <1>2, <1>4 DEF t

\* The restorer: every register of its frame, and the stack pointer at the fault.
LEMMA RestorerReturn ==
  ASSUME Layout, SigInv, restorer_return
  PROVE  /\ frames # <<>> /\ eip' = Resume
         /\ eax' = Top.eax /\ ecx' = Top.ecx /\ edx' = Top.edx
         /\ ebp' = Top.ebp /\ esp' = Top.esp
<1> DEFINE t == Top.esp
<1>1. /\ eip = RestorerBody
      /\ edx' = stack[ebp + 2] /\ ecx' = stack[ebp + 3] /\ eax' = stack[ebp + 4]
      /\ ebp' = stack[ebp + 5] /\ eip' = stack[ebp + 5 + 1] /\ esp' = ebp + 5 + 2
  BY DEF restorer_return
<1>2. frames # <<>> /\ Saved(Top) /\ ebp = t - 7  BY <1>1 DEF SigInv, StackInv
<1>3. t \in 1 .. StackTop  BY <1>2, TopTyped
<1>4. /\ stack[t - 1] = Resume /\ stack[t - 2] = Top.ebp
      /\ stack[t - 3] = Top.eax /\ stack[t - 4] = Top.ecx /\ stack[t - 5] = Top.edx
  BY <1>2 DEF Saved
<1> HIDE DEF t
<1>5. /\ ebp + 2 = t - 5 /\ ebp + 3 = t - 4 /\ ebp + 4 = t - 3
      /\ ebp + 5 = t - 2 /\ ebp + 5 + 1 = t - 1 /\ ebp + 5 + 2 = t
  BY <1>2, <1>3
<1> QED  BY <1>1, <1>2, <1>4, <1>5, SMTT(30) DEF t

\* The invariant is inductive.
LEMMA SigNext == Layout /\ SigInv /\ [Next]_vars => SigInv'
<1> SUFFICES ASSUME Layout, SigInv, [Next]_vars PROVE SigInv'  OBVIOUS
<1>0. SigType /\ StackInv /\ HandlersOwn  BY DEF SigInv
<1>a. /\ StackTop \in Nat \ {0} /\ Val \subseteq Word /\ Addr \subseteq Word /\ Code \subseteq Word
      /\ None \in Word /\ 0 \in Word /\ Addr = 1 .. StackTop
  BY DEF Layout, Word, Addr
<1>b. /\ MainLoc \subseteq Code /\ HandlerLoc \subseteq Code /\ Start \in MainLoc /\ Resume \in MainLoc
      /\ {Handler, Restorer, RestorerBody} \subseteq Code /\ HandlerBody \in HandlerLoc
  BY DEF Code, MainLoc, HandlerLoc
<1>1. ASSUME Compute PROVE SigInv'
  <2>1. eip \in MainLoc /\ eip' = eip /\ eip # Dead  BY <1>1 DEF Compute, Layout
  <2>2. StackInv'  BY <2>1, Outside
  <2>3. HandlersOwn'  BY <1>0, <1>1, <2>1, OwnKept DEF Compute
  <2>4. SigType'  BY <1>0, <1>a, <1>1 DEF SigType, Compute
  <2> QED  BY <2>2, <2>3, <2>4 DEF SigInv
<1>2. ASSUME NEW r \in {<<SIGFPE, Handler>>, <<SIGOTHER, Handler>>, <<-1, Restorer>>},
             sys_signal(r[1], r[2])
      PROVE  SigInv'
  <2>1. PICK j \in {SIGFPE, SIGOTHER, RESTORER}, h \in {Handler, Restorer} :
           /\ j = SIGFPE => h = Handler
           /\ j = RESTORER => h = Restorer
           /\ handler' = [handler EXCEPT ![j] = h] /\ registered' = registered \cup {<<j, h>>} /\ eax' = h
    <3>1. CASE r = <<SIGFPE, Handler>>
      <4>1. sys_signal(0, Handler)  BY <1>2, <3>1
      <4> QED  BY <4>1 DEF sys_signal
    <3>2. CASE r = <<SIGOTHER, Handler>>
      <4>1. sys_signal(1, Handler)  BY <1>2, <3>2
      <4> QED  BY <4>1 DEF sys_signal
    <3>3. CASE r = <<-1, Restorer>>
      <4>1. sys_signal(-1, Restorer)  BY <1>2, <3>3
      <4> QED  BY <4>1 DEF sys_signal
    <3> QED  BY <3>1, <3>2, <3>3
  <2>2. UNCHANGED <<ecx, edx, ebp, esp, eip, stack, frames>> /\ eip \in MainLoc \cup HandlerLoc
    BY <1>2 DEF sys_signal
  <2>3. SigType'
    <3>1. eax' \in Word  BY <1>a, <1>b, <2>1, Zenon
    <3>2. /\ handler' \in [{SIGFPE, SIGOTHER, RESTORER} -> {None, Handler, Restorer}]
          /\ handler'[SIGFPE] \in {None, Handler} /\ handler'[RESTORER] \in {None, Restorer}
      BY <1>0, <2>1 DEF SigType
    <3> QED  BY <1>0, <2>2, <3>1, <3>2 DEF SigType
  <2>4. StackInv'
    <3>1. (Top = Top') /\ (Saved(Top) => Saved(Top)')  BY <2>2 DEF Top, Saved
    <3> QED  BY <1>0, <2>2, <3>1 DEF StackInv
  <2>5. HandlersOwn'
    <3>1. eip # Dead /\ DOMAIN handler = {SIGFPE, SIGOTHER, RESTORER} /\ DOMAIN handler' = DOMAIN handler
      BY <1>0, <2>1, <2>2 DEF Layout, SigType
    <3> QED  BY <1>0, <2>1, <3>1 DEF HandlersOwn
  <2> QED  BY <2>3, <2>4, <2>5 DEF SigInv
<1>3. ASSUME NEW next \in MainNext \cup HandlerNext, trap_divide(next) PROVE SigInv'
  <2> DEFINE r == [eax |-> eax, ecx |-> ecx, edx |-> edx, ebp |-> ebp, esp |-> esp,
                   next |-> next, ret |-> handler[RESTORER]]
  <2>1. /\ eip \in MainLoc \cup HandlerLoc /\ handler[SIGFPE] # None /\ esp > 7
        /\ esp' = esp - 7 /\ eip' = handler[SIGFPE] /\ frames' = Append(frames, r)
        /\ UNCHANGED <<handler, eax, ecx, edx, ebp, registered>>
        /\ stack' = [stack EXCEPT ![esp - 1] = Resume, ![esp - 2] = ebp,
                            ![esp - 3] = eax, ![esp - 4] = ecx, ![esp - 5] = edx,
                            ![esp - 6] = SIGFPE, ![esp - 7] = handler[RESTORER]]
    BY <1>3 DEF trap_divide
  <2>2. eip' = Handler /\ handler[RESTORER] \in {None, Restorer}  BY <1>0, <2>1 DEF SigType
  <2>3. esp \in 1 .. StackTop /\ esp' \in Addr /\ stack \in [Addr -> Word]  BY <1>0, <1>a, <2>1 DEF SigType
  <2>4. r \in Frame
    BY <1>0, <2>2 DEF SigType, Frame
  <2>5. frames' \in Seq(Frame) /\ frames' # <<>> /\ Top' = r
    <3> HIDE DEF r
    <3>1. frames \in Seq(Frame) /\ Len(frames) \in Nat  BY <1>0 DEF SigType
    <3>2. /\ Append(frames, r) \in Seq(Frame) /\ Append(frames, r) # <<>>
          /\ Len(Append(frames, r)) = Len(frames) + 1 /\ Append(frames, r)[Len(frames) + 1] = r
      BY <2>4, <3>1, AppendProperties
    <3> QED  BY <2>1, <3>2 DEF Top
  <2>6. stack' \in [Addr -> Word]
    <3>1. ebp \in Word /\ eax \in Word /\ ecx \in Word /\ edx \in Word  BY <1>0 DEF SigType
    <3>2. Resume \in Word /\ Restorer \in Word /\ SIGFPE \in Word  BY <1>a, <1>b, Zenon
    <3>3. handler[RESTORER] \in Word  BY <1>a, <2>2, <3>2
    <3> QED  BY <2>1, <2>3, <3>1, <3>2, <3>3, Zenon
  <2>7. /\ stack'[esp - 1] = Resume /\ stack'[esp - 2] = ebp /\ stack'[esp - 3] = eax
        /\ stack'[esp - 4] = ecx /\ stack'[esp - 5] = edx /\ stack'[esp - 7] = handler[RESTORER]
    BY <1>a, <2>1, <2>3
  <2>8. r.esp = esp /\ r.ebp = ebp /\ r.eax = eax /\ r.ecx = ecx /\ r.edx = edx /\ r.ret = handler[RESTORER]
    OBVIOUS
  <2> HIDE DEF r
  <2>9. Saved(Top)'  BY <2>1, <2>5, <2>7, <2>8 DEF Saved
  <2>10. StackInv'
    BY <2>1, <2>2, <2>5, <2>7, <2>8, <2>9 DEF StackInv, Layout
  <2>11. SigType'  BY <1>0, <1>b, <2>1, <2>2, <2>3, <2>5, <2>6 DEF SigType
  <2>12. HandlersOwn'
    <3>1. eip # Dead  BY <2>1 DEF Layout
    <3> QED  BY <1>0, <2>1, <3>1, OwnKept
  <2> QED  BY <2>10, <2>11, <2>12 DEF SigInv

<1>4. ASSUME exit PROVE SigInv'
  <2>1. eip' = Dead /\ UNCHANGED <<handler, eax, ecx, edx, ebp, esp, stack, frames, registered>>  BY <1>4 DEF exit
  <2>2. StackInv'  BY <2>1, Outside
  <2>3. HandlersOwn'  BY <2>1 DEF HandlersOwn
  <2>4. SigType'  BY <1>0, <2>1 DEF SigType
  <2> QED  BY <2>2, <2>3, <2>4 DEF SigInv
<1>5. ASSUME FreshImage, ecx' \in Word, edx' \in Word, ebp' \in Word
      PROVE  /\ StackInv' /\ eip' \in Code /\ eip' # Dead /\ eax' \in Word /\ esp' \in Addr
             /\ stack' \in [Addr -> Word] /\ frames' \in Seq(Frame)
  <2>1. StackInv'  BY <1>5, <1>b, Outside DEF FreshImage
  <2>2. eip' = Start /\ eip' \in MainLoc /\ frames' = <<>> /\ eax' = 0 /\ esp' = StackTop
    BY <1>5, <1>b DEF FreshImage
  <2>3. frames' \in Seq(Frame)  BY <2>2, EmptySeq
  <2>4. stack' \in [Addr -> Word]  BY <1>5, <1>a DEF FreshImage
  <2> QED  BY <1>a, <1>b, <2>1, <2>2, <2>3, <2>4 DEF Layout
<1>6. ASSUME allocproc PROVE SigInv'
  <2>1. PICK v \in Val : ecx' = v /\ edx' = v /\ ebp' = v  BY <1>6 DEF allocproc
  <2>2. ecx' \in Word /\ edx' \in Word /\ ebp' \in Word  BY <1>a, <2>1
  <2>3. FreshImage  BY <1>6 DEF allocproc
  <2>4. handler' = [i \in {SIGFPE, SIGOTHER, RESTORER} |-> IF i = RESTORER THEN handler[i] ELSE None]
    BY <1>6 DEF allocproc
  <2>5. /\ handler' \in [{SIGFPE, SIGOTHER, RESTORER} -> {None, Handler, Restorer}]
        /\ handler'[SIGFPE] = None /\ handler'[RESTORER] = handler[RESTORER]
    BY <1>0, <2>4 DEF SigType
  <2>6. HandlersOwn'  BY <2>4 DEF HandlersOwn
  <2>7. SigType'  BY <1>0, <1>5, <2>2, <2>3, <2>5 DEF SigType
  <2> QED  BY <1>5, <2>2, <2>3, <2>6, <2>7 DEF SigInv
<1>7. ASSUME exec PROVE SigInv'
  <2>1. FreshImage /\ UNCHANGED <<handler, ecx, edx, ebp, registered>> /\ eip \in MainLoc \cup HandlerLoc
    BY <1>7 DEF exec
  <2>2. ecx' \in Word /\ edx' \in Word /\ ebp' \in Word /\ eip # Dead  BY <1>0, <2>1 DEF SigType, Layout
  <2>3. HandlersOwn'  BY <1>0, <2>1, <2>2, OwnKept
  <2>4. SigType'  BY <1>0, <1>5, <2>1, <2>2 DEF SigType
  <2> QED  BY <1>5, <2>1, <2>2, <2>3, <2>4 DEF SigInv
<1>8. ASSUME frames # <<>> PROVE Top \in Frame /\ Top.esp \in 1 .. StackTop /\ Top.ebp \in Word /\ Top.ret \in {None, Restorer}
                                  /\ Top.eax \in Word /\ Top.ecx \in Word /\ Top.edx \in Word
  BY <1>0, <1>8, <1>a, TopFrame DEF SigType, Frame
<1>9. ASSUME handle_signal PROVE SigInv'
  <2>1. /\ eip = Handler /\ esp > 1 /\ stack' = [stack EXCEPT ![esp - 1] = ebp]
        /\ esp' = esp - 1 /\ ebp' = esp - 1 /\ eip' = HandlerBody
        /\ UNCHANGED <<handler, eax, ecx, edx, frames, registered>>
    BY <1>9 DEF handle_signal, Prologue
  <2>2. frames # <<>> /\ Saved(Top) /\ esp = Top.esp - 7 /\ ebp = Top.ebp /\ stack[Top.esp - 7] = Top.ret
    BY <1>0, <2>1 DEF StackInv
  <2>3. Top.esp \in 1 .. StackTop /\ Top.esp > 8  BY <1>8, <2>1, <2>2
  <2>4. esp \in 1 .. StackTop /\ stack \in [1 .. StackTop -> Word] /\ ebp \in Word  BY <1>0, <1>a DEF SigType
  <2>5. stack' \in [1 .. StackTop -> Word] /\ esp' \in Addr /\ ebp' \in Word
    BY <1>a, <2>1, <2>4
  <2>6. \A a \in 1 .. StackTop : a # esp - 1 => stack'[a] = stack[a]  BY <2>1, <2>4
  <2>7. stack'[Top.esp - 8] = Top.ebp
    <3>1. Top.esp - 8 = esp - 1 /\ esp - 1 \in 1 .. StackTop
      <4> DEFINE t == Top.esp
      <4>1. t \in 1 .. StackTop /\ t > 8 /\ esp = t - 7 /\ StackTop \in Nat  BY <1>a, <2>2, <2>3
      <4> HIDE DEF t
      <4>2. t - 8 = esp - 1 /\ esp - 1 \in 1 .. StackTop  BY <4>1
      <4> QED  BY <4>2 DEF t
    <3> QED  BY <2>1, <2>2, <2>4, <3>1
  <2>8. Top' = Top  BY <2>1 DEF Top
  <2>9. \A k \in 1 .. 7 : stack'[Top.esp - k] = stack[Top.esp - k]
    <3> DEFINE t == Top.esp
    <3>1. t \in 1 .. StackTop /\ t > 8 /\ esp = t - 7 /\ StackTop \in Nat  BY <1>a, <2>2, <2>3
    <3> HIDE DEF t
    <3>2. ASSUME NEW k \in 1 .. 7 PROVE stack'[t - k] = stack[t - k]
      <4>1. t - k \in 1 .. StackTop /\ t - k # esp - 1  BY <3>1
      <4> QED  BY <2>6, <4>1
    <3> QED  BY <3>2 DEF t
  <2>10. Saved(Top)'  BY <2>2, <2>8, <2>9 DEF Saved
  <2>11. eip' \in HandlerLoc /\ eip' \notin {Handler, Restorer, RestorerBody, Dead}  BY <1>b, <2>1 DEF Layout
  <2>12. esp' = Top.esp - 8 /\ ebp' = Top.esp - 8  BY <2>1, <2>2, <2>3
  <2>13. StackInv'
    BY <2>1, <2>2, <2>3, <2>7, <2>8, <2>9, <2>10, <2>11, <2>12 DEF StackInv
  <2>14. SigType'  BY <1>0, <1>a, <1>b, <2>1, <2>5, <2>11 DEF SigType
  <2>15. HandlersOwn'  BY <1>0, <2>1, OwnKept DEF Layout
  <2> QED  BY <2>13, <2>14, <2>15 DEF SigInv

<1>10. ASSUME handler_return PROVE SigInv'
  <2>1. /\ eax' \in Word /\ ecx' \in Word /\ edx' \in Word
        /\ UNCHANGED <<handler, stack, frames, registered>> /\ eip \in HandlerLoc
    BY <1>a, <1>10 DEF handler_return
  <2>2. frames # <<>> /\ ebp' = Top.ebp /\ eip' = Top.ret /\ esp' = Top.esp - 6
    BY <1>10, HandlerReturn
  <2>3. Top' = Top /\ Saved(Top) /\ Top.esp > 8  BY <1>0, <2>1 DEF Top, StackInv
  <2>4. Saved(Top)'  BY <2>1, <2>3 DEF Saved
  <2>5. esp' \in Addr /\ ebp' \in Word /\ eip' \in {None, Restorer}
    <3> DEFINE t == Top.esp
    <3>1. t \in 1 .. StackTop /\ t > 8 /\ StackTop \in Nat /\ ebp' \in Word /\ eip' \in {None, Restorer} /\ esp' = t - 6
      BY <1>8, <1>a, <2>2, <2>3
    <3> HIDE DEF t
    <3> QED  BY <1>a, <3>1
  <2>6. StackInv'  BY <2>1, <2>2, <2>3, <2>4, <2>5 DEF StackInv, Layout
  <2>7. SigType'  BY <1>0, <1>b, <2>1, <2>5 DEF SigType
  <2>8. HandlersOwn'
    <3>1. eip # Dead  BY <2>1 DEF Layout
    <3> QED  BY <1>0, <2>1, <3>1, OwnKept
  <2> QED  BY <2>6, <2>7, <2>8 DEF SigInv
<1>11. ASSUME restorer PROVE SigInv'
  <2>1. /\ eip = Restorer /\ esp > 1 /\ stack' = [stack EXCEPT ![esp - 1] = ebp]
        /\ esp' = esp - 1 /\ ebp' = esp - 1 /\ eip' = RestorerBody
        /\ UNCHANGED <<handler, eax, ecx, edx, frames, registered>>
    BY <1>11 DEF restorer, Prologue
  <2>2. frames # <<>> /\ Saved(Top) /\ esp = Top.esp - 6 /\ Top' = Top
    BY <1>0, <2>1 DEF StackInv, Top
  <2>3. esp \in 1 .. StackTop /\ stack \in [1 .. StackTop -> Word] /\ ebp \in Word  BY <1>0, <1>a DEF SigType
  <2>4. stack' \in [1 .. StackTop -> Word] /\ esp' \in Addr /\ ebp' \in Word
    BY <1>a, <2>1, <2>3
  <2>5. \A a \in 1 .. StackTop : a # esp - 1 => stack'[a] = stack[a]  BY <2>1, <2>3
  <2>6. esp' = Top.esp - 7 /\ \A k \in 1 .. 5 : stack'[Top.esp - k] = stack[Top.esp - k]
    <3> DEFINE t == Top.esp
    <3>1. t \in 1 .. StackTop /\ t > 7 /\ esp = t - 6 /\ StackTop \in Nat  BY <1>8, <1>a, <2>2 DEF Saved
    <3> HIDE DEF t
    <3>2. ASSUME NEW k \in 1 .. 5 PROVE stack'[t - k] = stack[t - k]
      <4>1. t - k \in 1 .. StackTop /\ t - k # esp - 1  BY <3>1
      <4> QED  BY <2>5, <4>1
    <3>3. esp' = t - 7  BY <2>1, <3>1
    <3> QED  BY <3>2, <3>3 DEF t
  <2>7. Saved(Top)'  BY <2>2, <2>6 DEF Saved
  <2>8. StackInv'  BY <2>1, <2>2, <2>6, <2>7 DEF StackInv, Layout
  <2>9. SigType'  BY <1>0, <1>a, <1>b, <2>1, <2>4 DEF SigType
  <2>10. HandlersOwn'  BY <1>0, <2>1, OwnKept DEF Layout
  <2> QED  BY <2>8, <2>9, <2>10 DEF SigInv
<1>12. ASSUME restorer_return PROVE SigInv'
  <2>1. /\ frames # <<>> /\ eip' = Resume /\ eax' = Top.eax /\ ecx' = Top.ecx /\ edx' = Top.edx
        /\ ebp' = Top.ebp /\ esp' = Top.esp
    BY <1>12, RestorerReturn
  <2>2. frames' = SubSeq(frames, 1, Len(frames) - 1) /\ UNCHANGED <<handler, stack, registered>> /\ eip = RestorerBody
    BY <1>12 DEF restorer_return
  <2>3. frames' \in Seq(Frame)
    <3>1. frames \in Seq(Frame) /\ Len(frames) \in Nat  BY <1>0 DEF SigType
    <3> QED  BY <2>2, <3>1
  <2>4. StackInv'  BY <1>b, <2>1, Outside
  <2>5. HandlersOwn'  BY <1>0, <2>2, OwnKept DEF Layout
  <2>6. eax' \in Word /\ ecx' \in Word /\ edx' \in Word /\ ebp' \in Word /\ esp' \in Addr /\ eip' \in Code
    BY <1>8, <1>a, <1>b, <2>1
  <2>7. SigType'  BY <1>0, <2>2, <2>3, <2>6 DEF SigType
  <2> QED  BY <2>4, <2>5, <2>7 DEF SigInv
<1>13. CASE UNCHANGED vars
  <2>1. UNCHANGED <<handler, eax, ecx, edx, ebp, esp, eip, stack, frames, registered>>  BY <1>13 DEF vars
  <2>2. StackInv'
    <3>1. (Top = Top') /\ (Saved(Top) => Saved(Top)')  BY <2>1 DEF Top, Saved
    <3> QED  BY <1>0, <2>1, <3>1 DEF StackInv
  <2>3. SigType' /\ HandlersOwn'  BY <1>0, <2>1 DEF SigType, HandlersOwn
  <2> QED  BY <2>2, <2>3 DEF SigInv
<1> QED
  BY <1>1, <1>2, <1>3, <1>4, <1>6, <1>7, <1>9, <1>10, <1>11, <1>12, <1>13 DEF Next

\* The invariant holds in every reachable state.
LEMMA SigAlways == Layout /\ Spec => []SigInv
<1>1. Layout /\ Init => SigInv  BY SigInit
<1>2. ASSUME Layout PROVE SigInv /\ [Next]_vars => SigInv'  BY <1>2, SigNext
<1> SUFFICES ASSUME Layout PROVE Spec => []SigInv  OBVIOUS
<1> QED  BY <1>1, <1>2, PTL DEF Spec

\* The registers and the stack of a process stay within their types, and a signal
\* is only ever delivered to a handler the process itself registered: entries
\* 0..255 do not survive the process that had the slot before (allocproc).
THEOREM HandlersAreOwn == ASSUME Layout PROVE Spec => [](TypeOK /\ HandlersOwn)
<1>1. SigInv => TypeOK /\ HandlersOwn
  <2> SUFFICES ASSUME SigInv PROVE TypeOK /\ HandlersOwn  OBVIOUS
  <2>1. \A i \in 1 .. Len(frames) : frames[i] \in Frame  BY ElementOfSeq DEF SigInv, SigType
  <2> QED  BY <2>1 DEF SigInv, SigType, TypeOK, Frame
<1> QED  BY <1>1, SigAlways, PTL

\* A handler returns to the restorer registered when its fault occurred, and the
\* restorer brings back the registers of the moment of the fault: trap(), the
\* handler and restorer.h agree on the frame, however deeply faults are nested.
THEOREM SignalsReturn == ASSUME Layout PROVE Spec => HandlerReturns
<1>1. SigInv => Restores
  <2> SUFFICES ASSUME SigInv, restorer_return PROVE Restores  BY DEF Restores
  <2> QED  BY RestorerReturn DEF Restores, Top
<1>2. SigInv => ReachesRestorer
  <2> SUFFICES ASSUME SigInv, handler_return PROVE ReachesRestorer  BY DEF ReachesRestorer
  <2> QED  BY HandlerReturn DEF ReachesRestorer, Top
<1> QED  BY <1>1, <1>2, SigAlways, PTL DEF HandlerReturns
=============================================================================
