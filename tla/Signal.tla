------------------------------- MODULE Signal -------------------------------
(***************************************************************************)
(* The signal extension: sys_signal (sysproc.c), the handler table of      *)
(* struct proc and its initialisation in allocproc (proc.c), the delivery  *)
(* of SIGFPE in trap() (trap.c), and the user-mode way back through the    *)
(* handler and the restorer (restorer.h, stage3_test.c).                   *)
(*                                                                         *)
(* One process slot is followed through the life of the processes that use *)
(* it.  Stack addresses count words of four bytes, and grow downwards.     *)
(***************************************************************************)
EXTENDS Integers, Sequences

CONSTANTS Val,          \* data a register can hold
          Start,        \* where a program starts
          Resume,       \* the address 0x74 that trap() pushes
          MainNext,     \* addresses that follow a division in the program
          HandlerNext,  \* addresses that follow a division in its handler
          Handler, HandlerBody,    \* handle_signal, and past its prologue
          Restorer, RestorerBody,  \* restorer, and past its prologue
          None,         \* -1, no handler
          Dead,         \* the location of a process that has exited
          StackTop      \* bound: words of user stack

MainLoc    == MainNext \cup {Start, Resume}
HandlerLoc == HandlerNext \cup {HandlerBody}

SIGFPE == 0
SIGOTHER == 1     \* stands for the signal numbers 1..255
RESTORER == 256

VARIABLES
  handler,          \* proc->handler
  eax, ecx, edx,    \* the registers a C function may change
  ebp, esp, eip,
  stack,            \* the words of the user stack
  frames,           \* history: the registers at each fault not yet returned from
  registered        \* history: what the present process passed to signal()

regs == <<eax, ecx, edx, ebp, esp, eip>>
vars == <<handler, regs, stack, frames, registered>>

Addr == 1 .. StackTop
Code == MainLoc \cup HandlerLoc \cup {Handler, Restorer, RestorerBody}
Word == Val \cup Addr \cup Code \cup {None, SIGFPE}

TypeOK ==
  /\ handler \in [{SIGFPE, SIGOTHER, RESTORER} -> {None, Handler, Restorer}]
  /\ eax \in Word /\ ecx \in Word /\ edx \in Word /\ ebp \in Word
  /\ esp \in Addr /\ eip \in Code \cup {None, Dead}
  /\ stack \in [Addr -> Word]
  /\ \A i \in 1 .. Len(frames) :
       frames[i] \in [eax : Word, ecx : Word, edx : Word, ebp : Word,
                      esp : Addr, next : MainNext \cup HandlerNext,
                      ret : {None, Restorer}]

\* A process before its first instruction; its registers are its parent's.
Init ==
  /\ handler = [i \in {SIGFPE, SIGOTHER, RESTORER} |-> None]
  /\ \E v \in Val : eax = 0 /\ ecx = v /\ edx = v /\ ebp = v
  /\ stack = [a \in Addr |-> 0]
  /\ esp = StackTop /\ eip = Start
  /\ frames = <<>> /\ registered = {}

-----------------------------------------------------------------------------
\* The program computes: any value in a register it owns.
Compute ==
  /\ eip \in MainLoc
  /\ \E v \in Val : \/ eax' = v /\ UNCHANGED <<ecx, edx>>
                    \/ ecx' = v /\ UNCHANGED <<eax, edx>>
                    \/ edx' = v /\ UNCHANGED <<eax, ecx>>
  /\ UNCHANGED <<handler, ebp, esp, eip, stack, frames, registered>>

\* signal(signum, h), with -1 for the restorer; h is also the result, in eax.
sys_signal(signum, h) ==
  /\ eip \in MainLoc \cup HandlerLoc
  /\ LET i == IF signum = -1 THEN RESTORER ELSE signum
     IN  /\ handler' = [handler EXCEPT ![i] = h]
         /\ registered' = registered \cup {<<i, h>>}
  /\ eax' = h
  /\ UNCHANGED <<ecx, edx, ebp, esp, eip, stack, frames>>

\* Mutant: the restorer and the argument are pushed in the wrong order.
trap_divide_swapped(next) ==
  /\ \/ eip \in MainLoc    /\ next \in MainNext
     \/ eip \in HandlerLoc /\ next \in HandlerNext
  /\ handler[SIGFPE] # None
  /\ esp > 7
  /\ stack' = [stack EXCEPT ![esp - 1] = Resume, ![esp - 2] = ebp,
                            ![esp - 3] = eax, ![esp - 4] = ecx, ![esp - 5] = edx,
                            ![esp - 6] = handler[RESTORER], ![esp - 7] = SIGFPE]
  /\ esp' = esp - 7
  /\ eip' = handler[SIGFPE]
  /\ frames' = Append(frames, [eax |-> eax, ecx |-> ecx, edx |-> edx,
                               ebp |-> ebp, esp |-> esp, next |-> next,
                               ret |-> handler[RESTORER]])
  /\ UNCHANGED <<handler, eax, ecx, edx, ebp, registered>>

\* trap(), case T_DIVIDE, with a handler registered: seven words are pushed and
\* the process returns to its handler.  next follows the division that failed.
trap_divide(next) ==
  /\ \/ eip \in MainLoc    /\ next \in MainNext
     \/ eip \in HandlerLoc /\ next \in HandlerNext
  /\ handler[SIGFPE] # None
  /\ esp > 7
  /\ stack' = [stack EXCEPT ![esp - 1] = Resume, ![esp - 2] = ebp,
                            ![esp - 3] = eax, ![esp - 4] = ecx, ![esp - 5] = edx,
                            ![esp - 6] = SIGFPE, ![esp - 7] = handler[RESTORER]]
  /\ esp' = esp - 7
  /\ eip' = handler[SIGFPE]
  /\ frames' = Append(frames, [eax |-> eax, ecx |-> ecx, edx |-> edx,
                               ebp |-> ebp, esp |-> esp, next |-> next,
                               ret |-> handler[RESTORER]])
  /\ UNCHANGED <<handler, eax, ecx, edx, ebp, registered>>

\* The process dies: a division with no handler registered, or a jump to the
\* address -1 of a restorer that was never registered, reach trap()'s default
\* case and set proc->killed; or the program, or its handler, calls exit.
exit ==
  /\ \/ eip \in MainLoc \cup HandlerLoc
     \/ eip = None
  /\ eip' = Dead
  /\ UNCHANGED <<handler, eax, ecx, edx, ebp, esp, stack, frames, registered>>

\* A new image: its stack, entry point and the result of exec or of fork.
FreshImage ==
  /\ stack' = [a \in Addr |-> 0]
  /\ esp' = StackTop /\ eip' = Start /\ eax' = 0
  /\ frames' = <<>>

\* Mutant: the handlers are left as they are.
allocproc_stale ==
  /\ eip = Dead
  /\ registered' = {}
  /\ \E v \in Val : ecx' = v /\ edx' = v /\ ebp' = v
  /\ FreshImage
  /\ UNCHANGED handler

\* The slot is reaped and given to a new process: entries 0..255 are reset, and
\* the registers are a copy of the parent's (a parent outside its handlers).
allocproc ==
  /\ eip = Dead
  /\ handler' = [i \in {SIGFPE, SIGOTHER, RESTORER} |->
                   IF i = RESTORER THEN handler[i] ELSE None]
  /\ registered' = {}
  /\ \E v \in Val : ecx' = v /\ edx' = v /\ ebp' = v
  /\ FreshImage

\* exec sets the stack pointer, the program counter and its result; the other
\* registers and the handler table stay.
exec ==
  /\ eip \in MainLoc \cup HandlerLoc
  /\ FreshImage
  /\ UNCHANGED <<handler, ecx, edx, ebp, registered>>

-----------------------------------------------------------------------------
\* The prologue of a compiled C function: push %ebp; mov %esp, %ebp.
Prologue(body) ==
  /\ esp > 1
  /\ stack' = [stack EXCEPT ![esp - 1] = ebp]
  /\ esp' = esp - 1
  /\ ebp' = esp - 1
  /\ eip' = body

handle_signal ==
  /\ eip = Handler
  /\ Prologue(HandlerBody)
  /\ UNCHANGED <<handler, eax, ecx, edx, frames, registered>>

\* The handler leaves its own values in the registers it may change and returns
\* (leave; ret) to the word the kernel pushed last.
handler_return ==
  /\ eip \in HandlerLoc
  /\ eax' \in Val /\ ecx' \in Val /\ edx' \in Val
  /\ ebp' = stack[ebp]
  /\ eip' = stack[ebp + 1]
  /\ esp' = ebp + 2
  /\ UNCHANGED <<handler, stack, frames, registered>>

restorer ==
  /\ eip = Restorer
  /\ Prologue(RestorerBody)
  /\ UNCHANGED <<handler, eax, ecx, edx, frames, registered>>

\* Mutant: the restorer's offsets leave ecx and edx exchanged.
restorer_return_exchanged ==
  /\ eip = RestorerBody
  /\ edx' = stack[ebp + 3]
  /\ ecx' = stack[ebp + 2]
  /\ eax' = stack[ebp + 4]
  /\ LET top == ebp + 5
     IN  /\ ebp' = stack[top]
         /\ eip' = stack[top + 1]
         /\ esp' = top + 2
  /\ frames' = SubSeq(frames, 1, Len(frames) - 1)
  /\ UNCHANGED <<handler, stack, registered>>

\* The assembly of the restorer and its epilogue (pop %ebp; ret).
restorer_return ==
  /\ eip = RestorerBody
  /\ edx' = stack[ebp + 2]
  /\ ecx' = stack[ebp + 3]
  /\ eax' = stack[ebp + 4]
  /\ LET top == ebp + 5
     IN  /\ ebp' = stack[top]
         /\ eip' = stack[top + 1]
         /\ esp' = top + 2
  /\ frames' = SubSeq(frames, 1, Len(frames) - 1)
  /\ UNCHANGED <<handler, stack, registered>>

Next ==
  \/ Compute
  \/ \E r \in {<<SIGFPE, Handler>>, <<SIGOTHER, Handler>>, <<-1, Restorer>>} :
       sys_signal(r[1], r[2])
  \/ \E next \in MainNext \cup HandlerNext : trap_divide(next)
  \/ exit
  \/ allocproc
  \/ exec
  \/ handle_signal
  \/ handler_return
  \/ restorer
  \/ restorer_return

Spec == Init /\ [][Next]_vars

-----------------------------------------------------------------------------
\* When the restorer returns, the registers of the interrupted computation are
\* back and its stack pointer is where it was, whatever the handler did with
\* them and however deeply handlers were interrupted by faults of their own
\* (the offsets of trap.c 81-96 and of restorer.h agree).
Restores ==
  restorer_return =>
    LET f == frames[Len(frames)]
    IN  /\ frames # <<>>
        /\ <<eax', ecx', edx'>> = <<f.eax, f.ecx, f.edx>>
        /\ <<ebp', esp'>> = <<f.ebp, f.esp>>

\* The restorer returns to the instruction that follows the division that
\* faulted, which is what the comment in trap.c says is pushed.
ResumesAfterFault ==
  [][restorer_return => eip' = frames[Len(frames)].next]_vars

\* No signal is delivered to an address that another process registered: the
\* entries 0..255 of a live process are its own, however often its slot was used
\* before.  Entry 256, the restorer, is not reset by allocproc.
HandlersOwn ==
  eip # Dead =>
    \A i \in DOMAIN handler \ {RESTORER} :
      handler[i] # None => <<i, handler[i]>> \in registered

\* A handler returns to the restorer that was registered at the time of the
\* fault, or to -1 (and the process is killed) when none was, whatever the
\* handler registers and whatever faults interrupt it.
ReachesRestorer == handler_return => frames # <<>> /\ eip' = frames[Len(frames)].ret

\* The way back from a signal: a handler reaches the restorer of its fault, and
\* the restorer the registers of the interrupted computation (the address it
\* resumes at is the subject of ResumesAfterFault).
HandlerReturns == [][ReachesRestorer /\ Restores]_vars
=============================================================================
