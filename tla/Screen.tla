------------------------------- MODULE Screen -------------------------------
(***************************************************************************)
(* Console output (console.c): consputc on the CGA text screen.  crt is    *)
(* the video memory, one row longer than the ROWS rows in use; tape is the *)
(* text as an endless screen would show it, with the position top of the   *)
(* first row that is still visible.                                        *)
(*                                                                         *)
(* Output comes from two sides that exclude each other only among          *)
(* themselves: consoleintr echoes under input.lock, consolewrite and       *)
(* cprintf write under cons.lock.  A call of cgaputc therefore is two      *)
(* steps, the read of the cursor and the rest, and calls may overlap.      *)
(***************************************************************************)
EXTENDS Naturals

CONSTANTS Side,         \* "echo" and "write"
          Char,         \* printable characters
          COLS, ROWS,   \* 80 and 24
          MAXTAPE       \* bound on the text, in cells

VARIABLES crt, pos, tape, top,
          call,         \* the character and the position of a side in cgaputc, or <<>>
          overlap       \* history: two calls have overlapped

vars == <<crt, pos, tape, top, call, overlap>>

Init ==
  /\ crt = [i \in 0 .. COLS * (ROWS + 1) - 1 |-> " "] /\ pos = 0
  /\ tape = [i \in 0 .. MAXTAPE |-> " "] /\ top = 0
  /\ call = [w \in Side |-> <<>>] /\ overlap = FALSE

\* The screen after the rows moved up; blank is where memset starts.
Moved(s, blank) == [i \in DOMAIN s |->
  IF i >= blank /\ i < COLS * ROWS THEN " "
  ELSE IF i < COLS * (ROWS - 1) THEN s[i + COLS] ELSE s[i]]

\* Mutant: clears from the old position.
scroll_late(s, p) == Moved(s, p)
scroll(s, p) == Moved(s, p - COLS)

\* The rest of cgaputc, with c stored or not and the cursor at p.
Cursor(s, p) ==
  LET up == p \div COLS >= ROWS
      at == IF up THEN p - COLS ELSE p IN
  /\ pos' = at
  /\ crt' = [(IF up THEN scroll(s, p) ELSE s) EXCEPT ![at] = " "]
  /\ top' = IF up THEN top + COLS ELSE top

-----------------------------------------------------------------------------
\* cgaputc reads the cursor.  Bound: the text stays on the tape.
cgaputc(w, c) ==
  /\ call[w] = <<>> /\ (c = "BACKSPACE" \/ top + pos + COLS < MAXTAPE)
  /\ call' = [call EXCEPT ![w] = <<c, pos>>]
  /\ overlap' = (overlap \/ \E v \in Side : call[v] # <<>>)
  /\ UNCHANGED <<crt, pos, tape, top>>

\* The rest of it: the character, the rows, the cursor and the blank under it.
cgaputc_end(w) ==
  /\ call[w] # <<>>
  /\ LET c == call[w][1]
         p == call[w][2] IN
     \/ c = "\n" /\ Cursor(crt, p + COLS - (p % COLS)) /\ UNCHANGED tape
     \/ /\ c = "BACKSPACE"
        /\ LET b == IF p > 0 THEN p - 1 ELSE p
           IN  Cursor(crt, b) /\ tape' = [tape EXCEPT ![top + b] = " "]
     \/ /\ c \in Char /\ Cursor([crt EXCEPT ![p] = c], p + 1)
        /\ tape' = [tape EXCEPT ![top + p] = c]
  /\ call' = [call EXCEPT ![w] = <<>>] /\ UNCHANGED overlap

Next == \E w \in Side : (\E c \in Char \cup {"\n", "BACKSPACE"} : cgaputc(w, c)) \/ cgaputc_end(w)
Spec == Init /\ [][Next]_vars

\* The cursor stays on the screen and the rows above it are the last rows of
\* the text, after any mixture of scrolling and erasing by either side, as long
\* as no two calls have overlapped: then both put their character at one place,
\* or scroll twice, and nothing is promised.
ShowsLastRows ==
  ~overlap =>
    /\ pos < COLS * ROWS
    /\ \A i \in 0 .. COLS * ROWS - 1 : top + i <= MAXTAPE => crt[i] = tape[top + i]
=============================================================================
