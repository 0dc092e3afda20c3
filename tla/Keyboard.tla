------------------------------ MODULE Keyboard ------------------------------
(***************************************************************************)
(* kbdgetc (kbd.c): the keyboard controller sends one or two bytes for     *)
(* each key pressed, repeated or released, and the driver keeps the        *)
(* modifiers: one flag for the two keys of a kind.                         *)
(***************************************************************************)
EXTENDS Naturals, Sequences

VARIABLES wire,         \* bytes to be read from KBDATAP
          shift,        \* the driver's flags
          held, caps,   \* history: keys held down, caps lock on
          last,         \* history: kinds of modifier last pressed, not released
          out           \* what kbdgetc returned for the letter, or "none"

vars == <<wire, shift, held, caps, last, out>>

E0 == 224
Letter == 30                                            \* the key a
Modifier == {<<42>>, <<54>>, <<29>>, <<E0, 29>>, <<56>>, <<E0, 56>>}
Mod(k) == CASE k[Len(k)] \in {42, 54} -> "SHIFT" [] k[Len(k)] = 29 -> "CTL" [] k[Len(k)] = 56 -> "ALT"

shiftcode(d) == CASE d \in {29, 157} -> {"CTL"} [] d \in {42, 54} -> {"SHIFT"}
                  [] d \in {56, 184} -> {"ALT"} [] OTHER -> {}
togglecode(d) == IF d = 58 THEN {"CAPSLOCK"} ELSE {}
Toggle(s, x) == (s \ x) \cup (x \ s)

Init == wire = <<>> /\ shift = {} /\ held = {} /\ caps = FALSE /\ last = {} /\ out = "none"

Release(k) == [k EXCEPT ![Len(k)] = @ + 128]

\* The user: external.
press ==
  /\ wire = <<>> /\ out' = "none"
  /\ \/ \E k \in Modifier : /\ held' = held \cup {k} /\ last' = last \cup {Mod(k)}
                            /\ wire' = k /\ UNCHANGED caps
     \/ \E k \in held : /\ held' = held \ {k} /\ last' = last \ {Mod(k)}
                        /\ wire' = Release(k) /\ UNCHANGED caps
     \/ caps' = ~caps /\ wire' = <<58, 58 + 128>> /\ UNCHANGED <<held, last>>
     \/ wire' = <<Letter, Letter + 128>> /\ UNCHANGED <<held, last, caps>>
  /\ UNCHANGED shift

\* charcode[shift & (CTL | SHIFT)] for the letter, then caps lock.
charcode(s) ==
  LET c == IF "CTL" \in s THEN "^a" ELSE IF "SHIFT" \in s THEN "A" ELSE "a" IN
  IF "CAPSLOCK" \notin s THEN c ELSE IF c = "a" THEN "A" ELSE IF c = "A" THEN "a" ELSE c

Getc(dropped) ==
  LET b == Head(wire)  esc == "E0ESC" \in shift
      up == IF esc THEN b ELSE b - 128
      down == IF esc THEN b + 128 ELSE b
      s == Toggle((shift \ {"E0ESC"}) \cup shiftcode(down), togglecode(down)) IN
  /\ wire # <<>> /\ wire' = Tail(wire)
  /\ \/ b = E0 /\ shift' = shift \cup {"E0ESC"} /\ UNCHANGED out
     \/ b # E0 /\ b >= 128 /\ shift' = shift \ (shiftcode(up) \cup dropped) /\ UNCHANGED out
     \/ b < 128 /\ shift' = s /\ out' = IF down = Letter THEN charcode(s) ELSE out
  /\ UNCHANGED <<held, caps, last>>
\* Mutant: the escape outlives a release.
kbdgetc_keeps_esc == Getc({})
kbdgetc == Getc({"E0ESC"})

Next == press \/ kbdgetc
Spec == Init /\ [][Next]_vars

\* Once every byte is read a flag is set only while a key of its kind is held,
\* so none sticks, and it is clear with a key held only when the other key of
\* that kind was released after it; a letter comes out as the flags and caps
\* lock say.
ModifiersFollowKeys ==
  wire = <<>> =>
    LET mods == shift \ {"CAPSLOCK"} IN
    /\ mods \subseteq {Mod(k) : k \in held} /\ mods = last
    /\ caps <=> "CAPSLOCK" \in shift
    /\ out # "none" => out = IF "CTL" \in last THEN "^a" ELSE IF ("SHIFT" \in last) # caps THEN "A" ELSE "a"
=============================================================================
