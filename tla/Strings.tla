------------------------------ MODULE Strings ------------------------------
(***************************************************************************)
(* Pure functions of the kernel and the user library: memmove (string.c,   *)
(* ulib.c), the path elements of skipelem and the names of a directory     *)
(* (fs.c), printint, printf and cprintf, atoi, and grep's matcher.  A job  *)
(* is one call; a string is a sequence of characters without its NUL.      *)
(***************************************************************************)
EXTENDS Integers, Sequences, SequencesExt

CONSTANTS Jobs,         \* the calls
          DIRSIZ, W     \* W is the width of an int

VARIABLES job, path, name, out, done

vars == <<job, path, name, out, done>>
Minus == 0 - 1

\* The bytes k = 0 .. n - 1 copied in the order ks.
Copy(m, d, s, ks) == FoldLeft(LAMBDA x, k : [x EXCEPT ![d + k] = x[s + k]], m, ks)
Upward(n) == [i \in 1 .. n |-> i - 1]
\* ulib.c's memmove; as the kernel's, a mutant.
ulib_memmove(m, d, s, n) == Copy(m, d, s, Upward(n))
memmove(m, d, s, n) == Copy(m, d, s, IF s < d /\ s + n > d THEN Reverse(Upward(n)) ELSE Upward(n))

\* skipelem: where the path goes on, and the caller's buffer, which keeps its
\* bytes after the NUL.
Span(p, from, Test(_)) ==
  CHOOSE i \in from .. Len(p) + 1 : (i <= Len(p) => ~Test(p[i])) /\ \A j \in from .. i - 1 : Test(p[j])
Slash(c) == c = "/"
NotSlash(c) == c # "/"
Start(p) == Span(p, 1, Slash)
End(p) == Span(p, Start(p), NotSlash)
\* Mutant: name[len] = 0 is left out.
skipelem_name_open(buf, s) == [i \in 1 .. DIRSIZ |-> IF i <= Len(s) THEN s[i] ELSE buf[i]]
skipelem_name(buf, s) ==
  [i \in 1 .. DIRSIZ |-> IF i <= Len(s) THEN s[i] ELSE IF i = Len(s) + 1 THEN "NUL" ELSE buf[i]]
skipelem_rest(p) == SubSeq(p, Span(p, End(p), Slash), Len(p))

\* dirlink's strncpy, and namecmp's strncmp, in DIRSIZ bytes.
strncpy(t) == [i \in 1 .. DIRSIZ |-> IF i <= Len(t) THEN t[i] ELSE "NUL"]
strncmp(p, q) ==
  LET differ == {i \in 1 .. DIRSIZ : p[i] = "NUL" \/ p[i] # q[i]} IN
  \A i \in differ : (\A j \in differ : i <= j) => p[i] = q[i]

\* printint: the digits in buf, from the least; x is unsigned.
RECURSIVE Digits(_, _)
Digits(x, base) == <<x % base>> \o (IF x \div base = 0 THEN <<>> ELSE Digits(x \div base, base))
\* Mutant: a while loop, which prints nothing for zero.
Magnitude_while(x, base) == IF x = 0 THEN <<>> ELSE Digits(x, base)
Magnitude(x, base) == Digits(x, base)
printint(xx, base, sgn) ==
  Reverse(Magnitude(IF sgn /\ xx < 0 THEN (0 - xx) % 2^W ELSE xx % 2^W, base)
          \o (IF sgn /\ xx < 0 THEN <<Minus>> ELSE <<>>))
atoi(s) == FoldLeft(LAMBDA n, c : (n * 10 + c) % 2^W, 0, s)

\* printf: [state, arg, text] after each character.  text holds the characters
\* and names the arguments.
Lit(c) == <<c, 0>>
Directive(c, arg) == CASE c = "d" -> <<<<"int", arg>>>> [] c \in {"x", "p"} -> <<<<"hex", arg>>>>
                       [] c = "s" -> <<<<"string", arg>>>>
Takes(c) == c \in {"d", "x", "p", "s"}
Put(s, x) == [s EXCEPT !.text = @ \o x, !.state = ""]
printf(fmt) ==
  FoldLeft(LAMBDA s, c :
    CASE s.state = "" /\ c = "%" -> [s EXCEPT !.state = "%"]
      [] s.state = "" /\ c # "%" -> Put(s, <<Lit(c)>>)
      [] s.state = "%" /\ Takes(c) -> [Put(s, Directive(c, s.arg)) EXCEPT !.arg = @ + 1]
      [] s.state = "%" /\ c = "c" -> [Put(s, <<<<"char", s.arg>>>>) EXCEPT !.arg = @ + 1]
      [] s.state = "%" /\ c = "%" -> Put(s, <<Lit(c)>>)
      [] OTHER -> Put(s, <<Lit("%"), Lit(c)>>),
    [state |-> "", arg |-> 1, text |-> <<>>], fmt).text
\* cprintf, from fmt[i] on with argp at arg.
RECURSIVE Format(_, _, _, _)
Format(fmt, i, arg, stop) ==
  IF i > Len(fmt) \/ (fmt[i] = "%" /\ i = Len(fmt) /\ stop) THEN <<>>
  ELSE IF fmt[i] # "%" \/ i = Len(fmt) THEN <<Lit(fmt[i])>> \o Format(fmt, i + 1, arg, stop)
  ELSE IF Takes(fmt[i + 1]) THEN Directive(fmt[i + 1], arg) \o Format(fmt, i + 2, arg + 1, stop)
  ELSE (IF fmt[i + 1] = "%" THEN <<Lit("%")>> ELSE <<Lit("%"), Lit(fmt[i + 1])>>) \o Format(fmt, i + 2, arg, stop)
\* Mutant: a lone % at the end is printed.
cprintf_lone(fmt) == Format(fmt, 1, 1, FALSE)
cprintf(fmt) == Format(fmt, 1, 1, TRUE)

\* grep's matcher.
RECURSIVE matchhere(_, _)
\* The places matchstar looks at: the text after k characters that match c.
Places(c, text, least) ==
  {k \in least .. Len(text) : \A j \in 1 .. k : c = "." \/ text[j] = c}
\* Mutant: a star needs one instance.
matchstar_plus(c, re, text) == \E k \in Places(c, text, 1) : matchhere(re, SubSeq(text, k + 1, Len(text)))
matchstar(c, re, text) == \E k \in Places(c, text, 0) : matchhere(re, SubSeq(text, k + 1, Len(text)))
matchhere(re, text) ==
  IF re = <<>> THEN TRUE
  ELSE IF Len(re) > 1 /\ re[2] = "*" THEN matchstar(re[1], SubSeq(re, 3, Len(re)), text)
  ELSE IF re = <<"$">> THEN text = <<>>
  ELSE text # <<>> /\ re[1] \in {".", text[1]} /\ matchhere(Tail(re), Tail(text))
match(re, text) ==
  IF re # <<>> /\ re[1] = "^" THEN matchhere(Tail(re), text)
  ELSE \E k \in 0 .. Len(text) : matchhere(re, SubSeq(text, k + 1, Len(text)))

Junk == [i \in 1 .. DIRSIZ |-> "z"]
Init == job \in Jobs /\ out = <<>> /\ done = FALSE /\ name = Junk /\ path = IF job.f = "namex" THEN job.path ELSE <<>>

\* One turn of namex's loop; out collects the names looked up.
namex ==
  /\ job.f = "namex" /\ Start(path) <= Len(path)
  /\ name' = skipelem_name(name, SubSeq(path, Start(path), End(path) - 1))
  /\ path' = skipelem_rest(path) /\ out' = Append(out, name')
  /\ UNCHANGED <<job, done>>
call ==
  /\ ~done /\ job.f # "namex" /\ done' = TRUE
  /\ out' = CASE job.f = "memmove" -> <<memmove(job.m, job.d, job.s, job.n), ulib_memmove(job.m, job.d, job.s, job.n)>>
              [] job.f = "printint" -> printint(job.xx, job.base, job.sgn)
              [] job.f = "printf" -> <<printf(job.fmt), cprintf(job.fmt)>>
              [] job.f = "match" -> <<match(job.re, job.text)>>
  /\ UNCHANGED <<job, path, name>>
Next == namex \/ call
Spec == Init /\ [][Next]_vars

Done(f) == job.f = f /\ done

\* memmove copies as if through a second buffer, however the two overlap; the
\* user library's does when the destination lies below, as in grep.
MovesAsIfBuffered ==
  Done("memmove") =>
    LET want == [i \in DOMAIN job.m |->
                   IF i \in job.d .. job.d + job.n - 1 THEN job.m[job.s + i - job.d] ELSE job.m[i]] IN
    out[1] = want /\ (job.d <= job.s => out[2] = want)

\* The names namex looks up are the parts between slashes, in order, and each
\* finds exactly the directory entries that agree with it in DIRSIZ bytes,
\* whatever an earlier, longer part has left in the buffer.
Parts(p) == {<<i, j>> \in (1 .. Len(p)) \X (1 .. Len(p)) :
  /\ i <= j /\ \A k \in i .. j : p[k] # "/"
  /\ (i = 1 \/ p[i - 1] = "/") /\ (j = Len(p) \/ p[j + 1] = "/")}
LookupExact ==
  job.f = "namex" =>
    LET gone == SubSeq(job.path, 1, Len(job.path) - Len(path))
        parts == SetToSortSeq(Parts(gone), LAMBDA a, b : a[1] < b[1])
        Cut(s) == SubSeq(s, 1, Min({DIRSIZ, Len(s)})) IN
    /\ Len(out) = Len(parts)
    /\ \A k \in DOMAIN parts : \A t \in job.entries :
         strncmp(out[k], strncpy(t)) <=> Cut(SubSeq(gone, parts[k][1], parts[k][2])) = Cut(t)

\* The digits printed are the value, the most negative int included, with no
\* leading zero; atoi reads back what is not negative.
Value(s, base) == FoldLeft(LAMBDA n, c : n * base + c, 0, s)
PrintsValue ==
  Done("printint") =>
    LET neg == out # <<>> /\ out[1] = Minus  ds == IF neg THEN Tail(out) ELSE out IN
    /\ ds # <<>> /\ (ds[1] = 0 => Len(ds) = 1)
    /\ neg <=> (job.sgn /\ job.xx < 0)
    /\ (IF neg THEN 0 - Value(ds, job.base) ELSE Value(ds, job.base))
         = IF job.sgn THEN job.xx ELSE job.xx % 2^W
    /\ job.base = 10 /\ ~neg => atoi(ds) = job.xx % 2^W

\* The kernel's and the library's formatted output are written separately and
\* agree on every format without %c, which only the library knows.
FormatsAgree ==
  Done("printf") =>
    ("char" \notin {x[1] : x \in ToSet(out[1])} => out[1] = out[2])

\* The matcher finds what the expression denotes: Ends is the set of places
\* the items of re can reach from the places in S.
Reach(c, text, S) == {i \in 1 .. Len(text) + 1 :
  \E s \in S : s <= i /\ \A j \in s .. i - 1 : c = "." \/ text[j] = c}
Once(c, text, S) == {i + 1 : i \in {s \in S : s <= Len(text) /\ (c = "." \/ text[s] = c)}}
RECURSIVE Ends(_, _, _)
Ends(re, text, S) ==
  IF re = <<>> THEN S
  ELSE IF Len(re) > 1 /\ re[2] = "*" THEN Ends(SubSeq(re, 3, Len(re)), text, Reach(re[1], text, S))
  ELSE IF re = <<"$">> THEN S \cap {Len(text) + 1}
  ELSE Ends(Tail(re), text, Once(re[1], text, S))
MatchesDenotation ==
  Done("match") =>
    out[1] = IF job.re # <<>> /\ job.re[1] = "^" THEN Ends(Tail(job.re), job.text, {1}) # {}
             ELSE Ends(job.re, job.text, 1 .. Len(job.text) + 1) # {}
=============================================================================
