----------------------------- MODULE ShellParse -----------------------------
(***************************************************************************)
(* The parser of sh.c.  gettoken reads a line of characters; what it finds *)
(* from a position does not depend on the caller, so the recursive descent *)
(* runs on the sequence of tokens T, and i is *ps as an index into it.  A  *)
(* word is the pair of positions <<q, eq>> that argv and eargv hold.       *)
(* Grammar, at the end, is the reference definition.                       *)
(***************************************************************************)
EXTENDS Naturals, Sequences

CONSTANT MAXARGS

Symbol == {"<", "|", ">", "&", ";", "(", ")"}
At(l, s) == IF s <= Len(l) THEN l[s] ELSE "NUL"
Special(c) == c \in Symbol \cup {" ", "NUL"}
Skip(l, s) == CHOOSE i \in s .. s + Len(l) : At(l, i) # " " /\ \A j \in s .. i - 1 : At(l, j) = " "
WordEnd(l, s) == CHOOSE i \in s .. s + Len(l) : Special(At(l, i)) /\ \A j \in s .. i - 1 : ~Special(At(l, j))

\* The token at s, where no white space is.
TokenAt(l, s) ==
  CASE At(l, s) = "NUL" -> [tok |-> "NUL", word |-> <<s, s>>]
    [] At(l, s) = ">" /\ At(l, s + 1) = ">" -> [tok |-> "+", word |-> <<s, s + 2>>]
    [] ~Special(At(l, s)) -> [tok |-> "a", word |-> <<s, WordEnd(l, s)>>]
    [] OTHER -> [tok |-> At(l, s), word |-> <<s, s + 1>>]
gettoken(l, ps) == TokenAt(l, Skip(l, ps))

RECURSIVE TokensFrom(_, _)
TokensFrom(l, t) == IF t.tok = "NUL" THEN <<>> ELSE <<t>> \o TokensFrom(l, gettoken(l, t.word[2]))
Tokens(l) == TokensFrom(l, gettoken(l, 1))

\* peek compares the first character, which is '>' for >> as well.
Tok(T, i) == IF i \in DOMAIN T THEN T[i].tok ELSE "NUL"
Arrow == {"<", ">", "+"}

\* A panic ends the process that parses.
PANIC == [type |-> "PANIC"]
Node(c, i) == [c |-> c, s |-> i]
Fail == Node(PANIC, 1)
execcmd(argv) == [type |-> "EXEC", argv |-> argv]
redircmd(c, T, i) ==
  [type |-> "REDIR", cmd |-> c, file |-> T[i + 1].word, fd |-> IF Tok(T, i) = "<" THEN 0 ELSE 1]
backcmd(c) == [type |-> "BACK", cmd |-> c]
\* pipecmd and listcmd, with what parsing the right side gave.
Join(type, left, r) ==
  IF r.c = PANIC THEN Fail ELSE Node([type |-> type, left |-> left, right |-> r.c], r.s)

RECURSIVE parseredirs(_, _)
parseredirs(T, n) ==
  IF Tok(T, n.s) \notin Arrow THEN n
  ELSE IF Tok(T, n.s + 1) # "a" THEN Fail
  ELSE parseredirs(T, Node(redircmd(n.c, T, n.s), n.s + 2))
RECURSIVE Redirect(_, _, _)
Redirect(c, T, rs) == IF rs = <<>> THEN c ELSE Redirect(redircmd(c, T, rs[1]), T, Tail(rs))

\* parseexec's loop: the words so far, and the redirections around the command.
RECURSIVE parseargs(_, _, _, _)
parseargs(T, i, argv, rs) ==
  CASE Tok(T, i) \in Arrow ->
         IF Tok(T, i + 1) # "a" THEN Fail ELSE parseargs(T, i + 2, argv, Append(rs, i))
    [] Tok(T, i) \in {"|", ")", "&", ";", "NUL"} -> Node(Redirect(execcmd(argv), T, rs), i)
    [] Tok(T, i) = "(" -> Fail
    [] Tok(T, i) = "a" ->
         IF Len(argv) + 1 >= MAXARGS THEN Fail ELSE parseargs(T, i + 1, Append(argv, T[i].word), rs)

\* P is parseline and parsepipe, called again.
Closed(T, b) == IF b.c = PANIC \/ Tok(T, b.s) # ")" THEN Fail ELSE parseredirs(T, Node(b.c, b.s + 1))
parseblock(P, T, i) == Closed(T, P["line", i + 1])
parseexec(P, T, i) == IF Tok(T, i) = "(" THEN parseblock(P, T, i) ELSE parseargs(T, i, <<>>, <<>>)

Piped(P, T, e) == IF e.c = PANIC \/ Tok(T, e.s) # "|" THEN e ELSE Join("PIPE", e.c, P["pipe", e.s + 1])
parsepipe(P, T, i) == Piped(P, T, parseexec(P, T, i))

RECURSIVE Backs(_, _)
Backs(T, b) == IF b.c = PANIC \/ Tok(T, b.s) # "&" THEN b ELSE Backs(T, Node(backcmd(b.c), b.s + 1))
Listed(P, T, b) == IF b.c = PANIC \/ Tok(T, b.s) # ";" THEN b ELSE Join("LIST", b.c, P["line", b.s + 1])
\* Mutant: a semicolon binds tighter than an ampersand.
parseline_swapped(P, T, i) == Backs(T, Listed(P, T, P["pipe", i]))
parseline(P, T, i) == Listed(P, T, Backs(T, P["pipe", i]))

\* Leftover tokens are a syntax error.
Whole(T, r) == IF r.s = Len(T) + 1 THEN r.c ELSE PANIC
parsecmd(T) ==
  LET P[f \in {"line", "pipe"}, i \in 1 .. Len(T) + 1] ==
        IF f = "line" THEN parseline(P, T, i) ELSE parsepipe(P, T, i) IN
  Whole(T, P["line", 1])

\* Where nulterminate stores a zero; Walk goes into the nodes of these types.
RECURSIVE Walk(_, _)
Walk(c, types) ==
  CASE c.type \notin types -> {}
    [] c.type = "EXEC" -> {c.argv[i][2] : i \in DOMAIN c.argv}
    [] c.type = "REDIR" -> Walk(c.cmd, types) \cup {c.file[2]}
    [] c.type = "BACK" -> Walk(c.cmd, types)
    [] c.type \in {"PIPE", "LIST"} -> Walk(c.left, types) \cup Walk(c.right, types)
\* Mutant: background commands are forgotten.
nulterminate_front(c) == Walk(c, {"EXEC", "REDIR", "PIPE", "LIST"})
nulterminate(c) == Walk(c, {"EXEC", "REDIR", "PIPE", "LIST", "BACK"})
-----------------------------------------------------------------------------
(* The reference: the trees of the grammar, whatever way the tokens split. *)
(*   line ::= back | back ; line      back ::= pipe | back &               *)
(*   pipe ::= exec | exec "|" pipe    exec ::= ( line ) redir* | simple    *)
(* where a simple command is words and redirections in any order.          *)

Among(a, b, S) == SelectSeq([i \in 1 .. b - a + 1 |-> a + i - 1], LAMBDA i : i \in S)
Simple(T, a, b) ==
  \A i \in a .. b : Tok(T, i) = "a" \/ (Tok(T, i) \in Arrow /\ i < b /\ Tok(T, i + 1) = "a")
Redirs(T, a, b) == Among(a, b, {i \in a .. b : Tok(T, i) \in Arrow})
Words(T, a, b) == Among(a, b, {i \in a .. b : Tok(T, i) = "a" /\ (i = a \/ Tok(T, i - 1) \notin Arrow)})
Both(type, L, R) == {[type |-> type, left |-> x, right |-> y] : x \in L, y \in R}
Where(T, a, b, tok) == {i \in a .. b : Tok(T, i) = tok}

Grammar(T) ==
  LET G[nt \in {"line", "back", "pipe", "exec"}, a \in 1 .. Len(T) + 1, b \in 0 .. Len(T)] ==
    CASE nt = "line" -> G["back", a, b] \cup
           UNION {Both("LIST", G["back", a, i - 1], G["line", i + 1, b]) : i \in Where(T, a, b, ";")}
      [] nt = "back" -> G["pipe", a, b] \cup
           UNION {{backcmd(x) : x \in G["back", a, i - 1]} : i \in Where(T, a, b, "&") \cap {b}}
      [] nt = "pipe" -> G["exec", a, b] \cup
           UNION {Both("PIPE", G["exec", a, i - 1], G["pipe", i + 1, b]) : i \in Where(T, a, b, "|")}
      [] nt = "exec" ->
           {Redirect(execcmd([k \in DOMAIN ws |-> T[ws[k]].word]), T, Redirs(T, a, b)) :
              ws \in {x \in {Words(T, a, b)} : Simple(T, a, b) /\ Len(x) < MAXARGS}}
           \cup UNION {{Redirect(x, T, Redirs(T, i + 1, b)) : x \in G["line", a + 1, i - 1]} :
              i \in {j \in Where(T, a + 1, b, ")") :
                       Tok(T, a) = "(" /\ Simple(T, j + 1, b) /\ Words(T, j + 1, b) = <<>>}} IN
  G["line", 1, Len(T)]

Outcome(T, c) ==
  [cmd |-> c, trees |-> Grammar(T), ends |-> IF c = PANIC THEN {} ELSE nulterminate(c),
   words |-> {T[i].word : i \in {j \in DOMAIN T : T[j].tok = "a"}}]
Parsed(T) == Outcome(T, parsecmd(T))
Parsing(l) == Parsed(Tokens(l))
=============================================================================
