------------------------------ MODULE ShParse ------------------------------
(***************************************************************************)
(* The shell's parser (user/sh.c) and a second, independent reading of the *)
(* same command language to hold it against.                               *)
(*                                                                         *)
(* A line is a sequence of lexemes: a whole word, one symbol character or  *)
(* one blank (" " for any run of the characters of whitespace[]).  Two     *)
(* words never touch.  A position in a line is a char*, and the position   *)
(* after the last lexeme holds the NUL.  While a line is parsed, a word is *)
(* the pair of pointers q, eq that the code keeps; nulterminate() makes    *)
(* strings of them.                                                        *)
(***************************************************************************)
EXTENDS Integers, Sequences, SequencesExt

CONSTANT MAXARGS

whitespace == {" "}
symbols == {"<", "|", ">", "&", ";", "(", ")"}
NUL == ""

Deref(l, s) == IF s \in 1..Len(l) THEN l[s] ELSE NUL
IsWord(c) == c \notin whitespace \cup symbols \cup {NUL}

----------------------------------------------------------------------------
(* Command trees *)

execcmd(argv) == [type |-> "EXEC", argv |-> argv]
redircmd(cmd, r) == [type |-> "REDIR", cmd |-> cmd, file |-> r.file, mode |-> r.mode, fd |-> r.fd]
pipecmd(left, right) == [type |-> "PIPE", left |-> left, right |-> right]
listcmd(left, right) == [type |-> "LIST", left |-> left, right |-> right]
backcmd(cmd) == [type |-> "BACK", cmd |-> cmd]

\* The descriptor and the open mode of a redirection.
redir(tok, file) ==
  CASE tok = "<" -> [file |-> file, mode |-> "O_RDONLY", fd |-> 0]
    [] tok = ">" -> [file |-> file, mode |-> "O_TRUNC", fd |-> 1]
    [] tok = "+" -> [file |-> file, mode |-> "O_WRONLY", fd |-> 1]

\* redircmd() applied to rs in order: the first redirection ends up innermost.
Wrap(cmd, rs) == FoldLeft(redircmd, cmd, rs)

----------------------------------------------------------------------------
(* Scanner *)

Skip(l, s) == CHOOSE i \in s..(Len(l) + 1) :
                Deref(l, i) \notin whitespace /\ \A j \in s..(i - 1) : l[j] \in whitespace

gettoken(l, ps) ==
  LET q == Skip(l, ps)
      c == Deref(l, q)
      append == c = ">" /\ Deref(l, q + 1) = ">"
      eq == IF c = NUL THEN q ELSE IF append THEN q + 2 ELSE q + 1
  IN [ret |-> IF append THEN "+" ELSE IF IsWord(c) THEN "a" ELSE c,
      str |-> [q |-> q, eq |-> eq], s |-> Skip(l, eq)]

peek(l, ps, toks) == Deref(l, Skip(l, ps)) \in toks

----------------------------------------------------------------------------
(* Recursive descent over the line l.  P[f, s] is what function f returns   *)
(* when it is called at position s: what it built and the position it       *)
(* stopped at, or Panic.                                                    *)

Panic == [s |-> 0]
Panicked(r) == r.s = 0

\* The redirections from ps on.
parseredirs(l, P, ps) ==
  LET op == gettoken(l, ps)
      f == gettoken(l, op.s)
      more == P["parseredirs", f.s]
  IN IF ~peek(l, ps, {"<", ">"}) THEN [rs |-> <<>>, s |-> Skip(l, ps)]
     ELSE IF f.ret # "a" \/ Panicked(more) THEN Panic
     ELSE [rs |-> <<redir(op.ret, f.str)>> \o more.rs, s |-> more.s]

parseblock(l, P, ps) ==
  LET b == P["parseline", gettoken(l, ps).s]
      r == P["parseredirs", gettoken(l, b.s).s]
  IN IF Panicked(b) \/ ~peek(l, b.s, {")"}) \/ Panicked(r) THEN Panic
     ELSE [cmd |-> Wrap(b.cmd, r.rs), s |-> r.s]

\* The loop of parseexec() from ps on.
args(l, P, ps) ==
  LET t == gettoken(l, ps)
      r == P["parseredirs", t.s]
      more == P["args", r.s]
  IN IF peek(l, ps, {"|", ")", "&", ";"}) \/ t.ret = NUL
     THEN [argv |-> <<>>, rs |-> <<>>, s |-> Skip(l, ps)]
     ELSE IF t.ret # "a" \/ Panicked(r) \/ Panicked(more) THEN Panic
     ELSE IF Len(more.argv) + 1 >= MAXARGS THEN Panic
     ELSE [argv |-> <<t.str>> \o more.argv, rs |-> r.rs \o more.rs, s |-> more.s]

parseexec(l, P, ps) ==
  LET r == P["parseredirs", ps]
      a == P["args", r.s]
  IN IF peek(l, ps, {"("}) THEN P["parseblock", ps]
     ELSE IF Panicked(r) \/ Panicked(a) THEN Panic
     ELSE [cmd |-> Wrap(execcmd(a.argv), r.rs \o a.rs), s |-> a.s]

parsepipe_once(l, P, ps) ==
  LET left == P["parseexec", ps]
      right == P["parseexec", gettoken(l, left.s).s]
  IN IF Panicked(left) \/ ~peek(l, left.s, {"|"}) THEN left
     ELSE IF Panicked(right) THEN Panic
     ELSE [cmd |-> pipecmd(left.cmd, right.cmd), s |-> right.s]
parsepipe(l, P, ps) ==
  LET left == P["parseexec", ps]
      right == P["parsepipe", gettoken(l, left.s).s]
  IN IF Panicked(left) \/ ~peek(l, left.s, {"|"}) THEN left
     ELSE IF Panicked(right) THEN Panic
     ELSE [cmd |-> pipecmd(left.cmd, right.cmd), s |-> right.s]

\* parseline()'s first loop: the ampersands from ps on, and where they end.
amps(l, P, ps) ==
  IF ~peek(l, ps, {"&"}) THEN [n |-> 0, s |-> Skip(l, ps)]
  ELSE LET more == P["amps", gettoken(l, ps).s] IN [more EXCEPT !.n = @ + 1]

parseline(l, P, ps) ==
  LET p == P["parsepipe", ps]
      a == P["amps", p.s]
      left == FoldLeft(LAMBDA c, i : backcmd(c), p.cmd, [i \in 1..a.n |-> i])
      right == P["parseline", gettoken(l, a.s).s]
  IN IF Panicked(p) THEN Panic
     ELSE IF ~peek(l, a.s, {";"}) THEN [cmd |-> left, s |-> a.s]
     ELSE IF Panicked(right) THEN Panic
     ELSE [cmd |-> listcmd(left, right.cmd), s |-> right.s]

Parser(l) ==
  LET P[f \in {"parseline", "amps", "parsepipe", "parseexec", "args", "parseblock", "parseredirs"},
        s \in 1..(Len(l) + 1)] ==
        CASE f = "parseline" -> parseline(l, P, s)
          [] f = "parsepipe" -> parsepipe(l, P, s)
          [] f = "parseredirs" -> parseredirs(l, P, s)
          [] f = "parseexec" -> parseexec(l, P, s)
          [] f = "parseblock" -> parseblock(l, P, s)
          [] f = "args" -> args(l, P, s)
          [] f = "amps" -> amps(l, P, s)
  IN P

----------------------------------------------------------------------------
(* nulterminate(): the set of positions it writes a NUL to, and the strings *)
(* that the tree's pointers then denote.                                    *)

RECURSIVE nulterminate(_), Strings(_, _)
nulterminate(cmd) ==
  CASE cmd.type = "EXEC" -> {cmd.argv[i].eq : i \in DOMAIN cmd.argv}
    [] cmd.type = "REDIR" -> nulterminate(cmd.cmd) \cup {cmd.file.eq}
    [] cmd.type \in {"PIPE", "LIST"} -> nulterminate(cmd.left) \cup nulterminate(cmd.right)
    [] cmd.type = "BACK" -> nulterminate(cmd.cmd)

String(l, nuls, q) ==
  LET end == CHOOSE e \in q..(Len(l) + 1) :
               /\ e \in nuls \cup {Len(l) + 1}
               /\ \A i \in q..(e - 1) : i \notin nuls
  IN SubSeq(l, q, end - 1)

Strings(cmd, str) ==
  CASE cmd.type = "EXEC" -> execcmd([i \in DOMAIN cmd.argv |-> str[cmd.argv[i].q]])
    [] cmd.type = "REDIR" -> [cmd EXCEPT !.cmd = Strings(@, str), !.file = str[@.q]]
    [] cmd.type \in {"PIPE", "LIST"} -> [cmd EXCEPT !.left = Strings(@, str), !.right = Strings(@, str)]
    [] cmd.type = "BACK" -> [cmd EXCEPT !.cmd = Strings(@, str)]

BadSyntax == [type |-> "panic"]

parsecmd(l) ==
  LET r == Parser(l)["parseline", 1]
  IN IF Panicked(r) \/ Skip(l, r.s) # Len(l) + 1 THEN BadSyntax
     ELSE LET nuls == nulterminate(r.cmd)
          IN Strings(r.cmd, [q \in 1..Len(l) |-> String(l, nuls, q)])

----------------------------------------------------------------------------
(* The language, read top down: a line is cut at its separators outside of *)
(* parentheses.                                                            *)

Lexemes(l) ==
  LET T[i \in 1..(Len(l) + 2)] ==
        IF i > Len(l) THEN <<>>
        ELSE IF l[i] = " " THEN T[i + 1]
        ELSE IF l[i] = ">" /\ Deref(l, i + 1) = ">" THEN <<"+">> \o T[i + 2]
        ELSE <<l[i]>> \o T[i + 1]
  IN T[1]

Count(t, c, n) == Len(SelectSeq(SubSeq(t, 1, n), LAMBDA x : x = c))
Depth(t, n) == Count(t, "(", n) - Count(t, ")", n)
Cuts(t, c) == {i \in DOMAIN t : t[i] = c /\ Depth(t, i) = 0}
First(S) == CHOOSE i \in S : \A j \in S : i <= j

Arrows == {"<", ">", "+"}
Word(c) == c \notin symbols \cup {"+"}
Redirs(t) == LET at == SelectSeq([i \in DOMAIN t |-> i], LAMBDA i : t[i] \in Arrows)
             IN [k \in DOMAIN at |-> redir(t[at[k]], <<t[at[k] + 1]>>)]
Words(t) == LET at == SelectSeq([i \in DOMAIN t |-> i],
                                LAMBDA i : t[i] \notin Arrows /\ (i > 1 => t[i - 1] \notin Arrows))
            IN [k \in DOMAIN at |-> <<t[at[k]]>>]
\* Words and redirections only, each arrow followed by its file.
Simple(t) == \A i \in DOMAIN t : \/ Word(t[i])
                                 \/ t[i] \in Arrows /\ i < Len(t) /\ Word(t[i + 1])

Join(make(_, _), a, b) == IF BadSyntax \in {a, b} THEN BadSyntax ELSE make(a, b)
Lift(make(_), a) == IF a = BadSyntax THEN a ELSE make(a)

\* What t[i..j] stands for, read as a line, as a job, as a pipeline or as one
\* command.
Language(t) ==
  LET G[as \in {"line", "job", "pipeline", "command"}, i \in 1..(Len(t) + 1), j \in 0..Len(t)] ==
        LET u == SubSeq(t, i, j)
            semi == i - 1 + First(Cuts(u, ";"))
            bar == i - 1 + First(Cuts(u, "|"))
            paren == First(Cuts(u, ")"))
            tail == SubSeq(u, paren + 1, Len(u))
        IN CASE as = "line" /\ Cuts(u, ";") # {} ->
                  Join(listcmd, G["job", i, semi - 1], G["line", semi + 1, j])
             [] as = "line" /\ Cuts(u, ";") = {} -> G["job", i, j]
             [] as = "job" -> IF u # <<>> /\ t[j] = "&" THEN Lift(backcmd, G["job", i, j - 1])
                              ELSE G["pipeline", i, j]
             [] as = "pipeline" /\ Cuts(u, "|") # {} ->
                  Join(pipecmd, G["command", i, bar - 1], G["pipeline", bar + 1, j])
             [] as = "pipeline" /\ Cuts(u, "|") = {} -> G["command", i, j]
             [] as = "command" ->
                  IF u # <<>> /\ u[1] = "("
                  THEN IF Cuts(u, ")") = {} \/ ~Simple(tail) \/ Words(tail) # <<>> THEN BadSyntax
                       ELSE Lift(LAMBDA c : Wrap(c, Redirs(tail)), G["line", i + 1, i + paren - 2])
                  ELSE IF Simple(u) /\ Len(Words(u)) < MAXARGS THEN Wrap(execcmd(Words(u)), Redirs(u))
                  ELSE BadSyntax
  IN G["line", 1, Len(t)]
============================================================================
