------------------------------ MODULE ShParse ------------------------------
(***************************************************************************)
(* The shell's parser (user/sh.c): tokens, the recursive descent over      *)
(* lines, pipelines, blocks and redirections, and nulterminate().  The     *)
(* line is a sequence of characters b; positions in it stand for the       *)
(* code's pointers, Len(b) + 1 for es.  A parse function returns the       *)
(* command, the position it stopped at, and ok = FALSE after a panic(),    *)
(* which exits.                                                            *)
(***************************************************************************)
EXTENDS Integers, Sequences, FiniteSetsExt

CONSTANT MAXARGS

whitespace == {" "}
symbols == {"<", "|", ">", "&", ";", "(", ")"}

\* the first position from s on whose character is not in C
Past(b, s, C) == Min({j \in s..(Len(b) + 1) : j = Len(b) + 1 \/ b[j] \notin C})
\* the first position from s on whose character is in C
UpTo(b, s, C) == Min({j \in s..(Len(b) + 1) : j = Len(b) + 1 \/ b[j] \in C})

\* the kind of the token that begins at q, and where it ends
TokenAt(b, q) ==
    IF q > Len(b) THEN [ret |-> "", eq |-> q]
    ELSE IF q < Len(b) /\ b[q] = ">" /\ b[q + 1] = ">" THEN [ret |-> "+", eq |-> q + 2]
    ELSE IF b[q] \in symbols THEN [ret |-> b[q], eq |-> q + 1]
    ELSE [ret |-> "a", eq |-> UpTo(b, q, whitespace \cup symbols)]

\* the token at s: its kind, where it starts and ends, and where the next one starts
gettoken(b, s) ==
    LET Token(q, t) == [ret |-> t.ret, q |-> q, eq |-> t.eq, s |-> Past(b, t.eq, whitespace)]
        From(q) == Token(q, TokenAt(b, q))
    IN From(Past(b, s, whitespace))

peek(b, s, C) == LET q == Past(b, s, whitespace) IN q <= Len(b) /\ b[q] \in C

\* the commands; a word is the pair of its first position and the one after its last
execcmd == [type |-> "EXEC", argv |-> <<>>]
redircmd(c, t, mode, fd) == [type |-> "REDIR", cmd |-> c, file |-> <<t.q, t.eq>>, mode |-> mode, fd |-> fd]
pipecmd(l, r) == [type |-> "PIPE", left |-> l, right |-> r]
listcmd(l, r) == [type |-> "LIST", left |-> l, right |-> r]
backcmd(c) == [type |-> "BACK", cmd |-> c]

Parsed(c, s) == [cmd |-> c, s |-> s, ok |-> TRUE]
panic == [cmd |-> execcmd, s |-> 0, ok |-> FALSE]

\* parseredirs(): a later redirection is wrapped around the earlier ones
RECURSIVE parseredirs(_, _, _)
parseredirs(c, b, s) ==
    IF ~peek(b, s, {"<", ">"}) THEN Parsed(c, s)
    ELSE LET Redirect(tok, file) ==
                 IF file.ret # "a" THEN panic
                 ELSE parseredirs(CASE tok.ret = "<" -> redircmd(c, file, "RDONLY", 0)
                                    [] tok.ret = ">" -> redircmd(c, file, "TRUNC", 1)
                                    [] tok.ret = "+" -> redircmd(c, file, "CREATE", 1), b, file.s)
             To(tok) == Redirect(tok, gettoken(b, tok.s))
         IN To(gettoken(b, s))

\* the EXEC node inside the redirections gets one more argument
RECURSIVE AddArg(_, _)
AddArg(c, w) == IF c.type = "EXEC" THEN [c EXCEPT !.argv = Append(@, w)]
                ELSE [c EXCEPT !.cmd = AddArg(@, w)]

\* parseexec()'s loop
RECURSIVE parseargs(_, _, _, _)
parseargs(c, argc, b, s) ==
    LET More(r) == IF ~r.ok THEN panic ELSE parseargs(r.cmd, argc + 1, b, r.s)
        Arg(t) == IF t.ret = "" THEN Parsed(c, t.q)
                  ELSE IF t.ret # "a" \/ argc + 1 >= MAXARGS THEN panic
                  ELSE More(parseredirs(AddArg(c, <<t.q, t.eq>>), b, t.s))
    IN IF peek(b, s, {"|", ")", "&", ";"}) THEN Parsed(c, Past(b, s, whitespace)) ELSE Arg(gettoken(b, s))

RECURSIVE parseline(_, _)

parseblock(b, s) ==
    LET Closed(line) == IF ~line.ok \/ ~peek(b, line.s, {")"}) THEN panic
                        ELSE parseredirs(line.cmd, b, gettoken(b, line.s).s)
    IN Closed(parseline(b, gettoken(b, s).s))

parseexec(b, s) ==
    LET Args(r) == IF ~r.ok THEN panic ELSE parseargs(r.cmd, 0, b, r.s)
    IN IF peek(b, s, {"("}) THEN parseblock(b, s) ELSE Args(parseredirs(execcmd, b, s))

RECURSIVE parsepipe(_, _)
parsepipe(b, s) ==
    LET Join(l, r) == IF ~r.ok THEN panic ELSE Parsed(pipecmd(l.cmd, r.cmd), r.s)
        From(l) == IF ~l.ok \/ ~peek(b, l.s, {"|"}) THEN l
                   ELSE Join(l, parsepipe(b, gettoken(b, l.s).s))
    IN From(parseexec(b, s))

RECURSIVE parseback(_, _, _)
parseback(c, b, s) ==
    IF peek(b, s, {"&"}) THEN parseback(backcmd(c), b, gettoken(b, s).s) ELSE Parsed(c, s)

parseline(b, s) ==
    LET Join(l, r) == IF ~r.ok THEN panic ELSE Parsed(listcmd(l.cmd, r.cmd), r.s)
        Rest(l) == IF ~peek(b, l.s, {";"}) THEN l ELSE Join(l, parseline(b, gettoken(b, l.s).s))
        Back(p) == IF ~p.ok THEN panic ELSE Rest(parseback(p.cmd, b, p.s))
    IN Back(parsepipe(b, s))

\* the words of a command
RECURSIVE Words(_)
Words(c) ==
    CASE c.type = "EXEC" -> {c.argv[i] : i \in DOMAIN c.argv}
      [] c.type = "REDIR" -> Words(c.cmd) \cup {c.file}
      [] c.type = "BACK" -> Words(c.cmd)
      [] OTHER -> Words(c.left) \cup Words(c.right)

\* slip: no NUL after the first argument
nulterminate_NotFirst(b, c) ==
    [j \in 1..(Len(b) + 1) |-> IF j = Len(b) + 1 \/ \E w \in Words(c) : w[1] > 1 /\ w[2] = j THEN "NUL" ELSE b[j]]

\* nulterminate(): a NUL after each word, over whatever stood there
nulterminate(b, c) == [j \in 1..(Len(b) + 1) |-> IF j = Len(b) + 1 \/ \E w \in Words(c) : w[2] = j THEN "NUL" ELSE b[j]]

\* the string a pointer to position q denotes
CString(b, q) == SubSeq(b, q, UpTo(b, q, {"NUL"}) - 1)

\* a command with its words as strings of the terminated line
RECURSIVE Denoted(_, _)
Denoted(c, b) ==
    CASE c.type = "EXEC" -> [c EXCEPT !.argv = [i \in DOMAIN c.argv |-> CString(b, c.argv[i][1])]]
      [] c.type = "REDIR" -> [c EXCEPT !.cmd = Denoted(@, b), !.file = CString(b, @[1])]
      [] c.type = "BACK" -> [c EXCEPT !.cmd = Denoted(@, b)]
      [] OTHER -> [c EXCEPT !.left = Denoted(@, b), !.right = Denoted(@, b)]

Syntax == [type |-> "SYNTAX"]

\* parsecmd(): the whole line must be used up
parsecmd(b) ==
    LET Whole(r) == IF r.ok /\ Past(b, r.s, whitespace) = Len(b) + 1
                    THEN Denoted(r.cmd, nulterminate(b, r.cmd)) ELSE Syntax
    IN Whole(parseline(b, 1))
=============================================================================
