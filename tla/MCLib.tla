------------------------------- MODULE MCLib -------------------------------
(* The algorithms of Lib, ShParse and Umalloc on bounded inputs.  The input  *)
(* grows by one character at a time; the heap is used while it is empty.     *)
EXTENDS Lib, Umalloc

CONSTANTS MAXARGS, MaxText

VARIABLES kind, text

Sh == INSTANCE ShParse

Alphabet == [sh |-> {"a", " ", "|", "<", ">", ";", "&", "(", ")"}, re |-> {"a", "b", ".", "*", "^", "$"},
             path |-> {"/", "a", "b"}, lines |-> {"a", "b", "\n"}]

Init == HeapInit /\ kind \in DOMAIN Alphabet /\ text = <<>>

Next ==
    \/ /\ text = <<>> /\ kind = "sh"
       /\ HeapNext
       /\ UNCHANGED <<kind, text>>
    \/ /\ inuse = {} /\ brk = 1 /\ freep = Null /\ Len(text) < MaxText
       /\ \E c \in Alphabet[kind] : text' = Append(text, c)
       /\ UNCHANGED <<heap, kind>>

Spec == Init /\ [][Next]_<<heap, kind, text>>

-----------------------------------------------------------------------------
(* Reference definitions                                                    *)

\* the maximal runs of characters outside C, in order
RECURSIVE Runs(_, _)
Runs(s, C) ==
    LET i == Past(s, 1, C)
        j == UpTo(s, i, C \cup {NUL})
    IN IF i > Len(s) THEN <<>> ELSE <<SubSeq(s, i, j - 1)>> \o Runs(From(s, j), C)

\* the tokens of a line, as substrings: words, and symbols, of which >> is one
Extend == <<">", ">">>
Redirection == { <<"<">>, <<">">>, Extend }

RECURSIVE Tokens(_)
Tokens(s) ==
    CASE s = <<>> -> <<>>
      [] Ch(s, 1) = " " -> Tokens(Tail(s))
      [] Ch(s, 1) = ">" /\ Ch(s, 2) = ">" -> <<Extend>> \o Tokens(From(s, 3))
      [] Ch(s, 1) = "a" -> LET e == Past(s, 1, {"a"}) IN <<SubSeq(s, 1, e - 1)>> \o Tokens(From(s, e))
      [] OTHER -> << <<s[1]>> >> \o Tokens(Tail(s))

\* the meaning of a sequence of tokens, split at its operators from the loosest to
\* the tightest; an operator inside parentheses is not seen from outside
IsWord(t) == Head(t) = "a"
Depth(ts, i) == Cardinality({j \in 1..i : ts[j] = <<"(">>}) - Cardinality({j \in 1..i : ts[j] = <<")">>})
Outside(ts, op) == {i \in DOMAIN ts : ts[i] = <<op>> /\ Depth(ts, i) = 0}
Before(ts, i) == SubSeq(ts, 1, i - 1)
After(ts, i) == SubSeq(ts, i + 1, Len(ts))

\* a node over parts that must all have a meaning
Node(parts, node) == IF Sh!Syntax \in parts THEN Sh!Syntax ELSE node

\* words and redirections in any order; the positions of the redirected files
Files(ts) == {i \in DOMAIN ts : i > 1 /\ ts[i - 1] \in Redirection}
Simple(ts) == /\ \A i \in DOMAIN ts : ts[i] \in Redirection => i < Len(ts) /\ i \notin Files(ts)
              /\ \A i \in DOMAIN ts : IsWord(ts[i]) \/ ts[i] \in Redirection
Words(ts) == SelectSeq([i \in DOMAIN ts |-> IF i \in Files(ts) THEN Extend ELSE ts[i]], IsWord)
Redirected(c, ts) ==
    FoldLeft(LAMBDA d, i : IF i \notin Files(ts) THEN d
                           ELSE [type |-> "REDIR", cmd |-> d, file |-> ts[i],
                                 fd |-> IF ts[i - 1] = <<"<">> THEN 0 ELSE 1,
                                 mode |-> CASE ts[i - 1] = <<"<">> -> "RDONLY"
                                            [] ts[i - 1] = <<">">> -> "TRUNC"
                                            [] ts[i - 1] = Extend -> "CREATE"],
             c, [i \in DOMAIN ts |-> i])

RECURSIVE Meaning(_)
Block(ts, close) ==
    LET line == Meaning(SubSeq(ts, 2, close - 1))
        rest == After(ts, close)
    IN Node({line}, IF Simple(rest) /\ Words(rest) = <<>> THEN Redirected(line, rest) ELSE Sh!Syntax)

Command(ts) ==
    IF ts # <<>> /\ ts[1] = <<"(">>
    THEN IF Outside(ts, ")") = {} THEN Sh!Syntax ELSE Block(ts, Min(Outside(ts, ")")))
    ELSE IF ~Simple(ts) \/ Len(Words(ts)) >= MAXARGS THEN Sh!Syntax
    ELSE Redirected([type |-> "EXEC", argv |-> Words(ts)], ts)

RECURSIVE Pipeline(_)
Pipeline(ts) ==
    IF Outside(ts, "|") = {} THEN Command(ts)
    ELSE LET i == Min(Outside(ts, "|"))
             l == Command(Before(ts, i))
             r == Pipeline(After(ts, i))
         IN Node({l, r}, [type |-> "PIPE", left |-> l, right |-> r])

RECURSIVE Job(_)
Job(ts) ==
    IF ts # <<>> /\ Last(ts) = <<"&">>
    THEN LET c == Job(Front(ts)) IN Node({c}, [type |-> "BACK", cmd |-> c])
    ELSE Pipeline(ts)

Meaning(ts) ==
    IF Outside(ts, ";") = {} THEN Job(ts)
    ELSE LET i == Min(Outside(ts, ";"))
             l == Job(Before(ts, i))
             r == Meaning(After(ts, i))
         IN Node({l, r}, [type |-> "LIST", left |-> l, right |-> r])

\* a pattern as a sequence of items, and the positions of text each item leads to
RECURSIVE Items(_)
Items(re) ==
    IF re = <<>> THEN <<>>
    ELSE IF Ch(re, 2) = "*" THEN <<[c |-> re[1], star |-> TRUE]>> \o Items(From(re, 3))
    ELSE IF re = <<"$">> THEN <<[c |-> NUL, star |-> FALSE]>>
    ELSE <<[c |-> re[1], star |-> FALSE]>> \o Items(Tail(re))

Moves(t, item, P) ==
    IF item.c = NUL THEN P \cap {Len(t) + 1}
    ELSE IF item.star THEN {j \in 1..(Len(t) + 1) : \E i \in P : i <= j /\ \A k \in i..(j - 1) : item.c \in {".", t[k]}}
    ELSE {i + 1 : i \in {k \in P : k <= Len(t) /\ item.c \in {".", t[k]}}}

Matches(re, t) ==
    LET anchored == re # <<>> /\ re[1] = "^"
        items == Items(IF anchored THEN Tail(re) ELSE re)
    IN FoldLeft(LAMBDA P, item : Moves(t, item, P), IF anchored THEN {1} ELSE 1..(Len(t) + 1), items) # {}

Texts == UNION {[1..n -> {"a", "b"}] : n \in 0..3}

-----------------------------------------------------------------------------
(* Properties                                                               *)

\* What parsecmd() makes of a line is what the line means, and it rejects every
\* other line: operators take what stands on their two sides, a redirection its
\* file and mode, a command its words in order, each ended by nulterminate()
\* although the byte after it may be a symbol.
ParseFaithful == kind = "sh" => Sh!parsecmd(text) = Meaning(Tokens(text))

Cut(s) == IF Len(s) > DIRSIZ THEN SubSeq(s, 1, DIRSIZ) ELSE s
Stale == [k \in 1..DIRSIZ |-> "b"]

\* The library computes what it is for: match() decides the language of its
\* pattern; namex() looks up the elements of the path, cut to DIRSIZ, although the
\* name buffer keeps old characters, and compares them with entries written by
\* strncpy(); grep() prints the matching lines whatever read() returns, as long as
\* they fit its buffer; gets() loses nothing and stops
\* only at the end of a line or of its buffer; memmove() copies overlapping ranges;
\* printint() and atoi() are exact up to the least int.
LibraryCorrect ==
    /\ kind = "re" => \A t \in Texts : match(text, t) = Matches(text, t)
    /\ kind = "path" =>
        LET names == Looked(text, 1, Stale)
            runs == Runs(text, {"/"}) IN
        /\ Len(names) = Len(runs)
        /\ \A i \in DOMAIN runs, j \in DOMAIN runs :
            strncmp(names[i], strncpy(runs[j], DIRSIZ), DIRSIZ) <=> Cut(runs[i]) = Cut(runs[j])
        /\ LET n == safestrcpy(Stale, text, DIRSIZ)
           IN SubSeq(n, 1, strlen(n)) = SubSeq(text, 1, Min({DIRSIZ - 1, Len(text)}))
    /\ kind = "lines" =>
        LET ended == IF text = <<>> \/ Last(text) # "\n" THEN Append(text, "\n") ELSE text
            lines == Lines(<<>>, ended, 1).out IN
        /\ (\A i \in DOMAIN lines : Len(lines[i]) < BufSize - 1) =>
            \A chunk \in 1..BufSize :
                grep(<<"a">>, ended, <<>>, chunk) = SelectSeq(lines, LAMBDA l : "a" \in ToSet(l))
        /\ LET g == gets(text, 3) IN
            /\ g.line \o g.rest = text /\ (text # <<>> => g.line # <<>>)
            /\ \A i \in DOMAIN g.line : g.line[i] = "\n" => i = Len(g.line)
            /\ g.rest # <<>> => Len(g.line) = 2 \/ Last(g.line) = "\n"
    /\ text = <<>> /\ freep = Null =>
        /\ \A d \in 1..5, s \in 1..5 : \A n \in 0..(6 - Max({d, s})) :
            LET copied == [i \in 1..5 |-> IF i \in d..(d + n - 1) THEN s + i - d ELSE i]
                m == [i \in 1..5 |-> i]
            IN memmove(m, d, s, n) = copied /\ umemmove(m, d, s, n) = copied
        /\ \A x \in -2^(BITS - 1)..(2^(BITS - 1) - 1) :
            /\ x >= 0 => atoi(printint(x, 10, TRUE), 0) = x
            /\ x < 0 => LET p == printint(x, 10, TRUE) IN p[1] = "-" /\ Signed(-atoi(Tail(p), 0)) = x
            /\ Signed(FoldLeft(LAMBDA n, d : 16 * n + d, 0, printint(x, 16, FALSE))) = x
=============================================================================
