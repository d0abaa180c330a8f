-------------------------------- MODULE Lib --------------------------------
(***************************************************************************)
(* Sequential algorithms of the kernel and of the user programs, as        *)
(* operators: byte and string routines (kernel/string.c, user/ulib.c),     *)
(* printing and reading of numbers (printint(), atoi()), path elements     *)
(* (skipelem() in kernel/fs.c), and grep (user/grep.c).  A C string is a   *)
(* sequence of characters ended by NUL, or by the end of the sequence.     *)
(***************************************************************************)
EXTENDS Integers, Sequences, FiniteSetsExt, SequencesExt

CONSTANTS
    DIRSIZ,         \* length of a directory entry's name
    BITS,           \* width of int
    BufSize         \* sizeof(buf) in grep.c

NUL == "NUL"

\* *(s + i), and the string at a pointer to position i
Ch(s, i) == IF i <= Len(s) THEN s[i] ELSE NUL
From(s, i) == SubSeq(s, i, Len(s))

strlen(s) == Min({n \in 0..Len(s) : Ch(s, n + 1) = NUL})
strchr(s, i, c) == LET at == {j \in i..strlen(s) : s[j] = c} IN IF at = {} THEN 0 ELSE Min(at)

\* strncpy(): up to n characters, the rest of the n filled with NUL
strncpy(t, n) == [i \in 1..n |-> IF i <= strlen(t) THEN t[i] ELSE NUL]

\* safestrcpy(): at most n - 1 characters and a NUL, over the old contents of s
safestrcpy(s, t, n) ==
    LET k == Min({n - 1, strlen(t)}) IN [i \in DOMAIN s |-> IF i <= k THEN t[i] ELSE IF i = k + 1 THEN NUL ELSE s[i]]

\* strncmp() = 0
RECURSIVE strncmp(_, _, _)
strncmp(p, q, n) ==
    IF n > 0 /\ Ch(p, 1) # NUL /\ Ch(p, 1) = Ch(q, 1) THEN strncmp(From(p, 2), From(q, 2), n - 1)
    ELSE n = 0 \/ Ch(p, 1) = Ch(q, 1)

\* the two loops of memmove(), over a memory that holds both operands
RECURSIVE Forward(_, _, _, _)
Forward(m, d, s, n) == IF n = 0 THEN m ELSE Forward([m EXCEPT ![d] = m[s]], d + 1, s + 1, n - 1)
RECURSIVE Backward(_, _, _, _)
Backward(m, d, s, n) == IF n = 0 THEN m ELSE Backward([m EXCEPT ![d - 1] = m[s - 1]], d - 1, s - 1, n - 1)

memmove(m, d, s, n) == IF s < d /\ s + n > d THEN Backward(m, d + n, s + n, n) ELSE Forward(m, d, s, n)
umemmove(m, d, s, n) == IF s > d THEN Forward(m, d, s, n) ELSE Backward(m, d + n, s + n, n)

-----------------------------------------------------------------------------
(* Numbers: int has BITS bits and wraps                                     *)

Signed(x) == LET u == x % 2^BITS IN IF u < 2^(BITS - 1) THEN u ELSE u - 2^BITS

\* the digits of an unsigned number, the last one first
RECURSIVE Digits(_, _)
Digits(x, b) == <<x % b>> \o IF x \div b = 0 THEN <<>> ELSE Digits(x \div b, b)

\* printint(): the unsigned magnitude, then the sign, then all of it backwards
printint(xx, b, sgn) ==
    LET neg == sgn /\ xx < 0
        x == (IF neg THEN -xx ELSE xx) % 2^BITS
    IN Reverse(Digits(x, b) \o IF neg THEN <<"-">> ELSE <<>>)

RECURSIVE atoi(_, _)
atoi(s, n) == IF s = <<>> \/ s[1] \notin 0..9 THEN n ELSE atoi(Tail(s), Signed(n * 10 + s[1]))

-----------------------------------------------------------------------------
(* Path elements                                                            *)

Past(s, i, C) == Min({j \in i..(Len(s) + 1) : Ch(s, j) \notin C})
UpTo(s, i, C) == Min({j \in i..(Len(s) + 1) : Ch(s, j) \in C})

\* skipelem(): name is a buffer of DIRSIZ characters, not cleared between calls;
\* the result is the position after the element and its slashes, 0 for none
skipelem(path, i, name) ==
    LET s == Past(path, i, {"/"})
        e == UpTo(path, s, {"/", NUL})
        len == e - s
    IN IF Ch(path, s) = NUL THEN [rest |-> 0, name |-> name]
       ELSE [rest |-> Past(path, e, {"/"}),
             name |-> [k \in 1..DIRSIZ |-> IF k <= len THEN path[s + k - 1]
                                          ELSE IF k = len + 1 THEN NUL ELSE name[k]]]

\* the names namex() looks up, as the buffer reads each time
RECURSIVE Looked(_, _, _)
Looked(path, i, name) ==
    LET r == skipelem(path, i, name) IN IF r.rest = 0 THEN <<>> ELSE <<r.name>> \o Looked(path, r.rest, r.name)

-----------------------------------------------------------------------------
(* grep                                                                     *)

\* slip: c* must match at least one character
RECURSIVE matchhere_Plus(_, _)
matchhere_Plus(re, text) ==
    CASE Ch(re, 1) = NUL -> TRUE
      [] Ch(re, 2) = "*" -> /\ text # <<>> /\ re[1] \in {".", text[1]}
                            /\ matchhere_Plus(From(re, 3), Tail(text)) \/ matchhere_Plus(re, Tail(text))
      [] re = <<"$">> -> text = <<>>
      [] OTHER -> text # <<>> /\ re[1] \in {".", text[1]} /\ matchhere_Plus(Tail(re), Tail(text))

RECURSIVE matchhere(_, _)
RECURSIVE matchstar(_, _, _)
matchhere(re, text) ==
    CASE Ch(re, 1) = NUL -> TRUE
      [] Ch(re, 1) # NUL /\ Ch(re, 2) = "*" -> matchstar(re[1], From(re, 3), text)
      [] re = <<"$">> -> text = <<>>
      [] OTHER -> text # <<>> /\ re[1] \in {".", text[1]} /\ matchhere(Tail(re), Tail(text))

matchstar(c, re, text) ==
    \/ matchhere(re, text)
    \/ text # <<>> /\ c \in {".", text[1]} /\ matchstar(c, re, Tail(text))

match(re, text) ==
    IF Ch(re, 1) = "^" THEN matchhere(Tail(re), text)
    ELSE \E i \in 1..(Len(text) + 1) : matchhere(re, From(text, i))

\* grep()'s inner loop: the matching lines of the buffer, and what is left of it
RECURSIVE Lines(_, _, _)
Lines(re, buf, p) ==
    LET q == strchr(buf, p, "\n") IN
    IF q = 0 THEN [out |-> <<>>, rest |-> From(buf, p)]
    ELSE LET line == SubSeq(buf, p, q - 1)
             r == Lines(re, buf, q + 1)
         IN [r EXCEPT !.out = (IF match(re, line) THEN <<line>> ELSE <<>>) \o @]

\* grep(): reads of at most chunk characters until one returns 0
RECURSIVE grep(_, _, _, _)
grep(re, file, buf, chunk) ==
    LET n == Min({chunk, Len(file), BufSize - Len(buf) - 1})
        r == Lines(re, buf \o SubSeq(file, 1, n), 1)
    IN IF n <= 0 THEN <<>> ELSE r.out \o grep(re, From(file, n + 1), r.rest, chunk)

\* gets(): a line, or as much of it as fits; what it leaves in the input is the rest
gets(in, max) ==
    LET nl == {j \in DOMAIN in : in[j] \in {"\n", "\r"}}
        k == Min({max - 1, Len(in)} \cup nl)
    IN [line |-> SubSeq(in, 1, k), rest |-> From(in, k + 1)]
=============================================================================
