------------------------------ MODULE MCShell ------------------------------
(* Small instances of Shell for TLC. *)
EXTENDS Shell

\* each process writes its number
Own == [p \in Procs |-> {p}]

Two == [calls |-> {}, line |-> <<>>, open |-> "nothing", pages |-> 1, slots |-> 2, nfile |-> 2, nofile |-> 2]
\* two processes that work on a pipe and close it, or are killed
Piping == [Two EXCEPT !.calls = {"pipe", "read", "write", "close"}]
Killing == [Two EXCEPT !.calls = {"pipe", "read", "write", "kill"}]
\* two processes that work on files; there is no memory for a pipe
Filing == [Two EXCEPT !.calls = {"pipe", "open", "dup", "write"}, !.open = "inode", !.pages = 0]
\* a command line
sh(line) == [calls |-> {}, line |-> line, open |-> "console", pages |-> 1, slots |-> 4, nfile |-> 6, nofile |-> 5]

Machines ==
    {Piping, Killing, Filing}
    \cup {sh(l) : l \in {<<"w", "|", "c">>, <<"w", "|", "x">>, <<"w", ">", "f", ";", "c", "<", "f">>,
                         <<"w", "&">>, <<"w", "|", ")">>}}

ReadWrite == {[type |-> "INODE", readable |-> TRUE, writable |-> TRUE, trunc |-> TRUE]}
=============================================================================
