------------------------------ MODULE Terminal ------------------------------
(***************************************************************************)
(* What the console promises: a line that can be edited until it is ended, *)
(* ended lines that are read in order and can no longer be changed, and    *)
(* output that leaves in the order in which it was written.                *)
(***************************************************************************)
EXTENDS Sequences, Naturals

CONSTANTS Char, Ends, InSize, OutSize     \* Ends: the characters that end a line

VARIABLES
    edit,           \* the characters of the line being typed
    line,           \* ended input that was not read yet
    queue           \* output that was not sent yet

vars == <<edit, line, queue>>

Init == edit = <<>> /\ line = <<>> /\ queue = <<>>

Type(c) ==
    /\ Len(line) + Len(edit) < InSize
    /\ IF c \in Ends \/ Len(line) + Len(edit) + 1 = InSize
       THEN line' = line \o Append(edit, c) /\ edit' = <<>>
       ELSE edit' = Append(edit, c) /\ UNCHANGED line
    /\ UNCHANGED queue

Erase ==
    /\ edit # <<>>
    /\ edit' = SubSeq(edit, 1, Len(edit) - 1)
    /\ UNCHANGED <<line, queue>>

Read ==
    /\ line # <<>>
    /\ line' = Tail(line)
    /\ UNCHANGED <<edit, queue>>

Write(c) ==
    /\ Len(queue) < OutSize
    /\ queue' = Append(queue, c)
    /\ UNCHANGED <<edit, line>>

Send ==
    /\ queue # <<>>
    /\ queue' = Tail(queue)
    /\ UNCHANGED <<edit, line>>

Next == Erase \/ Read \/ Send \/ \E c \in Char : Type(c) \/ Write(c)

Spec == Init /\ [][Next]_vars
=============================================================================
