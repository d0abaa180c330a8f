--------------------------- MODULE PrivateMemory ---------------------------
(***************************************************************************)
(* What fork(), exec(), sbrk(), exit() and stores promise: a memory        *)
(* of its own, one value per virtual page, that nobody else changes.       *)
(***************************************************************************)
EXTENDS Integers, Sequences

CONSTANTS
    Procs,      \* process slots
    Word,       \* values of a page
    Zero,       \* contents of fresh memory
    MaxPages,   \* most pages of a process
    Programs    \* contents of the program files

VARIABLES
    live,       \* the processes that run
    mem         \* the memory of each

vars == <<live, mem>>

Init == live # {} /\ mem \in [Procs -> Seq(Word)]

Store(p, v, x) ==
    /\ p \in live /\ v \in DOMAIN mem[p]
    /\ mem' = [mem EXCEPT ![p][v] = x]
    /\ UNCHANGED live

Fork(p, q) ==
    /\ p \in live /\ q \notin live
    /\ live' = live \cup {q}
    /\ mem' = [mem EXCEPT ![q] = mem[p]]

Grow(p, n) ==
    /\ p \in live
    /\ mem' = [mem EXCEPT ![p] = @ \o [v \in 1..n |-> Zero]]
    /\ UNCHANGED live

Shrink(p, n) ==
    /\ p \in live /\ n \in 0..Len(mem[p])
    /\ mem' = [mem EXCEPT ![p] = SubSeq(@, 1, n)]
    /\ UNCHANGED live

\* all of the old memory is replaced: the program, a guard page, the stack with
\* the arguments
Exec(p, program, args) ==
    /\ p \in live
    /\ mem' = [mem EXCEPT ![p] = program \o <<Zero, args>>]
    /\ UNCHANGED live

Exit(p) ==
    /\ p \in live
    /\ live' = live \ {p}
    /\ mem' = [mem EXCEPT ![p] = <<>>]

Next ==
    \E p \in Procs :
        \/ \E v \in DOMAIN mem[p], x \in Word : Store(p, v, x)
        \/ \E q \in Procs : Fork(p, q)
        \/ \E n \in 1..MaxPages : Grow(p, n)
        \/ \E n \in 0..MaxPages : Shrink(p, n)
        \/ \E program \in Programs, args \in Word : Exec(p, program, args)
        \/ Exit(p)

Spec == Init /\ [][Next]_vars
=============================================================================
