---------------------------- MODULE AtomicDisk ----------------------------
(***************************************************************************)
(* What the log promises to the file system: the updates of the system     *)
(* calls that ran together reach the disk all at once, and only at a       *)
(* moment when no system call is in the middle of its updates; a crash     *)
(* takes the file system back to the last such moment.                     *)
(***************************************************************************)
CONSTANTS Block, Val, Op

VARIABLES
    durable,    \* block contents a crash leaves behind
    current,    \* block contents the running system calls see
    active      \* the system calls between begin_op() and end_op()

vars == <<durable, current, active>>

Init ==
    /\ durable \in [Block -> Val]
    /\ current = durable
    /\ active = {}

Begin(o) ==
    /\ o \notin active
    /\ active' = active \cup {o}
    /\ UNCHANGED <<durable, current>>

Write(o, b, v) ==
    /\ o \in active
    /\ current' = [current EXCEPT ![b] = v]
    /\ UNCHANGED <<durable, active>>

End(o) ==
    /\ o \in active
    /\ active' = active \ {o}
    /\ UNCHANGED <<durable, current>>

Commit ==
    /\ active = {}
    /\ durable' = current
    /\ UNCHANGED <<current, active>>

Crash ==
    /\ current' = durable
    /\ active' = {}
    /\ UNCHANGED durable

Next ==
    \/ \E o \in Op : Begin(o) \/ End(o)
    \/ \E o \in Op, b \in Block, v \in Val : Write(o, b, v)
    \/ Commit
    \/ Crash

Spec == Init /\ [][Next]_vars
=============================================================================
