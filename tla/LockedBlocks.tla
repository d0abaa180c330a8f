---------------------------- MODULE LockedBlocks ----------------------------
(***************************************************************************)
(* What the buffer cache promises its users: every block has one current   *)
(* content, and between bread() and brelse() one process alone sees and    *)
(* changes it.  Caching, recycling, the disk and its driver are invisible. *)
(***************************************************************************)
CONSTANTS Block, Val, Process, Nobody

VARIABLES
    content,        \* the current content of each block
    holder          \* the process between bread() and brelse() of it, or Nobody

vars == <<content, holder>>

Init ==
    /\ content \in [Block -> Val]
    /\ holder = [k \in Block |-> Nobody]

Lock(p, k) ==
    /\ holder[k] = Nobody
    /\ holder' = [holder EXCEPT ![k] = p]
    /\ UNCHANGED content

Store(p, k) ==
    /\ holder[k] = p
    /\ \E v \in Val : content' = [content EXCEPT ![k] = v]
    /\ UNCHANGED holder

Unlock(p, k) ==
    /\ holder[k] = p
    /\ holder' = [holder EXCEPT ![k] = Nobody]
    /\ UNCHANGED content

Next == \E p \in Process, k \in Block : Lock(p, k) \/ Store(p, k) \/ Unlock(p, k)

Spec == Init /\ [][Next]_vars
=============================================================================
