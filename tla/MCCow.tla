------------------------------- MODULE MCCow -------------------------------
(* Small instances of Cow for TLC: a text page and a data page, with memory  *)
(* for one process and a half and for two; one data page that the kernel     *)
(* writes as well; three processes that share one data page; exec() with     *)
(* every amount of memory, and by a process that shares its pages with its   *)
(* parent.                                                                   *)
EXTENDS Cow

Text == {"R", "X", "U"}
Plain == {"R", "W", "U"}

M(pages, procs, image, size, ptes, calls, execs) ==
    [pages |-> pages, procs |-> procs, image |-> image, size |-> size, ptes |-> ptes,
     calls |-> calls, execs |-> execs]

Small ==
    {M(n, 2, <<Text, Plain>>, 2, 1, {"store", "wait", "sbrk"}, {}) : n \in {7, 11}}
    \cup {M(11, 2, <<Plain>>, 1, 1, {"store", "read", "wait"}, {})}
    \cup {M(13, 3, <<Plain>>, 1, 1, {"store"}, {})}
    \cup {M(n, 1, <<Plain>>, 3, 1, {"store"}, {1}) : n \in 5..14}
    \cup {M(13, 2, <<Plain>>, 3, 3, {}, {1, 2}), M(16, 2, <<Plain>>, 3, 3, {}, {2})}
=============================================================================
