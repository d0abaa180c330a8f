------------------------------- MODULE MCDisk -------------------------------
(***************************************************************************)
(* Small machines, each for one kind of contention.                        *)
(***************************************************************************)
EXTENDS Disk

Calls(does, blocks) == [i \in DOMAIN blocks |-> [k |-> blocks[i], does |-> does]]

Queues == {
    \* a pinned buffer while the others are recycled
    [nbuf |-> 3, num |-> 4,
     calls |-> << Calls("log", <<1>>) \o Calls("install", <<1>>), Calls("read", <<2, 3, 2>>) >>],
    \* contention for one block and its buffer, which is also recycled
    [nbuf |-> 2, num |-> 4,
     calls |-> << Calls("write", <<1, 2>>), Calls("write", <<1>>) \o Calls("read", <<3, 1>>) >>],
    \* two requests in the queue at once, with descriptors over
    [nbuf |-> 3, num |-> 8,
     calls |-> << Calls("write", <<1, 3>>), Calls("write", <<2>>) \o Calls("read", <<3>>) >>],
    \* several processes wait for descriptors
    [nbuf |-> 3, num |-> 4,
     calls |-> << Calls("read", <<1>>), Calls("read", <<2>>), Calls("read", <<3>>) >>] }
=============================================================================
