----------------------------- MODULE ByteStream -----------------------------
(***************************************************************************)
(* What a pipe promises: a bounded stream with a read end and a write end. *)
(* Bytes come out in the order they went in, none twice; nothing goes in   *)
(* once the read end is closed; what is in the stream when the write end   *)
(* closes can still be read.  Only a read whose destination is bad loses a *)
(* byte.  The stream ends with its last end.                               *)
(***************************************************************************)
EXTENDS Sequences, Naturals

CONSTANTS Pipes, Procs, Byte, PIPESIZE

VARIABLES
    stream,     \* the bytes in each pipe
    ends,       \* the open ends of each pipe: a subset of {"r", "w"}
    got         \* the bytes the read() each process is in has delivered

svars == <<stream, ends, got>>

Init ==
    /\ stream = [x \in Pipes |-> <<>>]
    /\ ends = [x \in Pipes |-> {}]
    /\ got = [p \in Procs |-> <<>>]

Open(x) ==
    /\ ends[x] = {}
    /\ ends' = [ends EXCEPT ![x] = {"r", "w"}]
    /\ UNCHANGED <<stream, got>>

Put(x, b) ==
    /\ ends[x] = {"r", "w"} /\ Len(stream[x]) < PIPESIZE
    /\ stream' = [stream EXCEPT ![x] = Append(@, b)]
    /\ UNCHANGED <<ends, got>>

Take(x, p) ==
    /\ "r" \in ends[x] /\ stream[x] # <<>>
    /\ stream' = [stream EXCEPT ![x] = Tail(@)]
    /\ got' = [got EXCEPT ![p] = Append(@, Head(stream[x]))]
    /\ UNCHANGED ends

Lose(x, p) ==
    /\ "r" \in ends[x] /\ stream[x] # <<>>
    /\ stream' = [stream EXCEPT ![x] = Tail(@)]
    /\ got' = [got EXCEPT ![p] = <<>>]
    /\ UNCHANGED ends

\* read() returns
Return(p) ==
    /\ got' = [got EXCEPT ![p] = <<>>]
    /\ UNCHANGED <<stream, ends>>

CloseEnd(x, e) ==
    /\ e \in ends[x]
    /\ ends' = [ends EXCEPT ![x] = @ \ {e}]
    /\ stream' = [stream EXCEPT ![x] = IF ends[x] = {e} THEN <<>> ELSE @]
    /\ UNCHANGED got

Next ==
    \/ \E x \in Pipes : Open(x) \/ \E b \in Byte : Put(x, b)
    \/ \E x \in Pipes, p \in Procs : Take(x, p) \/ Lose(x, p)
    \/ \E x \in Pipes, e \in {"r", "w"} : CloseEnd(x, e)
    \/ \E p \in Procs : Return(p)

Spec == Init /\ [][Next]_svars
=============================================================================
