-------------------------------- MODULE Pipe --------------------------------
(***************************************************************************)
(* Pipes (kernel/pipe.c): a ring of PIPESIZE bytes with free-running       *)
(* counters, two flags for the open ends, and a spin lock that sleep()     *)
(* gives up.  A turn of a loop under the lock is one step; the lock is     *)
(* taken with the first.  A thread is a record: pc, the pipe pi, the       *)
(* requested n, and what is done so far, buf.                              *)
(***************************************************************************)
EXTENDS Integers, Sequences, TLC

CONSTANTS
    NPROC,      \* processes
    NPIPE,      \* pages kalloc() has for pipes
    PIPESIZE,
    WRAP,       \* the counters count modulo WRAP (2^32 in the kernel)
    Data        \* for each process the bytes it may write, none of them 0

ASSUME PipeAssumption == /\ {NPROC, NPIPE, PIPESIZE} \subseteq Nat \ {0}
                         /\ WRAP % PIPESIZE = 0 /\ WRAP > PIPESIZE
                         /\ \A p \in 1..NPROC : 0 \notin Data[p]

Procs == 1..NPROC
Pipes == 1..NPIPE

VARIABLES
    pipe,       \* the pipe in each page, or NoPipe
    th,         \* the thread of each process
    killed      \* the processes with p->killed set

\* hushed is history: a killed writer left bytes without waking the readers
NoPipe == [readopen |-> 0, writeopen |-> 0, nread |-> 0, nwrite |-> 0, lock |-> 0, hushed |-> FALSE,
           data |-> [j \in 0..(PIPESIZE - 1) |-> 0]]

\* (a slot of the ring that holds no byte is 0)

\* a thread in user space
User == [pc |-> "user", pi |-> 0, n |-> 0, buf |-> <<>>, todo |-> <<>>, ff |-> 0, fd |-> -1, np |-> 0]

\* the thread of p goes on with the fields of r changed
Go(p, r) == th' = [th EXCEPT ![p] = r @@ @]
Return(p) == th' = [th EXCEPT ![p] = User]

Empty(x) == pipe[x].nread = pipe[x].nwrite
Full(x) == pipe[x].nwrite = (pipe[x].nread + PIPESIZE) % WRAP

\* pi->lock is free, or the thread has it from its last step
Holds(p, x) == pipe[x].lock \in {0, p}

\* wakeup(): the sleepers in loop l of pipe x run again.  t are the threads.
Wake(t, l, x) == [q \in Procs |-> IF t[q].pc = l \o "_sleep" /\ t[q].pi = x
                                  THEN [t[q] EXCEPT !.pc = l] ELSE t[q]]

\* pipealloc(): the pipe starts empty, with both ends open
NewPipe == [NoPipe EXCEPT !.readopen = 1, !.writeopen = 1]

\* slip: the readers are not woken when the last writer closes
pipeclose_NoWakeup(p, x, writable, next) ==
    /\ pipe[x].lock = 0
    /\ LET y == IF writable THEN [pipe[x] EXCEPT !.writeopen = 0, !.hushed = FALSE] ELSE [pipe[x] EXCEPT !.readopen = 0]
       IN pipe' = [pipe EXCEPT ![x] = IF y.readopen = 0 /\ y.writeopen = 0 THEN NoPipe ELSE y]
    /\ th' = [th EXCEPT ![p] = next]

\* pipeclose(); the thread goes on as next
pipeclose(p, x, writable, next) ==
    /\ pipe[x].lock = 0
    /\ LET y == IF writable THEN [pipe[x] EXCEPT !.writeopen = 0, !.hushed = FALSE] ELSE [pipe[x] EXCEPT !.readopen = 0]
       IN pipe' = [pipe EXCEPT ![x] = IF y.readopen = 0 /\ y.writeopen = 0 THEN NoPipe ELSE y]
    /\ th' = Wake([th EXCEPT ![p] = next], IF writable THEN "piperead" ELSE "pipewrite", x)

\* pipewrite(): the loop ends; copyin() may have failed
pipewrite_end(p, x) ==
    /\ \/ Len(th[p].buf) >= th[p].n
       \/ Len(th[p].buf) < th[p].n /\ pipe[x].readopen = 1 /\ p \notin killed /\ ~Full(x)
    /\ th' = Wake([th EXCEPT ![p] = User], "piperead", x)
    /\ pipe' = [pipe EXCEPT ![x].lock = 0, ![x].hushed = FALSE]

\* nobody can read, or the writer is killed: -1
pipewrite_error(p, x) ==
    /\ Len(th[p].buf) < th[p].n
    /\ pipe[x].readopen = 0 \/ p \in killed
    /\ Return(p)
    /\ pipe' = [pipe EXCEPT ![x].lock = 0, ![x].hushed = @ \/ (pipe[x].readopen = 1 /\ th[p].buf # <<>>)]

\* pipewrite-full: wake the readers, on to sleep()
pipewrite_full(p, x) ==
    /\ Len(th[p].buf) < th[p].n /\ pipe[x].readopen = 1 /\ p \notin killed
    /\ Full(x)
    /\ th' = Wake([th EXCEPT ![p].pc = "pipewrite_full"], "piperead", x)
    /\ pipe' = [pipe EXCEPT ![x].lock = p, ![x].hushed = FALSE]

\* slip: a ring of PIPESIZE bytes indexed from the wrong counter
pipewrite_byte_WrongSlot(p, x) ==
    /\ Len(th[p].buf) < th[p].n /\ pipe[x].readopen = 1 /\ p \notin killed
    /\ ~Full(x)
    /\ \E b \in Data[p] :
        /\ pipe' = [pipe EXCEPT ![x].data[pipe[x].nread % PIPESIZE] = b,
                                ![x].nwrite = (@ + 1) % WRAP, ![x].lock = p]
        /\ Go(p, [buf |-> Append(th[p].buf, 0)])

\* pi->data[pi->nwrite++ % PIPESIZE] = ch
pipewrite_byte(p, x) ==
    /\ Len(th[p].buf) < th[p].n /\ pipe[x].readopen = 1 /\ p \notin killed
    /\ ~Full(x)
    /\ \E b \in Data[p] :
        /\ pipe' = [pipe EXCEPT ![x].data[pipe[x].nwrite % PIPESIZE] = b,
                                ![x].nwrite = (@ + 1) % WRAP, ![x].lock = p]
        /\ Go(p, [buf |-> Append(th[p].buf, 0)])

pipewrite(p) ==
    LET x == th[p].pi IN
    /\ th[p].pc = "pipewrite" /\ Holds(p, x)
    /\ pipewrite_end(p, x) \/ pipewrite_error(p, x) \/ pipewrite_full(p, x) \/ pipewrite_byte(p, x)
    /\ UNCHANGED killed

\* piperead(): wait while the pipe is empty and somebody can write
piperead_wait(p) ==
    LET x == th[p].pi IN
    /\ th[p].pc = "piperead" /\ Holds(p, x)
    /\ IF Empty(x) /\ pipe[x].writeopen = 1
       THEN IF p \in killed THEN Return(p) /\ pipe' = [pipe EXCEPT ![x].lock = 0]
            ELSE Go(p, [pc |-> "piperead_empty"]) /\ pipe' = [pipe EXCEPT ![x].lock = p]
       ELSE /\ Go(p, [pc |-> "piperead_copy"])
            /\ pipe' = [pipe EXCEPT ![x].lock = p]
    /\ UNCHANGED killed

\* sleep() of either loop gives up the lock.  kill() does not take pi->lock, so
\* that it may have come since killed() was tested.
pipe_sleep(p) ==
    /\ th[p].pc \in {"pipewrite_full", "piperead_empty"}
    /\ Go(p, [pc |-> IF th[p].pc = "pipewrite_full" THEN "pipewrite_sleep" ELSE "piperead_sleep"])
    /\ pipe' = [pipe EXCEPT ![th[p].pi].lock = 0]
    /\ UNCHANGED killed

\* piperead-copy: a byte, the end of the loop, or a byte copyout() cannot deliver
piperead_copy(p) ==
    LET x == th[p].pi
        took == [pipe[x] EXCEPT !.data[pipe[x].nread % PIPESIZE] = 0, !.nread = (@ + 1) % WRAP]
        end(y) == /\ pipe' = [pipe EXCEPT ![x] = [y EXCEPT !.lock = 0, !.hushed = @ /\ y.nread # y.nwrite]]
                  /\ th' = Wake([th EXCEPT ![p] = User], "pipewrite", x)
    IN
    /\ th[p].pc = "piperead_copy"
    /\ IF Len(th[p].buf) < th[p].n /\ ~Empty(x)
       THEN \/ /\ pipe' = [pipe EXCEPT ![x] = took]
               /\ Go(p, [buf |-> Append(th[p].buf, pipe[x].data[pipe[x].nread % PIPESIZE])])
            \/ end(took)
       ELSE end(pipe[x])
    /\ UNCHANGED killed

PipeNext(p) == pipewrite(p) \/ piperead_wait(p) \/ pipe_sleep(p) \/ piperead_copy(p)

\* the bytes in pipe x, in order
Contents(x) ==
    [j \in 1..((pipe[x].nwrite - pipe[x].nread) % WRAP) |-> pipe[x].data[(pipe[x].nread + j - 1) % PIPESIZE]]

OpenEnds(x) == {e \in {"r", "w"} : (IF e = "r" THEN pipe[x].readopen ELSE pipe[x].writeopen) = 1}

\* the bytes the present read() of p has delivered
Delivered(p) == IF th[p].pc = "piperead_copy" THEN th[p].buf ELSE <<>>

\* Nobody sleeps on a pipe, whose lock is free, who could go on: a reader although
\* there are bytes or no writer, a writer although there is room or no reader.  No
\* wakeup() of pipewrite(), piperead() or pipeclose() comes too early or is missing.
\* One case is excepted: a killed writer does not wake the readers of what it wrote.
NoMissedWakeup ==
    \A p \in Procs :
        LET x == th[p].pi IN
        th[p].pc \in {"piperead_sleep", "pipewrite_sleep"} /\ pipe[x].lock = 0 =>
            IF th[p].pc = "piperead_sleep" THEN pipe[x].writeopen = 1 /\ (Empty(x) \/ pipe[x].hushed)
            ELSE pipe[x].readopen = 1 /\ Full(x)

\* What the ring holds is the stream of ByteStream: no byte is lost, duplicated,
\* reordered or written after a close, whatever the interleaving of readers,
\* writers, close(), exit() and kill(), and however often the counters wrap.
Stream == INSTANCE ByteStream WITH
            Byte <- UNION {Data[p] : p \in Procs},
            stream <- [x \in Pipes |-> Contents(x)],
            ends <- [x \in Pipes |-> OpenEnds(x)],
            got <- [p \in Procs |-> Delivered(p)]
ImplementsByteStream == Stream!Spec
=============================================================================
