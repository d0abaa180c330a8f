-------------------------------- MODULE Log --------------------------------
(***************************************************************************)
(* The redo log of kernel/log.c, with the part of the buffer cache it      *)
(* relies on (kernel/bio.c: pinned buffers are not recycled), system calls *)
(* that run concurrently between begin_op() and end_op(), a crash at any   *)
(* moment and recovery at boot.                                            *)
(*                                                                         *)
(* A disk write of one block is atomic.  A section under log.lock is one   *)
(* step.  The header block is the sequence of its block numbers (n is the  *)
(* sequence's length).                                                     *)
(***************************************************************************)
EXTENDS Integers, Sequences, FiniteSets

CONSTANTS
    Block,          \* home blocks of the file system
    Val,            \* contents of a block
    Op,             \* processes that run file-system calls
    MAXOPBLOCKS,    \* log space begin_op() reserves for one call
    LOGSIZE,        \* data blocks of the log (param.h)
    OpBlocks,       \* distinct blocks a call really writes
    NoBuf           \* the block is not in the cache

ASSUME SizesAssumption ==
    /\ MAXOPBLOCKS \in Nat \ {0}
    /\ LOGSIZE \in Nat
    /\ LOGSIZE >= MAXOPBLOCKS
    /\ OpBlocks \in 0..MAXOPBLOCKS

ASSUME BufAssumption == NoBuf \notin Val

VARIABLES
    home,           \* disk: home locations
    dlog,           \* disk: data blocks of the log
    dhead,          \* disk: header block of the log
    lh,             \* memory: log.lh
    outstanding,    \* memory: log.outstanding
    committing,     \* memory: log.committing
    buf,            \* memory: cached contents of each home block
    pin,            \* memory: blocks whose buffer is pinned (bpin)
    pc,             \* where each process is
    held,           \* the blocks whose (locked) buffer a process has modified
                    \* and not yet handed to log_write()
    wrote,          \* the blocks a call has passed to log_write()
    tail,           \* loop counter of write_log() and install_trans()
    boot,           \* phase of recovery, "up" once it is over
    panic           \* panic() was called

disk == <<home, dlog, dhead>>
calls == <<pc, held, wrote>>
vars == <<disk, lh, outstanding, committing, buf, pin, calls, tail, boot, panic>>

LogIndex == 1..LOGSIZE

\* log.size is sb->nlog, which mkfs sets to LOGSIZE
log_size == LOGSIZE

\* what bread() of a home block returns
bread(b) == IF buf[b] = NoBuf THEN home[b] ELSE buf[b]

\* the entries of a header block
Entries(h) == {h[i] : i \in 1..Len(h)}

Init ==
    /\ home \in [Block -> Val]
    /\ \E zero \in Val : dlog = [i \in LogIndex |-> zero]
    /\ dhead = <<>>                         \* mkfs writes an empty log
    /\ lh = <<>>
    /\ outstanding = 0
    /\ committing = FALSE
    /\ buf = [b \in Block |-> NoBuf]
    /\ pin = {}
    /\ pc = [o \in Op |-> "idle"]
    /\ held = [o \in Op |-> {}]
    /\ wrote = [o \in Op |-> {}]
    /\ tail = 1
    /\ boot = "read_head"
    /\ panic = FALSE

running == boot = "up" /\ ~panic

-----------------------------------------------------------------------------
(* Boot: initlog() -> recover_from_log()                                    *)

read_head ==
    /\ boot = "read_head" /\ ~panic
    /\ lh' = dhead
    /\ tail' = 1
    /\ boot' = "install"
    /\ UNCHANGED <<disk, outstanding, committing, buf, pin, calls, panic>>

\* slip: recovery erases the log without installing it
recover_install_Skipped ==
    /\ boot = "install" /\ ~panic
    /\ boot' = "clear"
    /\ UNCHANGED <<disk, lh, outstanding, committing, buf, pin, calls, tail, panic>>

\* one turn of install_trans(1): copy a log block home, through the cache
recover_install ==
    /\ boot = "install" /\ ~panic
    /\ IF tail <= Len(lh)
       THEN /\ home' = [home EXCEPT ![lh[tail]] = dlog[tail]]
            /\ buf' = [buf EXCEPT ![lh[tail]] = dlog[tail]]
            /\ tail' = tail + 1
            /\ UNCHANGED boot
       ELSE /\ boot' = "clear"
            /\ UNCHANGED <<home, buf, tail>>
    /\ UNCHANGED <<dlog, dhead, lh, outstanding, committing, pin, calls, panic>>

recover_clear ==
    /\ boot = "clear" /\ ~panic
    /\ lh' = <<>>
    /\ dhead' = <<>>
    /\ boot' = "up"
    /\ UNCHANGED <<home, dlog, outstanding, committing, buf, pin, calls, tail, panic>>

-----------------------------------------------------------------------------
(* A file-system call.                                                      *)

Call(o) ==
    /\ running /\ pc[o] = "idle"
    /\ pc' = [pc EXCEPT ![o] = "begin_op"]
    /\ UNCHANGED <<disk, lh, outstanding, committing, buf, pin, held, wrote, tail, boot, panic>>

\* slip: begin_op() forgets what the outstanding calls have reserved
MustWait_ThisCallOnly == committing \/ Len(lh) + MAXOPBLOCKS > LOGSIZE

\* the test of begin_op()'s loop that makes the caller wait
MustWait == committing \/ Len(lh) + (outstanding + 1) * MAXOPBLOCKS > LOGSIZE

begin_op(o) ==
    /\ running /\ pc[o] = "begin_op"
    /\ IF MustWait
       THEN /\ pc' = [pc EXCEPT ![o] = "sleep"]
            /\ UNCHANGED <<outstanding, wrote>>
       ELSE /\ outstanding' = outstanding + 1
            /\ wrote' = [wrote EXCEPT ![o] = {}]
            /\ pc' = [pc EXCEPT ![o] = "call"]
    /\ UNCHANGED <<disk, lh, committing, buf, pin, held, tail, boot, panic>>

\* wakeup(&log): the sleepers go round begin_op()'s loop again
wakeup(p) == [o \in Op |-> IF p[o] = "sleep" THEN "begin_op" ELSE p[o]]

\* the call breads a block (nobody else may hold the buffer) and modifies it
Modify(o, b, v) ==
    /\ running /\ pc[o] = "call" /\ held[o] = {}
    /\ \A q \in Op : b \notin held[q]
    /\ Cardinality(wrote[o] \cup {b}) <= OpBlocks
    /\ buf' = [buf EXCEPT ![b] = v]
    /\ held' = [held EXCEPT ![o] = {b}]
    /\ UNCHANGED <<disk, lh, outstanding, committing, pin, pc, wrote, tail, boot, panic>>

\* log_write(bp); brelse(bp)
log_write(o, b) ==
    /\ running /\ pc[o] = "call" /\ b \in held[o]
    /\ IF Len(lh) >= LOGSIZE \/ Len(lh) >= log_size - 1 \/ outstanding < 1
       THEN /\ panic' = TRUE
            /\ UNCHANGED <<lh, pin>>
       ELSE /\ IF b \in Entries(lh)                      \* log absorption
               THEN UNCHANGED <<lh, pin>>
               ELSE lh' = Append(lh, b) /\ pin' = pin \cup {b}
            /\ UNCHANGED panic
    /\ held' = [held EXCEPT ![o] = {}]
    /\ wrote' = [wrote EXCEPT ![o] = @ \cup {b}]
    /\ UNCHANGED <<disk, outstanding, committing, buf, pc, tail, boot>>

\* end_op(), up to the call of commit()
end_op(o) ==
    /\ running /\ pc[o] = "call" /\ held[o] = {}
    /\ outstanding' = outstanding - 1
    /\ panic' = committing
    /\ IF outstanding = 1
       THEN /\ committing' = TRUE
            /\ pc' = [pc EXCEPT ![o] = IF Len(lh) > 0 THEN "write_log" ELSE "done"]
       ELSE /\ pc' = wakeup([pc EXCEPT ![o] = "idle"])
            /\ UNCHANGED committing
    /\ tail' = 1
    /\ UNCHANGED <<disk, lh, buf, pin, held, wrote, boot>>

-----------------------------------------------------------------------------
(* commit(), run by the last outstanding call without log.lock.            *)

\* one turn of write_log(): cache block to log block
write_log(o) ==
    /\ running /\ pc[o] = "write_log"
    /\ IF tail <= Len(lh)
       THEN /\ dlog' = [dlog EXCEPT ![tail] = bread(lh[tail])]
            /\ buf' = [buf EXCEPT ![lh[tail]] = bread(lh[tail])]
            /\ tail' = tail + 1
            /\ UNCHANGED pc
       ELSE /\ pc' = [pc EXCEPT ![o] = "write_head"]
            /\ UNCHANGED <<dlog, buf, tail>>
    /\ UNCHANGED <<home, dhead, lh, outstanding, committing, pin, held, wrote, boot, panic>>

\* slip: the header is not written before the blocks are installed
write_head_Skipped(o) ==
    /\ running /\ pc[o] = "write_head"
    /\ tail' = 1
    /\ pc' = [pc EXCEPT ![o] = "install"]
    /\ UNCHANGED <<disk, lh, outstanding, committing, buf, pin, held, wrote, boot, panic>>

\* the real commit
write_head(o) ==
    /\ running /\ pc[o] = "write_head"
    /\ dhead' = lh
    /\ tail' = 1
    /\ pc' = [pc EXCEPT ![o] = "install"]
    /\ UNCHANGED <<home, dlog, lh, outstanding, committing, buf, pin, held, wrote, boot, panic>>

\* one turn of install_trans(0): log block to home location, then bunpin()
install_trans(o) ==
    /\ running /\ pc[o] = "install"
    /\ IF tail <= Len(lh)
       THEN /\ home' = [home EXCEPT ![lh[tail]] = dlog[tail]]
            /\ buf' = [buf EXCEPT ![lh[tail]] = dlog[tail]]
            /\ pin' = pin \ {lh[tail]}
            /\ tail' = tail + 1
            /\ UNCHANGED pc
       ELSE /\ pc' = [pc EXCEPT ![o] = "clear"]
            /\ UNCHANGED <<home, buf, pin, tail>>
    /\ UNCHANGED <<dlog, dhead, lh, outstanding, committing, held, wrote, boot, panic>>

\* log.lh.n = 0; write_head()
clear_head(o) ==
    /\ running /\ pc[o] = "clear"
    /\ lh' = <<>>
    /\ dhead' = <<>>
    /\ pc' = [pc EXCEPT ![o] = "done"]
    /\ UNCHANGED <<home, dlog, outstanding, committing, buf, pin, held, wrote, tail, boot, panic>>

\* slip: no wakeup(&log) after the commit
end_commit_NoWakeup(o) ==
    /\ running /\ pc[o] = "done"
    /\ committing' = FALSE
    /\ pc' = [pc EXCEPT ![o] = "idle"]
    /\ UNCHANGED <<disk, lh, outstanding, buf, pin, held, wrote, tail, boot, panic>>

\* the end of end_op()
end_commit(o) ==
    /\ running /\ pc[o] = "done"
    /\ committing' = FALSE
    /\ pc' = wakeup([pc EXCEPT ![o] = "idle"])
    /\ UNCHANGED <<disk, lh, outstanding, buf, pin, held, wrote, tail, boot, panic>>

-----------------------------------------------------------------------------
(* The rest of the kernel and the machine.                                  *)

\* a process outside the log reads a block into the cache (bread, brelse)
Load(b) ==
    /\ running /\ buf[b] = NoBuf
    /\ buf' = [buf EXCEPT ![b] = home[b]]
    /\ UNCHANGED <<disk, lh, outstanding, committing, pin, calls, tail, boot, panic>>

\* bget() recycles the buffer of a block nobody refers to
Evict(b) ==
    /\ running /\ buf[b] # NoBuf
    /\ b \notin pin
    /\ \A o \in Op : b \notin held[o]
    /\ buf' = [buf EXCEPT ![b] = NoBuf]
    /\ UNCHANGED <<disk, lh, outstanding, committing, pin, calls, tail, boot, panic>>

\* power is lost: memory is gone, the disk stays
Crash ==
    /\ lh' = <<>>
    /\ outstanding' = 0
    /\ committing' = FALSE
    /\ buf' = [b \in Block |-> NoBuf]
    /\ pin' = {}
    /\ pc' = [o \in Op |-> "idle"]
    /\ held' = [o \in Op |-> {}]
    /\ wrote' = [o \in Op |-> {}]
    /\ tail' = 1
    /\ boot' = "read_head"
    /\ panic' = FALSE
    /\ UNCHANGED disk

\* kill() makes a process that sleeps in begin_op() go round its loop again
Killed(o) ==
    /\ running /\ pc[o] = "sleep"
    /\ pc' = [pc EXCEPT ![o] = "begin_op"]
    /\ UNCHANGED <<disk, lh, outstanding, committing, buf, pin, held, wrote, tail, boot, panic>>

Commit(o) == write_log(o) \/ write_head(o) \/ install_trans(o) \/ clear_head(o) \/ end_commit(o)
Recover == read_head \/ recover_install \/ recover_clear

Next ==
    \/ Recover
    \/ \E o \in Op : Call(o) \/ begin_op(o) \/ end_op(o) \/ Killed(o) \/ Commit(o)
    \/ \E o \in Op, b \in Block : log_write(o, b) \/ \E v \in Val : Modify(o, b, v)
    \/ \E b \in Block : Load(b) \/ Evict(b)
    \/ Crash

Spec == Init /\ [][Next]_vars

\* The machine keeps running recovery and commit, a process that was woken runs,
\* and every file-system call comes to its end_op().
Fairness ==
    /\ WF_vars(Recover)
    /\ \A o \in Op :
        /\ WF_vars(Commit(o))
        /\ WF_vars(begin_op(o))
        /\ WF_vars(\E b \in Block : log_write(o, b))
        /\ SF_vars(end_op(o))

FairSpec == Spec /\ Fairness

-----------------------------------------------------------------------------
(* Properties.                                                              *)

\* what recovery would make of the disk as it is now
Recovered ==
    [b \in Block |->
        LET at == {i \in 1..Len(dhead) : dhead[i] = b}
        IN IF at = {} THEN home[b] ELSE dlog[CHOOSE i \in at : \A j \in at : j <= i]]

\* what the file system sees
Visible == [b \in Block |-> IF boot = "up" THEN bread(b) ELSE Recovered[b]]

\* the calls between begin_op() and end_op()
Active == {o \in Op : pc[o] = "call"}

\* No panic of log.c ("too big a transaction", "log_write outside of trans",
\* "log.committing") is reachable when calls leave some of their reservation
\* unused: what begin_op() reserves for all of them together then keeps the header
\* below the bound of log_write(), which is one less than that of begin_op().
NoPanic == ~panic

\* Action property: a home block changes only when the header on disk names it,
\* that is, after the commit point (write-ahead rule).
WriteAhead == [][\A b \in Block : home'[b] # home[b] => b \in Entries(dhead)]_vars

\* The log implements AtomicDisk: group commits are atomic with respect to
\* crashes and never contain half of a call.
Abstract == INSTANCE AtomicDisk WITH
    durable <- Recovered, current <- Visible, active <- Active
ImplementsAtomicDisk == Abstract!Spec

\* A process that sleeps in begin_op() gets to run its loop again.
SleeperWakes == \A o \in Op : pc[o] = "sleep" ~> pc[o] # "sleep"
=============================================================================
