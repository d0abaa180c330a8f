-------------------------------- MODULE Disk --------------------------------
(***************************************************************************)
(* The buffer cache (kernel/bio.c), the sleep locks of its buffers         *)
(* (kernel/sleeplock.c) and the driver of the virtio disk                  *)
(* (kernel/virtio_disk.c), with a device that completes requests in any    *)
(* order and interrupts while the handler is still running.                *)
(*                                                                         *)
(* A section under bcache.lock or under disk.vdisk_lock is one step, except *)
(* the interrupt handler's, during which the device goes on working.       *)
(***************************************************************************)
EXTENDS Integers, Sequences, FiniteSets, FiniteSetsExt, SequencesExt

CONSTANTS
    Block, Val,     \* blocks of the disk and their contents
    WRAP,           \* 2^16, the ring indices are uint16
    None,           \* no process, no block, no buffer, no channel
    Machines        \* the machines considered: [nbuf, num, calls], calls[p] the uses of
                    \* the cache process p makes, each [k, does]

ASSUME DiskAssumption ==
    \A m \in Machines : /\ WRAP % m.num = 0     \* idx % NUM goes on over the wrap
                        /\ m.num >= 3 /\ m.nbuf >= Len(m.calls)

\* the processes of the largest machine
Process == UNION {DOMAIN m.calls : m \in Machines}

VARIABLES
    buf,            \* bcache.buf[]
    lru,            \* the list of buffers, head.next first
    free, desc,     \* disk.free[] and disk.desc[]
    info, ops,      \* disk.info[] and disk.ops[], indexed by a chain's first descriptor
    avail, used,    \* the two rings (what nothing reads again is forgotten: a slot of
                    \* a ring that was read, info and ops of a request that is over)
    used_idx,       \* disk.used_idx
    intr,           \* virtio_disk_intr() holds disk.vdisk_lock
    media,          \* the device: contents of the blocks
    device,         \* the device: its place in avail, the chains it works on, its irq line
    th,             \* the processes
    panic

cache == <<buf, lru>>
rings == <<free, desc, info, ops, avail>>
vars == <<cache, rings, used, used_idx, intr, media, device, th, panic>>

NUM == Cardinality(DOMAIN free)
Procs == DOMAIN th

\* a process with these uses of the cache ahead: "read" a block, "write" it,
\* "log" a change of it (log_write()), "install" it (install_trans())
Idle(calls) == [pc |-> "idle", b |-> None, chan |-> None, write |-> FALSE, idx |-> None,
            stored |-> FALSE, saved |-> FALSE, calls |-> calls]
Goes(p, r) == th' = [th EXCEPT ![p] = [field \in DOMAIN @ |-> IF field \in DOMAIN r THEN r[field] ELSE @[field]]]

\* wakeup(): everyone asleep on one of the channels becomes runnable
wakeup(threads, chans) ==
    [p \in DOMAIN threads |-> IF threads[p].chan \in chans THEN [threads[p] EXCEPT !.chan = None]
                                                           ELSE threads[p]]
Runs(p, pc) == th[p].pc = pc /\ th[p].chan = None /\ ~panic

\* a wakeup together with p's own move
WakesAndGoes(chans, p, r) ==
    th' = [wakeup(th, chans) EXCEPT ![p] = [field \in DOMAIN @ |->
              IF field \in DOMAIN r THEN r[field] ELSE @[field]]]

NoOp == [type |-> None, sector |-> None]
NoInfo == [b |-> None, status |-> None]
NoDesc == [addr |-> None, flags |-> {}, next |-> 0]

\* binit(), virtio_disk_init()
Init ==
    /\ \E m \in Machines :
        /\ buf = [b \in 1..m.nbuf |-> [blockno |-> None, refcnt |-> 0, valid |-> FALSE,
                                       lock |-> None, disk |-> FALSE, data |-> CHOOSE v \in Val : TRUE]]
        /\ lru = [i \in 1..m.nbuf |-> m.nbuf + 1 - i]
        /\ free = [i \in 0..(m.num - 1) |-> TRUE]
        /\ desc = [i \in 0..(m.num - 1) |-> NoDesc]
        /\ info = [i \in 0..(m.num - 1) |-> NoInfo]
        /\ ops = [i \in 0..(m.num - 1) |-> NoOp]
        /\ avail = [idx |-> 0, ring |-> [i \in 0..(m.num - 1) |-> None]]
        /\ used = avail
        /\ th = [p \in DOMAIN m.calls |-> Idle(m.calls[p])]
    /\ used_idx = 0
    /\ intr = FALSE
    /\ \E v \in Val : media = [k \in Block |-> v]
    /\ device = [idx |-> 0, doing |-> {}, irq |-> FALSE]
    /\ panic = FALSE

-----------------------------------------------------------------------------
(* bio.c and sleeplock.c                                                    *)

Does(p, what) == Head(th[p].calls).does \in what

Holders(b) == Cardinality({p \in Procs : th[p].b = b})
Pinned == {b \in DOMAIN buf : buf[b].refcnt > Holders(b)}

\* slip: a buffer is recycled although the log has pinned it
bget_IgnoresPin(p) ==
    LET k == Head(th[p].calls).k
        hit == {b \in DOMAIN buf : buf[b].blockno = k}
        unused == SelectSeq(lru, LAMBDA b : Holders(b) = 0)
        b == IF hit # {} THEN CHOOSE x \in hit : TRUE ELSE Last(unused) IN
    /\ Runs(p, "idle") /\ th[p].calls # <<>>
    /\ buf' = IF hit # {} THEN [buf EXCEPT ![b].refcnt = @ + 1]
              ELSE [buf EXCEPT ![b].blockno = k, ![b].valid = FALSE, ![b].refcnt = 1]
    /\ Goes(p, [pc |-> "acquiresleep", b |-> b])
    /\ UNCHANGED <<lru, rings, used, used_idx, intr, media, device, panic>>

\* bget(): the cached buffer, or else the least recently used free one
bget(p) ==
    LET k == Head(th[p].calls).k
        hit == {b \in DOMAIN buf : buf[b].blockno = k}
        unused == SelectSeq(lru, LAMBDA b : buf[b].refcnt = 0)
        Takes(b) == Goes(p, [pc |-> "acquiresleep", b |-> b]) /\ UNCHANGED panic IN
    /\ Runs(p, "idle") /\ th[p].calls # <<>>
    /\ \/ \E b \in hit : /\ buf' = [buf EXCEPT ![b].refcnt = @ + 1]
                         /\ Takes(b)
       \/ /\ hit = {} /\ unused # <<>>
          /\ buf' = [buf EXCEPT ![Last(unused)].blockno = k, ![Last(unused)].valid = FALSE,
                                ![Last(unused)].refcnt = 1]
          /\ Takes(Last(unused))
       \/ /\ hit = {} /\ unused = <<>>
          /\ panic' = TRUE
          /\ UNCHANGED <<buf, th>>
    /\ UNCHANGED <<lru, rings, used, used_idx, intr, media, device>>

\* acquiresleep(), and bread()'s test of b->valid
acquiresleep(p) ==
    LET b == th[p].b IN
    /\ Runs(p, "acquiresleep")
    /\ \/ /\ buf[b].lock # None
          /\ Goes(p, [chan |-> <<"lock", b>>])
          /\ UNCHANGED buf
       \/ /\ buf[b].lock = None
          /\ buf' = [buf EXCEPT ![b].lock = p]
          /\ Goes(p, IF buf[b].valid THEN [pc |-> "use"] ELSE [pc |-> "alloc", write |-> FALSE])
    /\ UNCHANGED <<lru, rings, used, used_idx, intr, media, device, panic>>

\* the holder changes the data in the buffer; it will bwrite() or log_write() it
Store(p) ==
    /\ Runs(p, "use") /\ ~th[p].stored /\ Does(p, {"write", "log"})
    /\ \E v \in Val \ {buf[th[p].b].data} : buf' = [buf EXCEPT ![th[p].b].data = v]
    /\ Goes(p, [stored |-> TRUE])
    /\ UNCHANGED <<lru, rings, used, used_idx, intr, media, device, panic>>

bwrite(p) ==
    /\ Runs(p, "use") /\ ~th[p].saved
    /\ (Does(p, {"write"}) /\ th[p].stored) \/ Does(p, {"install"})
    /\ IF buf[th[p].b].lock = p
       THEN Goes(p, [pc |-> "alloc", write |-> TRUE, saved |-> TRUE]) /\ UNCHANGED panic
       ELSE panic' = TRUE /\ UNCHANGED th
    /\ UNCHANGED <<cache, rings, used, used_idx, intr, media, device>>

\* bpin(): log_write() of a changed buffer, once until it is installed
bpin(p) ==
    /\ Runs(p, "use") /\ ~th[p].saved /\ Does(p, {"log"}) /\ th[p].stored
    /\ buf' = IF th[p].b \in Pinned THEN buf ELSE [buf EXCEPT ![th[p].b].refcnt = @ + 1]
    /\ Goes(p, [saved |-> TRUE])
    /\ UNCHANGED <<lru, rings, used, used_idx, intr, media, device, panic>>

\* bunpin(): install_trans() has just written the buffer to its home
bunpin(p) ==
    /\ Runs(p, "use") /\ Does(p, {"install"}) /\ th[p].saved /\ th[p].b \in Pinned
    /\ buf' = [buf EXCEPT ![th[p].b].refcnt = @ - 1]
    /\ UNCHANGED <<lru, rings, used, used_idx, intr, media, device, th, panic>>

\* slip: releasesleep() forgets its wakeup
brelse_NoWakeup(p) ==
    /\ Runs(p, "use") /\ (th[p].saved \/ Does(p, {"read"}))
    /\ Does(p, {"install"}) => th[p].b \notin Pinned
    /\ buf' = [buf EXCEPT ![th[p].b].lock = None]
    /\ Goes(p, [pc |-> "unref"])
    /\ UNCHANGED <<lru, rings, used, used_idx, intr, media, device, panic>>

\* brelse(), first half: releasesleep()
brelse(p) ==
    LET b == th[p].b IN
    /\ Runs(p, "use") /\ (th[p].saved \/ Does(p, {"read"}))
    /\ Does(p, {"install"}) => b \notin Pinned
    /\ IF buf[b].lock = p
       THEN /\ buf' = [buf EXCEPT ![b].lock = None]
            /\ WakesAndGoes({<<"lock", b>>}, p, [pc |-> "unref"])
            /\ UNCHANGED panic
       ELSE panic' = TRUE /\ UNCHANGED <<buf, th>>
    /\ UNCHANGED <<lru, rings, used, used_idx, intr, media, device>>

\* brelse(), second half: under bcache.lock
brelse_unref(p) ==
    LET b == th[p].b IN
    /\ Runs(p, "unref")
    /\ buf' = [buf EXCEPT ![b].refcnt = @ - 1]
    /\ lru' = IF buf[b].refcnt = 1 THEN <<b>> \o Remove(lru, b) ELSE lru
    /\ th' = [th EXCEPT ![p] = Idle(Tail(@.calls))]
    /\ UNCHANGED <<rings, used, used_idx, intr, media, device, panic>>

-----------------------------------------------------------------------------
(* virtio_disk.c                                                            *)

FreeDescs == {i \in DOMAIN free : free[i]}

\* alloc3_desc(): alloc_desc() takes the first free descriptor, three times
alloc3_desc == [i \in 1..3 |-> CHOOSE d \in FreeDescs :
                                   Cardinality({e \in FreeDescs : e < d}) = i - 1]

\* the chain that starts at descriptor i, as free_chain() and the device walk it
Chain(i) == <<i>> \o IF "NEXT" \notin desc[i].flags THEN <<>>
                     ELSE LET j == desc[i].next IN
                          <<j>> \o IF "NEXT" \notin desc[j].flags THEN <<>> ELSE <<desc[j].next>>

\* virtio_disk_rw(), no three descriptors: alloc3_desc() puts back the ones it
\* had taken, and free_desc() wakes the other processes that wait for some
virtio_disk_rw_full(p) ==
    /\ Runs(p, "alloc") /\ ~intr
    /\ Cardinality(FreeDescs) < 3
    /\ desc' = [i \in DOMAIN desc |-> IF free[i] THEN NoDesc ELSE desc[i]]
    /\ WakesAndGoes(IF FreeDescs = {} THEN {} ELSE {<<"free">>}, p, [chan |-> <<"free">>])
    /\ UNCHANGED <<cache, free, info, ops, avail, used, used_idx, intr, media, device, panic>>

\* virtio_disk_rw(), up to the sleep: format a chain and hand it to the device
virtio_disk_rw_submit(p) ==
    LET idx == alloc3_desc
        b == th[p].b
        data == IF th[p].write THEN {"NEXT"} ELSE {"NEXT", "WRITE"} IN
    /\ Runs(p, "alloc") /\ ~intr
    /\ Cardinality(FreeDescs) >= 3
    /\ free' = [i \in DOMAIN free |-> free[i] /\ \A j \in 1..3 : idx[j] # i]
    /\ ops' = [ops EXCEPT ![idx[1]] = [type |-> IF th[p].write THEN "OUT" ELSE "IN",
                                       sector |-> buf[b].blockno]]
    /\ desc' = [desc EXCEPT ![idx[1]] = [addr |-> idx[1], flags |-> {"NEXT"}, next |-> idx[2]],
                            ![idx[2]] = [addr |-> b, flags |-> data, next |-> idx[3]],
                            ![idx[3]] = [addr |-> idx[1], flags |-> {"WRITE"}, next |-> 0]]
    /\ info' = [info EXCEPT ![idx[1]] = [b |-> b, status |-> 255]]
    /\ buf' = [buf EXCEPT ![b].disk = TRUE]
    /\ avail' = [idx |-> (avail.idx + 1) % WRAP,
                 ring |-> [avail.ring EXCEPT ![avail.idx % NUM] = idx[1]]]
    /\ Goes(p, [pc |-> "wait", idx |-> idx[1], chan |-> <<"buf", b>>])
    /\ UNCHANGED <<lru, used, used_idx, intr, media, device, panic>>

\* slip: the last descriptor of the chain is not freed
virtio_disk_rw_done_Leak(p) ==
    LET b == th[p].b
        c == SubSeq(Chain(th[p].idx), 1, 2) IN
    /\ Runs(p, "wait") /\ ~intr /\ ~buf[b].disk
    /\ free' = [i \in DOMAIN free |-> free[i] \/ \E j \in DOMAIN c : c[j] = i]
    /\ desc' = [i \in DOMAIN desc |-> IF \E j \in DOMAIN c : c[j] = i THEN NoDesc ELSE desc[i]]
    /\ info' = [info EXCEPT ![th[p].idx] = NoInfo] /\ ops' = [ops EXCEPT ![th[p].idx] = NoOp]
    /\ WakesAndGoes({<<"free">>}, p, [pc |-> "use", idx |-> None])
    /\ buf' = IF th[p].write THEN buf ELSE [buf EXCEPT ![b].valid = TRUE]
    /\ UNCHANGED <<lru, avail, used, used_idx, intr, media, device, panic>>

\* virtio_disk_rw() after the sleep: free_chain(), and bread() marks the buffer valid
virtio_disk_rw_done(p) ==
    LET b == th[p].b
        c == Chain(th[p].idx) IN
    /\ Runs(p, "wait") /\ ~intr
    /\ \/ /\ buf[b].disk
          /\ Goes(p, [chan |-> <<"buf", b>>])
          /\ UNCHANGED <<buf, free, desc, info, ops, panic>>
       \/ /\ ~buf[b].disk /\ \E j \in DOMAIN c : free[c[j]]         \* free_desc 2
          /\ panic' = TRUE
          /\ UNCHANGED <<buf, free, desc, info, ops, th>>
       \/ /\ ~buf[b].disk /\ \A j \in DOMAIN c : ~free[c[j]]
          /\ info' = [info EXCEPT ![th[p].idx] = NoInfo] /\ ops' = [ops EXCEPT ![th[p].idx] = NoOp]
          /\ free' = [i \in DOMAIN free |-> free[i] \/ \E j \in DOMAIN c : c[j] = i]
          /\ desc' = [i \in DOMAIN desc |-> IF \E j \in DOMAIN c : c[j] = i THEN NoDesc ELSE desc[i]]
          /\ WakesAndGoes({<<"free">>}, p, [pc |-> "use", idx |-> None])
          /\ buf' = IF th[p].write THEN buf ELSE [buf EXCEPT ![b].valid = TRUE]
          /\ UNCHANGED panic
    /\ UNCHANGED <<lru, avail, used, used_idx, intr, media, device>>

\* the device reads the next entry of the avail ring
DeviceTakes ==
    LET slot == device.idx % NUM IN
    /\ device.idx # avail.idx
    /\ device' = [device EXCEPT !.idx = (@ + 1) % WRAP, !.doing = @ \cup {avail.ring[slot]}]
    /\ avail' = [avail EXCEPT !.ring[slot] = None]
    /\ UNCHANGED <<cache, free, desc, info, ops, used, used_idx, intr, media, th, panic>>

\* the device finishes one of the requests it works on, in any order: it moves
\* the data, writes the status, adds a used entry and raises its interrupt
DeviceFinishes(h) ==
    LET op == ops[desc[h].addr]
        data == Chain(h)[2]
        status == Chain(h)[3] IN
    /\ h \in device.doing
    /\ device' = [device EXCEPT !.doing = @ \ {h}, !.irq = TRUE]
    /\ IF "WRITE" \in desc[data].flags
       THEN buf' = [buf EXCEPT ![desc[data].addr].data = media[op.sector]] /\ UNCHANGED media
       ELSE media' = [media EXCEPT ![op.sector] = buf[desc[data].addr].data] /\ UNCHANGED buf
    /\ info' = [info EXCEPT ![desc[status].addr].status = 0]
    /\ used' = [idx |-> (used.idx + 1) % WRAP, ring |-> [used.ring EXCEPT ![used.idx % NUM] = h]]
    /\ UNCHANGED <<lru, free, desc, ops, avail, used_idx, intr, th, panic>>

\* virtio_disk_intr(): acquire the lock, acknowledge
virtio_disk_intr ==
    /\ device.irq /\ ~intr /\ ~panic
    /\ intr' = TRUE
    /\ device' = [device EXCEPT !.irq = FALSE]
    /\ UNCHANGED <<cache, rings, used, used_idx, media, th, panic>>

\* slip: one used entry is handled for each interrupt
virtio_disk_intr_loop_Once ==
    LET slot == used_idx % NUM
        b == info[used.ring[slot]].b IN
    /\ intr /\ ~panic /\ used_idx # used.idx
    /\ buf' = [buf EXCEPT ![b].disk = FALSE]
    /\ th' = wakeup(th, {<<"buf", b>>})
    /\ used_idx' = (used_idx + 1) % WRAP
    /\ used' = [used EXCEPT !.ring[slot] = None]
    /\ intr' = FALSE
    /\ UNCHANGED <<lru, rings, media, device, panic>>

\* virtio_disk_intr(), one turn of its loop
virtio_disk_intr_loop ==
    LET slot == used_idx % NUM
        i == info[used.ring[slot]] IN
    /\ intr /\ ~panic /\ used_idx # used.idx
    /\ IF i.status # 0
       THEN panic' = TRUE /\ UNCHANGED <<buf, th, used, used_idx>>
       ELSE /\ buf' = [buf EXCEPT ![i.b].disk = FALSE]
            /\ th' = wakeup(th, {<<"buf", i.b>>})
            /\ used_idx' = (used_idx + 1) % WRAP
            /\ used' = [used EXCEPT !.ring[slot] = None]
            /\ UNCHANGED panic
    /\ UNCHANGED <<lru, rings, intr, media, device>>

virtio_disk_intr_end ==
    /\ intr /\ ~panic /\ used_idx = used.idx
    /\ intr' = FALSE
    /\ UNCHANGED <<cache, rings, used, used_idx, media, device, th, panic>>

-----------------------------------------------------------------------------

Request(p) == virtio_disk_rw_full(p) \/ virtio_disk_rw_submit(p) \/ virtio_disk_rw_done(p)

Handler == virtio_disk_intr \/ virtio_disk_intr_loop \/ virtio_disk_intr_end

Next ==
    \/ \E p \in Procs : \/ bget(p)
                        \/ acquiresleep(p) \/ Store(p) \/ bwrite(p)
                        \/ bpin(p) \/ bunpin(p) \/ brelse(p) \/ brelse_unref(p)
                        \/ Request(p)
    \/ DeviceTakes
    \/ \E h \in DOMAIN free : DeviceFinishes(h)
    \/ Handler

\* The scheduler runs a runnable process, the device goes on while it has
\* requests, and an interrupt is taken.
Fairness ==
    /\ \A p \in Process : WF_vars(p \in Procs /\ Request(p))
    /\ WF_vars(DeviceTakes)
    /\ WF_vars(\E h \in DOMAIN free : DeviceFinishes(h))
    /\ WF_vars(Handler)

Spec == Init /\ [][Next]_vars /\ Fairness

-----------------------------------------------------------------------------

\* Whoever sleeps has something to wait for: a process sleeps on a buffer's lock
\* only while it is held, for descriptors only while fewer than three are free,
\* and on its buffer only while the request is with the device, in the rings or
\* in the handler's hands (acquiresleep(), alloc3_desc(), virtio_disk_intr()).
NoMissedWakeup ==
    \A p \in Procs : LET b == th[p].b IN
        /\ th[p].chan = <<"lock", b>> => buf[b].lock # None
        /\ th[p].chan = <<"free">> => Cardinality(FreeDescs) < 3
        /\ th[p].chan = <<"buf", b>> =>
              buf[b].disk /\ \/ th[p].idx \in device.doing
                             \/ \E i \in DOMAIN free : th[p].idx \in {avail.ring[i], used.ring[i]}

\* The descriptors that are not free are exactly the chains of the requests in
\* virtio_disk_rw(), three each and no two sharing one, and each chain's info
\* names its buffer; a buffer is referenced by the processes that have it and
\* by at most one pin of the log, no block has two buffers, and nothing panics
\* (free_desc 1 and 2, bget, bwrite, brelse, virtio_disk_intr status).
ResourcesExact ==
    LET waiting == {p \in Procs : th[p].pc = "wait"}
        owned == [p \in waiting |-> ToSet(Chain(th[p].idx))] IN
    /\ \A p \in waiting : Cardinality(owned[p]) = 3 /\ info[th[p].idx].b = th[p].b
    /\ \A p, q \in waiting : p # q => owned[p] \cap owned[q] = {}
    /\ UNION {owned[p] : p \in waiting} = DOMAIN free \ FreeDescs
    /\ \A b \in DOMAIN buf : buf[b].refcnt - Holders(b) \in {0, 1}
    /\ \A b, c \in DOMAIN buf : buf[b].blockno = buf[c].blockno /\ b # c => buf[b].blockno = None
    /\ ToSet(lru) = DOMAIN buf /\ Len(lru) = Cardinality(DOMAIN buf)
    /\ ~panic

\* The processes see one current content per block, one process at a time:
\* recycling a buffer, writing it back or reading it again changes nothing.
Content == [k \in Block |->
    LET b == {c \in DOMAIN buf : buf[c].blockno = k /\ buf[c].valid} IN
    IF b = {} THEN media[k] ELSE buf[CHOOSE c \in b : TRUE].data]

Holder == [k \in Block |->
    LET p == {q \in Procs : /\ th[q].pc = "use" \/ (th[q].pc \in {"alloc", "wait"} /\ th[q].write)
                            /\ buf[th[q].b].blockno = k} IN
    IF p = {} THEN None ELSE CHOOSE q \in p : TRUE]

Blocks == INSTANCE LockedBlocks WITH content <- Content, holder <- Holder,
                                     Process <- Process, Nobody <- None

ImplementsLockedBlocks == Blocks!Spec

\* A request handed to the device comes back to the process that made it, even
\* when the device finishes the requests out of order and while
\* virtio_disk_intr() is looking at the used ring.
RequestsFinish ==
    \A p \in Process :
        (p \in Procs /\ th[p].pc = "wait") ~> (p \in Procs /\ th[p].pc # "wait")
=============================================================================
