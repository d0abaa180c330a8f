-------------------------------- MODULE Proc --------------------------------
(***************************************************************************)
(* Processes and their scheduling (kernel/proc.c): the process table, the  *)
(* per-CPU scheduler, sched()/swtch(), yield(), sleep()/wakeup(), fork(),  *)
(* exit(), wait() and kill(), with the locks p->lock and wait_lock.        *)
(*                                                                         *)
(* A step is what one CPU does between two points where another CPU could  *)
(* tell the difference: a section under one p->lock is one step, a section *)
(* under wait_lock that takes p->locks one after the other is many.  The   *)
(* table is scanned slot by slot, as in the code.                          *)
(***************************************************************************)
EXTENDS Integers

CONSTANTS
    NPROC,      \* slots of the process table
    NCPU        \* CPUs

ASSUME SizeAssumption == NPROC \in Nat /\ NPROC >= 2 /\ NCPU \in Nat \ {0}

Procs == 1..NPROC
CPUs == 1..NCPU
Null == 0           \* the null pointer, for processes and for CPUs
initproc == 1       \* userinit() takes the first slot

VARIABLES
    state,      \* p->state
    chan,       \* p->chan; the only channel in proc.c is the process itself
    killed,     \* p->killed
    parent,     \* p->parent
    plock,      \* p->lock: the CPU that holds it
    wlock,      \* wait_lock: the CPU that holds it
    cproc,      \* c->proc
    stack,      \* the process whose kernel stack a CPU runs on; Null: the scheduler's
    scan,       \* the slot the scheduler() loop of a CPU is at
    pc,         \* where the kernel thread of a process is (saved in p->context
                \* while it does not run)
    cont,       \* where the thread goes on once sched() has returned
    i,          \* loop variable of allocproc(), wait() and reparent()
    havekids,   \* local variable of wait()
    np,         \* local variable of fork(): the child
    wk          \* wakeup() in progress: its channel, loop variable, return point

table == <<state, chan, killed, parent>>
locks == <<plock, wlock>>
cpus == <<cproc, stack, scan>>
locals == <<i, havekids, np, wk>>
vars == <<table, locks, cpus, pc, cont, locals>>

States == {"UNUSED", "USED", "SLEEPING", "RUNNABLE", "RUNNING", "ZOMBIE"}

\* points at which the thread holds no lock, so that a timer interrupt may preempt it
\* (allocproc()'s scan, which holds none between two slots, is preempted only before
\* it starts: what it has seen of the table is never used later)
Preemptible == {"user", "ret", "fork_parent", "fork_run", "wait_lock", "exit_lock"}

Points == Preemptible \cup
    {"sched", "resume", "fork", "fork_fill", "wait", "wait_check", "sleep", "sleep_lk",
     "sleep_set", "exit_reparent", "wakeup", "exit_zombie", "exit_unlock", "dead"}

\* the values of a loop variable over the table, and of wk
Slots == 1..(NPROC + 1)
Wakeups == [chan : Procs \cup {Null}, j : Slots, ret : {"exit_reparent", "exit_zombie"}]

TypeOK ==
    /\ state \in [Procs -> States]
    /\ chan \in [Procs -> Procs \cup {Null}]
    /\ killed \in [Procs -> BOOLEAN]
    /\ parent \in [Procs -> Procs \cup {Null}]
    /\ plock \in [Procs -> CPUs \cup {Null}]
    /\ wlock \in CPUs \cup {Null}
    /\ cproc \in [CPUs -> Procs \cup {Null}]
    /\ stack \in [CPUs -> Procs \cup {Null}]
    /\ scan \in [CPUs -> Procs]
    /\ pc \in [Procs -> Points]
    /\ cont \in [Procs -> Points]
    /\ i \in [Procs -> Slots]
    /\ havekids \in [Procs -> BOOLEAN]
    /\ np \in [Procs -> Procs]
    /\ wk \in [Procs -> Wakeups]

\* wk while wakeup() is not running
NoWakeup == [chan |-> Null, j |-> 1, ret |-> "exit_zombie"]

\* after procinit() and userinit(), the CPUs enter scheduler()
Init ==
    /\ state = [p \in Procs |-> IF p = initproc THEN "RUNNABLE" ELSE "UNUSED"]
    /\ chan = [p \in Procs |-> Null]
    /\ killed = [p \in Procs |-> FALSE]
    /\ parent = [p \in Procs |-> Null]
    /\ plock = [p \in Procs |-> Null]
    /\ wlock = Null
    /\ cproc = [c \in CPUs |-> Null]
    /\ stack = [c \in CPUs |-> Null]
    /\ scan = [c \in CPUs |-> 1]
    /\ pc = [p \in Procs |-> "resume"]
    /\ cont = [p \in Procs |-> "user"]
    /\ i = [p \in Procs |-> 1]
    /\ havekids = [p \in Procs |-> FALSE]
    /\ np = [p \in Procs |-> 1]
    /\ wk = [p \in Procs |-> NoWakeup]

\* CPU c runs the kernel thread of p, which is at point l
At(c, p, l) == stack[c] = p /\ pc[p] = l

Goto(p, l) == pc' = [pc EXCEPT ![p] = l]

free(lk) == lk = Null

\* the locals of p die with the function that has them
Fresh(p) ==
    /\ i' = [i EXCEPT ![p] = 1]
    /\ havekids' = [havekids EXCEPT ![p] = FALSE]
    /\ np' = [np EXCEPT ![p] = 1]
    /\ wk' = [wk EXCEPT ![p] = NoWakeup]

\* return from the system call
Return(p) == Goto(p, "ret") /\ Fresh(p)

-----------------------------------------------------------------------------
(* scheduler(), sched(), yield() and forkret()                              *)

NextSlot(c) == scan' = [scan EXCEPT ![c] = IF @ = NPROC THEN 1 ELSE @ + 1]

\* slip: p->state is tested without p->lock
scheduler_look_NoLock(c) ==
    LET p == scan[c] IN
    /\ stack[c] = Null /\ cproc[c] = Null
    /\ IF state[p] = "RUNNABLE"
       THEN /\ plock' = [plock EXCEPT ![p] = c]
            /\ state' = [state EXCEPT ![p] = "RUNNING"]
            /\ cproc' = [cproc EXCEPT ![c] = p]
            /\ stack' = [stack EXCEPT ![c] = p]
            /\ UNCHANGED scan
       ELSE /\ NextSlot(c)
            /\ UNCHANGED <<plock, state, cproc, stack>>
    /\ UNCHANGED <<chan, killed, parent, wlock, pc, cont, locals>>

\* acquire the slot's lock; a RUNNABLE process is switched to with its lock held
scheduler_look(c) ==
    LET p == scan[c] IN
    /\ stack[c] = Null /\ cproc[c] = Null
    /\ free(plock[p])
    /\ IF state[p] = "RUNNABLE"
       THEN /\ plock' = [plock EXCEPT ![p] = c]
            /\ state' = [state EXCEPT ![p] = "RUNNING"]
            /\ cproc' = [cproc EXCEPT ![c] = p]
            /\ stack' = [stack EXCEPT ![c] = p]
            /\ UNCHANGED scan
       ELSE /\ NextSlot(c)
            /\ UNCHANGED <<plock, state, cproc, stack>>
    /\ UNCHANGED <<chan, killed, parent, wlock, pc, cont, locals>>

\* back from swtch(): c->proc = 0 and release(&p->lock)
scheduler_back(c) ==
    /\ stack[c] = Null /\ cproc[c] # Null
    /\ plock' = [plock EXCEPT ![scan[c]] = Null]
    /\ cproc' = [cproc EXCEPT ![c] = Null]
    /\ NextSlot(c)
    /\ UNCHANGED <<table, wlock, stack, pc, cont, locals>>

\* swtch(&p->context, &mycpu()->context)
sched(c, p) ==
    /\ At(c, p, "sched")
    /\ stack' = [stack EXCEPT ![c] = Null]
    /\ Goto(p, "resume")
    /\ UNCHANGED <<table, locks, cproc, scan, cont, locals>>

\* the scheduler switched to p: forkret(), or the rest of yield() or sleep()
resume(c, p) ==
    /\ At(c, p, "resume")
    /\ chan' = [chan EXCEPT ![p] = Null]
    /\ plock' = [plock EXCEPT ![p] = Null]
    /\ Goto(p, cont[p])
    /\ cont' = [cont EXCEPT ![p] = "user"]
    /\ UNCHANGED <<state, killed, parent, wlock, cpus, locals>>

\* slip: p->lock is released before sched()
yield_Unlocked(c, p) ==
    /\ state' = [state EXCEPT ![p] = "RUNNABLE"]
    /\ cont' = [cont EXCEPT ![p] = pc[p]]
    /\ Goto(p, "sched")
    /\ UNCHANGED plock

\* yield(): p->lock is taken, to be released by the scheduler after swtch()
yield(c, p) ==
    /\ plock' = [plock EXCEPT ![p] = c]
    /\ state' = [state EXCEPT ![p] = "RUNNABLE"]
    /\ cont' = [cont EXCEPT ![p] = pc[p]]
    /\ Goto(p, "sched")

\* slip: usertrap() does not test killed(p) after a timer interrupt
timer_NoKilledTest(c, p) ==
    /\ stack[c] = p /\ pc[p] \in Preemptible
    /\ free(plock[p])
    /\ yield(c, p)
    /\ UNCHANGED <<chan, killed, parent, wlock, cpus, locals>>

\* timer interrupt in user mode (usertrap(), where a killed process exits) or in
\* the kernel (kerneltrap())
timer(c, p) ==
    /\ stack[c] = p /\ pc[p] \in Preemptible
    /\ free(plock[p])
    /\ IF pc[p] = "user" /\ killed[p]
       THEN Goto(p, "exit_lock") /\ UNCHANGED <<plock, state, cont>>
       ELSE yield(c, p)
    /\ UNCHANGED <<chan, killed, parent, wlock, cpus, locals>>

-----------------------------------------------------------------------------
(* usertrap(): system calls                                                 *)

\* killed(p) is tested before a system call; a killed process calls exit(-1)
syscall(c, p, call) ==
    /\ At(c, p, "user")
    /\ free(plock[p])
    /\ call \in {"fork", "wait_lock", "exit_lock"}
    /\ p = initproc => call # "exit_lock"       \* init.c never calls exit()
    /\ killed[p] => call = "exit_lock"
    /\ Goto(p, call)
    /\ i' = [i EXCEPT ![p] = 1]
    /\ UNCHANGED <<table, locks, cpus, cont, havekids, np, wk>>

\* after the system call: killed(p) again, then back to user space
usertrap_ret(c, p) ==
    /\ At(c, p, "ret")
    /\ free(plock[p])
    /\ Goto(p, IF killed[p] THEN "exit_lock" ELSE "user")
    /\ UNCHANGED <<table, locks, cpus, cont, locals>>

\* kill() of the process in slot t (the slots whose pid differs are only looked
\* at).  A slot that is UNUSED is found by kill(0).
kill(c, p, t) ==
    /\ At(c, p, "user") /\ ~killed[p]
    /\ free(plock[p]) /\ free(plock[t])
    /\ killed' = [killed EXCEPT ![t] = TRUE]
    /\ state' = [state EXCEPT ![t] = IF @ = "SLEEPING" THEN "RUNNABLE" ELSE @]
    /\ Return(p)
    /\ UNCHANGED <<chan, parent, locks, cpus, cont>>

-----------------------------------------------------------------------------
(* fork()                                                                   *)

\* allocproc(): look for an UNUSED slot, keep its lock
allocproc(c, p) ==
    /\ At(c, p, "fork")
    /\ IF i[p] > NPROC
       THEN /\ Return(p)
            /\ UNCHANGED <<state, plock>>
       ELSE /\ free(plock[i[p]])
            /\ IF state[i[p]] = "UNUSED"
               THEN /\ plock' = [plock EXCEPT ![i[p]] = c]
                    /\ state' = [state EXCEPT ![i[p]] = "USED"]
                    /\ np' = [np EXCEPT ![p] = i[p]]
                    /\ Goto(p, "fork_fill")
                    /\ i' = [i EXCEPT ![p] = 1]
               ELSE /\ i' = [i EXCEPT ![p] = @ + 1]
                    /\ UNCHANGED <<plock, state, np, pc>>
            /\ UNCHANGED <<havekids, wk>>
    /\ UNCHANGED <<chan, killed, parent, wlock, cpus, cont>>

\* freeproc(): the fields this module keeps
freeproc(t) ==
    /\ state' = [state EXCEPT ![t] = "UNUSED"]
    /\ chan' = [chan EXCEPT ![t] = Null]
    /\ killed' = [killed EXCEPT ![t] = FALSE]
    /\ parent' = [parent EXCEPT ![t] = Null]

\* no memory for the trapframe, the page table or the copy of the address space
fork_fail(c, p) ==
    /\ At(c, p, "fork_fill")
    /\ freeproc(np[p])
    /\ plock' = [plock EXCEPT ![np[p]] = Null]
    /\ Return(p)
    /\ UNCHANGED <<wlock, cpus, cont>>

\* slip: the child's lock is not released
fork_fill_KeepsLock(c, p) ==
    /\ At(c, p, "fork_fill")
    /\ pc' = [pc EXCEPT ![p] = "fork_parent", ![np[p]] = "resume"]
    /\ cont' = [cont EXCEPT ![np[p]] = "user"]
    /\ UNCHANGED <<table, locks, cpus, locals>>

\* the child starts in forkret(); release(&np->lock)
fork_fill(c, p) ==
    /\ At(c, p, "fork_fill")
    /\ pc' = [pc EXCEPT ![p] = "fork_parent", ![np[p]] = "resume"]
    /\ cont' = [cont EXCEPT ![np[p]] = "user"]
    /\ plock' = [plock EXCEPT ![np[p]] = Null]
    /\ UNCHANGED <<table, wlock, cpus, locals>>

\* acquire(&wait_lock); np->parent = p; release(&wait_lock)
fork_parent(c, p) ==
    /\ At(c, p, "fork_parent")
    /\ free(wlock)
    /\ parent' = [parent EXCEPT ![np[p]] = p]
    /\ Goto(p, "fork_run")
    /\ UNCHANGED <<state, chan, killed, locks, cpus, cont, locals>>

fork_run(c, p) ==
    /\ At(c, p, "fork_run")
    /\ free(plock[np[p]])
    /\ state' = [state EXCEPT ![np[p]] = "RUNNABLE"]
    /\ Return(p)
    /\ UNCHANGED <<chan, killed, parent, locks, cpus, cont>>

-----------------------------------------------------------------------------
(* wait() and sleep().  waitx() is the same loop.                           *)

wait_lock(c, p) ==
    /\ At(c, p, "wait_lock")
    /\ free(wlock)
    /\ wlock' = c
    /\ i' = [i EXCEPT ![p] = 1]
    /\ havekids' = [havekids EXCEPT ![p] = FALSE]
    /\ Goto(p, "wait")
    /\ UNCHANGED <<table, plock, cpus, cont, np, wk>>

\* the scan passes a slot that is not a zombie child, or ends
wait_scan(c, p) ==
    /\ At(c, p, "wait")
    /\ IF i[p] > NPROC
       THEN /\ Goto(p, "wait_check")
            /\ UNCHANGED <<i, havekids>>
       ELSE /\ parent[i[p]] = p => free(plock[i[p]]) /\ state[i[p]] # "ZOMBIE"
            /\ havekids' = [havekids EXCEPT ![p] = @ \/ parent[i[p]] = p]
            /\ i' = [i EXCEPT ![p] = @ + 1]
            /\ UNCHANGED pc
    /\ UNCHANGED <<table, locks, cpus, cont, np, wk>>

\* slip: the child's lock is not taken
wait_zombie_NoLock(c, p, t) == state[t] = "ZOMBIE"

\* the slot's lock makes sure that the child is not still in exit() or swtch()
wait_zombie(c, p, t) == free(plock[t]) /\ state[t] = "ZOMBIE"

wait_reap(c, p) ==
    /\ At(c, p, "wait") /\ i[p] <= NPROC
    /\ parent[i[p]] = p /\ wait_zombie(c, p, i[p])
    /\ \/ freeproc(i[p])
       \/ UNCHANGED table               \* copyout() of the exit status failed
    /\ wlock' = Null
    /\ Return(p)
    /\ UNCHANGED <<plock, cpus, cont>>

\* no children, or killed(p): return -1; else sleep(p, &wait_lock)
wait_check(c, p) ==
    /\ At(c, p, "wait_check")
    /\ havekids[p] => free(plock[p])
    /\ IF ~havekids[p] \/ killed[p]
       THEN wlock' = Null /\ Goto(p, "ret")
       ELSE UNCHANGED wlock /\ Goto(p, "sleep")
    /\ Fresh(p)
    /\ UNCHANGED <<table, plock, cpus, cont>>

\* sleep(): acquire(&p->lock) while lk is still held
sleep_acquire(c, p) ==
    /\ At(c, p, "sleep")
    /\ free(plock[p])
    /\ plock' = [plock EXCEPT ![p] = c]
    /\ Goto(p, "sleep_lk")
    /\ UNCHANGED <<table, wlock, cpus, cont, locals>>

\* release(lk)
sleep_release(c, p) ==
    /\ At(c, p, "sleep_lk")
    /\ wlock' = Null
    /\ Goto(p, "sleep_set")
    /\ UNCHANGED <<table, plock, cpus, cont, locals>>

\* p->chan = chan; p->state = SLEEPING; then sched().  Once awake the thread
\* takes lk again and goes round wait()'s loop.
sleep_set(c, p) ==
    /\ At(c, p, "sleep_set")
    /\ chan' = [chan EXCEPT ![p] = p]
    /\ state' = [state EXCEPT ![p] = "SLEEPING"]
    /\ cont' = [cont EXCEPT ![p] = "wait_lock"]
    /\ Goto(p, "sched")
    /\ UNCHANGED <<killed, parent, locks, cpus, locals>>

-----------------------------------------------------------------------------
(* exit(), reparent() and wakeup()                                          *)

exit_lock(c, p) ==
    /\ At(c, p, "exit_lock")
    /\ free(wlock)
    /\ wlock' = c
    /\ i' = [i EXCEPT ![p] = 1]
    /\ Goto(p, "exit_reparent")
    /\ UNCHANGED <<table, plock, cpus, cont, havekids, np, wk>>

\* call wakeup(ch), to return to r
CallWakeup(p, ch, r) ==
    /\ wk' = [wk EXCEPT ![p] = [chan |-> ch, j |-> 1, ret |-> r]]
    /\ Goto(p, "wakeup")

\* slip: the loop misses the last slot
reparent_OffByOne(c, p) ==
    /\ At(c, p, "exit_reparent")
    /\ IF i[p] >= NPROC
       THEN /\ CallWakeup(p, parent[p], "exit_zombie")
            /\ UNCHANGED <<parent, i>>
       ELSE /\ i' = [i EXCEPT ![p] = @ + 1]
            /\ IF parent[i[p]] = p
               THEN /\ parent' = [parent EXCEPT ![i[p]] = initproc]
                    /\ CallWakeup(p, initproc, "exit_reparent")
               ELSE UNCHANGED <<parent, pc, wk>>
    /\ UNCHANGED <<state, chan, killed, locks, cpus, cont, havekids, np>>

\* slip: exit() wakes init and not p->parent
reparent_WakesInit(c, p) ==
    /\ At(c, p, "exit_reparent")
    /\ IF i[p] > NPROC
       THEN /\ CallWakeup(p, initproc, "exit_zombie")
            /\ UNCHANGED <<parent, i>>
       ELSE /\ i' = [i EXCEPT ![p] = @ + 1]
            /\ IF parent[i[p]] = p
               THEN /\ parent' = [parent EXCEPT ![i[p]] = initproc]
                    /\ CallWakeup(p, initproc, "exit_reparent")
               ELSE UNCHANGED <<parent, pc, wk>>
    /\ UNCHANGED <<state, chan, killed, locks, cpus, cont, havekids, np>>

\* reparent(): pass a child to init; then wakeup(p->parent)
reparent(c, p) ==
    /\ At(c, p, "exit_reparent")
    /\ IF i[p] > NPROC
       THEN /\ CallWakeup(p, parent[p], "exit_zombie")
            /\ UNCHANGED <<parent, i>>
       ELSE /\ i' = [i EXCEPT ![p] = @ + 1]
            /\ IF parent[i[p]] = p
               THEN /\ parent' = [parent EXCEPT ![i[p]] = initproc]
                    /\ CallWakeup(p, initproc, "exit_reparent")
               ELSE UNCHANGED <<parent, pc, wk>>
    /\ UNCHANGED <<state, chan, killed, locks, cpus, cont, havekids, np>>

\* slip: wakeup() returns at once
wakeup_Nobody(c, p) ==
    /\ At(c, p, "wakeup")
    /\ Goto(p, wk[p].ret)
    /\ UNCHANGED <<table, locks, cpus, cont, locals>>

\* one turn of wakeup()'s loop
wakeup(c, p) ==
    LET j == wk[p].j IN
    /\ At(c, p, "wakeup")
    /\ IF j > NPROC
       THEN /\ Goto(p, wk[p].ret)
            /\ UNCHANGED <<state, wk>>
       ELSE /\ j # p => free(plock[j])
            /\ state' = IF j # p /\ state[j] = "SLEEPING" /\ chan[j] = wk[p].chan
                        THEN [state EXCEPT ![j] = "RUNNABLE"] ELSE state
            /\ wk' = [wk EXCEPT ![p].j = j + 1]
            /\ UNCHANGED pc
    /\ UNCHANGED <<chan, killed, parent, locks, cpus, cont, i, havekids, np>>

\* acquire(&p->lock); p->state = ZOMBIE
exit_zombie(c, p) ==
    /\ At(c, p, "exit_zombie")
    /\ free(plock[p])
    /\ plock' = [plock EXCEPT ![p] = c]
    /\ state' = [state EXCEPT ![p] = "ZOMBIE"]
    /\ Goto(p, "exit_unlock")
    /\ Fresh(p)
    /\ UNCHANGED <<chan, killed, parent, wlock, cpus, cont>>

\* slip: wait_lock is still held at sched()
exit_unlock_KeepsLock(c, p) ==
    /\ At(c, p, "exit_unlock")
    /\ cont' = [cont EXCEPT ![p] = "dead"]
    /\ Goto(p, "sched")
    /\ UNCHANGED <<table, locks, cpus, locals>>

\* release(&wait_lock), then sched(), never to return
exit_unlock(c, p) ==
    /\ At(c, p, "exit_unlock")
    /\ wlock' = Null
    /\ cont' = [cont EXCEPT ![p] = "dead"]
    /\ Goto(p, "sched")
    /\ UNCHANGED <<table, plock, cpus, locals>>

-----------------------------------------------------------------------------
Switch(c, p) == sched(c, p) \/ resume(c, p)

Kernel(c, p) ==
    \/ usertrap_ret(c, p)
    \/ allocproc(c, p) \/ fork_fail(c, p) \/ fork_fill(c, p)
    \/ fork_parent(c, p) \/ fork_run(c, p)
    \/ wait_lock(c, p) \/ wait_scan(c, p) \/ wait_reap(c, p) \/ wait_check(c, p)
    \/ sleep_acquire(c, p) \/ sleep_release(c, p) \/ sleep_set(c, p)
    \/ exit_lock(c, p) \/ reparent(c, p) \/ wakeup(c, p)
    \/ exit_zombie(c, p) \/ exit_unlock(c, p)

User(c, p) ==
    \/ \E call \in {"fork", "wait_lock", "exit_lock"} : syscall(c, p, call)
    \/ \E t \in Procs \ {initproc} : kill(c, p, t)

Next ==
    \E c \in CPUs :
        \/ scheduler_look(c) \/ scheduler_back(c)
        \/ \E p \in Procs : Switch(c, p) \/ Kernel(c, p) \/ User(c, p) \/ timer(c, p)

Spec == Init /\ [][Next]_vars

\* Every CPU keeps executing: its scheduler loop and the kernel code of the thread
\* it runs.  A lock that is free again and again is acquired in the end.  The
\* timer interrupts every CPU for ever.  init calls wait() for ever (user/init.c)
\* and its copyout() does not always fail.
Fairness ==
    /\ \A c \in CPUs :
        /\ SF_vars(scheduler_look(c)) /\ WF_vars(scheduler_back(c))
        /\ SF_vars(\E p \in Procs : timer(c, p))
    /\ \A p \in Procs :
        /\ WF_vars(\E c \in CPUs : Switch(c, p))
        /\ SF_vars(\E c \in CPUs : Kernel(c, p))
    /\ SF_vars(\E c \in CPUs : syscall(c, initproc, "wait_lock"))
    /\ SF_vars(\E c \in CPUs : wait_reap(c, initproc) /\ state' # state)

FairSpec == Spec /\ Fairness

-----------------------------------------------------------------------------
(* Properties.                                                              *)

\* No two CPUs ever run on one kernel stack: p->lock is held from the moment a
\* thread gives itself up (yield, sleep, exit) until swtch() has saved it.
StackExclusive ==
    \A c, d \in CPUs : stack[c] # Null /\ stack[c] = stack[d] => c = d

\* RUNNING means running: such a process is on a CPU whose c->proc names it, and
\* whoever sees a process that is on a CPU with its lock free finds it RUNNING.
RunningOnCPU ==
    \A p \in Procs :
        /\ state[p] = "RUNNING" => \E c \in CPUs : stack[c] = p /\ cproc[c] = p
        /\ \A c \in CPUs : stack[c] = p /\ free(plock[p]) => state[p] = "RUNNING"

\* wait() never frees, and fork() never reuses, a slot whose kernel stack is
\* still in use: the parent takes pp->lock, so the child is out of swtch().
FreedOffCPU ==
    \A p \in Procs : state[p] \in {"UNUSED", "USED"} => \A c \in CPUs : stack[c] # p

\* sched() is entered with p->lock held, no other lock held, and p->state
\* changed: its panics "sched p->lock", "sched locks" and "sched running" cannot
\* happen.  (The fourth, "sched interruptible", is about interrupts: see Console.)
SchedNoPanic ==
    \A c \in CPUs, p \in Procs : At(c, p, "sched") =>
        /\ plock[p] = c /\ wlock # c
        /\ \A q \in Procs \ {p} : plock[q] # c
        /\ state[p] # "RUNNING"

\* No lost wakeup: whenever wait_lock is free, a process asleep in wait() has no
\* zombie child.
NoLostWakeup ==
    \A p, q \in Procs :
        free(wlock) /\ state[p] = "SLEEPING" /\ parent[q] = p => state[q] # "ZOMBIE"

\* No orphans: whenever wait_lock is free, the parent a slot names is a live
\* process, because exit() hands all children to init before it lets go of
\* wait_lock.
ParentAlive ==
    \A p, q \in Procs :
        free(wlock) /\ parent[q] = p => state[p] \notin {"UNUSED", "USED", "ZOMBIE"}

\* the slots whose p->lock CPU c may acquire in its next step
Needs(c) ==
    LET p == stack[c] IN
    IF p = Null THEN IF cproc[c] = Null THEN {scan[c]} ELSE {}
    ELSE {q \in Procs :
            \/ pc[p] = "user"                   \* kill() takes them one after the other
            \/ pc[p] \in {"ret", "sleep", "exit_zombie"} /\ q = p
            \/ pc[p] = "wait_check" /\ havekids[p] /\ q = p
            \/ pc[p] = "fork" /\ q = i[p]
            \/ pc[p] = "fork_run" /\ q = np[p]
            \/ pc[p] = "wait" /\ q = i[p] /\ parent[q] = p
            \/ pc[p] = "wakeup" /\ q = wk[p].j /\ q # p}

\* the CPUs that hold the lock for which c spins
SpinsFor(c) ==
    {d \in CPUs : \/ \E q \in Needs(c) : plock[q] = d
                  \/ /\ stack[c] # Null /\ pc[stack[c]] \in {"fork_parent", "wait_lock", "exit_lock"}
                     /\ wlock = d}

\* No CPUs spin for each other, whatever fork(), exit(), wait(), wakeup(), kill() and
\* the schedulers do at the same time: a chain of CPUs that spin is short and ends
\* at one that can go on, since wait_lock is taken before every p->lock and nobody
\* waits for a lock while holding a p->lock.
NoSpinCycle ==
    \A c, d, e \in CPUs : d \in SpinsFor(c) /\ e \in SpinsFor(d) => SpinsFor(e) = {}

\* A zombie whose parent is init, an orphan included, is reaped, unless zombies in
\* lower slots keep init busy: wait() looks at the slots in the order of the table
\* and returns with the first zombie.
ZombieReaped ==
    \A p \in Procs :
        <>[](state[p] = "ZOMBIE" /\ parent[p] = initproc) =>
            \E q \in 1..(p - 1) : []<>(state[q] = "ZOMBIE") /\ []<>(state[q] = "UNUSED")

\* A killed process exits.  The one that does not is asleep in wait() for good:
\* kill() came between wait()'s test of p->killed and sleep(), and no child exits.
KilledExits ==
    \A p \in Procs :
        <>[](killed[p] /\ state[p] \in {"RUNNING", "RUNNABLE", "SLEEPING"}) => <>[](state[p] = "SLEEPING")

-----------------------------------------------------------------------------
(* The locking discipline, as an inductive invariant.                       *)

\* points at which the thread of p holds p->lock, and wait_lock
SelfLocked == {"sched", "resume", "sleep_lk", "sleep_set", "exit_unlock"}
WaitLocked == {"wait", "wait_check", "sleep", "sleep_lk", "exit_reparent", "wakeup",
               "exit_zombie", "exit_unlock"}

\* CPU c is in a section under p->lock: in the thread of p, in the scheduler to
\* which p has just switched back, or in a fork() whose child is p
Owns(c, p) ==
    \/ stack[c] = p /\ pc[p] \in SelfLocked
    \/ stack[c] = Null /\ cproc[c] = p
    \/ stack[c] # Null /\ pc[stack[c]] = "fork_fill" /\ np[stack[c]] = p

\* the thread of p is, or was when it was preempted, in fork() with a child np[p]
\* that is not yet RUNNABLE
Forking(p) ==
    \/ pc[p] \in {"fork_fill", "fork_parent", "fork_run"}
    \/ pc[p] \in {"sched", "resume"} /\ cont[p] \in {"fork_parent", "fork_run"}

LockOwners == \A c \in CPUs, p \in Procs : plock[p] = c <=> Owns(c, p)

WaitLockOwner == wlock # Null => stack[wlock] # Null /\ pc[stack[wlock]] \in WaitLocked

SchedulerLocals ==
    \A c \in CPUs :
        /\ stack[c] # Null => cproc[c] = stack[c]
        /\ cproc[c] # Null => scan[c] = cproc[c]

OnCPU ==
    \A c \in CPUs, p \in Procs : stack[c] = p =>
        /\ pc[p] = "sched" => state[p] \in {"RUNNABLE", "SLEEPING", "ZOMBIE"}
        /\ pc[p] = "exit_unlock" => state[p] = "ZOMBIE"
        /\ pc[p] \notin {"sched", "exit_unlock"} => state[p] = "RUNNING"

OffCPU ==
    \A p \in Procs : pc[p] # "resume" \/ state[p] = "RUNNING" => \E c \in CPUs : stack[c] = p

Resumption ==
    \A p \in Procs :
        /\ cont[p] \in Preemptible \cup {"dead"}
        /\ state[p] \in {"UNUSED", "USED"} => cont[p] \in {"user", "dead"}
        /\ state[p] = "ZOMBIE" => pc[p] = "exit_unlock" \/ cont[p] = "dead"

Children ==
    \A p, q \in Procs : Forking(p) =>
        /\ state[np[p]] = "USED"
        /\ Forking(q) /\ np[p] = np[q] => p = q

\* Whoever holds p->lock or wait_lock is in one of the code's sections under that
\* lock and nobody else is; a thread that is off every CPU is about to resume
\* where sched() left it; the child of an unfinished fork() belongs to that
\* fork() alone.
LockDiscipline ==
    /\ LockOwners /\ WaitLockOwner /\ SchedulerLocals /\ StackExclusive
    /\ OnCPU /\ OffCPU /\ Resumption /\ Children
=============================================================================
