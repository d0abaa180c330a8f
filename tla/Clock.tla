------------------------------- MODULE Clock -------------------------------
(***************************************************************************)
(* The clock: clockintr() and update_time(), sys_sleep(), and the times of *)
(* a process from allocproc() to waitx() (kernel/trap.c, kernel/sysproc.c, *)
(* kernel/proc.c).  A section under p->lock is one step; clockintr() holds *)
(* tickslock while it visits the slots one by one, and the processes run   *)
(* on other CPUs meanwhile.  allocproc() and exit() read ticks without it. *)
(***************************************************************************)
EXTENDS Integers, FiniteSets

CONSTANTS
    NPROC, NCPU,
    WRAP,           \* 2^32: ticks and the argument of sleep() are compared as uint
    MaxTicks,       \* bound on ticks
    SleepArgs       \* arguments of sleep(); they may be negative

Procs == 1..NPROC

VARIABLES
    ticks,
    tickslock,      \* 0 if free, else the process, Handler for clockintr()
    clock,          \* what clockintr() does next, and to which slot
    proc            \* per slot: state, killed, ctime, rtime, etime, and sys_sleep()'s
                    \* n, ticks0 and place pc

vars == <<ticks, tickslock, clock, proc>>

Handler == NPROC + 1
Off == [at |-> "off", p |-> 1]
Unused == [state |-> "UNUSED", pc |-> "user", killed |-> FALSE, ctime |-> 0, rtime |-> 0, etime |-> 0,
           n |-> 0, ticks0 |-> 0]

Init ==
    /\ ticks = 0 /\ tickslock = 0 /\ clock = Off
    /\ proc = [p \in Procs |-> Unused]

Running == {p \in Procs : proc[p].state = "RUNNING"}
Becomes(p, s) == proc' = [proc EXCEPT ![p].state = s]

\* slip: p->rtime is not reset
allocproc_KeepsTime(p) ==
    /\ proc[p].state = "UNUSED"
    /\ proc' = [proc EXCEPT ![p].state = "USED", ![p].etime = 0, ![p].ctime = ticks]
    /\ UNCHANGED <<ticks, tickslock, clock>>

allocproc(p) ==
    /\ proc[p].state = "UNUSED"
    /\ proc' = [proc EXCEPT ![p].state = "USED", ![p].rtime = 0, ![p].etime = 0, ![p].ctime = ticks]
    /\ UNCHANGED <<ticks, tickslock, clock>>

\* the end of fork()
fork(p) ==
    /\ proc[p].state = "USED"
    /\ Becomes(p, "RUNNABLE")
    /\ UNCHANGED <<ticks, tickslock, clock>>

scheduler(p) ==
    /\ proc[p].state = "RUNNABLE" /\ Cardinality(Running) < NCPU
    /\ Becomes(p, "RUNNING")
    /\ UNCHANGED <<ticks, tickslock, clock>>

\* not while it holds tickslock: its CPU takes no interrupts
yield(p) ==
    /\ p \in Running /\ tickslock # p
    /\ Becomes(p, "RUNNABLE")
    /\ UNCHANGED <<ticks, tickslock, clock>>

\* exit(): etime is read under p->lock, not under tickslock
exit(p) ==
    /\ p \in Running /\ proc[p].pc = "user"
    /\ proc' = [proc EXCEPT ![p].state = "ZOMBIE", ![p].etime = ticks]
    /\ UNCHANGED <<ticks, tickslock, clock>>

\* what waitx() returns as the waiting time, an unsigned difference
wtime(p) == (proc[p].etime - proc[p].ctime - proc[p].rtime) % WRAP

\* the parent's waitx() returns wtime and rtime and frees the slot, whose times stay
waitx(p) ==
    /\ proc[p].state = "ZOMBIE"
    /\ proc' = [proc EXCEPT ![p].state = "UNUSED", ![p].killed = FALSE]
    /\ UNCHANGED <<ticks, tickslock, clock>>

kill(p) ==
    /\ proc[p].state # "UNUSED" /\ ~proc[p].killed
    /\ proc' = [proc EXCEPT ![p].killed = TRUE,
                            ![p].state = IF @ = "SLEEPING" THEN "RUNNABLE" ELSE @]
    /\ UNCHANGED <<ticks, tickslock, clock>>

-----------------------------------------------------------------------------
(* sys_sleep()                                                              *)

\* acquire(&tickslock); ticks0 = ticks
sys_sleep(p, n) ==
    /\ p \in Running /\ proc[p].pc = "user" /\ tickslock = 0
    /\ tickslock' = p
    /\ proc' = [proc EXCEPT ![p].pc = "test", ![p].n = n, ![p].ticks0 = ticks]
    /\ UNCHANGED <<ticks, clock>>

\* slip: the lock is not held between the test and sleep()
sys_sleep_test_Unlocks(p) ==
    /\ p \in Running /\ proc[p].pc = "test" /\ tickslock = p
    /\ tickslock' = 0
    /\ proc' = [proc EXCEPT ![p].pc = IF (ticks - proc[p].ticks0) % WRAP < proc[p].n % WRAP /\ ~proc[p].killed
                                      THEN "sleep" ELSE "user"]
    /\ UNCHANGED <<ticks, clock>>

\* while(ticks - ticks0 < n), and the test of killed()
sys_sleep_test(p) ==
    LET waits == (ticks - proc[p].ticks0) % WRAP < proc[p].n % WRAP /\ ~proc[p].killed IN
    /\ p \in Running /\ proc[p].pc = "test" /\ tickslock = p
    /\ tickslock' = IF waits THEN p ELSE 0
    /\ proc' = [proc EXCEPT ![p] = IF waits THEN [@ EXCEPT !.pc = "sleep"]
                                   ELSE [@ EXCEPT !.pc = "user", !.n = 0, !.ticks0 = 0]]
    /\ UNCHANGED <<ticks, clock>>

\* sleep(&ticks, &tickslock): p->lock is held from before the release of tickslock
sleep(p) ==
    /\ p \in Running /\ proc[p].pc = "sleep"
    /\ tickslock' = IF tickslock = p THEN 0 ELSE tickslock
    /\ proc' = [proc EXCEPT ![p].pc = "woken", ![p].state = "SLEEPING"]
    /\ UNCHANGED <<ticks, clock>>

\* sleep() reacquires tickslock
woken(p) ==
    /\ p \in Running /\ proc[p].pc = "woken" /\ tickslock = 0
    /\ tickslock' = p
    /\ proc' = [proc EXCEPT ![p].pc = "test"]
    /\ UNCHANGED <<ticks, clock>>

-----------------------------------------------------------------------------
(* clockintr()                                                              *)

clockintr ==
    /\ clock = Off /\ tickslock = 0 /\ ticks < MaxTicks
    /\ tickslock' = Handler
    /\ ticks' = ticks + 1
    /\ clock' = [at |-> "update_time", p |-> 1]
    /\ UNCHANGED proc

\* the next slot, or the next loop
Onward(at, next) == clock' = IF clock.p < NPROC THEN [at |-> at, p |-> clock.p + 1] ELSE next

update_time ==
    /\ clock.at = "update_time"
    /\ proc' = IF clock.p \in Running THEN [proc EXCEPT ![clock.p].rtime = @ + 1] ELSE proc
    /\ Onward("update_time", [at |-> "wakeup", p |-> 1])
    /\ UNCHANGED <<ticks, tickslock>>

\* wakeup(&ticks), then release(&tickslock)
wakeup ==
    /\ clock.at = "wakeup"
    /\ proc' = IF proc[clock.p].state = "SLEEPING" THEN [proc EXCEPT ![clock.p].state = "RUNNABLE"] ELSE proc
    /\ Onward("wakeup", Off)
    /\ tickslock' = IF clock.p = NPROC THEN 0 ELSE tickslock
    /\ UNCHANGED ticks

Next ==
    \/ \E p \in Procs :
        \/ allocproc(p) \/ fork(p) \/ scheduler(p) \/ yield(p) \/ exit(p) \/ waitx(p) \/ kill(p)
        \/ (\E n \in SleepArgs : sys_sleep(p, n))
        \/ sys_sleep_test(p) \/ sleep(p) \/ woken(p)
    \/ clockintr \/ update_time \/ wakeup

Spec == Init /\ [][Next]_vars

-----------------------------------------------------------------------------
(* Properties                                                               *)

\* Nobody oversleeps: a process asleep in sys_sleep() still has ticks to wait, or
\* clockintr() has yet to come to its slot.  (A process killed between the test of
\* killed() and sleep() does sleep, until the next tick.)
NoOversleep ==
    \A p \in Procs : proc[p].state = "SLEEPING" =>
        \/ (ticks - proc[p].ticks0) % WRAP < proc[p].n % WRAP
        \/ clock.at = "update_time"
        \/ clock.at = "wakeup" /\ clock.p <= p

\* The waiting time that waitx() returns is a number of ticks since the start, and
\* no time is inherited with the slot, but for one case, which is real: ticks is
\* incremented before update_time() comes to a process created in between, so that
\* the process has run longer than it has lived, and wtime is -1 as an unsigned.
WaitTimeBound ==
    \A p \in Procs : proc[p].state = "ZOMBIE" => wtime(p) \in 0..MaxTicks \cup {WRAP - 1}
=============================================================================
