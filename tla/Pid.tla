-------------------------------- MODULE Pid --------------------------------
(***************************************************************************)
(* Process identifiers: allocpid() and the rest of allocproc(), freeproc() *)
(* and kill() (kernel/proc.c).  nextpid is read and written by plain loads *)
(* and stores; allocpid() does so under pid_lock, allocproc() once more    *)
(* without it.  A slot's lock is held from allocproc() to the end of the   *)
(* initialisation in fork(), so kill() waits for it.                       *)
(***************************************************************************)
EXTENDS Integers

CONSTANTS
    NPROC,      \* slots of the process table
    NCPU,       \* CPUs that run fork() and kill() at the same time
    MaxPid,     \* bound on nextpid
    KillArgs    \* numbers that are passed to kill()

ASSUME SizeAssumption == NPROC \in Nat \ {0} /\ NCPU \in Nat \ {0} /\ MaxPid \in Nat \ {0}
                         /\ KillArgs \subseteq 0..MaxPid

Procs == 1..NPROC
CPUs == 1..NCPU

VARIABLES
    nextpid,
    pid_lock,   \* the CPU that holds it, 0 if free
    pid,        \* p->pid, 0 if the slot is not used
    live,       \* p->state is not UNUSED
    killed,     \* p->killed
    locked,     \* p->lock is held by allocproc() and fork()
    pc,         \* where each CPU is
    p,          \* the slot allocproc() or kill()'s loop is at
    reg,        \* the value of nextpid the CPU has loaded; kill()'s argument
    named       \* history: the slots whose present process kill() was asked to kill

table == <<pid, live, killed, locked>>
vars == <<nextpid, pid_lock, table, pc, p, reg, named>>

Init ==
    /\ nextpid = 1
    /\ pid_lock = 0
    /\ pid = [q \in Procs |-> 0]
    /\ live = {} /\ killed = {} /\ locked = {} /\ named = {}
    /\ pc = [c \in CPUs |-> "idle"]
    /\ p = [c \in CPUs |-> 1]
    /\ reg = [c \in CPUs |-> 0]

Goto(c, l) == pc' = [pc EXCEPT ![c] = l]

fork(c) ==
    /\ pc[c] = "idle" /\ nextpid <= MaxPid
    /\ p' = [p EXCEPT ![c] = 1]
    /\ Goto(c, "scan")
    /\ UNCHANGED <<nextpid, pid_lock, table, reg, named>>

\* allocproc()'s loop: the first UNUSED slot, its lock kept
allocproc(c) ==
    /\ pc[c] = "scan"
    /\ IF p[c] > NPROC
       THEN Goto(c, "idle") /\ p' = [p EXCEPT ![c] = 1] /\ UNCHANGED <<live, locked>>
       ELSE /\ p[c] \notin locked
            /\ IF p[c] \in live
               THEN p' = [p EXCEPT ![c] = @ + 1] /\ UNCHANGED <<live, locked, pc>>
               ELSE /\ live' = live \cup {p[c]}
                    /\ locked' = locked \cup {p[c]}
                    /\ Goto(c, "allocpid")
                    /\ UNCHANGED p
    /\ UNCHANGED <<nextpid, pid_lock, pid, killed, reg, named>>

\* allocpid(): acquire(&pid_lock); pid = nextpid
allocpid(c) ==
    /\ pc[c] = "allocpid" /\ pid_lock = 0
    /\ pid_lock' = c
    /\ reg' = [reg EXCEPT ![c] = nextpid]
    /\ Goto(c, "store")
    /\ UNCHANGED <<nextpid, table, p, named>>

\* nextpid = nextpid + 1; release(&pid_lock); p->pid = allocpid()
allocpid_store(c) ==
    /\ pc[c] = "store"
    /\ nextpid' = reg[c] + 1
    /\ pid_lock' = 0
    /\ pid' = [pid EXCEPT ![p[c]] = reg[c]]
    /\ Goto(c, "again")
    /\ UNCHANGED <<live, killed, locked, p, reg, named>>

\* p->pid = nextpid++, the load
nextpid_load(c) ==
    /\ pc[c] = "again"
    /\ reg' = [reg EXCEPT ![c] = nextpid]
    /\ Goto(c, "store2")
    /\ UNCHANGED <<nextpid, pid_lock, table, p, named>>

\* p->pid = nextpid++, the stores
nextpid_store(c) ==
    /\ pc[c] = "store2"
    /\ nextpid' = reg[c] + 1
    /\ pid' = [pid EXCEPT ![p[c]] = reg[c]]
    /\ Goto(c, "fill")
    /\ UNCHANGED <<pid_lock, live, killed, locked, p, reg, named>>

\* slip: p->killed is not reset
freeproc_KeepsKilled(q) ==
    /\ pid' = [pid EXCEPT ![q] = 0]
    /\ live' = live \ {q}
    /\ named' = named \ {q}
    /\ UNCHANGED killed

\* freeproc(): the fields this module keeps
freeproc(q) ==
    /\ pid' = [pid EXCEPT ![q] = 0]
    /\ live' = live \ {q}
    /\ killed' = killed \ {q}
    /\ named' = named \ {q}

Idle(c) ==
    /\ Goto(c, "idle")
    /\ p' = [p EXCEPT ![c] = 1]
    /\ reg' = [reg EXCEPT ![c] = 0]

\* fork() ends: the child is ready and its lock released
fork_done(c) ==
    /\ pc[c] = "fill"
    /\ locked' = locked \ {p[c]}
    /\ Idle(c)
    /\ UNCHANGED <<nextpid, pid_lock, pid, live, killed, named>>

\* no memory for the child
fork_fail(c) ==
    /\ pc[c] = "fill"
    /\ freeproc(p[c])
    /\ locked' = locked \ {p[c]}
    /\ Idle(c)
    /\ UNCHANGED <<nextpid, pid_lock>>

\* the process exits and its parent's wait() frees the slot
reap(q) ==
    /\ q \in live \ locked
    /\ freeproc(q)
    /\ UNCHANGED <<nextpid, pid_lock, locked, pc, p, reg>>

\* sys_kill(): any number may be passed
sys_kill(c, n) ==
    /\ pc[c] = "idle"
    /\ p' = [p EXCEPT ![c] = 1]
    /\ reg' = [reg EXCEPT ![c] = n]
    /\ Goto(c, "kill")
    /\ UNCHANGED <<nextpid, pid_lock, table, named>>

\* one turn of kill()'s loop
kill(c) ==
    /\ pc[c] = "kill"
    /\ IF p[c] > NPROC
       THEN Idle(c) /\ UNCHANGED <<killed, named>>
       ELSE /\ p[c] \notin locked
            /\ IF pid[p[c]] = reg[c]
               THEN /\ killed' = killed \cup {p[c]}
                    /\ named' = IF p[c] \in live THEN named \cup {p[c]} ELSE named
                    /\ Idle(c)
               ELSE /\ p' = [p EXCEPT ![c] = @ + 1]
                    /\ UNCHANGED <<killed, pc, reg, named>>
    /\ UNCHANGED <<nextpid, pid_lock, pid, live, locked>>

Next ==
    \/ \E c \in CPUs :
        \/ fork(c) \/ allocproc(c) \/ allocpid(c) \/ allocpid_store(c)
        \/ nextpid_load(c) \/ nextpid_store(c) \/ fork_done(c) \/ fork_fail(c)
        \/ kill(c)
        \/ \E n \in KillArgs : sys_kill(c, n)
    \/ \E q \in Procs : reap(q)

Spec == Init /\ [][Next]_vars

-----------------------------------------------------------------------------
(* Properties.                                                              *)

\* Not true of the code, because of nextpid_load and nextpid_store: two processes
\* never have the same pid, so that kill() names one process.
UniquePids ==
    \A q \in live \ locked :
        pid[q] # 0 /\ \A r \in live \ locked : pid[q] = pid[r] => q = r

\* Only a process whose pid was passed to kill() is killed: a new process in a
\* reused slot does not inherit the p->killed of an earlier one.
KilledWasNamed == killed \cap live \subseteq named
=============================================================================
