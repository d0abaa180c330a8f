------------------------------ MODULE ProcTypes -----------------------------
(***************************************************************************)
(* Type correctness of Proc, for every number of process slots and CPUs.   *)
(***************************************************************************)
EXTENDS Proc, TLAPS

\* The null pointer is neither a process nor a CPU; init has a slot.
LEMMA Constants ==
    /\ Null \notin Procs /\ Null \notin CPUs /\ initproc \in Procs
    /\ \A p \in Procs : p + 1 \in Slots
    /\ \A j \in Slots : (j > NPROC \/ j \in Procs) /\ (j <= NPROC => j \in Procs)
    /\ \A p \in Procs : (IF p = NPROC THEN 1 ELSE p + 1) \in Procs
    /\ 1 \in Slots /\ 1 \in Procs
BY SizeAssumption DEF Null, Procs, CPUs, Slots, initproc

\* What a call of wakeup() keeps in wk.
LEMMA WakeupRecords ==
    /\ NoWakeup \in Wakeups
    /\ \A ch \in Procs \cup {Null}, r \in {"exit_reparent", "exit_zombie"} :
           [chan |-> ch, j |-> 1, ret |-> r] \in Wakeups
    /\ \A w \in Wakeups : w.j \in Slots /\ w.ret \in {"exit_reparent", "exit_zombie"}
    /\ \A w \in Wakeups, k \in Slots : [w EXCEPT !.j = k] \in Wakeups
BY Zenon, Constants DEF NoWakeup, Wakeups

\* Leaving a system call resets the locals; calling wakeup() starts its loop.
LEMMA LocalTypes ==
    ASSUME TypeOK, NEW p \in Procs
    PROVE  /\ Fresh(p) => /\ i' \in [Procs -> Slots] /\ havekids' \in [Procs -> BOOLEAN]
                         /\ np' \in [Procs -> Procs] /\ wk' \in [Procs -> Wakeups]
           /\ \A ch \in Procs \cup {Null}, r \in {"exit_reparent", "exit_zombie"} :
                  CallWakeup(p, ch, r) => /\ wk' \in [Procs -> Wakeups]
                                          /\ pc' \in [Procs -> Points]
<1>1. ASSUME Fresh(p)
      PROVE  /\ i' \in [Procs -> Slots] /\ havekids' \in [Procs -> BOOLEAN]
             /\ np' \in [Procs -> Procs] /\ wk' \in [Procs -> Wakeups]
  BY Zenon, <1>1, Constants, WakeupRecords DEF TypeOK, Fresh
<1>2. ASSUME NEW ch \in Procs \cup {Null}, NEW r \in {"exit_reparent", "exit_zombie"},
             CallWakeup(p, ch, r)
      PROVE  wk' \in [Procs -> Wakeups] /\ pc' \in [Procs -> Points]
  <2>1. [chan |-> ch, j |-> 1, ret |-> r] \in Wakeups
    BY Zenon, WakeupRecords
  <2> QED  BY Zenon, <1>2, <2>1 DEF TypeOK, CallWakeup, Goto, Points
<1> QED  BY Zenon, <1>1, <1>2

\* procinit() and userinit() leave every variable in its range.
LEMMA TypeInit == Init => TypeOK
BY Constants, WakeupRecords DEF Init, TypeOK, Points, Preemptible, States

\* A step of the scheduler or of a context switch keeps the types.
LEMMA TypeSwitch ==
    ASSUME TypeOK, NEW c \in CPUs, NEW p \in Procs,
           scheduler_look(c) \/ scheduler_back(c) \/ Switch(c, p) \/ timer(c, p)
    PROVE  TypeOK'
<1>1. CASE scheduler_look(c)
  <2>1. scan[c] \in Procs
    BY Zenon DEF TypeOK
  <2>2. CASE state[scan[c]] = "RUNNABLE"
    <3>1. /\ plock' = [plock EXCEPT ![scan[c]] = c]
          /\ state' = [state EXCEPT ![scan[c]] = "RUNNING"]
          /\ cproc' = [cproc EXCEPT ![c] = scan[c]]
          /\ stack' = [stack EXCEPT ![c] = scan[c]]
          /\ UNCHANGED <<chan, killed, parent, wlock, scan, pc, cont, i, havekids, np, wk>>
      BY Zenon, <1>1, <2>2 DEF scheduler_look, locals
    <3> QED  BY Zenon, <2>1, <3>1 DEF TypeOK, States
  <2>3. CASE state[scan[c]] # "RUNNABLE"
    <3>1. /\ NextSlot(c)
          /\ UNCHANGED <<table, locks, cproc, stack, pc, cont, locals>>
      BY Zenon, <1>1, <2>3 DEF scheduler_look, table, locks
    <3> QED  BY Zenon, <2>1, <3>1, Constants DEF TypeOK, NextSlot, table, locks, locals
  <2> QED  BY Zenon, <2>2, <2>3
<1>2. CASE scheduler_back(c)
  BY Zenon, <1>2, Constants DEF TypeOK, scheduler_back, NextSlot, locals, table
<1>3. CASE sched(c, p)
  BY Zenon, <1>3, Constants DEF TypeOK, sched, Goto, Points, locals, table, locks
<1>4. CASE resume(c, p)
  BY Zenon, <1>4, Constants DEF TypeOK, resume, Goto, Points, Preemptible, locals, cpus
<1>5. CASE timer(c, p)
  <2>1. /\ pc[p] \in Points
        /\ UNCHANGED <<chan, killed, parent, wlock, cpus, locals>>
        /\ \/ Goto(p, "exit_lock") /\ UNCHANGED <<plock, state, cont>>
           \/ yield(c, p)
    BY Zenon, <1>5 DEF timer, Points
  <2>2. CASE Goto(p, "exit_lock") /\ UNCHANGED <<plock, state, cont>>
    BY Zenon, <2>1, <2>2 DEF TypeOK, Goto, Points, Preemptible, cpus, locals
  <2>3. CASE yield(c, p)
    BY Zenon, <2>1, <2>3 DEF TypeOK, yield, Goto, Points, States, cpus, locals
  <2> QED  BY Zenon, <2>1, <2>2, <2>3
<1> QED  BY Zenon, <1>1, <1>2, <1>3, <1>4, <1>5 DEF Switch

\* A step of a system call keeps the types.
LEMMA TypeUser ==
    ASSUME TypeOK, NEW c \in CPUs, NEW p \in Procs, User(c, p)
    PROVE  TypeOK'
<1>1. ASSUME NEW call \in {"fork", "wait_lock", "exit_lock"}, syscall(c, p, call)
      PROVE  TypeOK'
  BY Zenon, <1>1, Constants DEF TypeOK, syscall, Goto, Points, Preemptible, table, locks, cpus
<1>2. ASSUME NEW t \in Procs, kill(c, p, t)
      PROVE  TypeOK'
  BY Zenon, <1>2, LocalTypes DEF TypeOK, kill, Return, Goto, Points, Preemptible,
     States, locks, cpus
<1> QED  BY Zenon, <1>1, <1>2 DEF User

\* A step of fork() keeps the types.
LEMMA TypeFork ==
    ASSUME TypeOK, NEW c \in CPUs, NEW p \in Procs,
           \/ allocproc(c, p) \/ fork_fail(c, p) \/ fork_fill(c, p)
           \/ fork_parent(c, p) \/ fork_run(c, p)
    PROVE  TypeOK'
<1>1. CASE allocproc(c, p)
  <2>1. CASE i[p] > NPROC
    <3>1. /\ Goto(p, "ret") /\ Fresh(p)
          /\ UNCHANGED <<state, chan, killed, parent, plock, wlock, cproc, stack, scan, cont>>
      BY Zenon, <1>1, <2>1 DEF allocproc, Return, cpus
    <3> QED  BY Zenon, <3>1, LocalTypes DEF TypeOK, Goto, Points, Preemptible
  <2>2. CASE ~(i[p] > NPROC) /\ state[i[p]] = "UNUSED"
    <3>1. i[p] \in Procs
      BY Zenon, <2>2, Constants DEF TypeOK
    <3>2. /\ plock' = [plock EXCEPT ![i[p]] = c]
          /\ state' = [state EXCEPT ![i[p]] = "USED"]
          /\ np' = [np EXCEPT ![p] = i[p]]
          /\ pc' = [pc EXCEPT ![p] = "fork_fill"]
          /\ i' = [i EXCEPT ![p] = 1]
          /\ UNCHANGED <<chan, killed, parent, wlock, cproc, stack, scan, cont, havekids, wk>>
      BY Zenon, <1>1, <2>2 DEF allocproc, Goto, cpus
    <3> QED  BY Zenon, <3>1, <3>2, Constants DEF TypeOK, Points, States
  <2>3. CASE ~(i[p] > NPROC) /\ state[i[p]] # "UNUSED"
    <3>1. i[p] \in Procs
      BY Zenon, <2>3, Constants DEF TypeOK
    <3>2. /\ i' = [i EXCEPT ![p] = @ + 1]
          /\ UNCHANGED <<table, locks, cpus, pc, cont, havekids, np, wk>>
      BY Zenon, <1>1, <2>3 DEF allocproc, table, locks, cpus
    <3> QED  BY Zenon, <3>1, <3>2, Constants DEF TypeOK, table, locks, cpus
  <2> QED  BY Zenon, <2>1, <2>2, <2>3
<1>2. CASE fork_fail(c, p)
  BY Zenon, <1>2, LocalTypes DEF TypeOK, fork_fail, freeproc, Return, Goto, Points,
     Preemptible, States, cpus
<1>3. CASE fork_fill(c, p)
  BY Zenon, <1>3, Constants DEF TypeOK, fork_fill, Points, Preemptible, table, cpus, locals
<1>4. CASE fork_parent(c, p)
  BY Zenon, <1>4, Constants DEF TypeOK, fork_parent, Goto, Points, Preemptible, locks, cpus, locals
<1>5. CASE fork_run(c, p)
  BY Zenon, <1>5, LocalTypes DEF TypeOK, fork_run, Return, Goto, Points, Preemptible,
     States, locks, cpus
<1> QED  BY Zenon, <1>1, <1>2, <1>3, <1>4, <1>5

\* A step of wait() or sleep() keeps the types.
LEMMA TypeWait ==
    ASSUME TypeOK, NEW c \in CPUs, NEW p \in Procs,
           \/ wait_lock(c, p) \/ wait_scan(c, p) \/ wait_reap(c, p) \/ wait_check(c, p)
           \/ sleep_acquire(c, p) \/ sleep_release(c, p) \/ sleep_set(c, p)
    PROVE  TypeOK'
<1>1. CASE wait_lock(c, p)
  BY Zenon, <1>1, Constants DEF TypeOK, wait_lock, Goto, Points, table, cpus
<1>2. CASE wait_scan(c, p)
  <2>1. CASE i[p] > NPROC
    BY Zenon, <1>2, <2>1 DEF TypeOK, wait_scan, Goto, Points, table, locks, cpus
  <2>2. CASE ~(i[p] > NPROC)
    <3>1. i[p] \in Procs
      BY Zenon, <2>2, Constants DEF TypeOK
    <3>2. /\ i' = [i EXCEPT ![p] = @ + 1]
          /\ havekids' = [havekids EXCEPT ![p] = @ \/ parent[i[p]] = p]
          /\ UNCHANGED <<table, locks, cpus, pc, cont, np, wk>>
      BY Zenon, <1>2, <2>2 DEF wait_scan, table, locks, cpus
    <3> QED  BY Zenon, <3>1, <3>2, Constants DEF TypeOK, table, locks, cpus
  <2> QED  BY Zenon, <2>1, <2>2
<1>3. CASE wait_reap(c, p)
  <2>1. i[p] \in Procs
    BY Zenon, <1>3, Constants DEF TypeOK, wait_reap
  <2>2. /\ state' \in [Procs -> States] /\ chan' \in [Procs -> Procs \cup {Null}]
        /\ killed' \in [Procs -> BOOLEAN] /\ parent' \in [Procs -> Procs \cup {Null}]
    BY <1>3, <2>1 DEF TypeOK, wait_reap, freeproc, table, States
  <2>3. wlock' = Null /\ Goto(p, "ret") /\ Fresh(p) /\ UNCHANGED <<plock, cpus, cont>>
    BY Zenon, <1>3 DEF wait_reap, Return
  <2> QED  BY Zenon, <2>2, <2>3, LocalTypes DEF TypeOK, Goto, Points, Preemptible, cpus
<1>4. CASE wait_check(c, p)
  <2>1. /\ wlock' \in CPUs \cup {Null} /\ (Goto(p, "ret") \/ Goto(p, "sleep"))
        /\ Fresh(p) /\ UNCHANGED <<table, plock, cpus, cont>>
    BY Zenon, <1>4 DEF TypeOK, wait_check
  <2>2. pc' \in [Procs -> Points]
    BY Zenon, <2>1 DEF TypeOK, Goto, Points, Preemptible
  <2> QED  BY Zenon, <2>1, <2>2, LocalTypes DEF TypeOK, table, cpus
<1>5. CASE sleep_acquire(c, p)
  BY Zenon, <1>5 DEF TypeOK, sleep_acquire, Goto, Points, table, cpus, locals
<1>6. CASE sleep_release(c, p)
  BY Zenon, <1>6 DEF TypeOK, sleep_release, Goto, Points, table, cpus, locals
<1>7. CASE sleep_set(c, p)
  BY Zenon, <1>7 DEF TypeOK, sleep_set, Goto, Points, Preemptible, States, locks, cpus, locals
<1> QED  BY Zenon, <1>1, <1>2, <1>3, <1>4, <1>5, <1>6, <1>7

\* A step of exit() keeps the types.
LEMMA TypeExit ==
    ASSUME TypeOK, NEW c \in CPUs, NEW p \in Procs,
           \/ usertrap_ret(c, p) \/ exit_lock(c, p) \/ reparent(c, p) \/ wakeup(c, p)
           \/ exit_zombie(c, p) \/ exit_unlock(c, p)
    PROVE  TypeOK'
<1>1. CASE usertrap_ret(c, p)
  BY Zenon, <1>1 DEF TypeOK, usertrap_ret, Goto, Points, Preemptible, table, locks, cpus, locals
<1>2. CASE exit_lock(c, p)
  BY Zenon, <1>2, Constants DEF TypeOK, exit_lock, Goto, Points, table, cpus
<1>3. CASE reparent(c, p)
  <2>1. CASE i[p] > NPROC
    <3>1. /\ CallWakeup(p, parent[p], "exit_zombie")
          /\ UNCHANGED <<table, locks, cpus, cont, i, havekids, np>>
      BY Zenon, <1>3, <2>1 DEF reparent, table
    <3>2. wk' \in [Procs -> Wakeups] /\ pc' \in [Procs -> Points]
      BY Zenon, <3>1, LocalTypes DEF TypeOK
    <3> QED  BY Zenon, <3>1, <3>2 DEF TypeOK, table, locks, cpus
  <2>2. CASE ~(i[p] > NPROC)
    <3>1. i[p] \in Procs
      BY Zenon, <2>2, Constants DEF TypeOK
    <3>2. /\ i' = [i EXCEPT ![p] = @ + 1]
          /\ \/ /\ parent' = [parent EXCEPT ![i[p]] = initproc]
                /\ CallWakeup(p, initproc, "exit_reparent")
             \/ UNCHANGED <<parent, pc, wk>>
          /\ UNCHANGED <<state, chan, killed, locks, cpus, cont, havekids, np>>
      BY Zenon, <1>3, <2>2 DEF reparent
    <3>3. i' \in [Procs -> Slots]
      BY Zenon, <3>1, <3>2, Constants DEF TypeOK
    <3>4. CASE UNCHANGED <<parent, pc, wk>>
      BY Zenon, <3>2, <3>3, <3>4 DEF TypeOK, locks, cpus
    <3>5. CASE /\ parent' = [parent EXCEPT ![i[p]] = initproc]
               /\ CallWakeup(p, initproc, "exit_reparent")
      <4>1. wk' \in [Procs -> Wakeups] /\ pc' \in [Procs -> Points]
        BY Zenon, <3>5, Constants, LocalTypes
      <4>2. parent' \in [Procs -> Procs \cup {Null}]
        BY Zenon, <3>1, <3>5, Constants DEF TypeOK
      <4> QED  BY Zenon, <3>2, <3>3, <4>1, <4>2 DEF TypeOK, locks, cpus
    <3> QED  BY Zenon, <3>2, <3>4, <3>5
  <2> QED  BY Zenon, <2>1, <2>2
<1>4. CASE wakeup(c, p)
  <2>1. CASE wk[p].j > NPROC
    <3>1. /\ Goto(p, wk[p].ret)
          /\ UNCHANGED <<table, locks, cpus, cont, locals>>
      BY Zenon, <1>4, <2>1 DEF wakeup, table, locals
    <3>2. wk[p].ret \in Points
      BY Zenon, WakeupRecords DEF TypeOK, Points
    <3> QED  BY Zenon, <3>1, <3>2 DEF TypeOK, Goto, table, locks, cpus, locals
  <2>2. CASE ~(wk[p].j > NPROC)
    <3>1. wk[p].j \in Procs
      BY Zenon, <2>2, Constants, WakeupRecords DEF TypeOK
    <3>2. /\ state' \in [Procs -> States]
          /\ wk' = [wk EXCEPT ![p].j = wk[p].j + 1]
          /\ UNCHANGED <<chan, killed, parent, locks, cpus, pc, cont, i, havekids, np>>
      <4>1. state' = state \/ state' = [state EXCEPT ![wk[p].j] = "RUNNABLE"]
        BY Zenon, <1>4, <2>2 DEF wakeup
      <4>2. state' \in [Procs -> States]
        BY Zenon, <3>1, <4>1 DEF TypeOK, States
      <4> QED  BY Zenon, <1>4, <2>2, <4>2 DEF wakeup
    <3>3. wk[p].j + 1 \in Slots
      BY Zenon, <3>1, Constants
    <3>4. wk' \in [Procs -> Wakeups]
      BY Zenon, <3>2, <3>3, WakeupRecords DEF TypeOK
    <3> QED  BY Zenon, <3>2, <3>4 DEF TypeOK, locks, cpus
  <2> QED  BY Zenon, <2>1, <2>2
<1>5. CASE exit_zombie(c, p)
  BY Zenon, <1>5, LocalTypes DEF TypeOK, exit_zombie, Goto, Points, States, cpus
<1>6. CASE exit_unlock(c, p)
  BY Zenon, <1>6 DEF TypeOK, exit_unlock, Goto, Points, table, cpus, locals
<1> QED  BY Zenon, <1>1, <1>2, <1>3, <1>4, <1>5, <1>6

\* Every step keeps the types.
LEMMA TypeNext == TypeOK /\ [Next]_vars => TypeOK'
<1> SUFFICES ASSUME TypeOK, [Next]_vars PROVE TypeOK'
  OBVIOUS
<1>1. CASE Next
  <2>1. PICK c \in CPUs :
            \/ scheduler_look(c) \/ scheduler_back(c)
            \/ \E p \in Procs : Switch(c, p) \/ Kernel(c, p) \/ User(c, p) \/ timer(c, p)
    BY Zenon, <1>1 DEF Next
  <2>2. CASE scheduler_look(c) \/ scheduler_back(c)
    BY Zenon, <2>2, Constants, TypeSwitch
  <2>3. ASSUME NEW p \in Procs, Switch(c, p) \/ Kernel(c, p) \/ User(c, p) \/ timer(c, p)
        PROVE  TypeOK'
    BY Zenon, <2>3, TypeSwitch, TypeUser, TypeFork, TypeWait, TypeExit DEF Kernel
  <2> QED  BY Zenon, <2>1, <2>2, <2>3
<1>2. CASE UNCHANGED vars
  BY Zenon, <1>2 DEF TypeOK, vars, table, locks, cpus, locals
<1> QED  BY Zenon, <1>1, <1>2

\* Type correctness: the loop variables of scheduler(), wait(), reparent() and
\* wakeup() stay inside the process table and pointers name slots of it.
THEOREM TypeCorrect == Spec => []TypeOK
BY TypeInit, TypeNext, PTL DEF Spec
=============================================================================
