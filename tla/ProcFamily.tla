----------------------------- MODULE ProcFamily -----------------------------
(***************************************************************************)
(* Parents and children in Proc: no orphans (ParentAlive), and no wakeup   *)
(* of a parent in wait() is lost (NoLostWakeup), for every number of slots *)
(* and CPUs.                                                               *)
(***************************************************************************)
EXTENDS ProcProofs

\* asleep in wait(), or on the way there: wait_lock is released, p->lock is not
Dozing(p) == state[p] = "SLEEPING" \/ pc[p] = "sleep_set"

\* p is in exit() and looks for its children, or is done with them
Reparenting(p) == pc[p] = "exit_reparent" \/ (pc[p] = "wakeup" /\ wk[p].ret = "exit_reparent")
Leaving(p) == pc[p] = "exit_zombie" \/ (pc[p] = "wakeup" /\ wk[p].ret = "exit_zombie")

\* wait_lock is held at the points that say so, by one thread
WaitOne ==
    \A p, q \in Procs : pc[p] \in WaitLocked =>
        wlock # Null /\ (pc[q] \in WaitLocked => p = q)

\* init does not exit, and nobody kills it
InitLives ==
    /\ ~killed[initproc] /\ state[initproc] \in {"RUNNABLE", "RUNNING", "SLEEPING"}
    /\ pc[initproc] \notin {"exit_lock", "exit_reparent", "wakeup", "exit_zombie", "exit_unlock", "dead"}
    /\ cont[initproc] \notin {"exit_lock", "dead"}

Orphans ==
    /\ \A p, q \in Procs : parent[q] = p => state[p] \notin {"UNUSED", "USED", "ZOMBIE"}
    /\ \A p \in Procs : state[p] = "SLEEPING" => chan[p] = p

\* What a thread under wait_lock has found out about its family: the children reparent()
\* and wait() have passed, and the parent that wakeup() has passed.
Knows(p) ==
    /\ Reparenting(p) => \A q \in Procs : q < i[p] => parent[q] # p
    /\ Leaving(p) => \A q \in Procs : parent[q] # p
    /\ pc[p] = "wait" =>
        \A q \in Procs : q < i[p] /\ parent[q] = p => state[q] # "ZOMBIE"
    /\ pc[p] \in {"wait_check", "sleep", "sleep_lk"} =>
        \A q \in Procs : parent[q] = p => state[q] # "ZOMBIE"
    /\ pc[p] = "wakeup" =>
        wk[p].chan = IF wk[p].ret = "exit_reparent" THEN initproc ELSE parent[p]
    /\ Leaving(p) /\ parent[p] # Null /\ (pc[p] = "wakeup" => parent[p] < wk[p].j) =>
        ~Dozing(parent[p])

\* p has just given a child to init and has yet to wake init
Bequeathing(p) == pc[p] = "wakeup" /\ wk[p].ret = "exit_reparent" /\ wk[p].j <= initproc

\* A zombie's parent is awake, but for init while it inherits.
Vigil ==
    \A p, q \in Procs : Dozing(p) /\ parent[q] = p /\ state[q] = "ZOMBIE" =>
        p = initproc /\ \E h \in Procs : Bequeathing(h)

Family == WaitOne /\ InitLives /\ Orphans /\ (\A p \in Procs : Knows(p)) /\ Vigil

-----------------------------------------------------------------------------

\* A thread at a point with p->lock or wait_lock is on a CPU; one under wait_lock and
\* before its end is RUNNING, and a process whose lock is free is not about to sleep.
LEMMA Present ==
    ASSUME TypeOK, LockDiscipline, NEW p \in Procs
    PROVE  /\ pc[p] \in WaitLocked \ {"exit_unlock"} => state[p] = "RUNNING"
           /\ plock[p] = Null => pc[p] \notin {"sleep_lk", "sleep_set"}
<1>1. ASSUME pc[p] # "resume" PROVE \E c \in CPUs : stack[c] = p
  BY Zenon, <1>1 DEF LockDiscipline, OffCPU
<1>2. ASSUME pc[p] \in WaitLocked \ {"exit_unlock"} PROVE state[p] = "RUNNING"
  BY Zenon, <1>1, <1>2 DEF LockDiscipline, OnCPU, WaitLocked
<1>3. ASSUME pc[p] \in {"sleep_lk", "sleep_set"} PROVE plock[p] # Null
  <2>1. PICK c \in CPUs : stack[c] = p
    BY Zenon, <1>1, <1>3
  <2>2. plock[p] = c
    BY <1>3, <2>1 DEF LockDiscipline, LockOwners, Owns, SelfLocked
  <2> QED  BY Zenon, <2>1, <2>2, Pointers
<1> QED  BY Zenon, <1>2, <1>3

\* What a step of the thread of p may do to the family.
Behaves(p) ==
    /\ \A q \in Procs : q # p => pc'[q] = pc[q] /\ i'[q] = i[q] /\ wk'[q] = wk[q]
    /\ \/ wlock' = wlock /\ (pc'[p] \in WaitLocked => pc[p] \in WaitLocked)
       \/ wlock = Null /\ wlock' # Null
       \/ wlock' = Null /\ pc[p] \in WaitLocked /\ pc'[p] \notin WaitLocked
    /\ \A q \in Procs :
        /\ state'[q] = "ZOMBIE" => state[q] = "ZOMBIE" \/ (q = p /\ pc[p] = "exit_zombie")
        /\ state'[q] \in {"UNUSED", "USED"} => state[q] \in {"UNUSED", "USED", "ZOMBIE"}
        /\ Dozing(q)' => Dozing(q) \/ (q = p /\ pc[p] = "sleep_lk")
        /\ state'[q] = "SLEEPING" => chan'[q] = q
        /\ \/ parent'[q] = parent[q]
           \/ parent'[q] = Null /\ state[q] \in {"USED", "ZOMBIE"}
           \/ /\ parent'[q] = p /\ state[q] = "USED" /\ wlock = Null
              /\ state'[p] = "RUNNING" /\ state'[q] = "USED"
           \/ /\ parent'[q] = initproc /\ parent[q] = p /\ pc[p] = "exit_reparent"
              /\ Bequeathing(p)'
    /\ Bequeathing(p) => Bequeathing(p)' \/ ~Dozing(initproc)'

\* Such a step keeps Family if it keeps init and what the thread itself knows.
LEMMA FamilyStep ==
    ASSUME TypeOK, LockDiscipline, Family, NEW p \in Procs, Behaves(p), InitLives',
           (UNCHANGED <<pc, i, wk>> /\ pc[p] = "resume") \/ Knows(p)'
    PROVE  Family'
<1> USE DEF Family, Behaves
<1>0. Null \notin Procs /\ initproc \in Procs
  BY Zenon, Pointers
<1>1. WaitOne'
  BY Zenon DEF WaitOne
<1>2. Orphans'
  <2>1. ASSUME NEW q \in Procs, NEW r \in Procs, parent'[r] = q
        PROVE  state'[q] \notin {"UNUSED", "USED", "ZOMBIE"}
    <3>1. CASE parent[r] = q
      <4>1. state[q] \notin {"UNUSED", "USED", "ZOMBIE"}
        BY Zenon, <3>1 DEF Orphans
      <4>2. ~(q = p /\ pc[p] = "exit_zombie")
        BY <3>1 DEF Knows, Leaving
      <4> QED  BY Zenon, <4>1, <4>2
    <3>2. CASE q = p /\ state'[p] = "RUNNING"
      BY Zenon, <3>2
    <3>3. CASE q = initproc
      BY Zenon, <3>3 DEF InitLives
    <3> QED  BY Zenon, <2>1, <3>1, <3>2, <3>3, <1>0
  <2> QED  BY Zenon, <2>1 DEF Orphans
<1>3. ASSUME NEW q \in Procs, q # p \/ (UNCHANGED <<pc, i, wk>> /\ pc[p] = "resume")
      PROVE  Knows(q)'
  <2>0. pc'[q] = pc[q] /\ i'[q] = i[q] /\ wk'[q] = wk[q]
    BY Zenon, <1>3
  <2>1. CASE pc[q] \notin WaitLocked
    BY Zenon, <2>0, <2>1 DEF Knows, Reparenting, Leaving, WaitLocked
  <2>2. CASE pc[q] \in WaitLocked
    <3>1. wlock # Null /\ pc[p] \notin WaitLocked
      BY Zenon, <1>3, <2>2 DEF WaitOne, WaitLocked
    <3>2. pc[p] \notin {"exit_zombie", "sleep_lk", "exit_reparent"}
      BY Zenon, <3>1 DEF WaitLocked
    <3>3. \A r \in Procs : /\ parent'[r] = parent[r] \/ (parent'[r] = Null /\ state[r] \in {"USED", "ZOMBIE"})
                           /\ state'[r] = "ZOMBIE" => state[r] = "ZOMBIE"
                           /\ Dozing(r)' => Dozing(r)
      BY Zenon, <3>1, <3>2
    <3>4. pc[q] # "exit_unlock" => parent'[q] = parent[q]
      BY Zenon, <2>2, <3>3, Present
    <3>5. parent[q] \in Procs \cup {Null}
      BY Zenon DEF TypeOK
    <3>6. Knows(q)
      OBVIOUS
    <3> HIDE DEF Family, Behaves, Dozing
    <3>7. Reparenting(q)' = Reparenting(q) /\ Leaving(q)' = Leaving(q)
      BY Zenon, <2>0 DEF Reparenting, Leaving
    <3>8. /\ Reparenting(q) => \A r \in Procs : r < i[q] => parent'[r] # q
          /\ Leaving(q) => \A r \in Procs : parent'[r] # q
      BY <3>3, <3>6, <1>0 DEF Knows
    <3>9. /\ pc[q] = "wait" => \A r \in Procs : r < i[q] /\ parent'[r] = q => state'[r] # "ZOMBIE"
          /\ pc[q] \in {"wait_check", "sleep", "sleep_lk"} =>
                \A r \in Procs : parent'[r] = q => state'[r] # "ZOMBIE"
      BY <3>3, <3>6, <1>0 DEF Knows
    <3>10. /\ pc[q] = "wakeup" =>
                wk[q].chan = IF wk[q].ret = "exit_reparent" THEN initproc ELSE parent'[q]
           /\ Leaving(q) /\ parent'[q] # Null /\ (pc[q] = "wakeup" => parent'[q] < wk[q].j) =>
                ~Dozing(parent[q])'
      BY Zenon, <2>2, <3>3, <3>4, <3>5, <3>6 DEF Knows, Leaving, Dozing
    <3> QED  BY Zenon, <2>0, <3>7, <3>8, <3>9, <3>10 DEF Knows
  <2> QED  BY Zenon, <2>1, <2>2
<1>4. \A q \in Procs : Knows(q)'
  BY Zenon, <1>3
<1>5. Vigil'
  <2> SUFFICES ASSUME NEW q \in Procs, NEW r \in Procs,
                      Dozing(q)', parent'[r] = q, state'[r] = "ZOMBIE"
               PROVE  q = initproc /\ \E h \in Procs : Bequeathing(h)'
    BY Zenon DEF Vigil
  <2>1. CASE parent'[r] # parent[r]
    BY Zenon, <2>1, <1>0
  <2>2. CASE parent'[r] = parent[r] /\ ~Dozing(q)
    <3>1. q = p /\ pc[p] = "sleep_lk"
      BY Zenon, <2>2
    <3>2. state[r] # "ZOMBIE"
      BY <2>2, <3>1 DEF Knows
    <3> QED  BY Zenon, <3>1, <3>2
  <2>3. CASE parent'[r] = parent[r] /\ Dozing(q) /\ state[r] # "ZOMBIE"
    BY <2>3, <1>0 DEF Knows, Leaving
  <2>4. CASE parent'[r] = parent[r] /\ Dozing(q) /\ state[r] = "ZOMBIE"
    <3>1. PICK h \in Procs : q = initproc /\ Bequeathing(h)
      BY Zenon, <2>4 DEF Vigil
    <3>2. CASE h = p
      BY Zenon, <3>1, <3>2
    <3>3. CASE h # p
      BY Zenon, <3>1, <3>3 DEF Bequeathing
    <3> QED  BY Zenon, <3>2, <3>3
  <2> QED  BY Zenon, <2>1, <2>2, <2>3, <2>4
<1> QED  BY Zenon, <1>1, <1>2, <1>4, <1>5

-----------------------------------------------------------------------------

\* Every step keeps init alive: it is not killed, so it does not exit, and only the
\* slots of zombies and of unfinished children are freed.
LEMMA InitKept ==
    ASSUME TypeOK, LockDiscipline, InitLives, NEW c \in CPUs, NEW p \in Procs,
           \/ scheduler_look(c) \/ scheduler_back(c)
           \/ Switch(c, p) \/ Kernel(c, p) \/ User(c, p) \/ timer(c, p)
    PROVE  InitLives'
<1> USE Pointers DEF InitLives
<1>1. CASE scheduler_look(c) \/ scheduler_back(c)
  BY Zenon, <1>1 DEF scheduler_look, scheduler_back, table, TypeOK
<1>2. CASE Switch(c, p)
  <2>1. CASE sched(c, p)
    BY Zenon, <2>1 DEF sched, Goto, table, TypeOK
  <2>2. CASE resume(c, p)
    <3>1. cont[p] \in Preemptible \cup {"dead"}
      BY Zenon DEF LockDiscipline, Resumption
    <3> QED  BY Zenon, <2>2, <3>1 DEF resume, Goto, Preemptible, TypeOK
  <2> QED  BY Zenon, <1>2, <2>1, <2>2 DEF Switch
<1>3. CASE timer(c, p)
  <2>1. pc[p] \in Preemptible /\ pc'[p] \in {"exit_lock", "sched"} /\ UNCHANGED killed
    BY Zenon, <1>3 DEF timer, Goto, yield, TypeOK
  <2> QED  BY <1>3, <2>1 DEF timer, Goto, yield, Preemptible, TypeOK
<1>4. CASE User(c, p)
  <2>1. ASSUME NEW call \in {"fork", "wait_lock", "exit_lock"}, syscall(c, p, call)
        PROVE  InitLives'
    BY Zenon, <2>1 DEF syscall, Goto, table, TypeOK
  <2>2. ASSUME NEW t \in Procs \ {initproc}, kill(c, p, t)
        PROVE  InitLives'
    BY Zenon, <2>2 DEF kill, Return, Goto, TypeOK
  <2> QED  BY Zenon, <1>4, <2>1, <2>2 DEF User
<1>5. CASE usertrap_ret(c, p)
  BY Zenon, <1>5 DEF usertrap_ret, Goto, table, TypeOK
<1>6. CASE allocproc(c, p)
  <2>1. CASE i[p] > NPROC
    BY Zenon, <1>6, <2>1 DEF allocproc, Return, Goto, TypeOK
  <2>2. CASE ~(i[p] > NPROC)
    <3>1. i[p] \in Procs
      BY Zenon, <2>2, Constants DEF TypeOK
    <3> QED  BY <1>6, <2>2, <3>1 DEF allocproc, Goto, TypeOK
  <2> QED  BY Zenon, <2>1, <2>2
<1>7. CASE fork_fail(c, p) \/ fork_fill(c, p) \/ fork_parent(c, p) \/ fork_run(c, p)
  <2>1. np[p] # initproc /\ np[p] \in Procs
    <3>1. Forking(p)
      BY Zenon, <1>7 DEF fork_fail, fork_fill, fork_parent, fork_run, At, Forking
    <3> QED  BY Zenon, <3>1 DEF LockDiscipline, Children, TypeOK
  <2>2. CASE fork_fail(c, p)
    BY Zenon, <2>1, <2>2 DEF fork_fail, freeproc, Return, Goto, TypeOK
  <2>3. CASE fork_fill(c, p)
    BY Zenon, <2>1, <2>3 DEF fork_fill, table, TypeOK
  <2>4. CASE fork_parent(c, p) \/ fork_run(c, p)
    BY <2>1, <2>4 DEF fork_parent, fork_run, Return, Goto, TypeOK
  <2> QED  BY Zenon, <1>7, <2>2, <2>3, <2>4
<1>8. CASE wait_lock(c, p) \/ wait_scan(c, p) \/ wait_check(c, p)
  BY <1>8 DEF wait_lock, wait_scan, wait_check, Goto, table, TypeOK
<1>9. CASE wait_reap(c, p)
  <2>1. i[p] \in Procs /\ state[i[p]] = "ZOMBIE"
    BY Zenon, <1>9, Constants DEF wait_reap, wait_zombie, TypeOK
  <2> QED  BY Zenon, <1>9, <2>1 DEF wait_reap, freeproc, Return, Goto, table, TypeOK
<1>10. CASE sleep_acquire(c, p) \/ sleep_release(c, p) \/ sleep_set(c, p)
  BY <1>10 DEF sleep_acquire, sleep_release, sleep_set, Goto, table, TypeOK
<1>11. CASE exit_lock(c, p) \/ reparent(c, p) \/ exit_unlock(c, p)
  BY <1>11 DEF exit_lock, reparent, exit_unlock, CallWakeup, Goto, At, table, TypeOK
<1>12. CASE wakeup(c, p)
  BY <1>12 DEF wakeup, Goto, At, TypeOK
<1>13. CASE exit_zombie(c, p)
  BY Zenon, <1>13 DEF exit_zombie, Goto, At, TypeOK
<1> QED  BY Zenon, <1>1, <1>2, <1>3, <1>4, <1>5, <1>6, <1>7, <1>8, <1>9, <1>10, <1>11, <1>12, <1>13 DEF Kernel

-----------------------------------------------------------------------------
(* The steps behave.                                                        *)

\* A step of p that leaves the family alone.
LEMMA AloofStep ==
    ASSUME TypeOK, LockDiscipline, Family, NEW p \in Procs, InitLives',
           \A q \in Procs : q # p => pc'[q] = pc[q] /\ i'[q] = i[q] /\ wk'[q] = wk[q],
           pc[p] \notin WaitLocked \cup {"sleep_set"},
           pc'[p] \notin WaitLocked \cup {"sleep_set"},
           \A q \in Procs :
            /\ state'[q] \in {"ZOMBIE", "SLEEPING"} => state'[q] = state[q]
            /\ state'[q] = "SLEEPING" => chan'[q] = chan[q]
            /\ state'[q] \in {"UNUSED", "USED"} => state[q] \in {"UNUSED", "USED"},
           UNCHANGED <<parent, wlock>>
    PROVE  Family'
<1>1. \A q \in Procs : Dozing(q)' => Dozing(q)
  BY Zenon DEF Dozing
<1>2. ~Bequeathing(p) /\ Knows(p)'
  BY Zenon DEF Bequeathing, Knows, Reparenting, Leaving, WaitLocked
<1>3. \A q \in Procs : state'[q] = "SLEEPING" => chan'[q] = q
  BY Zenon DEF Family, Orphans
<1>4. Behaves(p)
  BY Zenon, <1>1, <1>2, <1>3 DEF Behaves
<1> QED  BY Zenon, <1>2, <1>4, FamilyStep

\* The scheduler.
LEMMA FamilyScheduler ==
    ASSUME TypeOK, LockDiscipline, Family, NEW c \in CPUs, InitLives',
           scheduler_look(c) \/ scheduler_back(c)
    PROVE  Family'
<1> DEFINE p == scan[c]
<1>0. p \in Procs
  BY Zenon DEF TypeOK
<1>1. CASE UNCHANGED <<state, chan, parent, wlock, pc, i, wk>>
  <2>1. \A q \in Procs : Knows(q)'
    BY <1>1 DEF Family, Knows, Reparenting, Leaving, Dozing
  <2> QED  BY Zenon, <1>1, <2>1 DEF Family, WaitOne, Orphans, Vigil, Dozing, Bequeathing
<1>2. CASE scheduler_look(c) /\ state[p] = "RUNNABLE"
  <2>1. /\ state' = [state EXCEPT ![p] = "RUNNING"] /\ plock[p] = Null
        /\ UNCHANGED <<chan, parent, wlock, pc, i, wk>>
    BY Zenon, <1>2 DEF scheduler_look, locals, free
  <2>2. pc[p] = "resume"
    <3>1. \A d \in CPUs : stack[d] # p
      BY <1>0, <1>2, <2>1, Pointers DEF LockDiscipline, OnCPU, LockOwners, Owns, SelfLocked
    <3> QED  BY Zenon, <1>0, <3>1 DEF LockDiscipline, OffCPU
  <2> HIDE DEF p
  <2>3. \A q \in Procs : /\ state'[q] \in {"ZOMBIE", "SLEEPING"} => state'[q] = state[q]
                         /\ state'[q] \in {"UNUSED", "USED"} => state[q] \in {"UNUSED", "USED"}
    BY Zenon, <1>0, <2>1 DEF TypeOK
  <2>4. /\ pc[p] \notin WaitLocked \cup {"sleep_set"} /\ pc'[p] \notin WaitLocked \cup {"sleep_set"}
    BY Zenon, <2>1, <2>2 DEF WaitLocked
  <2> QED  BY Zenon, <1>0, <2>1, <2>3, <2>4, AloofStep
<1> QED  BY Zenon, <1>1, <1>2 DEF scheduler_look, scheduler_back, table, locals

\* Context switches, interrupts and the beginning and end of a system call.
LEMMA FamilySwitch ==
    ASSUME TypeOK, LockDiscipline, Family, NEW c \in CPUs, NEW p \in Procs, InitLives',
           Switch(c, p) \/ timer(c, p) \/ User(c, p) \/ usertrap_ret(c, p)
    PROVE  Family'
<1>1. \A q \in Procs : q # p => pc'[q] = pc[q] /\ i'[q] = i[q] /\ wk'[q] = wk[q]
  BY DEF Switch, sched, resume, timer, yield, User, syscall, kill, usertrap_ret, Return, Fresh, Goto, locals, TypeOK
<1>2. UNCHANGED <<parent, wlock>>
  BY Zenon DEF Switch, sched, resume, timer, yield, User, syscall, kill, usertrap_ret, table, locks
<1>3. CASE Switch(c, p)
  <2>1. cont[p] \in Preemptible \cup {"dead"}
    BY Zenon DEF LockDiscipline, Resumption
  <2>2. /\ pc[p] \in {"sched", "resume"}
        /\ pc'[p] \in {"resume", cont[p]} /\ UNCHANGED state
        /\ \A q \in Procs : chan'[q] = chan[q] \/ q = p
        /\ chan'[p] = chan[p] \/ pc[p] = "resume"
    BY <1>3 DEF Switch, sched, resume, At, Goto, table, TypeOK
  <2>3. /\ pc[p] \notin WaitLocked \cup {"sleep_set"} /\ pc'[p] \notin WaitLocked \cup {"sleep_set"}
    BY Zenon, <2>1, <2>2 DEF WaitLocked, Preemptible
  <2>4. stack[c] = p
    BY Zenon, <1>3 DEF Switch, sched, resume, At
  <2>5. pc[p] = "resume" => state[p] = "RUNNING"
    BY Zenon, <2>4 DEF LockDiscipline, OnCPU
  <2>6. \A q \in Procs : state'[q] = "SLEEPING" => chan'[q] = chan[q]
    BY Zenon, <2>2, <2>5
  <2> QED  BY Zenon, <1>1, <1>2, <2>2, <2>3, <2>6, AloofStep
<1>4. CASE timer(c, p)
  <2>1. /\ pc[p] \in Preemptible /\ pc'[p] \in {"exit_lock", "sched"} /\ UNCHANGED chan
        /\ \/ state' = state
           \/ state' = [state EXCEPT ![p] = "RUNNABLE"]
    BY Zenon, <1>4 DEF timer, Goto, yield, TypeOK
  <2>2. /\ pc[p] \notin WaitLocked \cup {"sleep_set"} /\ pc'[p] \notin WaitLocked \cup {"sleep_set"}
    BY Zenon, <2>1 DEF WaitLocked, Preemptible
  <2> QED  BY Zenon, <1>1, <1>2, <2>1, <2>2, AloofStep DEF TypeOK
<1>5. CASE User(c, p) \/ usertrap_ret(c, p)
  <2>1. /\ pc[p] \in {"user", "ret"} /\ pc'[p] \in {"fork", "wait_lock", "exit_lock", "ret", "user"}
        /\ UNCHANGED chan
    <3>1. CASE \E call \in {"fork", "wait_lock", "exit_lock"} : syscall(c, p, call)
      BY Zenon, <3>1 DEF syscall, At, Goto, table, TypeOK
    <3>2. CASE \E q \in Procs : kill(c, p, q)
      BY <3>2 DEF kill, At, Goto, Return, TypeOK
    <3>3. CASE usertrap_ret(c, p)
      BY Zenon, <3>3 DEF usertrap_ret, At, Goto, table, TypeOK
    <3> QED  BY Zenon, <1>5, <3>1, <3>2, <3>3 DEF User
  <2>2. \A q \in Procs : state'[q] = state[q] \/ (state[q] = "SLEEPING" /\ state'[q] = "RUNNABLE")
    BY <1>5 DEF User, syscall, kill, usertrap_ret, table, TypeOK
  <2>3. /\ pc[p] \notin WaitLocked \cup {"sleep_set"} /\ pc'[p] \notin WaitLocked \cup {"sleep_set"}
    BY Zenon, <2>1 DEF WaitLocked
  <2> QED  BY Zenon, <1>1, <1>2, <2>1, <2>2, <2>3, AloofStep
<1> QED  BY Zenon, <1>3, <1>4, <1>5

\* fork(): the child has a parent before it can run.
LEMMA FamilyFork ==
    ASSUME TypeOK, LockDiscipline, Family, NEW c \in CPUs, NEW p \in Procs, InitLives',
           \/ allocproc(c, p) \/ fork_fail(c, p) \/ fork_fill(c, p)
           \/ fork_parent(c, p) \/ fork_run(c, p)
    PROVE  Family'
<1>1. CASE allocproc(c, p)
  <2>1. /\ \A q \in Procs : q # p => pc'[q] = pc[q] /\ i'[q] = i[q] /\ wk'[q] = wk[q]
        /\ UNCHANGED <<chan, parent, wlock>>
        /\ pc[p] = "fork" /\ pc'[p] \in {"fork", "fork_fill", "ret"}
    BY <1>1 DEF allocproc, At, Return, Fresh, Goto, TypeOK
  <2>2. \A q \in Procs : state'[q] = state[q] \/ (state[q] = "UNUSED" /\ state'[q] = "USED")
    <3>1. CASE i[p] > NPROC
      BY Zenon, <1>1, <3>1 DEF allocproc
    <3>2. CASE ~(i[p] > NPROC)
      <4>1. i[p] \in Procs
        BY Zenon, <3>2, Constants DEF TypeOK
      <4> QED  BY <1>1, <3>2, <4>1 DEF allocproc, TypeOK
    <3> QED  BY Zenon, <3>1, <3>2
  <2>3. /\ pc[p] \notin WaitLocked \cup {"sleep_set"} /\ pc'[p] \notin WaitLocked \cup {"sleep_set"}
    BY Zenon, <2>1 DEF WaitLocked
  <2> QED  BY Zenon, <2>1, <2>2, <2>3, AloofStep
<1>2. CASE fork_fail(c, p) \/ fork_fill(c, p) \/ fork_parent(c, p) \/ fork_run(c, p)
  <2> DEFINE t == np[p]
  <2>1. t \in Procs /\ state[t] = "USED" /\ state[p] = "RUNNING" /\ pc[t] = "resume" /\ t # p
    <3>1. Forking(p) /\ stack[c] = p /\ pc[p] \in {"fork_fill", "fork_parent", "fork_run"}
      BY Zenon, <1>2 DEF fork_fail, fork_fill, fork_parent, fork_run, At, Forking
    <3>2. t \in Procs /\ state[t] = "USED" /\ state[p] = "RUNNING"
      BY Zenon, <3>1 DEF LockDiscipline, Children, OnCPU, TypeOK
    <3>3. \A d \in CPUs : stack[d] # t
      BY Zenon, <3>2 DEF LockDiscipline, OnCPU
    <3> QED  BY Zenon, <3>2, <3>3 DEF LockDiscipline, OffCPU
  <2>2. /\ \A q \in Procs : q # p => pc'[q] = pc[q] /\ i'[q] = i[q] /\ wk'[q] = wk[q]
        /\ wlock' = wlock
        /\ pc[p] \in {"fork_fill", "fork_parent", "fork_run"} /\ pc'[p] \in {"fork_parent", "fork_run", "ret"}
    <3>1. CASE fork_fail(c, p)
      BY Zenon, <2>1, <3>1 DEF fork_fail, At, Return, Fresh, Goto, TypeOK
    <3>2. CASE fork_fill(c, p)
      <4>1. \A q \in Procs : q # p /\ q # t => pc'[q] = pc[q]
        BY Zenon, <3>2 DEF fork_fill, TypeOK
      <4>2. pc'[t] = "resume" /\ pc'[p] = "fork_parent" /\ pc[p] = "fork_fill"
        BY Zenon, <2>1, <3>2 DEF fork_fill, At, TypeOK
      <4> QED  BY Zenon, <2>1, <3>2, <4>1, <4>2 DEF fork_fill, locals
    <3>3. CASE fork_parent(c, p)
      BY <2>1, <3>3 DEF fork_parent, At, Goto, locals, locks
    <3>4. CASE fork_run(c, p)
      BY <2>1, <3>4 DEF fork_run, At, Return, Fresh, Goto, locals, locks
    <3> QED  BY Zenon, <1>2, <3>1, <3>2, <3>3, <3>4
  <2>3. /\ pc[p] \notin WaitLocked \cup {"sleep_set"} /\ pc'[p] \notin WaitLocked \cup {"sleep_set"}
    BY Zenon, <2>2 DEF WaitLocked
  <2>4. CASE fork_fill(c, p) \/ fork_run(c, p)
    <3>1. /\ UNCHANGED <<chan, parent>>
          /\ state' = state \/ state' = [state EXCEPT ![t] = "RUNNABLE"]
      BY Zenon, <2>4 DEF fork_fill, fork_run, table
    <3> HIDE DEF t
    <3> QED  BY Zenon, <2>1, <2>2, <2>3, <3>1, AloofStep DEF TypeOK
  <2>5. CASE fork_fail(c, p) \/ fork_parent(c, p)
    <3>1. \/ /\ state' = [state EXCEPT ![t] = "UNUSED"] /\ chan' = [chan EXCEPT ![t] = Null]
             /\ parent' = [parent EXCEPT ![t] = Null]
          \/ /\ UNCHANGED <<state, chan>> /\ wlock = Null
             /\ parent' = [parent EXCEPT ![t] = p]
      BY Zenon, <2>5 DEF fork_fail, fork_parent, freeproc, free
    <3> HIDE DEF t
    <3>2. ~Bequeathing(p) /\ Knows(p)'
      BY Zenon, <2>3 DEF Bequeathing, Knows, Reparenting, Leaving, WaitLocked
    <3>3. \A q \in Procs :
            /\ state'[q] = "ZOMBIE" => state[q] = "ZOMBIE"
            /\ state'[q] \in {"UNUSED", "USED"} => state[q] \in {"UNUSED", "USED", "ZOMBIE"}
            /\ state'[q] = "SLEEPING" => state[q] = "SLEEPING" /\ chan'[q] = chan[q]
      BY Zenon, <2>1, <3>1 DEF TypeOK
    <3>4. \A q \in Procs :
            \/ parent'[q] = parent[q]
            \/ parent'[q] = Null /\ state[q] \in {"USED", "ZOMBIE"}
            \/ /\ parent'[q] = p /\ state[q] = "USED" /\ wlock = Null
               /\ state'[p] = "RUNNING" /\ state'[q] = "USED"
      BY <2>1, <3>1 DEF TypeOK
    <3>5. \A q \in Procs : /\ Dozing(q)' => Dozing(q)
                           /\ state'[q] = "SLEEPING" => chan'[q] = q
      BY Zenon, <2>2, <2>3, <3>3 DEF Dozing, Family, Orphans
    <3>6. Behaves(p)
      BY Zenon, <2>2, <2>3, <3>2, <3>3, <3>4, <3>5 DEF Behaves
    <3> QED  BY Zenon, <3>2, <3>6, FamilyStep
  <2> QED  BY Zenon, <1>2, <2>4, <2>5
<1> QED  BY Zenon, <1>1, <1>2

\* A step under wait_lock, or to or from it, that changes nobody's state or parent.
LEMMA WaitStep ==
    ASSUME TypeOK, LockDiscipline, Family, NEW p \in Procs, InitLives',
           \A q \in Procs : q # p => pc'[q] = pc[q] /\ i'[q] = i[q] /\ wk'[q] = wk[q],
           \/ wlock' = wlock /\ (pc'[p] \in WaitLocked => pc[p] \in WaitLocked)
           \/ wlock = Null /\ wlock' # Null
           \/ wlock' = Null /\ pc[p] \in WaitLocked /\ pc'[p] \notin WaitLocked,
           pc'[p] = "sleep_set" => pc[p] = "sleep_lk",
           Bequeathing(p) => Bequeathing(p)',
           UNCHANGED <<state, chan, parent>>, Knows(p)'
    PROVE  Family'
<1>1. \A q \in Procs : /\ Dozing(q)' => Dozing(q) \/ (q = p /\ pc[p] = "sleep_lk")
                       /\ state'[q] = "SLEEPING" => chan'[q] = q
  BY DEF Dozing, Family, Orphans
<1>2. Behaves(p)
  BY Zenon, <1>1 DEF Behaves
<1> QED  BY Zenon, <1>2, FamilyStep

\* wait(): whoever goes to sleep has looked at all its children under wait_lock.
LEMMA FamilyWait ==
    ASSUME TypeOK, LockDiscipline, Family, NEW c \in CPUs, NEW p \in Procs, InitLives',
           wait_lock(c, p) \/ wait_scan(c, p) \/ wait_reap(c, p) \/ wait_check(c, p)
    PROVE  Family'
<1>0. \A q \in Procs : q # p => pc'[q] = pc[q] /\ i'[q] = i[q] /\ wk'[q] = wk[q]
  BY DEF wait_lock, wait_scan, wait_reap, wait_check, Return, Fresh, Goto, TypeOK
<1>1. pc[p] \in {"wait_lock", "wait", "wait_check"} /\ Knows(p) /\ ~Bequeathing(p)
  BY Zenon DEF wait_lock, wait_scan, wait_reap, wait_check, At, Family, Bequeathing
<1>2. CASE wait_lock(c, p)
  <2>1. /\ pc'[p] = "wait" /\ i'[p] = 1 /\ wlock = Null /\ wlock' # Null
        /\ UNCHANGED <<state, chan, parent>>
    BY <1>2, Pointers DEF wait_lock, Goto, free, table, TypeOK
  <2>2. Knows(p)'
    BY <2>1, Constants DEF Knows, Reparenting, Leaving, Procs
  <2> QED  BY Zenon, <1>0, <1>1, <2>1, <2>2, WaitStep
<1>3. CASE wait_scan(c, p)
  <2>1. /\ pc[p] = "wait" /\ UNCHANGED <<state, chan, parent, wlock>>
        /\ \/ pc'[p] = "wait_check" /\ i[p] > NPROC
           \/ /\ pc'[p] = "wait" /\ i'[p] = i[p] + 1
              /\ parent[i[p]] = p => state[i[p]] # "ZOMBIE"
    BY Zenon, <1>3 DEF wait_scan, At, Goto, table, locks, TypeOK
  <2>2. Knows(p)'
    <3>1. \A q \in Procs : q \in Int /\ q <= NPROC
      BY Constants DEF Procs
    <3>2. i[p] \in Int /\ NPROC \in Int
      BY SizeAssumption DEF Slots, TypeOK
    <3>3. \A q \in Procs : q < i[p] /\ parent[q] = p => state[q] # "ZOMBIE"
      BY Zenon, <1>1, <2>1 DEF Knows
    <3>4. ASSUME pc'[p] = "wait", NEW q \in Procs, q < i'[p], parent[q] = p
          PROVE  state[q] # "ZOMBIE"
      <4>0. i'[p] = i[p] + 1 /\ q \in Int /\ i[p] \in Int
        BY Zenon, <2>1, <3>1, <3>2, <3>4
      <4>1. q < i[p] \/ q = i[p]
        BY <3>4, <4>0
      <4> QED  BY Zenon, <2>1, <3>3, <3>4, <4>1
    <3>5. pc'[p] = "wait_check" => \A q \in Procs : parent[q] = p => state[q] # "ZOMBIE"
      BY <2>1, <3>1, <3>2, <3>3
    <3> QED  BY Zenon, <2>1, <3>4, <3>5 DEF Knows, Reparenting, Leaving
  <2> QED  BY Zenon, <1>0, <1>1, <2>1, <2>2, WaitStep DEF WaitLocked
<1>4. CASE wait_check(c, p)
  <2>1. /\ pc[p] = "wait_check" /\ UNCHANGED <<state, chan, parent>>
        /\ \/ pc'[p] = "ret" /\ wlock' = Null
           \/ pc'[p] = "sleep" /\ wlock' = wlock
    BY Zenon, <1>4 DEF wait_check, At, Goto, table, TypeOK
  <2>2. Knows(p)'
    BY Zenon, <1>1, <2>1 DEF Knows, Reparenting, Leaving
  <2> QED  BY Zenon, <1>0, <1>1, <2>1, <2>2, WaitStep DEF WaitLocked
<1>5. CASE wait_reap(c, p)
  <2> DEFINE t == i[p]
  <2>1. /\ pc[p] = "wait" /\ pc'[p] = "ret" /\ wlock' = Null
        /\ t \in Procs /\ state[t] = "ZOMBIE"
        /\ \/ /\ state' = [state EXCEPT ![t] = "UNUSED"] /\ chan' = [chan EXCEPT ![t] = Null]
              /\ parent' = [parent EXCEPT ![t] = Null]
           \/ UNCHANGED <<state, chan, parent>>
    BY Zenon, <1>5, Constants DEF wait_reap, wait_zombie, freeproc, At, Return, Goto, table, TypeOK
  <2> HIDE DEF t
  <2>2. Knows(p)'
    BY Zenon, <2>1 DEF Knows, Reparenting, Leaving
  <2>3. \A q \in Procs :
          /\ state'[q] = "ZOMBIE" => state[q] = "ZOMBIE"
          /\ state'[q] \in {"UNUSED", "USED"} => state[q] \in {"UNUSED", "USED", "ZOMBIE"}
          /\ state'[q] = "SLEEPING" => state[q] = "SLEEPING" /\ chan'[q] = chan[q]
          /\ parent'[q] = parent[q] \/ (parent'[q] = Null /\ state[q] \in {"USED", "ZOMBIE"})
    BY <2>1 DEF TypeOK
  <2>4. \A q \in Procs : /\ Dozing(q)' => Dozing(q)
                         /\ state'[q] = "SLEEPING" => chan'[q] = q
    BY Zenon, <1>0, <2>1, <2>3 DEF Dozing, Family, Orphans
  <2>5. pc[p] \in WaitLocked /\ pc'[p] \notin WaitLocked
    BY Zenon, <2>1 DEF WaitLocked
  <2>6. Behaves(p)
    BY Zenon, <1>0, <1>1, <2>1, <2>3, <2>4, <2>5 DEF Behaves
  <2> QED  BY Zenon, <2>2, <2>6, FamilyStep
<1> QED  BY Zenon, <1>2, <1>3, <1>4, <1>5

\* sleep(): p->lock is held from before the release of wait_lock.
LEMMA FamilySleep ==
    ASSUME TypeOK, LockDiscipline, Family, NEW c \in CPUs, NEW p \in Procs, InitLives',
           sleep_acquire(c, p) \/ sleep_release(c, p) \/ sleep_set(c, p)
    PROVE  Family'
<1>0. \A q \in Procs : q # p => pc'[q] = pc[q] /\ i'[q] = i[q] /\ wk'[q] = wk[q]
  BY DEF sleep_acquire, sleep_release, sleep_set, Goto, locals, TypeOK
<1>1. pc[p] \in {"sleep", "sleep_lk", "sleep_set"} /\ Knows(p) /\ ~Bequeathing(p)
  BY Zenon DEF sleep_acquire, sleep_release, sleep_set, At, Family, Bequeathing
<1>2. CASE sleep_acquire(c, p) \/ sleep_release(c, p)
  <2>1. /\ UNCHANGED <<state, chan, parent>>
        /\ \/ pc[p] = "sleep" /\ pc'[p] = "sleep_lk" /\ wlock' = wlock
           \/ pc[p] = "sleep_lk" /\ pc'[p] = "sleep_set" /\ wlock' = Null
    BY Zenon, <1>2 DEF sleep_acquire, sleep_release, At, Goto, table, TypeOK
  <2>2. Knows(p)'
    BY Zenon, <1>1, <2>1 DEF Knows, Reparenting, Leaving
  <2> QED  BY Zenon, <1>0, <1>1, <2>1, <2>2, WaitStep DEF WaitLocked
<1>3. CASE sleep_set(c, p)
  <2>1. /\ pc[p] = "sleep_set" /\ pc'[p] = "sched" /\ UNCHANGED <<parent, wlock>>
        /\ state' = [state EXCEPT ![p] = "SLEEPING"] /\ chan' = [chan EXCEPT ![p] = p]
    BY Zenon, <1>3 DEF sleep_set, At, Goto, locks, TypeOK
  <2>2. Knows(p)'
    BY Zenon, <2>1 DEF Knows, Reparenting, Leaving
  <2>3. \A q \in Procs :
          /\ state'[q] = "ZOMBIE" => state[q] = "ZOMBIE"
          /\ state'[q] \in {"UNUSED", "USED"} => state[q] \in {"UNUSED", "USED"}
          /\ Dozing(q)' => Dozing(q)
          /\ state'[q] = "SLEEPING" => chan'[q] = q
    BY Zenon, <1>0, <2>1 DEF Dozing, Family, Orphans, TypeOK
  <2>4. Behaves(p)
    BY Zenon, <1>0, <1>1, <2>1, <2>3 DEF Behaves, WaitLocked
  <2> QED  BY Zenon, <2>2, <2>4, FamilyStep
<1> QED  BY Zenon, <1>2, <1>3

\* A turn of wakeup()'s loop: after it the process in slot j is not asleep on the channel.
LEMMA WakeupTurn ==
    ASSUME TypeOK, LockDiscipline, Family, NEW c \in CPUs, NEW p \in Procs, wakeup(c, p),
           ~(wk[p].j > NPROC), wk[p].j # p, wk[p].j = wk[p].chan
    PROVE  state'[wk[p].j] # "SLEEPING" /\ pc'[wk[p].j] # "sleep_set"
<1> DEFINE j == wk[p].j
<1>0. j \in Procs
  BY Zenon, Constants DEF TypeOK, Wakeups
<1>1. /\ plock[j] = Null /\ pc' = pc /\ UNCHANGED chan
      /\ state' = IF state[j] = "SLEEPING" /\ chan[j] = j THEN [state EXCEPT ![j] = "RUNNABLE"] ELSE state
      /\ wk' = [wk EXCEPT ![p].j = j + 1]
  BY Zenon DEF wakeup, free
<1> HIDE DEF j
<1>2. pc[j] # "sleep_set"
  BY Zenon, <1>0, <1>1, Present
<1>3. state[j] = "SLEEPING" => chan[j] = j
  BY Zenon, <1>0 DEF Family, Orphans
<1>4. state'[j] # "SLEEPING"
  BY Zenon, <1>0, <1>1, <1>3 DEF TypeOK
<1> QED  BY Zenon, <1>1, <1>2, <1>4 DEF j

\* exit(): the children go to init, which is woken; then the parent is woken; and only
\* then p is a zombie.
LEMMA FamilyExit ==
    ASSUME TypeOK, LockDiscipline, Family, NEW c \in CPUs, NEW p \in Procs, InitLives',
           \/ exit_lock(c, p) \/ reparent(c, p) \/ wakeup(c, p)
           \/ exit_zombie(c, p) \/ exit_unlock(c, p)
    PROVE  Family'
<1>0. \A q \in Procs : q # p => pc'[q] = pc[q] /\ i'[q] = i[q] /\ wk'[q] = wk[q]
  BY DEF exit_lock, reparent, wakeup, exit_zombie, exit_unlock, CallWakeup, Return, Fresh, Goto, locals, TypeOK
<1>1. /\ Knows(p) /\ i[p] \in Int /\ NPROC \in Int /\ NPROC >= 2
      /\ \A q \in Procs : q \in Int /\ 1 <= q /\ q <= NPROC
      /\ parent[p] \in Procs \cup {Null}
  <2>1. \A q \in Procs : q \in Int /\ 1 <= q /\ q <= NPROC
    BY SizeAssumption DEF Procs
  <2>2. i[p] \in Int /\ NPROC \in Int /\ NPROC >= 2
    BY SizeAssumption DEF Slots, TypeOK
  <2> QED  BY Zenon, <2>1, <2>2 DEF Family, TypeOK
<1>2. CASE exit_lock(c, p)
  <2>1. /\ pc[p] = "exit_lock" /\ pc'[p] = "exit_reparent" /\ i'[p] = 1
        /\ wlock = Null /\ wlock' # Null /\ UNCHANGED <<state, chan, parent>>
    BY <1>2, Pointers DEF exit_lock, At, Goto, free, table, TypeOK
  <2>2. Knows(p)' /\ ~Bequeathing(p)
    BY <1>1, <2>1 DEF Knows, Reparenting, Leaving, Bequeathing
  <2> QED  BY Zenon, <1>0, <2>1, <2>2, WaitStep
<1>3. CASE reparent(c, p) /\ i[p] > NPROC
  <2>1. /\ pc[p] = "exit_reparent" /\ pc'[p] = "wakeup"
        /\ wk'[p] = [chan |-> parent[p], j |-> 1, ret |-> "exit_zombie"]
        /\ UNCHANGED <<state, chan, parent, wlock>>
    BY Zenon, <1>3 DEF reparent, CallWakeup, At, Goto, locks, TypeOK
  <2>2. ~Bequeathing(p) /\ \A q \in Procs : parent[q] # p
    <3>1. \A q \in Procs : q < i[p]
      BY <1>1, <1>3
    <3> QED  BY Zenon, <1>1, <2>1, <3>1 DEF Knows, Reparenting, Bequeathing
  <2>3. Knows(p)'
    <3>1. parent'[p] # Null => ~(parent'[p] < 1)
      BY <1>1, <2>1
    <3> QED  BY <2>1, <2>2, <3>1 DEF Knows, Reparenting, Leaving, TypeOK
  <2> QED  BY Zenon, <1>0, <2>1, <2>2, <2>3, WaitStep DEF WaitLocked
<1>4. CASE reparent(c, p) /\ ~(i[p] > NPROC)
  <2> DEFINE t == i[p]
  <2>0. t \in Procs
    BY Zenon, <1>4, Constants DEF TypeOK
  <2>1. /\ pc[p] = "exit_reparent" /\ i'[p] = t + 1 /\ UNCHANGED <<state, chan, wlock>>
    BY Zenon, <1>4 DEF reparent, At, locks, TypeOK
  <2>2. ~Bequeathing(p) /\ \A q \in Procs : q < t => parent[q] # p
    BY Zenon, <1>1, <2>1 DEF Knows, Reparenting, Bequeathing
  <2>t. \A q \in Procs : q < t + 1 => q < t \/ q = t
    <3> HIDE DEF t
    <3>1. t \in Int /\ \A q \in Procs : q \in Int
      BY Zenon, <1>1, <2>0
    <3> QED  BY <3>1
  <2>3. CASE parent[t] # p
    <3>1. UNCHANGED <<parent, pc, wk>>
      BY Zenon, <1>4, <2>3 DEF reparent
    <3> HIDE DEF t
    <3>2. \A q \in Procs : q < t + 1 => parent[q] # p
      BY Zenon, <2>2, <2>3, <2>t
    <3>3. Knows(p)'
      BY Zenon, <2>1, <3>1, <3>2 DEF Knows, Reparenting, Leaving
    <3> QED  BY Zenon, <1>0, <2>1, <2>2, <3>1, <3>3, WaitStep DEF WaitLocked
  <2>4. CASE parent[t] = p
    <3>1. /\ parent' = [parent EXCEPT ![t] = initproc] /\ pc'[p] = "wakeup"
          /\ wk'[p] = [chan |-> initproc, j |-> 1, ret |-> "exit_reparent"]
      BY <1>4, <2>4 DEF reparent, CallWakeup, Goto, TypeOK
    <3> HIDE DEF t
    <3>2. initproc # p
      BY Zenon, <2>1 DEF Family, InitLives
    <3>3. \A q \in Procs : q < t + 1 => parent'[q] # p
      BY Zenon, <2>0, <2>2, <2>t, <3>1, <3>2 DEF TypeOK
    <3>4. Knows(p)'
      <4>1. /\ Reparenting(p)' /\ ~Leaving(p)' /\ i'[p] = t + 1
            /\ wk'[p].ret = "exit_reparent" /\ wk'[p].chan = initproc
        BY <2>1, <3>1 DEF Reparenting, Leaving
      <4> QED  BY Zenon, <3>1, <3>3, <4>1 DEF Knows
    <3>5. Bequeathing(p)'
      BY <3>1 DEF Bequeathing, initproc
    <3>6. \A q \in Procs : /\ Dozing(q)' => Dozing(q)
                           /\ state'[q] = "SLEEPING" => chan'[q] = q
      BY Zenon, <1>0, <2>1, <3>1 DEF Dozing, Family, Orphans
    <3>7. \A q \in Procs : parent'[q] = parent[q] \/ (parent'[q] = initproc /\ parent[q] = p)
      BY Zenon, <2>4, <3>1 DEF TypeOK
    <3>8. Behaves(p)
      BY Zenon, <1>0, <2>1, <3>5, <3>6, <3>7 DEF Behaves, WaitLocked
    <3> QED  BY Zenon, <3>4, <3>8, FamilyStep
  <2> QED  BY Zenon, <2>3, <2>4
<1>5. CASE wakeup(c, p) /\ wk[p].j > NPROC
  <2>1. /\ pc[p] = "wakeup" /\ pc'[p] = wk[p].ret /\ wk[p].ret \in {"exit_reparent", "exit_zombie"}
        /\ wk[p].j \in Int
        /\ UNCHANGED <<state, chan, parent, wlock, i>>
    <3>1. wk[p] \in Wakeups
      BY Zenon DEF TypeOK
    <3>2. wk[p].j \in Int /\ wk[p].ret \in {"exit_reparent", "exit_zombie"}
      BY <3>1, SizeAssumption DEF Wakeups, Slots
    <3> QED  BY Zenon, <1>5, <3>2 DEF wakeup, At, Goto, locks, TypeOK
  <2>2. ~Bequeathing(p)
    BY <1>1, <1>5, <2>1 DEF Bequeathing, initproc
  <2>3. parent[p] # Null => parent[p] < wk[p].j
    BY <1>1, <1>5, <2>1
  <2>4. parent[p] # Null /\ wk[p].ret = "exit_zombie" => ~Dozing(parent[p])'
    <3>1. parent[p] # Null /\ wk[p].ret = "exit_zombie" => ~Dozing(parent[p])
      BY Zenon, <1>1, <2>1, <2>3 DEF Knows, Leaving
    <3> QED  BY Zenon, <1>0, <1>1, <2>1, <3>1 DEF Dozing
  <2>5. Knows(p)'
    BY Zenon, <1>1, <2>1, <2>4 DEF Knows, Reparenting, Leaving
  <2> QED  BY Zenon, <1>0, <2>1, <2>2, <2>5, WaitStep DEF WaitLocked
<1>6. CASE wakeup(c, p) /\ ~(wk[p].j > NPROC)
  <2> DEFINE j == wk[p].j
  <2>1. /\ pc[p] = "wakeup" /\ j \in Procs /\ wk[p] \in Wakeups
        /\ wk'[p].j = j + 1 /\ wk'[p].ret = wk[p].ret /\ wk'[p].chan = wk[p].chan
        /\ UNCHANGED <<chan, parent, wlock, pc, i>>
    BY <1>6, Constants DEF wakeup, At, locks, Wakeups, TypeOK
  <2>2. \A q \in Procs : state'[q] = state[q] \/ (state[q] = "SLEEPING" /\ state'[q] = "RUNNABLE")
    BY <1>6, <2>1 DEF wakeup, TypeOK
  <2>3. j # p /\ j = wk[p].chan => state'[j] # "SLEEPING" /\ pc'[j] # "sleep_set"
    BY Zenon, <1>6, WakeupTurn
  <2> HIDE DEF j
  <2>4. p # initproc
    BY Zenon, <2>1 DEF Family, InitLives
  <2>5. \A q \in Procs : /\ Dozing(q)' => Dozing(q)
                         /\ state'[q] = "SLEEPING" => chan'[q] = q
    <3>1. \A q \in Procs : state'[q] = "SLEEPING" => state[q] = "SLEEPING"
      BY <2>2
    <3> QED  BY Zenon, <2>1, <3>1 DEF Dozing, Family, Orphans
  <2>6. Bequeathing(p) => ~Dozing(initproc)'
    <3> SUFFICES ASSUME Bequeathing(p) PROVE ~Dozing(initproc)'
      OBVIOUS
    <3>1. j = initproc /\ wk[p].chan = initproc
      <4>1. wk[p].ret = "exit_reparent" /\ j <= initproc
        BY Zenon DEF Bequeathing, j
      <4>2. wk[p].chan = initproc
        BY Zenon, <1>1, <2>1, <4>1 DEF Knows
      <4>3. j \in Int /\ 1 <= j
        BY Zenon, <1>1, <2>1
      <4> QED  BY <4>1, <4>2, <4>3 DEF initproc
    <3>2. ~(state'[j] = "SLEEPING" \/ pc'[j] = "sleep_set")
      BY Zenon, <2>3, <2>4, <3>1
    <3> QED  BY Zenon, <3>1, <3>2 DEF Dozing
  <2>7. Knows(p)'
    <3>1. /\ Reparenting(p)' = Reparenting(p) /\ Leaving(p)' = Leaving(p)
      BY Zenon, <2>1 DEF Reparenting, Leaving
    <3>2. ASSUME Leaving(p), parent[p] # Null, parent[p] < j + 1
          PROVE  ~Dozing(parent[p])'
      <4>1. parent[p] \in Procs /\ parent[p] # p
        BY Zenon, <1>1, <3>2 DEF Knows
      <4>2. CASE parent[p] < j
        <5>1. ~Dozing(parent[p])
          BY Zenon, <1>1, <3>2, <4>2 DEF Knows, j
        <5>2. \A q \in Procs : ~Dozing(q) => ~(state'[q] = "SLEEPING" \/ pc'[q] = "sleep_set")
          BY Zenon, <2>1, <2>2 DEF Dozing
        <5>3. ~(state'[parent[p]] = "SLEEPING" \/ pc'[parent[p]] = "sleep_set")
          BY Zenon, <4>1, <5>1, <5>2
        <5> QED  BY Zenon, <2>1, <5>3 DEF Dozing
      <4>3. CASE parent[p] = j
        <5>1. wk[p].chan = j
          BY Zenon, <1>1, <2>1, <3>2, <4>3 DEF Knows, Leaving
        <5>2. ~(state'[j] = "SLEEPING" \/ pc'[j] = "sleep_set")
          BY Zenon, <2>3, <4>1, <4>3, <5>1
        <5> QED  BY Zenon, <2>1, <4>3, <5>2 DEF Dozing
      <4>4. parent[p] < j \/ parent[p] = j
        <5>1. parent[p] \in Int /\ j \in Int
          BY Zenon, <1>1, <2>1, <4>1
        <5> QED  BY <3>2, <5>1
      <4> QED  BY Zenon, <4>2, <4>3, <4>4
    <3>3. /\ Reparenting(p) => \A q \in Procs : q < i'[p] => parent'[q] # p
          /\ Leaving(p) => \A q \in Procs : parent'[q] # p
      BY Zenon, <1>1, <2>1 DEF Knows
    <3>4. /\ wk'[p].chan = IF wk'[p].ret = "exit_reparent" THEN initproc ELSE parent'[p]
      BY Zenon, <1>1, <2>1 DEF Knows
    <3>5. Leaving(p)' /\ parent'[p] # Null /\ (pc'[p] = "wakeup" => parent'[p] < wk'[p].j) => ~Dozing(parent[p])'
      BY Zenon, <2>1, <3>1, <3>2
    <3> QED  BY Zenon, <2>1, <3>1, <3>3, <3>4, <3>5 DEF Knows
  <2>8. Behaves(p)
    BY Zenon, <1>0, <2>1, <2>2, <2>5, <2>6 DEF Behaves
  <2> QED  BY Zenon, <2>7, <2>8, FamilyStep
<1>7. CASE exit_zombie(c, p)
  <2>1. /\ pc[p] = "exit_zombie" /\ pc'[p] = "exit_unlock" /\ UNCHANGED <<chan, parent, wlock>>
        /\ state' = [state EXCEPT ![p] = "ZOMBIE"]
    BY Zenon, <1>7 DEF exit_zombie, At, Goto, TypeOK
  <2>2. Knows(p)' /\ ~Bequeathing(p)
    BY Zenon, <2>1 DEF Knows, Reparenting, Leaving, Bequeathing
  <2>3. \A q \in Procs :
          /\ state'[q] = "ZOMBIE" => state[q] = "ZOMBIE" \/ (q = p /\ pc[p] = "exit_zombie")
          /\ state'[q] \in {"UNUSED", "USED"} => state[q] \in {"UNUSED", "USED"}
          /\ Dozing(q)' => Dozing(q)
          /\ state'[q] = "SLEEPING" => chan'[q] = q
    BY Zenon, <1>0, <2>1 DEF Dozing, Family, Orphans, TypeOK
  <2>4. Behaves(p)
    BY Zenon, <1>0, <2>1, <2>2, <2>3 DEF Behaves, WaitLocked
  <2> QED  BY Zenon, <2>2, <2>4, FamilyStep
<1>8. CASE exit_unlock(c, p)
  <2>1. /\ pc[p] = "exit_unlock" /\ pc'[p] = "sched" /\ wlock' = Null
        /\ UNCHANGED <<state, chan, parent>>
    BY Zenon, <1>8 DEF exit_unlock, At, Goto, table, TypeOK
  <2>2. Knows(p)' /\ ~Bequeathing(p)
    BY Zenon, <2>1 DEF Knows, Reparenting, Leaving, Bequeathing
  <2> QED  BY Zenon, <1>0, <2>1, <2>2, WaitStep DEF WaitLocked
<1> QED  BY Zenon, <1>2, <1>3, <1>4, <1>5, <1>6, <1>7, <1>8

-----------------------------------------------------------------------------

\* Before the first fork() there is only init.
LEMMA FamilyInit == Init => Family
<1> SUFFICES ASSUME Init PROVE Family
  OBVIOUS
<1>1. WaitOne /\ InitLives
  BY Zenon, Pointers DEF Init, WaitOne, WaitLocked, InitLives
<1>2. Orphans /\ Vigil
  BY Zenon, Pointers DEF Init, Orphans, Vigil
<1>3. \A p \in Procs : Knows(p)
  BY Zenon DEF Init, Knows, Reparenting, Leaving
<1> QED  BY Zenon, <1>1, <1>2, <1>3 DEF Family

\* Every step keeps Family.
LEMMA FamilyNext == TypeOK /\ LockDiscipline /\ Family /\ [Next]_vars => Family'
<1> SUFFICES ASSUME TypeOK, LockDiscipline, Family, [Next]_vars PROVE Family'
  OBVIOUS
<1>0. TypeOK'
  BY Zenon, TypeNext
<1>1. CASE Next
  <2>1. PICK c \in CPUs :
            \/ scheduler_look(c) \/ scheduler_back(c)
            \/ \E p \in Procs : Switch(c, p) \/ Kernel(c, p) \/ User(c, p) \/ timer(c, p)
    BY Zenon, <1>1 DEF Next
  <2>2. CASE scheduler_look(c) \/ scheduler_back(c)
    <3>1. InitLives'
      BY Zenon, <2>2, InitKept, Pointers DEF Family
    <3> QED  BY Zenon, <1>0, <2>2, <3>1, FamilyScheduler
  <2>3. ASSUME NEW p \in Procs, Switch(c, p) \/ Kernel(c, p) \/ User(c, p) \/ timer(c, p)
        PROVE  Family'
    <3>1. InitLives'
      BY Zenon, <2>3, InitKept DEF Family
    <3> QED
      BY Zenon, <1>0, <2>3, <3>1, FamilySwitch, FamilyFork, FamilyWait, FamilySleep, FamilyExit DEF Kernel
  <2> QED  BY Zenon, <2>1, <2>2, <2>3
<1>2. CASE UNCHANGED vars
  <2>1. \A p \in Procs : Knows(p)'
    BY <1>2 DEF vars, table, locks, locals, Family, Knows, Reparenting, Leaving, Dozing
  <2> QED
    BY Zenon, <1>2, <2>1 DEF vars, table, locks, locals, Family, WaitOne, InitLives, Orphans, Vigil, Dozing, Bequeathing
<1> QED  BY Zenon, <1>1, <1>2

\* What processes and the threads under wait_lock know of their families is true.
THEOREM FamilySafety == Spec => []Family
BY TypeInit, TypeNext, LockInit, LockNext, FamilyInit, FamilyNext, PTL DEF Spec

\* exit() leaves no orphans: the parent that a slot names is a live process.
THEOREM ParentSafety == Spec => []ParentAlive
<1>1. Family => ParentAlive
  BY Zenon DEF Family, Orphans, ParentAlive
<1> QED  BY FamilySafety, <1>1, PTL

\* wait() and exit(): whenever wait_lock is free, a process asleep in wait() has no
\* zombie child.
THEOREM WakeupSafety == Spec => []NoLostWakeup
<1>1. Family => NoLostWakeup
  <2> SUFFICES ASSUME Family, NEW p \in Procs, NEW q \in Procs,
                      free(wlock), state[p] = "SLEEPING", parent[q] = p, state[q] = "ZOMBIE"
               PROVE  FALSE
    BY Zenon DEF NoLostWakeup
  <2>1. PICK h \in Procs : Bequeathing(h)
    BY Zenon DEF Family, Vigil, Dozing
  <2>2. pc[h] \in WaitLocked
    BY Zenon, <2>1 DEF Bequeathing, WaitLocked
  <2> QED  BY Zenon, <2>2 DEF Family, WaitOne, free
<1> QED  BY FamilySafety, <1>1, PTL
=============================================================================
