----------------------------- MODULE ProcProofs -----------------------------
(***************************************************************************)
(* The locking discipline of Proc and what follows from it, for every      *)
(* number of slots and CPUs.  First the kinds of steps that keep it: one   *)
(* that touches no p->lock, one that takes or releases its own, and one    *)
(* that changes the slot of another process; then every action.            *)
(***************************************************************************)
EXTENDS ProcTypes

\* The null pointer is neither a process nor a CPU.
LEMMA Pointers == Null \notin Procs /\ Null \notin CPUs /\ initproc \in Procs
BY Zenon, Constants

\* the part of the types that the locking discipline needs
Shapes ==
    /\ state \in [Procs -> States]
    /\ plock \in [Procs -> CPUs \cup {Null}]
    /\ wlock \in CPUs \cup {Null}
    /\ cproc \in [CPUs -> Procs \cup {Null}]
    /\ stack \in [CPUs -> Procs \cup {Null}]
    /\ scan \in [CPUs -> Procs]
    /\ pc \in [Procs -> Points]
    /\ cont \in [Procs -> Points]
    /\ np \in [Procs -> Procs]

\* points at which a thread holds no p->lock and has no unfinished child
Plain == {"user", "ret", "wait_lock", "exit_lock", "fork", "wait", "wait_check", "sleep",
          "exit_reparent", "wakeup", "exit_zombie", "dead"}

\* A step of a thread from one such point to another that takes or releases no
\* p->lock, and at most wakes sleepers up, keeps the discipline.
LEMMA PlainStep ==
    ASSUME Shapes, LockDiscipline, NEW c \in CPUs, NEW p \in Procs,
           stack[c] = p, pc[p] \in Plain, pc'[p] \in Plain,
           \A q \in Procs : q # p => pc'[q] = pc[q] /\ np'[q] = np[q],
           \A q \in Procs : \/ state'[q] = state[q]
                            \/ state[q] = "SLEEPING" /\ state'[q] = "RUNNABLE",
           UNCHANGED <<plock, cpus, cont>>,
           \/ wlock' = Null
           \/ wlock' = c /\ pc'[p] \in WaitLocked
           \/ wlock' = wlock /\ (pc[p] \in WaitLocked => pc'[p] \in WaitLocked)
    PROVE  LockDiscipline'
<1> USE Pointers DEF LockDiscipline
<1>1. /\ \A d \in CPUs : stack[d] = p => d = c
      /\ state[p] = "RUNNING" /\ state'[p] = "RUNNING"
  BY DEF StackExclusive, OnCPU, Plain
<1>2. \A d \in CPUs, q \in Procs : Owns(d, q)' <=> Owns(d, q)
  <2> SUFFICES ASSUME NEW d \in CPUs, NEW q \in Procs PROVE Owns(d, q)' <=> Owns(d, q)
    OBVIOUS
  <2>1. stack[d] \in Procs \cup {Null}
    BY Zenon DEF Shapes
  <2> QED  BY Zenon, <1>1, <2>1 DEF Owns, cpus, Plain, SelfLocked
<1>3. LockOwners'
  BY Zenon, <1>2 DEF LockOwners
<1>4. WaitLockOwner'
  BY <1>1 DEF WaitLockOwner, cpus, Shapes, WaitLocked, Plain
<1>5. SchedulerLocals' /\ StackExclusive'
  BY Zenon DEF SchedulerLocals, StackExclusive, cpus
<1>6. OnCPU'
  BY <1>1 DEF OnCPU, cpus, Plain
<1>7. OffCPU'
  BY <1>1 DEF OffCPU, cpus, Plain
<1>8. Resumption'
  BY <1>1 DEF Resumption, Plain
<1>9. Children'
  <2>1. ~Forking(p)' /\ \A q \in Procs : q # p => (Forking(q)' <=> Forking(q))
    BY Zenon DEF Forking, Plain
  <2>2. ASSUME NEW q \in Procs, NEW r \in Procs, Forking(q)'
        PROVE  /\ state'[np'[q]] = "USED"
               /\ Forking(r)' /\ np'[q] = np'[r] => q = r
    <3>1. q # p /\ Forking(q) /\ np'[q] = np[q] /\ np[q] \in Procs
      BY Zenon, <2>1, <2>2 DEF Shapes
    <3> QED  BY <2>1, <3>1 DEF Children
  <2> QED  BY Zenon, <2>2 DEF Children
<1> QED  BY Zenon, <1>3, <1>4, <1>5, <1>6, <1>7, <1>8, <1>9

\* A thread that changes its own point and the lock of its own slot.  p->lock is
\* held after the step exactly if the new point says so, and its state changes
\* accordingly.
LEMMA OwnStep ==
    ASSUME Shapes, LockDiscipline, NEW c \in CPUs, NEW p \in Procs,
           stack[c] = p, pc[p] # "fork_fill", pc'[p] # "fork_fill",
           \A q \in Procs : q # p =>
               /\ pc'[q] = pc[q] /\ cont'[q] = cont[q] /\ np'[q] = np[q]
               /\ state'[q] = state[q] /\ plock'[q] = plock[q],
           \/ plock[p] \in {Null, c} /\ plock'[p] = IF pc'[p] \in SelfLocked THEN c ELSE Null
           \/ plock'[p] = plock[p] /\ pc[p] \notin SelfLocked /\ pc'[p] \notin SelfLocked,
           \/ wlock' = Null
           \/ wlock' = wlock /\ (pc[p] \in WaitLocked => pc'[p] \in WaitLocked),
           pc'[p] = "sched" => state'[p] \in {"RUNNABLE", "SLEEPING", "ZOMBIE"},
           pc'[p] = "exit_unlock" => state'[p] = "ZOMBIE",
           pc'[p] \notin {"sched", "exit_unlock"} => state'[p] = "RUNNING",
           cont'[p] \in Preemptible \cup {"dead"},
           state'[p] = "ZOMBIE" => pc'[p] = "exit_unlock" \/ cont'[p] = "dead",
           Forking(p)' => Forking(p) /\ np'[p] = np[p],
           UNCHANGED cpus
    PROVE  LockDiscipline'
<1> USE Pointers DEF LockDiscipline
<1>1. /\ \A d \in CPUs : stack[d] = p => d = c
      /\ state[p] \notin {"UNUSED", "USED"} /\ state'[p] \notin {"UNUSED", "USED"}
  BY Zenon DEF StackExclusive, OnCPU
<1>2. LockOwners'
  <2> SUFFICES ASSUME NEW d \in CPUs, NEW q \in Procs
               PROVE  plock'[q] = d <=> Owns(d, q)'
    BY Zenon DEF LockOwners
  <2>1. stack[d] \in Procs \cup {Null}
    BY Zenon DEF Shapes
  <2>2. CASE q = p
    <3>1. CASE d = c
      BY <2>2, <3>1 DEF Owns, cpus, LockOwners
    <3>2. CASE d # c
      <4>1. Owns(d, p)' <=> Owns(d, p)
        BY <1>1, <2>1, <3>2 DEF Owns, cpus
      <4> QED  BY <2>2, <3>2, <4>1 DEF LockOwners
    <3> QED  BY Zenon, <3>1, <3>2
  <2>3. CASE q # p
    <3>1. Owns(d, q)' <=> Owns(d, q)
      BY Zenon, <1>1, <2>1, <2>3 DEF Owns, cpus
    <3> QED  BY <2>3, <3>1 DEF LockOwners
  <2> QED  BY Zenon, <2>2, <2>3
<1>3. WaitLockOwner'
  <2>1. CASE wlock' = Null
    BY Zenon, <2>1 DEF WaitLockOwner
  <2>2. CASE wlock # Null /\ wlock' = wlock /\ (pc[p] \in WaitLocked => pc'[p] \in WaitLocked)
    <3>1. wlock \in CPUs /\ stack[wlock] \in Procs /\ pc[stack[wlock]] \in WaitLocked
      BY Zenon, <2>2 DEF WaitLockOwner, Shapes
    <3>2. pc'[stack[wlock]] \in WaitLocked
      BY Zenon, <2>2, <3>1
    <3> QED  BY Zenon, <2>2, <3>1, <3>2 DEF WaitLockOwner, cpus
  <2> QED  BY Zenon, <2>1, <2>2
<1>4. SchedulerLocals' /\ StackExclusive'
  BY Zenon DEF SchedulerLocals, StackExclusive, cpus
<1>5. OnCPU'
  BY DEF OnCPU, cpus
<1>6. OffCPU'
  BY DEF OffCPU, cpus
<1>7. Resumption'
  BY <1>1 DEF Resumption
<1>8. Children'
  <2>1. \A q \in Procs : Forking(q)' => Forking(q)
    BY Zenon DEF Forking
  <2>2. ASSUME NEW q \in Procs, NEW r \in Procs, Forking(q)'
        PROVE  /\ state'[np'[q]] = "USED"
               /\ Forking(r)' /\ np'[q] = np'[r] => q = r
    <3>1. np[q] \in Procs /\ state[np[q]] = "USED"
      BY Zenon, <2>1, <2>2 DEF Children, Shapes
    <3>2. np[q] # p
      BY Zenon, <1>1, <3>1
    <3> QED  BY <2>1, <2>2, <3>1, <3>2 DEF Children
  <2> QED  BY Zenon, <2>2 DEF Children
<1> QED  BY Zenon, <1>2, <1>3, <1>4, <1>5, <1>6, <1>7, <1>8

\* A step of the thread of p that changes the slot t of another process that is
\* on no CPU: allocproc(), the rest of fork(), freeproc() in wait().
SlotMove(c, p, t) ==
    /\ stack[c] = p /\ t # p /\ \A d \in CPUs : stack[d] # t
    /\ pc[p] \notin SelfLocked /\ pc'[p] \notin SelfLocked
    /\ \A q \in Procs : q # p => pc'[q] = pc[q] /\ np'[q] = np[q]
    /\ \A q \in Procs : q # t =>
           cont'[q] = cont[q] /\ state'[q] = state[q] /\ plock'[q] = plock[q]
    /\ \/ /\ pc[p] # "fork_fill" /\ pc'[p] = "fork_fill" /\ np'[p] = t
          /\ plock[t] = Null /\ plock'[t] = c
       \/ /\ pc[p] = "fork_fill" /\ pc'[p] # "fork_fill" /\ np[p] = t
          /\ plock'[t] = Null
       \/ /\ pc[p] # "fork_fill" /\ pc'[p] # "fork_fill"
          /\ plock'[t] = plock[t]
    /\ \/ wlock' = Null
       \/ wlock' = wlock /\ pc[p] \notin WaitLocked
    /\ state'[t] \notin {"RUNNING", "ZOMBIE"} /\ cont'[t] \in {"user", "dead"}
    /\ Forking(p)' => np'[p] = t /\ state'[t] = "USED"
    /\ \A q \in Procs : q # p /\ Forking(q) => np[q] # t
    /\ UNCHANGED cpus

\* Such a step keeps the locking discipline.
LEMMA SlotStep ==
    ASSUME Shapes, LockDiscipline, NEW c \in CPUs, NEW p \in Procs, NEW t \in Procs,
           SlotMove(c, p, t)
    PROVE  LockDiscipline'
<1> USE DEF SlotMove
<1> USE Pointers DEF LockDiscipline
<1>1. /\ \A d \in CPUs : stack[d] = p => d = c
      /\ state[p] = "RUNNING" /\ state'[p] = "RUNNING"
      /\ pc[t] = "resume" /\ pc'[t] = "resume"
  BY DEF StackExclusive, OnCPU, OffCPU, SelfLocked
<1>2. LockOwners'
  <2> SUFFICES ASSUME NEW d \in CPUs, NEW q \in Procs
               PROVE  plock'[q] = d <=> Owns(d, q)'
    BY Zenon DEF LockOwners
  <2>1. stack[d] \in Procs \cup {Null}
    BY Zenon DEF Shapes
  <2>2. CASE d = c
    <3>1. Owns(c, q)' <=> pc'[p] = "fork_fill" /\ np'[p] = q
      BY Zenon, <2>2 DEF Owns, cpus
    <3>2. plock[q] = c <=> pc[p] = "fork_fill" /\ np[p] = q
      BY <2>2 DEF Owns, LockOwners
    <3> QED  BY <2>2, <3>1, <3>2
  <2>3. CASE d # c
    <3>1. Owns(d, q)' <=> Owns(d, q)
      BY Zenon, <1>1, <2>1, <2>3 DEF Owns, cpus
    <3>2. pc[p] = "fork_fill" => plock[np[p]] = c
      BY DEF LockOwners, Owns, Shapes
    <3> QED  BY <2>3, <3>1, <3>2 DEF LockOwners
  <2> QED  BY Zenon, <2>2, <2>3
<1>3. WaitLockOwner'
  <2>1. CASE wlock' = Null
    BY Zenon, <2>1 DEF WaitLockOwner
  <2>2. CASE wlock # Null /\ wlock' = wlock /\ pc[p] \notin WaitLocked
    <3>1. wlock \in CPUs /\ stack[wlock] \in Procs /\ pc[stack[wlock]] \in WaitLocked
      BY <2>2 DEF WaitLockOwner, Shapes
    <3>2. pc'[stack[wlock]] \in WaitLocked
      BY Zenon, <2>2, <3>1
    <3> QED  BY Zenon, <2>2, <3>1, <3>2 DEF WaitLockOwner, cpus
  <2> QED  BY Zenon, <2>1, <2>2
<1>4. SchedulerLocals' /\ StackExclusive'
  BY Zenon DEF SchedulerLocals, StackExclusive, cpus
<1>5. OnCPU'
  BY <1>1 DEF OnCPU, cpus, SelfLocked
<1>6. OffCPU'
  BY <1>1 DEF OffCPU, cpus
<1>7. Resumption'
  BY <1>1 DEF Resumption, Preemptible
<1>8. Children'
  <2>1. ~Forking(t)' /\ \A q \in Procs : q # p /\ q # t => (Forking(q)' <=> Forking(q))
    BY Zenon, <1>1 DEF Forking
  <2>2. ASSUME NEW q \in Procs, Forking(q)'
        PROVE  state'[np'[q]] = "USED" /\ (np'[q] = t => q = p)
    BY <2>1, <2>2 DEF Children, Shapes
  <2>3. ASSUME NEW q \in Procs, NEW r \in Procs, Forking(q)', Forking(r)', np'[q] = np'[r]
        PROVE  q = r
    BY <2>1, <2>2, <2>3 DEF Children
  <2> QED  BY Zenon, <2>2, <2>3 DEF Children
<1> QED  BY Zenon, <1>2, <1>3, <1>4, <1>5, <1>6, <1>7, <1>8

-----------------------------------------------------------------------------

\* The scheduler starts with all locks free.
LEMMA LockInit == Init => LockDiscipline
<1> SUFFICES ASSUME Init PROVE LockDiscipline
  OBVIOUS
<1>1. LockOwners /\ SchedulerLocals /\ StackExclusive /\ OnCPU
  BY Zenon, Pointers DEF Init, LockOwners, Owns, SchedulerLocals, StackExclusive, OnCPU
<1>2. WaitLockOwner /\ OffCPU
  BY Zenon, Pointers DEF Init, WaitLockOwner, OffCPU
<1>3. Resumption /\ Children
  BY Zenon, Pointers DEF Init, Resumption, Preemptible, Children, Forking
<1> QED  BY Zenon, <1>1, <1>2, <1>3 DEF LockDiscipline

\* scheduler() finds a slot whose process is not RUNNABLE, or comes back from one.
LEMMA LockSchedulerLoop ==
    ASSUME Shapes, LockDiscipline, NEW c \in CPUs,
           \/ scheduler_look(c) /\ state[scan[c]] # "RUNNABLE"
           \/ scheduler_back(c)
    PROVE  LockDiscipline'
<1> USE Pointers DEF LockDiscipline
<1>1. CASE scheduler_look(c) /\ state[scan[c]] # "RUNNABLE"
  <2>1. /\ cproc[c] = Null /\ NextSlot(c)
        /\ UNCHANGED <<state, plock, wlock, cproc, stack, pc, cont, np>>
    BY Zenon, <1>1 DEF scheduler_look, locals
  <2>2. SchedulerLocals'
    BY Zenon, <2>1 DEF SchedulerLocals, NextSlot, Shapes
  <2> QED
    BY <2>1, <2>2 DEF LockOwners, Owns, WaitLockOwner, StackExclusive, OnCPU, OffCPU,
       Resumption, Children, Forking
<1>2. CASE scheduler_back(c)
  <2> DEFINE p == scan[c]
  <2>1. /\ stack[c] = Null /\ cproc[c] = p /\ p \in Procs
        /\ plock' = [plock EXCEPT ![p] = Null]
        /\ cproc' = [cproc EXCEPT ![c] = Null]
        /\ NextSlot(c)
        /\ UNCHANGED <<state, wlock, stack, pc, cont, np>>
    BY Zenon, <1>2 DEF scheduler_back, table, locals, SchedulerLocals, Shapes
  <2> HIDE DEF p
  <2>2. plock[p] = c /\ \A q \in Procs : plock[q] = c => q = p
    BY <2>1 DEF LockOwners, Owns
  <2>3. LockOwners'
    <3> SUFFICES ASSUME NEW d \in CPUs, NEW q \in Procs
                 PROVE  plock'[q] = d <=> Owns(d, q)'
      BY Zenon DEF LockOwners
    <3>1. CASE d = c
      BY Zenon, <2>1, <2>2, <3>1 DEF Owns, Shapes
    <3>2. CASE d # c
      <4>1. Owns(d, q)' <=> Owns(d, q)
        BY Zenon, <2>1, <3>2 DEF Owns, Shapes
      <4> QED  BY <2>1, <2>2, <3>2, <4>1 DEF LockOwners, Shapes
    <3> QED  BY Zenon, <3>1, <3>2
  <2>4. SchedulerLocals'
    BY Zenon, <2>1 DEF SchedulerLocals, NextSlot, Shapes
  <2> QED
    BY <2>1, <2>3, <2>4 DEF WaitLockOwner, StackExclusive, OnCPU, OffCPU,
       Resumption, Children, Forking
<1> QED  BY Zenon, <1>1, <1>2

\* scheduler() switches to a RUNNABLE process: since its lock is free, it is on
\* no other CPU.
LEMMA LockDispatch ==
    ASSUME Shapes, LockDiscipline, NEW c \in CPUs,
           scheduler_look(c), state[scan[c]] = "RUNNABLE"
    PROVE  LockDiscipline'
<1> USE Pointers DEF LockDiscipline
<1> DEFINE p == scan[c]
<1>1. /\ stack[c] = Null /\ cproc[c] = Null /\ p \in Procs /\ plock[p] = Null
      /\ state[p] = "RUNNABLE"
      /\ plock' = [plock EXCEPT ![p] = c]
      /\ state' = [state EXCEPT ![p] = "RUNNING"]
      /\ cproc' = [cproc EXCEPT ![c] = p]
      /\ stack' = [stack EXCEPT ![c] = p]
      /\ UNCHANGED <<wlock, scan, pc, cont, np>>
  BY Zenon DEF scheduler_look, locals, free, Shapes
<1>2. scan'[c] = p
  BY Zenon, <1>1
<1> HIDE DEF p
<1>3. \A d \in CPUs : stack[d] # p
  BY <1>1 DEF OnCPU, LockOwners, Owns, SelfLocked
<1>4. pc[p] = "resume"
  BY Zenon, <1>3, <1>1 DEF OffCPU
<1>5. LockOwners'
  <2> SUFFICES ASSUME NEW d \in CPUs, NEW q \in Procs
               PROVE  plock'[q] = d <=> Owns(d, q)'
    BY Zenon DEF LockOwners
  <2>1. CASE d = c
    BY <1>1, <1>4, <2>1 DEF LockOwners, Owns, SelfLocked, Shapes
  <2>2. CASE d # c
    <3>1. Owns(d, q)' <=> Owns(d, q)
      BY Zenon, <1>1, <2>2 DEF Owns, Shapes
    <3> QED  BY <1>1, <2>2, <3>1 DEF LockOwners, Shapes
  <2> QED  BY Zenon, <2>1, <2>2
<1>6. WaitLockOwner'
  BY Zenon, <1>1 DEF WaitLockOwner, Shapes
<1>7. SchedulerLocals' /\ StackExclusive'
  BY Zenon, <1>1, <1>2, <1>3 DEF SchedulerLocals, StackExclusive, Shapes
<1>8. OnCPU'
  BY Zenon, <1>1, <1>3, <1>4 DEF OnCPU, Shapes
<1>9. OffCPU'
  BY <1>1 DEF OffCPU, Shapes
<1>10. Resumption' /\ Children'
  BY <1>1 DEF Resumption, Children, Forking, Shapes
<1> QED  BY Zenon, <1>5, <1>6, <1>7, <1>8, <1>9, <1>10

\* sched() switches to the scheduler, which inherits p->lock.
LEMMA LockSched ==
    ASSUME Shapes, LockDiscipline, NEW c \in CPUs, NEW p \in Procs, sched(c, p)
    PROVE  LockDiscipline'
<1> USE Pointers DEF LockDiscipline
<1>1. /\ stack[c] = p /\ pc[p] = "sched" /\ cproc[c] = p
      /\ stack' = [stack EXCEPT ![c] = Null]
      /\ pc' = [pc EXCEPT ![p] = "resume"]
      /\ UNCHANGED <<state, plock, wlock, cproc, scan, cont, np>>
  BY Zenon DEF sched, At, Goto, table, locks, locals, SchedulerLocals
<1>2. /\ \A d \in CPUs : stack[d] = p => d = c
      /\ state[p] # "RUNNING"
  BY <1>1 DEF StackExclusive, OnCPU
<1>3. LockOwners'
  <2> SUFFICES ASSUME NEW d \in CPUs, NEW q \in Procs
               PROVE  Owns(d, q)' <=> Owns(d, q)
    BY Zenon, <1>1 DEF LockOwners
  <2>1. stack[d] \in Procs \cup {Null}
    BY Zenon DEF Shapes
  <2>2. CASE d = c
    BY Zenon, <1>1, <2>2 DEF Owns, SelfLocked, Shapes
  <2>3. CASE d # c
    BY Zenon, <1>1, <1>2, <2>1, <2>3 DEF Owns, Shapes
  <2> QED  BY Zenon, <2>2, <2>3
<1>4. WaitLockOwner'
  BY Zenon, <1>1, <1>2 DEF WaitLockOwner, WaitLocked, Shapes
<1>5. SchedulerLocals' /\ StackExclusive'
  BY Zenon, <1>1 DEF SchedulerLocals, StackExclusive, Shapes
<1>6. OnCPU'
  BY <1>1, <1>2 DEF OnCPU, Shapes
<1>7. OffCPU'
  BY Zenon, <1>1, <1>2 DEF OffCPU, Shapes
<1>8. Resumption' /\ Children'
  BY <1>1 DEF Resumption, Children, Forking, Shapes
<1> QED  BY Zenon, <1>3, <1>4, <1>5, <1>6, <1>7, <1>8

\* The thread comes back from swtch() and releases p->lock.
LEMMA LockResume ==
    ASSUME Shapes, LockDiscipline, NEW c \in CPUs, NEW p \in Procs, resume(c, p)
    PROVE  LockDiscipline'
<1>1. /\ stack[c] = p /\ pc[p] = "resume"
      /\ plock' = [plock EXCEPT ![p] = Null]
      /\ pc' = [pc EXCEPT ![p] = cont[p]]
      /\ cont' = [cont EXCEPT ![p] = "user"]
      /\ UNCHANGED <<state, wlock, cpus, np>>
  BY Zenon DEF resume, At, Goto, locals
<1>2. plock[p] = c /\ state[p] = "RUNNING" /\ cont[p] \in Preemptible \cup {"dead"}
  BY Zenon, <1>1 DEF LockDiscipline, LockOwners, Owns, SelfLocked, OnCPU, Resumption
<1>3. pc'[p] = cont[p] /\ cont'[p] = "user" /\ plock'[p] = Null
  BY Zenon, <1>1 DEF Shapes
<1>4. pc'[p] \notin SelfLocked \cup {"fork_fill"} /\ (Forking(p)' => Forking(p))
  BY Zenon, <1>1, <1>2, <1>3 DEF Preemptible, SelfLocked, Forking
<1>5. pc[p] \notin WaitLocked
  BY Zenon, <1>1 DEF WaitLocked
<1>6. \A q \in Procs : q # p =>
         /\ pc'[q] = pc[q] /\ cont'[q] = cont[q] /\ np'[q] = np[q]
         /\ state'[q] = state[q] /\ plock'[q] = plock[q]
  BY Zenon, <1>1 DEF Shapes
<1> QED
  BY <1>1, <1>2, <1>3, <1>4, <1>5, <1>6, OwnStep DEF Preemptible, SelfLocked

\* A timer interrupt: yield() takes p->lock and keeps it into sched().
LEMMA LockTimer ==
    ASSUME Shapes, LockDiscipline, NEW c \in CPUs, NEW p \in Procs, timer(c, p)
    PROVE  LockDiscipline'
<1>1. /\ stack[c] = p /\ pc[p] \in Preemptible /\ plock[p] = Null
      /\ UNCHANGED <<wlock, cpus, np>>
  BY Zenon DEF timer, free, locals
<1>2. CASE pc[p] = "user" /\ killed[p]
  <2>1. pc' = [pc EXCEPT ![p] = "exit_lock"] /\ UNCHANGED <<plock, state, cont>>
    BY Zenon, <1>2 DEF timer, Goto
  <2>2. pc'[p] = "exit_lock" /\ \A q \in Procs : q # p => pc'[q] = pc[q]
    BY Zenon, <2>1 DEF Shapes
  <2> QED  BY <1>1, <1>2, <2>1, <2>2, PlainStep DEF Plain, WaitLocked
<1>3. CASE ~(pc[p] = "user" /\ killed[p])
  <2>1. /\ plock' = [plock EXCEPT ![p] = c]
        /\ state' = [state EXCEPT ![p] = "RUNNABLE"]
        /\ cont' = [cont EXCEPT ![p] = pc[p]]
        /\ pc' = [pc EXCEPT ![p] = "sched"]
    BY Zenon, <1>3 DEF timer, yield, Goto
  <2>2. /\ plock'[p] = c /\ state'[p] = "RUNNABLE" /\ cont'[p] = pc[p] /\ pc'[p] = "sched"
        /\ \A q \in Procs : q # p => pc'[q] = pc[q] /\ cont'[q] = cont[q]
                                    /\ np'[q] = np[q]
                                    /\ state'[q] = state[q] /\ plock'[q] = plock[q]
    BY Zenon, <1>1, <2>1 DEF Shapes
  <2>3. Forking(p)' => Forking(p)
    BY Zenon, <1>1, <2>2 DEF Forking
  <2>4. pc[p] \notin WaitLocked \cup {"fork_fill"} /\ pc'[p] \in SelfLocked
    BY Zenon, <1>1, <2>2 DEF Preemptible, WaitLocked, SelfLocked
  <2> QED  BY Zenon, <1>1, <2>2, <2>3, <2>4, OwnStep
<1> QED  BY Zenon, <1>2, <1>3

\* System calls and the return from them.
LEMMA LockUser ==
    ASSUME Shapes, LockDiscipline, NEW c \in CPUs, NEW p \in Procs,
           User(c, p) \/ usertrap_ret(c, p)
    PROVE  LockDiscipline'
<1>1. ASSUME NEW call \in {"fork", "wait_lock", "exit_lock"}, syscall(c, p, call)
      PROVE  LockDiscipline'
  <2>1. /\ stack[c] = p /\ pc[p] = "user" /\ pc' = [pc EXCEPT ![p] = call]
        /\ UNCHANGED <<state, plock, wlock, cpus, cont, np>>
    BY Zenon, <1>1 DEF syscall, At, Goto, table, locks
  <2>2. pc'[p] = call /\ \A q \in Procs : q # p => pc'[q] = pc[q]
    BY Zenon, <2>1 DEF Shapes
  <2>3. pc[p] \in Plain /\ pc'[p] \in Plain /\ pc[p] \notin WaitLocked
    BY Zenon, <2>1, <2>2 DEF Plain, WaitLocked
  <2> QED  BY <2>1, <2>2, <2>3, PlainStep
<1>2. ASSUME NEW t \in Procs, kill(c, p, t)
      PROVE  LockDiscipline'
  <2>1. /\ stack[c] = p /\ pc[p] = "user" /\ pc' = [pc EXCEPT ![p] = "ret"]
        /\ np' = [np EXCEPT ![p] = 1]
        /\ state' = [state EXCEPT ![t] = IF @ = "SLEEPING" THEN "RUNNABLE" ELSE @]
        /\ UNCHANGED <<plock, wlock, cpus, cont>>
    BY Zenon, <1>2 DEF kill, At, Return, Goto, Fresh, locks
  <2>2. pc'[p] = "ret" /\ \A q \in Procs : q # p => pc'[q] = pc[q] /\ np'[q] = np[q]
    BY Zenon, <2>1 DEF Shapes
  <2>3. \A q \in Procs : \/ state'[q] = state[q]
                         \/ state[q] = "SLEEPING" /\ state'[q] = "RUNNABLE"
    BY Zenon, <2>1 DEF Shapes
  <2>4. pc[p] \in Plain /\ pc'[p] \in Plain /\ pc[p] \notin WaitLocked
    BY Zenon, <2>1, <2>2 DEF Plain, WaitLocked
  <2> QED  BY <2>1, <2>2, <2>3, <2>4, PlainStep
<1>3. CASE usertrap_ret(c, p)
  <2>1. /\ stack[c] = p /\ pc[p] = "ret"
        /\ pc' = [pc EXCEPT ![p] = IF killed[p] THEN "exit_lock" ELSE "user"]
        /\ UNCHANGED <<state, plock, wlock, cpus, cont, np>>
    BY Zenon, <1>3 DEF usertrap_ret, At, Goto, table, locks, locals
  <2>2. pc'[p] \in {"exit_lock", "user"} /\ \A q \in Procs : q # p => pc'[q] = pc[q]
    BY Zenon, <2>1 DEF Shapes
  <2>3. pc[p] \in Plain /\ pc'[p] \in Plain /\ pc[p] \notin WaitLocked
    BY Zenon, <2>1, <2>2 DEF Plain, WaitLocked
  <2> QED  BY <2>1, <2>2, <2>3, PlainStep
<1> QED  BY Zenon, <1>1, <1>2, <1>3 DEF User

\* sleep(): p->lock is taken before wait_lock is released, and kept into sched().
LEMMA LockSleep ==
    ASSUME Shapes, LockDiscipline, NEW c \in CPUs, NEW p \in Procs,
           sleep_acquire(c, p) \/ sleep_release(c, p) \/ sleep_set(c, p)
    PROVE  LockDiscipline'
<1>1. stack[c] = p /\ UNCHANGED <<cpus, np>>
  BY Zenon DEF sleep_acquire, sleep_release, sleep_set, At, locals
<1>2. /\ \A q \in Procs : q # p => /\ pc'[q] = pc[q] /\ cont'[q] = cont[q] /\ np'[q] = np[q]
                                  /\ state'[q] = state[q] /\ plock'[q] = plock[q]
  BY Zenon, <1>1 DEF sleep_acquire, sleep_release, sleep_set, Goto, table, locks, Shapes
<1>3. CASE sleep_acquire(c, p)
  <2>1. /\ pc[p] = "sleep" /\ pc'[p] = "sleep_lk" /\ plock[p] = Null /\ plock'[p] = c
        /\ UNCHANGED <<state, wlock, cont>>
    BY Zenon, <1>3 DEF sleep_acquire, At, Goto, free, table, Shapes
  <2>2. pc'[p] \in WaitLocked /\ pc'[p] \in SelfLocked /\ ~Forking(p)'
    BY Zenon, <2>1 DEF WaitLocked, SelfLocked, Forking
  <2>3. state[p] = "RUNNING" /\ cont[p] \in Preemptible \cup {"dead"}
    BY Zenon, <1>1, <2>1 DEF LockDiscipline, OnCPU, Resumption
  <2> QED  BY Zenon, <1>1, <1>2, <2>1, <2>2, <2>3, OwnStep
<1>4. CASE sleep_release(c, p)
  <2>1. /\ pc[p] = "sleep_lk" /\ pc'[p] = "sleep_set" /\ wlock' = Null
        /\ UNCHANGED <<state, plock, cont>>
    BY Zenon, <1>4 DEF sleep_release, At, Goto, table, Shapes
  <2>2. pc'[p] \in SelfLocked /\ ~Forking(p)'
    BY Zenon, <2>1 DEF SelfLocked, Forking
  <2>3. plock[p] = c /\ state[p] = "RUNNING" /\ cont[p] \in Preemptible \cup {"dead"}
    BY <1>1, <2>1 DEF LockDiscipline, LockOwners, Owns, SelfLocked, OnCPU, Resumption
  <2> QED  BY Zenon, <1>1, <1>2, <2>1, <2>2, <2>3, OwnStep
<1>5. CASE sleep_set(c, p)
  <2>1. /\ pc[p] = "sleep_set" /\ pc'[p] = "sched" /\ state'[p] = "SLEEPING"
        /\ cont'[p] = "wait_lock" /\ UNCHANGED <<plock, wlock>>
    BY Zenon, <1>5 DEF sleep_set, At, Goto, locks, Shapes
  <2>2. pc[p] \notin WaitLocked /\ pc'[p] \in SelfLocked /\ ~Forking(p)'
    BY Zenon, <2>1 DEF SelfLocked, WaitLocked, Forking
  <2>3. plock[p] = c
    BY Zenon, <1>1, <2>1 DEF LockDiscipline, LockOwners, Owns, SelfLocked
  <2> QED  BY Zenon, <1>1, <1>2, <2>1, <2>2, <2>3, OwnStep DEF Preemptible
<1> QED  BY Zenon, <1>3, <1>4, <1>5

-----------------------------------------------------------------------------

\* exit(): wait_lock is held up to exit_unlock(), p->lock from there into sched().
LEMMA LockExit ==
    ASSUME TypeOK, Shapes, LockDiscipline, NEW c \in CPUs, NEW p \in Procs,
           \/ exit_lock(c, p) \/ reparent(c, p) \/ wakeup(c, p)
           \/ exit_zombie(c, p) \/ exit_unlock(c, p)
    PROVE  LockDiscipline'
<1>1. stack[c] = p /\ UNCHANGED cpus
  BY Zenon DEF exit_lock, reparent, wakeup, exit_zombie, exit_unlock, At
<1>2. CASE exit_lock(c, p)
  <2>1. /\ pc[p] = "exit_lock" /\ pc' = [pc EXCEPT ![p] = "exit_reparent"] /\ wlock' = c
        /\ UNCHANGED <<state, plock, cont, np>>
    BY Zenon, <1>2 DEF exit_lock, At, Goto, table
  <2>2. pc'[p] = "exit_reparent" /\ \A q \in Procs : q # p => pc'[q] = pc[q]
    BY Zenon, <2>1 DEF Shapes
  <2>3. pc[p] \in Plain /\ pc'[p] \in Plain /\ pc'[p] \in WaitLocked
    BY Zenon, <2>1, <2>2 DEF Plain, WaitLocked
  <2> QED  BY <1>1, <2>1, <2>2, <2>3, PlainStep
<1>3. CASE reparent(c, p)
  <2>1. pc[p] = "exit_reparent" /\ UNCHANGED <<state, plock, wlock, cont, np>>
    BY Zenon, <1>3 DEF reparent, At, locks
  <2>2. pc' = pc \/ pc' = [pc EXCEPT ![p] = "wakeup"]
    BY Zenon, <1>3 DEF reparent, CallWakeup, Goto
  <2>3. /\ pc'[p] \in {"exit_reparent", "wakeup"}
        /\ \A q \in Procs : q # p => pc'[q] = pc[q]
    BY Zenon, <2>1, <2>2 DEF Shapes
  <2>4. pc[p] \in Plain /\ pc'[p] \in Plain /\ pc'[p] \in WaitLocked
    BY Zenon, <2>1, <2>3 DEF Plain, WaitLocked
  <2> QED  BY Zenon, <1>1, <2>1, <2>3, <2>4, PlainStep
<1>4. CASE wakeup(c, p)
  <2>1. pc[p] = "wakeup" /\ UNCHANGED <<plock, wlock, cont, np>>
    BY Zenon, <1>4 DEF wakeup, At, locks
  <2>2. /\ pc'[p] \in {"exit_reparent", "exit_zombie", "wakeup"}
        /\ \A q \in Procs : q # p => pc'[q] = pc[q]
    <3>1. pc' = pc \/ pc' = [pc EXCEPT ![p] = wk[p].ret]
      BY Zenon, <1>4 DEF wakeup, Goto
    <3>2. wk[p].ret \in {"exit_reparent", "exit_zombie"}
      BY Zenon, WakeupRecords DEF TypeOK
    <3> QED  BY Zenon, <2>1, <3>1, <3>2 DEF Shapes
  <2>3. \A q \in Procs : \/ state'[q] = state[q]
                         \/ state[q] = "SLEEPING" /\ state'[q] = "RUNNABLE"
    BY Zenon, <1>4 DEF wakeup, Shapes
  <2>4. pc[p] \in Plain /\ pc'[p] \in Plain /\ pc'[p] \in WaitLocked
    BY Zenon, <2>1, <2>2 DEF Plain, WaitLocked
  <2> QED  BY Zenon, <1>1, <2>1, <2>2, <2>3, <2>4, PlainStep
<1>5. CASE exit_zombie(c, p)
  <2>1. /\ pc[p] = "exit_zombie" /\ pc'[p] = "exit_unlock"
        /\ plock[p] = Null /\ plock'[p] = c /\ state'[p] = "ZOMBIE"
        /\ UNCHANGED <<wlock, cont>>
    BY Zenon, <1>5 DEF exit_zombie, At, Goto, free, Shapes
  <2>2. \A q \in Procs : q # p => /\ pc'[q] = pc[q] /\ cont'[q] = cont[q] /\ np'[q] = np[q]
                                 /\ state'[q] = state[q] /\ plock'[q] = plock[q]
    BY Zenon, <1>5 DEF exit_zombie, Goto, Fresh, Shapes
  <2>3. pc'[p] \in SelfLocked /\ pc'[p] \in WaitLocked /\ ~Forking(p)'
    BY Zenon, <2>1 DEF SelfLocked, WaitLocked, Forking
  <2>4. cont[p] \in Preemptible \cup {"dead"}
    BY Zenon DEF LockDiscipline, Resumption
  <2> QED  BY Zenon, <1>1, <2>1, <2>2, <2>3, <2>4, OwnStep
<1>6. CASE exit_unlock(c, p)
  <2>1. /\ pc[p] = "exit_unlock" /\ pc'[p] = "sched" /\ cont'[p] = "dead" /\ wlock' = Null
        /\ UNCHANGED <<state, plock, np>>
    BY Zenon, <1>6 DEF exit_unlock, At, Goto, table, locals, Shapes
  <2>2. \A q \in Procs : q # p => pc'[q] = pc[q] /\ cont'[q] = cont[q]
    BY Zenon, <1>6 DEF exit_unlock, Goto, Shapes
  <2>3. pc'[p] \in SelfLocked /\ ~Forking(p)'
    BY Zenon, <2>1 DEF SelfLocked, Forking
  <2>4. plock[p] = c /\ state[p] = "ZOMBIE"
    BY Zenon, <1>1, <2>1 DEF LockDiscipline, LockOwners, Owns, SelfLocked, OnCPU
  <2> QED  BY Zenon, <1>1, <2>1, <2>2, <2>3, <2>4, OwnStep
<1> QED  BY Zenon, <1>2, <1>3, <1>4, <1>5, <1>6

\* wait(): the zombie it frees is off its CPU, because its lock is free.
LEMMA LockWait ==
    ASSUME TypeOK, Shapes, LockDiscipline, NEW c \in CPUs, NEW p \in Procs,
           wait_lock(c, p) \/ wait_scan(c, p) \/ wait_reap(c, p) \/ wait_check(c, p)
    PROVE  LockDiscipline'
<1>1. stack[c] = p /\ UNCHANGED <<plock, cpus, cont>>
  BY Zenon DEF wait_lock, wait_scan, wait_reap, wait_check, At, locks
<1>2. \A q \in Procs : q # p => pc'[q] = pc[q] /\ np'[q] = np[q]
  BY DEF wait_lock, wait_scan, wait_reap, wait_check, Goto, Fresh, Return, Shapes
<1>3. CASE wait_lock(c, p)
  <2>1. pc[p] = "wait_lock" /\ pc'[p] = "wait" /\ wlock' = c /\ UNCHANGED state
    BY Zenon, <1>3 DEF wait_lock, At, Goto, table, Shapes
  <2> QED  BY Zenon, <1>1, <1>2, <2>1, PlainStep DEF Plain, WaitLocked
<1>4. CASE wait_scan(c, p)
  <2>1. pc[p] = "wait" /\ pc'[p] \in {"wait", "wait_check"} /\ UNCHANGED <<state, wlock>>
    BY Zenon, <1>4 DEF wait_scan, At, Goto, table, locks, Shapes
  <2> QED  BY Zenon, <1>1, <1>2, <2>1, PlainStep DEF Plain, WaitLocked
<1>5. CASE wait_check(c, p)
  <2>1. /\ pc[p] = "wait_check" /\ UNCHANGED state
        /\ \/ pc'[p] = "ret" /\ wlock' = Null
           \/ pc'[p] = "sleep" /\ wlock' = wlock
    BY Zenon, <1>5 DEF wait_check, At, Goto, table, Shapes
  <2> QED  BY Zenon, <1>1, <1>2, <2>1, PlainStep DEF Plain, WaitLocked
<1>6. CASE wait_reap(c, p)
  <2> DEFINE t == i[p]
  <2>1. /\ pc[p] = "wait" /\ pc'[p] = "ret" /\ wlock' = Null /\ t \in Procs
        /\ plock[t] = Null /\ state[t] = "ZOMBIE"
        /\ state' = [state EXCEPT ![t] = "UNUSED"] \/ state' = state
    BY Zenon, <1>6, SizeAssumption, Constants DEF wait_reap, wait_zombie, freeproc, At, Goto, Return,
       free, table, TypeOK
  <2> HIDE DEF t
  <2>2. CASE state' = state
    BY Zenon, <1>1, <1>2, <2>1, <2>2, PlainStep DEF Plain, WaitLocked
  <2>3. CASE state' = [state EXCEPT ![t] = "UNUSED"]
    <3>1. \A d \in CPUs : stack[d] # t
      BY <2>1, Pointers DEF LockDiscipline, OnCPU, LockOwners, Owns, SelfLocked
    <3>2. t # p /\ cont[t] = "dead"
      BY Zenon, <1>1, <2>1, <3>1 DEF LockDiscipline, OffCPU, Resumption
    <3>3. \A q \in Procs : Forking(q) => np[q] # t
      BY Zenon, <2>1 DEF LockDiscipline, Children
    <3>4. state'[t] = "UNUSED" /\ \A q \in Procs : q # t => state'[q] = state[q]
      BY Zenon, <2>1, <2>3 DEF Shapes
    <3>5. pc[p] \notin SelfLocked /\ pc'[p] \notin SelfLocked /\ ~Forking(p)'
      BY Zenon, <2>1 DEF SelfLocked, Forking
    <3>s. SlotMove(c, p, t)
      BY <1>1, <1>2, <2>1, <3>1, <3>2, <3>3, <3>4, <3>5 DEF SlotMove
    <3> QED  BY Zenon, <3>s, <2>1, SlotStep
  <2> QED  BY Zenon, <2>1, <2>2, <2>3
<1> QED  BY Zenon, <1>3, <1>4, <1>5, <1>6

\* fork(): the child's slot is its own from allocproc() until it is RUNNABLE.
LEMMA LockFork ==
    ASSUME TypeOK, Shapes, LockDiscipline, NEW c \in CPUs, NEW p \in Procs,
           \/ allocproc(c, p) \/ fork_fail(c, p) \/ fork_fill(c, p)
           \/ fork_parent(c, p) \/ fork_run(c, p)
    PROVE  LockDiscipline'
<1>1. stack[c] = p /\ UNCHANGED <<wlock, cpus>>
  BY Zenon DEF allocproc, fork_fail, fork_fill, fork_parent, fork_run, At, locks
<1>2. CASE allocproc(c, p)
  <2>1. pc[p] = "fork" /\ state[p] = "RUNNING" /\ UNCHANGED cont
    BY Zenon, <1>1, <1>2 DEF allocproc, At, LockDiscipline, OnCPU
  <2>2. CASE i[p] > NPROC \/ state[i[p]] # "UNUSED"
    <3>1. UNCHANGED <<state, plock>> /\ pc'[p] \in {"ret", "fork"}
      BY Zenon, <1>2, <2>1, <2>2 DEF allocproc, Return, Goto, Shapes
    <3>2. \A q \in Procs : q # p => pc'[q] = pc[q] /\ np'[q] = np[q]
      BY Zenon, <1>2, <2>2 DEF allocproc, Return, Goto, Fresh, Shapes
    <3> QED  BY Zenon, <1>1, <2>1, <3>1, <3>2, PlainStep DEF Plain, WaitLocked
  <2>3. CASE ~(i[p] > NPROC) /\ state[i[p]] = "UNUSED"
    <3> DEFINE t == i[p]
    <3>1. t \in Procs /\ state[t] = "UNUSED"
      BY Zenon, <2>3, Constants DEF TypeOK
    <3>2. /\ plock[t] = Null
          /\ plock' = [plock EXCEPT ![t] = c]
          /\ state' = [state EXCEPT ![t] = "USED"]
          /\ np' = [np EXCEPT ![p] = t]
          /\ pc' = [pc EXCEPT ![p] = "fork_fill"]
      BY Zenon, <1>2, <2>3 DEF allocproc, Goto, free
    <3> HIDE DEF t
    <3>3. /\ t # p /\ \A d \in CPUs : stack[d] # t
          /\ cont[t] \in {"user", "dead"}
          /\ \A q \in Procs : Forking(q) => np[q] # t
      BY Zenon, <2>1, <3>1 DEF LockDiscipline, OnCPU, Resumption, Children
    <3>4. /\ plock'[t] = c /\ state'[t] = "USED" /\ np'[p] = t /\ pc'[p] = "fork_fill"
          /\ \A q \in Procs : q # p => pc'[q] = pc[q] /\ np'[q] = np[q]
          /\ \A q \in Procs : q # t => state'[q] = state[q] /\ plock'[q] = plock[q]
      BY Zenon, <3>1, <3>2 DEF Shapes
    <3>5. pc[p] \notin SelfLocked \cup WaitLocked /\ pc'[p] \notin SelfLocked
      BY Zenon, <2>1, <3>4 DEF SelfLocked, WaitLocked
    <3>s. SlotMove(c, p, t)
      BY <1>1, <2>1, <3>1, <3>2, <3>3, <3>4, <3>5 DEF SlotMove
    <3> QED  BY Zenon, <3>s, <3>1, SlotStep
  <2> QED  BY Zenon, <2>2, <2>3
<1>3. CASE fork_parent(c, p)
  <2>1. /\ pc[p] = "fork_parent" /\ pc'[p] = "fork_run"
        /\ \A q \in Procs : q # p => pc'[q] = pc[q]
        /\ UNCHANGED <<state, plock, cont, np>>
    BY Zenon, <1>3 DEF fork_parent, At, Goto, locks, locals, Shapes
  <2>2. /\ pc[p] \notin SelfLocked \cup WaitLocked /\ pc'[p] \notin SelfLocked
        /\ Forking(p)
    BY Zenon, <2>1 DEF SelfLocked, WaitLocked, Forking
  <2>3. state[p] = "RUNNING" /\ cont[p] \in Preemptible \cup {"dead"}
    BY Zenon, <1>1, <2>1 DEF LockDiscipline, OnCPU, Resumption
  <2> QED  BY Zenon, <1>1, <2>1, <2>2, <2>3, OwnStep
<1>4. CASE fork_fail(c, p) \/ fork_fill(c, p) \/ fork_run(c, p)
  <2> DEFINE t == np[p]
  <2>1. /\ pc[p] \in {"fork_fill", "fork_run"} /\ t \in Procs
    BY Zenon, <1>4 DEF fork_fail, fork_fill, fork_run, At, Shapes
  <2>2. /\ state[p] = "RUNNING" /\ state[t] = "USED" /\ t # p
        /\ \A d \in CPUs : stack[d] # t
        /\ pc[t] = "resume" /\ cont[t] \in {"user", "dead"}
        /\ \A q \in Procs : q # p /\ Forking(q) => np[q] # t
    <3>1. Forking(p) /\ pc[p] \notin {"sched", "exit_unlock"}
      BY Zenon, <2>1 DEF Forking
    <3>2. state[p] = "RUNNING" /\ state[t] = "USED"
      BY Zenon, <1>1, <2>1, <3>1 DEF LockDiscipline, OnCPU, Children
    <3>3. \A d \in CPUs : stack[d] # t
      BY Zenon, <2>1, <3>2 DEF LockDiscipline, OnCPU
    <3> QED
      BY Zenon, <2>1, <3>1, <3>2, <3>3 DEF LockDiscipline, OffCPU, Resumption, Children
  <2>3. pc[p] \notin SelfLocked \cup WaitLocked
    BY Zenon, <2>1 DEF SelfLocked, WaitLocked
  <2>4. CASE fork_fill(c, p)
    <3>1. /\ pc[p] = "fork_fill" /\ UNCHANGED <<state, np>>
          /\ pc' = [pc EXCEPT ![p] = "fork_parent", ![t] = "resume"]
          /\ cont' = [cont EXCEPT ![t] = "user"]
          /\ plock' = [plock EXCEPT ![t] = Null]
      BY Zenon, <2>4 DEF fork_fill, At, table, locals
    <3> HIDE DEF t
    <3>2. /\ pc'[p] = "fork_parent" /\ cont'[t] = "user" /\ plock'[t] = Null
          /\ \A q \in Procs : q # p => pc'[q] = pc[q]
          /\ \A q \in Procs : q # t => cont'[q] = cont[q] /\ plock'[q] = plock[q]
      BY Zenon, <2>1, <2>2, <3>1 DEF Shapes
    <3>3. pc'[p] \notin SelfLocked /\ np[p] = t
      BY Zenon, <3>2 DEF SelfLocked, t
    <3>4. /\ np'[p] = t /\ state'[t] = "USED"
          /\ \A q \in Procs : np'[q] = np[q] /\ state'[q] = state[q]
      BY Zenon, <2>2, <3>1, <3>3
    <3>5. pc[p] = "fork_fill" /\ pc'[p] # "fork_fill"
      BY Zenon, <3>1, <3>2
    <3>s. SlotMove(c, p, t)
      BY <1>1, <2>1, <2>2, <2>3, <3>2, <3>3, <3>4, <3>5 DEF SlotMove
    <3> QED  BY Zenon, <3>s, <2>1, SlotStep
  <2>5. CASE fork_fail(c, p) \/ fork_run(c, p)
    <3>1. /\ pc' = [pc EXCEPT ![p] = "ret"] /\ np' = [np EXCEPT ![p] = 1] /\ UNCHANGED cont
          /\ \/ /\ pc[p] = "fork_fill" /\ plock' = [plock EXCEPT ![t] = Null]
                /\ state' = [state EXCEPT ![t] = "UNUSED"]
             \/ /\ pc[p] = "fork_run" /\ plock' = plock
                /\ state' = [state EXCEPT ![t] = "RUNNABLE"]
      BY Zenon, <2>5 DEF fork_fail, fork_run, freeproc, At, Return, Goto, Fresh, locks
    <3> HIDE DEF t
    <3>2. /\ pc'[p] = "ret" /\ state'[t] \in {"UNUSED", "RUNNABLE"}
          /\ pc[p] = "fork_fill" => plock'[t] = Null
          /\ pc[p] # "fork_fill" => plock'[t] = plock[t]
          /\ \A q \in Procs : q # p => pc'[q] = pc[q] /\ np'[q] = np[q]
          /\ \A q \in Procs : q # t => state'[q] = state[q] /\ plock'[q] = plock[q]
      BY Zenon, <2>1, <3>1 DEF Shapes
    <3>3. pc'[p] \notin SelfLocked /\ ~Forking(p)' /\ np[p] = t
      BY Zenon, <3>2 DEF SelfLocked, Forking, t
    <3>s. SlotMove(c, p, t)
      BY <1>1, <2>1, <2>2, <2>3, <3>1, <3>2, <3>3 DEF SlotMove
    <3> QED  BY Zenon, <3>s, <2>1, SlotStep
  <2> QED  BY Zenon, <1>4, <2>4, <2>5
<1> QED  BY Zenon, <1>2, <1>3, <1>4

\* Every step keeps the locking discipline.
LEMMA LockNext == TypeOK /\ LockDiscipline /\ [Next]_vars => LockDiscipline'
<1> SUFFICES ASSUME TypeOK, LockDiscipline, [Next]_vars PROVE LockDiscipline'
  OBVIOUS
<1>1. Shapes
  BY Zenon DEF TypeOK, Shapes
<1>2. CASE Next
  <2>1. PICK c \in CPUs :
            \/ scheduler_look(c) \/ scheduler_back(c)
            \/ \E p \in Procs : Switch(c, p) \/ Kernel(c, p) \/ User(c, p) \/ timer(c, p)
    BY Zenon, <1>2 DEF Next
  <2>2. CASE scheduler_look(c) \/ scheduler_back(c)
    BY Zenon, <1>1, <2>2, LockSchedulerLoop, LockDispatch
  <2>3. ASSUME NEW p \in Procs, Switch(c, p) \/ Kernel(c, p) \/ User(c, p) \/ timer(c, p)
        PROVE  LockDiscipline'
    BY Zenon, <1>1, <2>3, LockSched, LockResume, LockTimer, LockUser, LockSleep, LockExit, LockWait,
       LockFork DEF Switch, Kernel
  <2> QED  BY Zenon, <2>1, <2>2, <2>3
<1>3. CASE UNCHANGED vars
  BY <1>3 DEF vars, table, locks, cpus, locals, LockDiscipline, LockOwners, Owns, WaitLockOwner,
     SchedulerLocals, StackExclusive, OnCPU, OffCPU, Resumption, Children, Forking
<1> QED  BY Zenon, <1>2, <1>3

\* p->lock and wait_lock are held exactly in the sections of proc.c under them,
\* across swtch() and from one CPU's thread to its scheduler.
THEOREM LockSafety == Spec => []LockDiscipline
BY TypeInit, TypeNext, LockInit, LockNext, PTL DEF Spec

\* Two CPUs never run on the same kernel stack.
THEOREM StackSafety == Spec => []StackExclusive
<1>1. LockDiscipline => StackExclusive
  BY Zenon DEF LockDiscipline
<1> QED  BY LockSafety, <1>1, PTL

\* A process is RUNNING exactly while it is on a CPU, as seen by whoever takes
\* its lock.
THEOREM RunningSafety == Spec => []RunningOnCPU
<1>1. TypeOK /\ LockDiscipline => RunningOnCPU
  <2> SUFFICES ASSUME TypeOK, LockDiscipline, NEW p \in Procs
               PROVE  /\ state[p] = "RUNNING" => \E c \in CPUs : stack[c] = p /\ cproc[c] = p
                      /\ \A c \in CPUs : stack[c] = p /\ free(plock[p]) => state[p] = "RUNNING"
    BY Zenon DEF RunningOnCPU
  <2>1. state[p] = "RUNNING" => \E c \in CPUs : stack[c] = p /\ cproc[c] = p
    BY Zenon, Constants DEF LockDiscipline, OffCPU, SchedulerLocals
  <2>2. ASSUME NEW c \in CPUs, stack[c] = p, free(plock[p])
        PROVE  state[p] = "RUNNING"
    BY <2>2, Constants DEF LockDiscipline, OnCPU, LockOwners, Owns, SelfLocked, free
  <2> QED  BY Zenon, <2>1, <2>2
<1> QED  BY TypeCorrect, LockSafety, <1>1, PTL

\* freeproc() and allocproc() never touch a slot whose kernel stack a CPU uses.
THEOREM FreedSafety == Spec => []FreedOffCPU
<1>1. LockDiscipline => FreedOffCPU
  BY Zenon DEF LockDiscipline, FreedOffCPU, OnCPU
<1> QED  BY LockSafety, <1>1, PTL

\* The panics of sched() ("sched p->lock", "sched locks", "sched running") are
\* unreachable.
THEOREM SchedSafety == Spec => []SchedNoPanic
<1>1. LockDiscipline => SchedNoPanic
  <2> SUFFICES ASSUME LockDiscipline, NEW c \in CPUs, NEW p \in Procs, At(c, p, "sched")
               PROVE  /\ plock[p] = c /\ wlock # c
                      /\ \A q \in Procs \ {p} : plock[q] # c
                      /\ state[p] # "RUNNING"
    BY Zenon DEF SchedNoPanic
  <2> QED
    BY Constants DEF At, LockDiscipline, LockOwners, Owns, SelfLocked, WaitLockOwner, WaitLocked,
       OnCPU
<1> QED  BY LockSafety, <1>1, PTL

\* A CPU that holds a p->lock spins for nothing: the sections under p->lock are
\* those of Owns(), and none of them acquires a lock.
LEMMA HolderGoesOn ==
    ASSUME TypeOK, LockDiscipline, NEW c \in CPUs, NEW p \in Procs, plock[p] = c
    PROVE  SpinsFor(c) = {}
<1>1. Owns(c, p)
  BY DEF LockDiscipline, LockOwners
<1>2. Needs(c) = {}
  BY <1>1, Constants DEF Owns, Needs, SelfLocked
<1>3. ~(stack[c] # Null /\ pc[stack[c]] \in {"fork_parent", "wait_lock", "exit_lock"})
  BY <1>1, Constants DEF Owns, SelfLocked
<1> QED  BY Zenon, <1>2, <1>3 DEF SpinsFor

\* CPUs never spin for each other's locks: the holder of wait_lock spins at most
\* for a p->lock, whose holder spins for nothing.
THEOREM SpinSafety == Spec => []NoSpinCycle
<1>1. TypeOK /\ LockDiscipline => NoSpinCycle
  <2> SUFFICES ASSUME TypeOK, LockDiscipline, NEW c \in CPUs, NEW d \in CPUs, NEW e \in CPUs,
                      d \in SpinsFor(c), e \in SpinsFor(d)
               PROVE  SpinsFor(e) = {}
    BY Zenon DEF NoSpinCycle
  <2>1. ~\E q \in Procs : plock[q] = d
    BY Zenon, HolderGoesOn
  <2>2. \A a \in CPUs : Needs(a) \subseteq Procs
    BY DEF Needs, TypeOK
  <2>3. wlock = d
    BY Zenon, <2>1, <2>2 DEF SpinsFor
  <2>4. pc[stack[d]] \in WaitLocked
    BY Zenon, <2>3, Constants DEF LockDiscipline, WaitLockOwner
  <2>5. \E q \in Needs(d) : plock[q] = e
    BY Zenon, <2>4 DEF SpinsFor, WaitLocked
  <2> QED  BY Zenon, <2>2, <2>5, HolderGoesOn
<1> QED  BY TypeCorrect, LockSafety, <1>1, PTL
=============================================================================
