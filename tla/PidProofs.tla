----------------------------- MODULE PidProofs -----------------------------
(***************************************************************************)
(* For every number of slots and CPUs: if kill() is never called with 0,   *)
(* only a process whose pid was passed to it is killed.                    *)
(***************************************************************************)
EXTENDS Pid, TLAPS

\* the places from where allocproc() has found its slot to the end of fork()
Filling == {"allocpid", "store", "again", "store2", "fill"}

Places == {"idle", "scan", "kill"} \cup Filling

TypeOK ==
    /\ pid \in [Procs -> Int]
    /\ live \in SUBSET Procs /\ locked \in SUBSET Procs
    /\ killed \in SUBSET Procs /\ named \in SUBSET Procs
    /\ pc \in [CPUs -> Places]
    /\ p \in [CPUs -> Nat \ {0}]
    /\ reg \in [CPUs -> Int]
    /\ nextpid \in Int

\* A CPU in fork() is the only one there with its slot, which is in use and locked.
Owners ==
    /\ \A c \in CPUs : pc[c] \in Filling => p[c] \in live \cap locked
    /\ \A c, d \in CPUs : pc[c] \in Filling /\ pc[d] \in Filling /\ p[c] = p[d] => c = d

\* A slot that is not in use has no pid, and whoever is killed was named.
Inv ==
    /\ TypeOK /\ Owners
    /\ \A q \in Procs : q \notin live => pid[q] = 0
    /\ \A c \in CPUs : pc[c] = "kill" => reg[c] # 0
    /\ killed \subseteq named

\* Every step keeps the types.
LEMMA TypesKept ==
    ASSUME TypeOK, [Next]_vars
    PROVE  TypeOK'
<1> USE SizeAssumption DEF TypeOK, Places, Filling
<1>a. ASSUME NEW x, NEW v \in Int
      PROVE  [pid EXCEPT ![x] = v] \in [Procs -> Int]
  OBVIOUS
<1>1. ASSUME NEW c \in CPUs, fork(c)
      PROVE  TypeOK'
  BY <1>1 DEF fork, Goto, table
<1>2. ASSUME NEW c \in CPUs, allocproc(c)
      PROVE  TypeOK'
  <2>1. CASE p[c] > NPROC
    BY <1>2, <2>1 DEF allocproc, Goto
  <2>2. CASE ~(p[c] > NPROC) /\ p[c] \in live
    BY <1>2, <2>2 DEF allocproc
  <2>3. CASE ~(p[c] > NPROC) /\ p[c] \notin live
    <3>1. p[c] \in Procs
      BY <2>3 DEF Procs
    <3> QED  BY <1>2, <2>3, <3>1 DEF allocproc, Goto
  <2> QED  BY <2>1, <2>2, <2>3
<1>3. ASSUME NEW c \in CPUs, allocpid(c) \/ nextpid_load(c)
      PROVE  TypeOK'
  BY <1>3 DEF allocpid, nextpid_load, Goto, table
<1>4. ASSUME NEW c \in CPUs, allocpid_store(c) \/ nextpid_store(c)
      PROVE  TypeOK'
  <2>1. reg[c] \in Int /\ reg[c] + 1 \in Int /\ [pid EXCEPT ![p[c]] = reg[c]] \in [Procs -> Int]
    BY <1>a
  <2>2. CASE allocpid_store(c)
    BY <2>1, <2>2 DEF allocpid_store, Goto
  <2>3. CASE nextpid_store(c)
    BY <2>1, <2>3 DEF nextpid_store, Goto
  <2> QED  BY <1>4, <2>2, <2>3
<1>5. ASSUME NEW c \in CPUs, fork_done(c)
      PROVE  TypeOK'
  BY <1>5 DEF fork_done, Idle, Goto
<1>6. ASSUME NEW c \in CPUs, fork_fail(c)
      PROVE  TypeOK'
  <2>1. pid' \in [Procs -> Int] /\ live' \in SUBSET Procs /\ locked' \in SUBSET Procs
        /\ killed' \in SUBSET Procs /\ named' \in SUBSET Procs /\ nextpid' \in Int
    <3>1. pid' \in [Procs -> Int]
      BY <1>a, <1>6 DEF fork_fail, freeproc
    <3> QED  BY <1>6, <3>1 DEF fork_fail, freeproc
  <2>2. pc' \in [CPUs -> Places] /\ p' \in [CPUs -> Nat \ {0}] /\ reg' \in [CPUs -> Int]
    BY <1>6 DEF fork_fail, Idle, Goto
  <2> QED  BY <2>1, <2>2
<1>7. ASSUME NEW c \in CPUs, kill(c)
      PROVE  TypeOK'
  <2>1. CASE p[c] > NPROC
    BY <1>7, <2>1 DEF kill, Idle, Goto
  <2>2. CASE ~(p[c] > NPROC)
    <3>1. p[c] \in Procs
      BY <2>2 DEF Procs
    <3>2. CASE pid[p[c]] = reg[c]
      BY <1>7, <2>2, <3>1, <3>2 DEF kill, Idle, Goto
    <3>3. CASE pid[p[c]] # reg[c]
      BY <1>7, <2>2, <3>3 DEF kill
    <3> QED  BY <3>2, <3>3
  <2> QED  BY <2>1, <2>2
<1>8. ASSUME NEW c \in CPUs, NEW n \in KillArgs, sys_kill(c, n)
      PROVE  TypeOK'
  BY <1>8 DEF sys_kill, Goto, table
<1>9. ASSUME NEW q \in Procs, reap(q)
      PROVE  TypeOK'
  BY <1>9 DEF reap, freeproc
<1>10. CASE UNCHANGED vars
  BY <1>10 DEF vars, table
<1> QED  BY <1>1, <1>2, <1>3, <1>4, <1>5, <1>6, <1>7, <1>8, <1>9, <1>10 DEF Next

\* A CPU that does not start or end an allocation, with the tables as they are.
LEMMA SameOwners ==
    ASSUME TypeOK, Owners, NEW c \in CPUs, NEW l,
           pc' = [pc EXCEPT ![c] = l], l \in Filling => pc[c] \in Filling /\ p'[c] = p[c],
           \A d \in CPUs : d # c => p'[d] = p[d],
           UNCHANGED <<live, locked>>
    PROVE  Owners'
<1>1. pc'[c] = l /\ \A d \in CPUs : d # c => pc'[d] = pc[d]
  BY DEF TypeOK
<1>2. \A d \in CPUs : pc'[d] \in Filling => pc[d] \in Filling /\ p'[d] = p[d]
  BY <1>1
<1> QED  BY <1>2 DEF Owners

\* A CPU gives up its slot and unlocks it, and may free it.
LEMMA OwnerLeaves ==
    ASSUME TypeOK, Owners, NEW c \in CPUs, pc[c] = "fill", Idle(c),
           locked' = locked \ {p[c]}, live' \in {live, live \ {p[c]}}
    PROVE  Owners'
<1>1. /\ pc'[c] = "idle" /\ pc[c] \in Filling
      /\ \A d \in CPUs : d # c => pc'[d] = pc[d] /\ p'[d] = p[d]
  BY DEF Idle, Goto, TypeOK, Filling
<1>2. \A d \in CPUs : pc'[d] \in Filling => d # c /\ pc[d] \in Filling /\ p[d] # p[c]
  BY <1>1 DEF Owners, Filling
<1> QED  BY <1>1, <1>2 DEF Owners

\* The slot of a CPU in allocproc() and fork() stays its own: kill() and wait() do
\* not touch what is locked, and another allocproc() takes what is not in use.
LEMMA OwnersKept ==
    ASSUME TypeOK, Owners, [Next]_vars
    PROVE  Owners'
<1>1. ASSUME NEW c \in CPUs, fork(c)
      PROVE  Owners'
  BY <1>1, SameOwners DEF fork, Goto, table, TypeOK, Filling
<1>2. ASSUME NEW c \in CPUs, allocproc(c)
      PROVE  Owners'
  <2>1. CASE p[c] > NPROC
    BY <1>2, <2>1, SameOwners DEF allocproc, Goto, TypeOK, Filling
  <2>2. CASE ~(p[c] > NPROC) /\ p[c] \in live
    <3>1. /\ pc[c] = "scan" /\ UNCHANGED <<live, locked, pc>>
          /\ \A d \in CPUs : d # c => p'[d] = p[d]
      BY <1>2, <2>2 DEF allocproc, TypeOK
    <3>2. \A d \in CPUs : pc'[d] \in Filling => d # c
      BY <3>1 DEF Filling
    <3> QED  BY <3>1, <3>2 DEF Owners
  <2>3. CASE ~(p[c] > NPROC) /\ p[c] \notin live
    <3>1. /\ p' = p /\ live' = live \cup {p[c]} /\ locked' = locked \cup {p[c]}
          /\ pc' = [pc EXCEPT ![c] = "allocpid"]
      BY <1>2, <2>3 DEF allocproc, Goto
    <3>2. pc'[c] \in Filling /\ \A d \in CPUs : d # c => pc'[d] = pc[d]
      BY <3>1 DEF TypeOK, Filling
    <3>3. \A d \in CPUs : pc[d] \in Filling => p[d] # p[c]
      BY <2>3 DEF Owners
    <3> QED  BY <3>1, <3>2, <3>3 DEF Owners
  <2> QED  BY <2>1, <2>2, <2>3
<1>3. ASSUME NEW c \in CPUs, allocpid(c) \/ allocpid_store(c) \/ nextpid_load(c) \/ nextpid_store(c)
      PROVE  Owners'
  <2>1. /\ pc[c] \in Filling /\ UNCHANGED <<p, live, locked>>
        /\ \E l \in Filling : pc' = [pc EXCEPT ![c] = l]
    BY <1>3 DEF allocpid, allocpid_store, nextpid_load, nextpid_store, Goto, table, Filling
  <2> QED  BY <2>1, SameOwners
<1>4. ASSUME NEW c \in CPUs, fork_done(c) \/ fork_fail(c)
      PROVE  Owners'
  BY <1>4, OwnerLeaves DEF fork_done, fork_fail, freeproc
<1>5. ASSUME NEW c \in CPUs, kill(c)
      PROVE  Owners'
  <2>1. pc[c] = "kill" /\ UNCHANGED <<live, locked>> /\ \A d \in CPUs : d # c => p'[d] = p[d]
    BY <1>5 DEF kill, Idle, TypeOK
  <2>2. pc' = pc \/ pc' = [pc EXCEPT ![c] = "idle"]
    BY <1>5 DEF kill, Idle, Goto
  <2>3. \A d \in CPUs : pc'[d] \in Filling => d # c /\ pc[d] \in Filling
    BY <2>1, <2>2 DEF TypeOK, Filling
  <2> QED  BY <2>1, <2>3 DEF Owners
<1>6. ASSUME NEW c \in CPUs, NEW n \in KillArgs, sys_kill(c, n)
      PROVE  Owners'
  BY <1>6, SameOwners DEF sys_kill, Goto, table, TypeOK, Filling
<1>7. ASSUME NEW q \in Procs, reap(q)
      PROVE  Owners'
  BY <1>7 DEF reap, freeproc, Owners
<1>8. CASE UNCHANGED vars
  BY <1>8 DEF vars, table, Owners
<1> QED  BY <1>1, <1>2, <1>3, <1>4, <1>5, <1>6, <1>7, <1>8 DEF Next

\* A process is killed only if its pid was passed to kill(): freeproc() resets
\* p->killed and p->pid, and a slot keeps pid 0 until allocproc() has it locked.  The
\* hypothesis is needed: kill(0) finds a slot that is not in use.
THEOREM KillSafety ==
    ASSUME 0 \notin KillArgs
    PROVE  Spec => []KilledWasNamed
<1>1. ASSUME Init
      PROVE  Inv
  <2>1. TypeOK
    BY <1>1 DEF Init, TypeOK, Places
  <2>2. Owners
    BY <1>1 DEF Init, Owners, Filling
  <2> QED  BY <1>1, <2>1, <2>2 DEF Init, Inv
<1>2. ASSUME Inv, [Next]_vars
      PROVE  Inv'
  <2> USE DEF Inv
  <2>1. TypeOK' /\ Owners'
    BY <1>2, TypesKept, OwnersKept
  <2>2. \A q \in Procs : q \notin live' => pid'[q] = 0
    <3>1. ASSUME NEW c \in CPUs, allocpid_store(c) \/ nextpid_store(c)
          PROVE  \A q \in Procs : q \notin live' => pid'[q] = 0
      <4>1. p[c] \in live /\ live' = live /\ pid' = [pid EXCEPT ![p[c]] = reg[c]]
        BY <1>2, <3>1 DEF allocpid_store, nextpid_store, Owners, Filling
      <4> QED  BY <1>2, <4>1 DEF TypeOK
    <3>2. ASSUME NEW q \in Procs, freeproc(q)
          PROVE  \A r \in Procs : r \notin live' => pid'[r] = 0
      BY <1>2, <3>2 DEF freeproc, TypeOK
    <3>3. ASSUME NEW c \in CPUs, fork_fail(c)
          PROVE  \A r \in Procs : r \notin live' => pid'[r] = 0
      <4>1. p[c] \in Procs
        BY <1>2, <3>3 DEF fork_fail, Owners, Filling, TypeOK
      <4> QED  BY <3>2, <3>3, <4>1 DEF fork_fail
    <3>4. CASE UNCHANGED pid /\ live \subseteq live'
      BY <1>2, <3>4
    <3> QED
      BY <1>2, <3>1, <3>2, <3>3, <3>4
         DEF Next, fork, allocproc, allocpid, nextpid_load, fork_done, kill, sys_kill, reap, vars, table
  <2>3. \A c \in CPUs : pc'[c] = "kill" => reg'[c] # 0
    <3>1. ASSUME NEW c \in CPUs, NEW n \in KillArgs, sys_kill(c, n)
          PROVE  \A d \in CPUs : pc'[d] = "kill" => reg'[d] # 0
      BY <1>2, <3>1 DEF sys_kill, Goto, TypeOK
    <3>2. ASSUME NEW c \in CPUs,
                 \/ fork(c) \/ allocproc(c) \/ allocpid(c) \/ allocpid_store(c) \/ nextpid_load(c)
                 \/ nextpid_store(c) \/ fork_done(c) \/ fork_fail(c) \/ kill(c)
          PROVE  \A d \in CPUs : pc'[d] = "kill" => reg'[d] # 0
      <4>1. \A d \in CPUs : d # c => pc'[d] = pc[d] /\ reg'[d] = reg[d]
        BY <1>2, <3>2
           DEF fork, allocproc, allocpid, allocpid_store, nextpid_load, nextpid_store, fork_done, fork_fail,
               kill, Idle, Goto, TypeOK
      <4>2. pc'[c] = "kill" => pc[c] = "kill" /\ reg'[c] = reg[c]
        BY <1>2, <3>2
           DEF fork, allocproc, allocpid, allocpid_store, nextpid_load, nextpid_store, fork_done, fork_fail,
               kill, Idle, Goto, TypeOK
      <4> QED  BY <1>2, <4>1, <4>2
    <3>3. CASE UNCHANGED <<pc, reg>>
      BY <1>2, <3>3
    <3> QED  BY <1>2, <3>1, <3>2, <3>3 DEF Next, reap, vars
  <2>4. killed' \subseteq named'
    <3>1. ASSUME NEW c \in CPUs, kill(c)
          PROVE  killed' \subseteq named'
      <4>1. CASE UNCHANGED <<killed, named>>
        BY <1>2, <4>1
      <4>2. CASE ~UNCHANGED <<killed, named>>
        <5>1. /\ pc[c] = "kill" /\ ~(p[c] > NPROC) /\ pid[p[c]] = reg[c]
              /\ killed' = killed \cup {p[c]}
              /\ named' = IF p[c] \in live THEN named \cup {p[c]} ELSE named
          BY <3>1, <4>2 DEF kill
        <5>2. p[c] \in Procs
          BY <1>2, <5>1, SizeAssumption DEF TypeOK, Procs
        <5>3. p[c] \in live
          BY <1>2, <5>1, <5>2
        <5> QED  BY <1>2, <5>1, <5>3
      <4> QED  BY <4>1, <4>2
    <3>2. \/ \E c \in CPUs : kill(c)
          \/ UNCHANGED <<killed, named>>
          \/ \E q : killed' = killed \ {q} /\ named' = named \ {q}
      BY <1>2
         DEF Next, fork, allocproc, allocpid, allocpid_store, nextpid_load, nextpid_store, fork_done, fork_fail,
             sys_kill, reap, freeproc, vars, table
    <3> QED  BY <1>2, <3>1, <3>2
  <2> QED  BY <2>1, <2>2, <2>3, <2>4
<1>3. Inv => KilledWasNamed
  BY DEF Inv, KilledWasNamed
<1> QED  BY <1>1, <1>2, <1>3, PTL DEF Spec
=============================================================================
