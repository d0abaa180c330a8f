---------------------------- MODULE ClockProofs ----------------------------
(***************************************************************************)
(* For every number of slots and CPUs and every argument of sleep(): nobody *)
(* oversleeps in sys_sleep(), and waitx() returns sound times.             *)
(***************************************************************************)
EXTENDS Clock, TLAPS

Sizes == NPROC \in Nat \ {0} /\ MaxTicks \in Nat /\ WRAP \in Nat /\ MaxTicks < WRAP

Entry ==
    [state : {"UNUSED", "USED", "RUNNABLE", "RUNNING", "SLEEPING", "ZOMBIE"},
     pc : {"user", "test", "sleep", "woken"}, killed : BOOLEAN,
     ctime : Nat, rtime : Nat, etime : Nat, n : SleepArgs \cup {0}, ticks0 : Nat]

TypeOK ==
    /\ ticks \in Nat /\ ticks <= MaxTicks
    /\ clock \in [at : {"off", "update_time", "wakeup"}, p : Procs]
    /\ proc \in [Procs -> Entry]

\* the test of sys_sleep()'s loop
Early(now, ticks0, n) == (now - ticks0) % WRAP < n % WRAP

\* clockintr() has yet to come to the slot in its loop of that name
Ahead(at, p) == clock.at = at /\ clock.p <= p

\* tickslock is held by clockintr() while it runs, and by a process from the test of
\* sys_sleep()'s loop into sleep(); ticks does not change under the latter.
Sleepers ==
    /\ tickslock = Handler <=> clock.at # "off"
    /\ \A p \in Procs :
        /\ proc[p].pc \in {"test", "sleep"} => tickslock = p /\ proc[p].state = "RUNNING"
        /\ proc[p].pc = "sleep" => Early(ticks, proc[p].ticks0, proc[p].n)
        /\ proc[p].state = "SLEEPING" =>
            \/ Early(ticks, proc[p].ticks0, proc[p].n)
            \/ clock.at = "update_time"
            \/ Ahead("wakeup", p)

\* A process is charged at most once for a tick, counting the one in which it began.
Times ==
    \A p \in Procs :
        /\ proc[p].state \notin {"UNUSED", "ZOMBIE"} =>
            /\ proc[p].ctime <= ticks
            /\ proc[p].rtime <= ticks - proc[p].ctime + 1
            /\ Ahead("update_time", p) => proc[p].rtime <= ticks - proc[p].ctime
        /\ proc[p].state = "ZOMBIE" =>
            /\ proc[p].ctime <= proc[p].etime /\ proc[p].etime <= ticks
            /\ proc[p].rtime <= proc[p].etime - proc[p].ctime + 1

Inv == TypeOK /\ Sleepers /\ Times

-----------------------------------------------------------------------------

\* What a step of one process does to its entry; the others keep theirs.
StepOf(p) ==
    \/ allocproc(p) \/ fork(p) \/ scheduler(p) \/ yield(p) \/ exit(p) \/ waitx(p) \/ kill(p)
    \/ (\E n \in SleepArgs : sys_sleep(p, n))
    \/ sys_sleep_test(p) \/ sleep(p) \/ woken(p)

\* Steps of a process leave ticks and clock alone and change its own entry only.
LEMMA OwnEntry ==
    ASSUME TypeOK, NEW p \in Procs, StepOf(p)
    PROVE  /\ UNCHANGED <<ticks, clock>>
           /\ proc' \in [Procs -> Entry]
           /\ \A q \in Procs : q # p => proc'[q] = proc[q]
<1> DEFINE Own == /\ UNCHANGED <<ticks, clock>>
                  /\ proc' \in [Procs -> Entry]
                  /\ \A q \in Procs : q # p => proc'[q] = proc[q]
<1>0. ASSUME NEW e \in Entry, proc' = [proc EXCEPT ![p] = e], UNCHANGED <<ticks, clock>>
      PROVE  Own
  BY <1>0 DEF TypeOK
<1>e. proc[p] \in Entry /\ ticks \in Nat
  BY DEF TypeOK
<1> SUFFICES Own
  OBVIOUS
<1> HIDE DEF Own
<1>1. CASE allocproc(p)
  <2> DEFINE e == [proc[p] EXCEPT !.state = "USED", !.rtime = 0, !.etime = 0, !.ctime = ticks]
  <2>1. e \in Entry
    BY <1>e DEF Entry
  <2>2. proc' = [proc EXCEPT ![p] = e] /\ UNCHANGED <<ticks, clock>>
    BY <1>1 DEF allocproc, TypeOK
  <2> HIDE DEF e
  <2> QED  BY <2>1, <2>2, <1>0
<1>2. ASSUME NEW s \in {"RUNNABLE", "RUNNING"}, Becomes(p, s), UNCHANGED <<ticks, clock>>
      PROVE  Own
  <2>1. [proc[p] EXCEPT !.state = s] \in Entry
    BY <1>e DEF Entry
  <2>2. proc' = [proc EXCEPT ![p] = [proc[p] EXCEPT !.state = s]]
    BY <1>2 DEF Becomes, TypeOK
  <2> QED  BY <2>1, <2>2, <1>2, <1>0
<1>3. CASE exit(p)
  <2> DEFINE e == [proc[p] EXCEPT !.state = "ZOMBIE", !.etime = ticks]
  <2>1. e \in Entry
    BY <1>e DEF Entry
  <2>2. proc' = [proc EXCEPT ![p] = e] /\ UNCHANGED <<ticks, clock>>
    BY <1>3 DEF exit, TypeOK
  <2> HIDE DEF e
  <2> QED  BY <2>1, <2>2, <1>0
<1>4. CASE waitx(p)
  <2> DEFINE e == [proc[p] EXCEPT !.state = "UNUSED", !.killed = FALSE]
  <2>1. e \in Entry
    BY <1>e DEF Entry
  <2>2. proc' = [proc EXCEPT ![p] = e] /\ UNCHANGED <<ticks, clock>>
    BY <1>4 DEF waitx, TypeOK
  <2> HIDE DEF e
  <2> QED  BY <2>1, <2>2, <1>0
<1>5. CASE kill(p)
  <2> DEFINE s == IF proc[p].state = "SLEEPING" THEN "RUNNABLE" ELSE proc[p].state
             e == [proc[p] EXCEPT !.killed = TRUE, !.state = s]
  <2>1. e \in Entry
    BY <1>e DEF Entry
  <2>2. proc' = [proc EXCEPT ![p] = e] /\ UNCHANGED <<ticks, clock>>
    BY <1>5 DEF kill, TypeOK
  <2> HIDE DEF e
  <2> QED  BY <2>1, <2>2, <1>0
<1>6. ASSUME NEW n \in SleepArgs, sys_sleep(p, n)
      PROVE  Own
  <2> DEFINE e == [proc[p] EXCEPT !.pc = "test", !.n = n, !.ticks0 = ticks]
  <2>1. e \in Entry
    BY <1>e DEF Entry
  <2>2. proc' = [proc EXCEPT ![p] = e] /\ UNCHANGED <<ticks, clock>>
    BY <1>6 DEF sys_sleep, TypeOK
  <2> HIDE DEF e
  <2> QED  BY <2>1, <2>2, <1>0
<1>7. CASE sys_sleep_test(p)
  <2>1. /\ [proc[p] EXCEPT !.pc = "sleep"] \in Entry
        /\ [proc[p] EXCEPT !.pc = "user", !.n = 0, !.ticks0 = 0] \in Entry
    BY <1>e DEF Entry
  <2>2. /\ \/ proc' = [proc EXCEPT ![p] = [proc[p] EXCEPT !.pc = "sleep"]]
           \/ proc' = [proc EXCEPT ![p] = [proc[p] EXCEPT !.pc = "user", !.n = 0, !.ticks0 = 0]]
        /\ UNCHANGED <<ticks, clock>>
    BY <1>7 DEF sys_sleep_test, TypeOK
  <2> QED  BY <2>1, <2>2, <1>0
<1>8. CASE sleep(p)
  <2> DEFINE e == [proc[p] EXCEPT !.pc = "woken", !.state = "SLEEPING"]
  <2>1. e \in Entry
    BY <1>e DEF Entry
  <2>2. proc' = [proc EXCEPT ![p] = e] /\ UNCHANGED <<ticks, clock>>
    BY <1>8 DEF sleep, TypeOK
  <2> HIDE DEF e
  <2> QED  BY <2>1, <2>2, <1>0
<1>9. CASE woken(p)
  <2>1. [proc[p] EXCEPT !.pc = "test"] \in Entry
    BY <1>e DEF Entry
  <2>2. /\ proc' = [proc EXCEPT ![p] = [proc[p] EXCEPT !.pc = "test"]]
        /\ UNCHANGED <<ticks, clock>>
    BY <1>9 DEF woken, TypeOK
  <2> QED  BY <2>1, <2>2, <1>0
<1>10. CASE fork(p) \/ scheduler(p) \/ yield(p)
  BY <1>2, <1>10 DEF fork, scheduler, yield
<1> QED  BY <1>1, <1>3, <1>4, <1>5, <1>6, <1>7, <1>8, <1>9, <1>10 DEF StepOf

\* The entries change by charging a process or waking it.
LEMMA HandlerTypes ==
    ASSUME Sizes, TypeOK, clockintr \/ update_time \/ wakeup
    PROVE  TypeOK'
<1> USE DEF Sizes, TypeOK
<1>1. CASE clockintr
  BY <1>1 DEF clockintr, Procs
<1>2. CASE update_time
  <2>1. proc' \in [Procs -> Entry]
    <3> DEFINE e == [proc[clock.p] EXCEPT !.rtime = @ + 1]
    <3>1. proc[clock.p] \in Entry
      OBVIOUS
    <3>2. e \in Entry
      BY <3>1 DEF Entry
    <3>3. proc' = proc \/ proc' = [proc EXCEPT ![clock.p] = e]
      BY <1>2 DEF update_time
    <3> HIDE DEF e
    <3> QED  BY <3>2, <3>3
  <2>2. clock' \in [at : {"off", "update_time", "wakeup"}, p : Procs]
    BY <1>2 DEF update_time, Onward, Procs
  <2> QED  BY <1>2, <2>1, <2>2 DEF update_time
<1>3. CASE wakeup
  <2>1. proc' \in [Procs -> Entry]
    <3> DEFINE e == [proc[clock.p] EXCEPT !.state = "RUNNABLE"]
    <3>1. proc[clock.p] \in Entry
      OBVIOUS
    <3>2. e \in Entry
      BY <3>1 DEF Entry
    <3>3. proc' = proc \/ proc' = [proc EXCEPT ![clock.p] = e]
      BY <1>3 DEF wakeup
    <3> HIDE DEF e
    <3> QED  BY <3>2, <3>3
  <2>2. clock' \in [at : {"off", "update_time", "wakeup"}, p : Procs]
    BY <1>3 DEF wakeup, Onward, Off, Procs
  <2> QED  BY <1>3, <2>1, <2>2 DEF wakeup
<1> QED  BY <1>1, <1>2, <1>3

\* A step of a process keeps Sleepers if it does so for its own entry and for the lock.
LEMMA SleepersStep ==
    ASSUME TypeOK, Sleepers, NEW p \in Procs, StepOf(p), Sizes,
           tickslock' = tickslock \/ {tickslock, tickslock'} = {0, p},
           proc'[p].pc \in {"test", "sleep"} => tickslock' = p /\ proc'[p].state = "RUNNING",
           proc'[p].pc = "sleep" => Early(ticks, proc'[p].ticks0, proc'[p].n),
           proc'[p].state = "SLEEPING" => \/ Early(ticks, proc'[p].ticks0, proc'[p].n)
                                          \/ clock.at = "update_time"
                                          \/ Ahead("wakeup", p)
    PROVE  Sleepers'
<1>1. /\ UNCHANGED <<ticks, clock>> /\ \A q \in Procs : q # p => proc'[q] = proc[q]
  BY OwnEntry
<1>2. p # Handler /\ 0 # Handler /\ \A q \in Procs : q # 0
  BY DEF Handler, Procs, Sizes
<1>3. tickslock' = Handler <=> clock'.at # "off"
  BY <1>1, <1>2 DEF Sleepers
<1>4. ASSUME NEW q \in Procs, q # p
      PROVE  /\ proc'[q].pc \in {"test", "sleep"} => tickslock' = q /\ proc'[q].state = "RUNNING"
             /\ proc'[q].pc = "sleep" => Early(ticks', proc'[q].ticks0, proc'[q].n)
             /\ proc'[q].state = "SLEEPING" =>
                  \/ Early(ticks', proc'[q].ticks0, proc'[q].n)
                  \/ clock'.at = "update_time"
                  \/ Ahead("wakeup", q)'
  <2>1. tickslock = q => tickslock' = q
    BY <1>2, <1>4
  <2> QED  BY <1>1, <1>4, <2>1 DEF Sleepers, Ahead
<1> QED  BY <1>1, <1>3, <1>4 DEF Sleepers, Ahead

\* Every step of a process keeps Sleepers.
LEMMA SleepersProc ==
    ASSUME Sizes, TypeOK, Sleepers, NEW p \in Procs, StepOf(p)
    PROVE  Sleepers'
<1> USE DEF TypeOK, Entry
<1>0. /\ p # 0
      /\ proc[p].pc \in {"test", "sleep"} => tickslock = p /\ proc[p].state = "RUNNING"
      /\ proc[p].pc = "sleep" => Early(ticks, proc[p].ticks0, proc[p].n)
      /\ proc[p].state = "SLEEPING" => \/ Early(ticks, proc[p].ticks0, proc[p].n)
                                       \/ clock.at = "update_time"
                                       \/ Ahead("wakeup", p)
  BY DEF Sleepers, Procs
<1>1. CASE allocproc(p)
  <2>1. /\ proc'[p].pc = proc[p].pc /\ proc[p].state = "UNUSED" /\ proc'[p].state = "USED"
        /\ tickslock' = tickslock
    BY <1>1 DEF allocproc
  <2> QED  BY <1>0, <2>1, SleepersStep
<1>2. CASE fork(p) \/ scheduler(p) \/ yield(p)
  <2>1. /\ proc'[p].pc = proc[p].pc /\ proc'[p].state # "SLEEPING" /\ tickslock' = tickslock
        /\ proc[p].state = "RUNNING" => tickslock # p
    BY <1>2 DEF fork, scheduler, yield, Becomes
  <2> QED  BY <1>0, <2>1, SleepersStep
<1>3. CASE exit(p)
  <2>1. proc'[p].pc = "user" /\ proc'[p].state = "ZOMBIE" /\ tickslock' = tickslock
    BY <1>3 DEF exit
  <2> QED  BY <2>1, SleepersStep
<1>4. CASE waitx(p)
  <2>1. /\ proc'[p].pc = proc[p].pc /\ proc[p].state = "ZOMBIE" /\ proc'[p].state = "UNUSED"
        /\ tickslock' = tickslock
    BY <1>4 DEF waitx
  <2> QED  BY <1>0, <2>1, SleepersStep
<1>5. CASE kill(p)
  <2>1. /\ proc'[p].pc = proc[p].pc /\ proc'[p].ticks0 = proc[p].ticks0 /\ proc'[p].n = proc[p].n
        /\ proc'[p].state = IF proc[p].state = "SLEEPING" THEN "RUNNABLE" ELSE proc[p].state
        /\ tickslock' = tickslock
    BY <1>5 DEF kill
  <2> QED  BY <1>0, <2>1, SleepersStep
<1>6. ASSUME NEW n \in SleepArgs, sys_sleep(p, n)
      PROVE  Sleepers'
  <2>1. /\ proc'[p].pc = "test" /\ proc'[p].state = "RUNNING"
        /\ tickslock = 0 /\ tickslock' = p
    BY <1>6 DEF sys_sleep, Running
  <2> QED  BY <2>1, SleepersStep
<1>7. CASE sys_sleep_test(p)
  <2>1. /\ proc[p].state = "RUNNING" /\ proc'[p].state = "RUNNING" /\ tickslock = p
    BY <1>7 DEF sys_sleep_test, Running
  <2>2. CASE Early(ticks, proc[p].ticks0, proc[p].n) /\ ~proc[p].killed
    <3>1. /\ proc'[p].pc = "sleep" /\ proc'[p].ticks0 = proc[p].ticks0 /\ proc'[p].n = proc[p].n
          /\ tickslock' = p
      BY <1>7, <2>2 DEF sys_sleep_test, Early
    <3> QED  BY <2>1, <2>2, <3>1, SleepersStep
  <2>3. CASE ~(Early(ticks, proc[p].ticks0, proc[p].n) /\ ~proc[p].killed)
    <3>1. proc'[p].pc = "user" /\ tickslock' = 0
      BY <1>7, <2>3 DEF sys_sleep_test, Early
    <3> QED  BY <2>1, <3>1, SleepersStep
  <2> QED  BY <2>2, <2>3
<1>8. CASE sleep(p)
  <2>1. /\ proc[p].pc = "sleep" /\ proc'[p].pc = "woken"
        /\ proc'[p].ticks0 = proc[p].ticks0 /\ proc'[p].n = proc[p].n
        /\ tickslock' = IF tickslock = p THEN 0 ELSE tickslock
    BY <1>8 DEF sleep
  <2> QED  BY <1>0, <2>1, SleepersStep
<1>9. CASE woken(p)
  <2>1. /\ proc'[p].pc = "test" /\ proc'[p].state = "RUNNING" /\ tickslock = 0 /\ tickslock' = p
    BY <1>9 DEF woken, Running
  <2> QED  BY <2>1, SleepersStep
<1> QED  BY <1>1, <1>2, <1>3, <1>4, <1>5, <1>6, <1>7, <1>8, <1>9 DEF StepOf

\* clockintr() keeps Sleepers: the sleepers it has not yet come to are still to be
\* woken, and those it has are awake.
LEMMA SleepersHandler ==
    ASSUME Sizes, TypeOK, Sleepers, clockintr \/ update_time \/ wakeup
    PROVE  Sleepers'
<1> USE DEF TypeOK
<1>0. /\ Handler # 0 /\ \A p \in Procs : p # Handler /\ p \in Int /\ 1 <= p /\ p <= NPROC
      /\ NPROC \in Int
  BY DEF Sizes, Handler, Procs
<1>1. CASE clockintr
  <2>1. /\ tickslock = 0 /\ tickslock' = Handler /\ clock'.at = "update_time" /\ proc' = proc
    BY <1>1 DEF clockintr
  <2>2. \A p \in Procs : proc[p].pc \notin {"test", "sleep"}
    BY <2>1, <1>0 DEF Sleepers, Procs
  <2> QED  BY <2>1, <2>2 DEF Sleepers
<1>2. CASE update_time
  <2>1. /\ tickslock = Handler /\ tickslock' = tickslock /\ ticks' = ticks
        /\ clock.at = "update_time" /\ clock'.at \in {"update_time", "wakeup"}
        /\ clock'.at = "wakeup" => clock'.p = 1
    BY <1>2 DEF update_time, Onward, Sleepers
  <2>2. \A p \in Procs : /\ proc'[p].pc = proc[p].pc /\ proc'[p].state = proc[p].state
                         /\ proc'[p].ticks0 = proc[p].ticks0 /\ proc'[p].n = proc[p].n
    BY <1>2 DEF update_time, Entry
  <2>3. \A p \in Procs : proc[p].pc \notin {"test", "sleep"}
    BY <2>1, <1>0 DEF Sleepers
  <2> QED  BY <2>1, <2>2, <2>3, <1>0 DEF Sleepers, Ahead
<1>3. CASE wakeup
  <2>1. /\ tickslock = Handler /\ ticks' = ticks /\ clock.at = "wakeup"
        /\ clock.p \in Int /\ clock.p \in Procs
        /\ \/ clock.p < NPROC /\ clock' = [at |-> "wakeup", p |-> clock.p + 1] /\ tickslock' = tickslock
           \/ clock.p = NPROC /\ clock' = [at |-> "off", p |-> 1] /\ tickslock' = 0
    BY <1>3, <1>0 DEF wakeup, Onward, Off, Sleepers
  <2>2. \A p \in Procs : /\ proc'[p].pc = proc[p].pc
                         /\ proc'[p].ticks0 = proc[p].ticks0 /\ proc'[p].n = proc[p].n
                         /\ proc'[p].state = "SLEEPING" => proc[p].state = "SLEEPING" /\ p # clock.p
    BY <1>3 DEF wakeup, Entry
  <2>3. \A p \in Procs : proc[p].pc \notin {"test", "sleep"}
    BY <2>1, <1>0 DEF Sleepers
  <2>4. tickslock' = Handler <=> clock'.at # "off"
    BY <2>1, <1>0
  <2>5. ASSUME NEW p \in Procs, proc'[p].state = "SLEEPING"
        PROVE  \/ Early(ticks', proc'[p].ticks0, proc'[p].n)
               \/ clock'.at = "update_time"
               \/ Ahead("wakeup", p)'
    <3>1. Early(ticks, proc[p].ticks0, proc[p].n) \/ clock.p < p
      BY <2>1, <2>2, <2>5, <1>0 DEF Sleepers, Ahead
    <3>2. CASE clock.p < p
      BY <3>2, <2>1, <1>0 DEF Ahead
    <3> QED  BY <3>1, <3>2, <2>1, <2>2
  <2> QED  BY <2>2, <2>3, <2>4, <2>5 DEF Sleepers
<1> QED  BY <1>1, <1>2, <1>3

-----------------------------------------------------------------------------

\* Times, for one entry.
Sound(e, now, charged) ==
    /\ e.state \notin {"UNUSED", "ZOMBIE"} =>
        /\ e.ctime <= now
        /\ e.rtime <= now - e.ctime + 1
        /\ ~charged => e.rtime <= now - e.ctime
    /\ e.state = "ZOMBIE" =>
        /\ e.ctime <= e.etime /\ e.etime <= now
        /\ e.rtime <= e.etime - e.ctime + 1

\* Times says that every entry is sound.
LEMMA TimesIs ==
    Times <=> \A p \in Procs : Sound(proc[p], ticks, ~Ahead("update_time", p))
BY DEF Times, Sound

\* A step of a process keeps its times, or starts or ends them now.
LEMMA TimesProc ==
    ASSUME TypeOK, Times, NEW p \in Procs, StepOf(p)
    PROVE  Times'
<1> DEFINE c == ~Ahead("update_time", p)
<1>1. /\ UNCHANGED <<ticks, clock>> /\ proc' \in [Procs -> Entry]
      /\ \A q \in Procs : q # p => proc'[q] = proc[q]
  BY OwnEntry
<1>2. proc[p] \in Entry /\ ticks \in Nat
  BY DEF TypeOK
<1>3. Sound(proc[p], ticks, c)
  BY TimesIs
<1> HIDE DEF c
<1>4. Sound(proc'[p], ticks, c)
  <2> USE DEF TypeOK
  <2>1. CASE allocproc(p)
    <3>1. proc'[p].state = "USED" /\ proc'[p].rtime = 0 /\ proc'[p].ctime = ticks
      BY <2>1, <1>2 DEF allocproc, Entry
    <3> QED  BY <3>1, <1>2 DEF Sound
  <2>2. CASE exit(p)
    <3>1. /\ proc[p].state = "RUNNING" /\ proc'[p].state = "ZOMBIE" /\ proc'[p].etime = ticks
          /\ proc'[p].ctime = proc[p].ctime /\ proc'[p].rtime = proc[p].rtime
      BY <2>2, <1>2 DEF exit, Running, Entry
    <3> QED  BY <3>1, <1>2, <1>3 DEF Sound, Entry
  <2>3. CASE waitx(p)
    BY <2>3, <1>2 DEF waitx, Sound, Entry
  <2>4. ASSUME proc'[p].ctime = proc[p].ctime, proc'[p].rtime = proc[p].rtime,
               proc'[p].etime = proc[p].etime,
               \/ proc'[p].state = proc[p].state
               \/ {proc[p].state, proc'[p].state} \cap {"UNUSED", "ZOMBIE"} = {}
        PROVE  Sound(proc'[p], ticks, c)
    BY <2>4, <1>3 DEF Sound
  <2>5. CASE fork(p) \/ scheduler(p) \/ yield(p)
    BY <2>4, <2>5, <1>2 DEF fork, scheduler, yield, Becomes, Running, Entry
  <2>6. CASE kill(p)
    BY <2>4, <2>6, <1>2 DEF kill, Entry
  <2>7. ASSUME NEW n \in SleepArgs, sys_sleep(p, n)
        PROVE  Sound(proc'[p], ticks, c)
    BY <2>4, <2>7, <1>2 DEF sys_sleep, Entry
  <2>8. CASE sys_sleep_test(p)
    BY <2>4, <2>8, <1>2 DEF sys_sleep_test, Entry
  <2>9. CASE sleep(p)
    BY <2>4, <2>9, <1>2 DEF sleep, Running, Entry
  <2>10. CASE woken(p)
    BY <2>4, <2>10, <1>2 DEF woken, Entry
  <2> QED  BY <2>1, <2>2, <2>3, <2>5, <2>6, <2>7, <2>8, <2>9, <2>10 DEF StepOf
<1> QED  BY <1>1, <1>4, TimesIs DEF Times, Sound, Ahead, c

\* clockintr() counts the tick before it charges the processes, and each of them once.
LEMMA TimesHandler ==
    ASSUME Sizes, TypeOK, Times, clockintr \/ update_time \/ wakeup
    PROVE  Times'
<1>0. /\ ticks \in Nat /\ \A p \in Procs : proc[p] \in Entry /\ p \in Int
      /\ clock.p \in Procs
  BY DEF TypeOK, Procs
<1>1. CASE clockintr
  <2>1. ticks' = ticks + 1 /\ proc' = proc
    BY <1>1 DEF clockintr
  <2> QED  BY <2>1, <1>0 DEF Times, Entry
<1>2. CASE update_time
  <2>1. /\ ticks' = ticks /\ clock.at = "update_time"
        /\ \/ clock'.at = "wakeup"
           \/ clock'.at = "update_time" /\ clock'.p = clock.p + 1
    BY <1>2 DEF update_time, Onward
  <2>2. ASSUME NEW p \in Procs
        PROVE  /\ proc'[p].state = proc[p].state
               /\ proc'[p].ctime = proc[p].ctime /\ proc'[p].etime = proc[p].etime
               /\ \/ proc'[p].rtime = proc[p].rtime
                  \/ p = clock.p /\ p \in Running /\ proc'[p].rtime = proc[p].rtime + 1
    BY <1>2 DEF update_time, TypeOK, Entry
  <2>3. ASSUME NEW p \in Procs
        PROVE  /\ Ahead("update_time", p)' => Ahead("update_time", p) /\ p # clock.p
               /\ p = clock.p => Ahead("update_time", p)
    BY <2>1, <1>0 DEF Ahead
  <2> QED  BY <2>1, <2>2, <2>3, <1>0 DEF Times, Entry, Running
<1>3. CASE wakeup
  <2>1. ticks' = ticks /\ clock'.at # "update_time"
    BY <1>3 DEF wakeup, Onward, Off
  <2>2. ASSUME NEW p \in Procs
        PROVE  /\ \/ proc'[p].state = proc[p].state
                  \/ proc[p].state = "SLEEPING" /\ proc'[p].state = "RUNNABLE"
               /\ proc'[p].ctime = proc[p].ctime /\ proc'[p].etime = proc[p].etime
               /\ proc'[p].rtime = proc[p].rtime
    BY <1>3 DEF wakeup, TypeOK, Entry
  <2> QED  BY <2>1, <2>2, <1>0 DEF Times, Entry, Ahead
<1> QED  BY <1>1, <1>2, <1>3

\* The inductive invariant.
THEOREM InvHolds == ASSUME Sizes PROVE Spec => []Inv
<1>1. Init => Inv
  <2> SUFFICES ASSUME Init PROVE Inv
    OBVIOUS
  <2> USE DEF Init
  <2>1. Unused \in Entry
    BY DEF Unused, Entry
  <2>2. TypeOK
    BY <2>1 DEF TypeOK, Off, Procs, Sizes
  <2>3. Sleepers
    BY DEF Sleepers, Off, Unused, Handler, Sizes
  <2>4. Times
    BY DEF Times, Unused
  <2> QED  BY <2>2, <2>3, <2>4 DEF Inv
<1>2. Inv /\ [Next]_vars => Inv'
  <2> SUFFICES ASSUME Inv, [Next]_vars PROVE Inv'
    OBVIOUS
  <2> USE DEF Inv
  <2>1. ASSUME NEW p \in Procs, StepOf(p) PROVE Inv'
    <3>1. TypeOK'
      BY <2>1, OwnEntry DEF TypeOK
    <3> QED  BY <2>1, <3>1, SleepersProc, TimesProc
  <2>2. CASE clockintr \/ update_time \/ wakeup
    BY <2>2, HandlerTypes, SleepersHandler, TimesHandler
  <2>3. CASE UNCHANGED vars
    BY <2>3 DEF vars, TypeOK, Sleepers, Times, Ahead
  <2> QED  BY <2>1, <2>2, <2>3 DEF Next, StepOf
<1> QED  BY <1>1, <1>2, PTL DEF Spec

-----------------------------------------------------------------------------

\* NoOversleep: a process asleep in sys_sleep() still has ticks to wait, or
\* clockintr() has yet to wake it.
THEOREM SleepSafety == ASSUME Sizes PROVE Spec => []NoOversleep
<1>1. Inv => NoOversleep
  BY DEF Inv, Sleepers, NoOversleep, Early, Ahead
<1> QED  BY <1>1, InvHolds, PTL

\* WaitTimeBound: what waitx() returns is a number of ticks, or -1 as an unsigned.
THEOREM WaitTimeSafety == ASSUME Sizes PROVE Spec => []WaitTimeBound
<1>1. Inv => WaitTimeBound
  <2> SUFFICES ASSUME Inv, NEW p \in Procs, proc[p].state = "ZOMBIE"
               PROVE  wtime(p) \in 0..MaxTicks \cup {WRAP - 1}
    BY DEF WaitTimeBound
  <2> DEFINE d == proc[p].etime - proc[p].ctime - proc[p].rtime
  <2>1. d \in Int /\ -1 <= d /\ d <= MaxTicks
    BY DEF Inv, TypeOK, Times, Entry, Sizes
  <2> HIDE DEF d
  <2>2. CASE d = -1
    <3>1. (-1) % WRAP = WRAP - 1
      BY DEF Sizes
    <3> QED  BY <3>1, <2>2 DEF wtime, d
  <2>3. CASE 0 <= d
    <3>1. d % WRAP = d
      BY <2>1, <2>3 DEF Sizes
    <3> QED  BY <3>1, <2>1, <2>3 DEF wtime, d, Sizes
  <2> QED  BY <2>1, <2>2, <2>3
<1> QED  BY <1>1, InvHolds, PTL
=============================================================================
