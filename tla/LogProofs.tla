----------------------------- MODULE LogProofs -----------------------------
(***************************************************************************)
(* For every number of callers, blocks and values and every size of the    *)
(* log: Log obeys the write-ahead rule and implements AtomicDisk.          *)
(***************************************************************************)
EXTENDS Log, FiniteSetTheorems, TLAPS

Committing == {"write_log", "write_head", "install", "clear", "done"}
Waiting == {"idle", "begin_op", "sleep"}

TypeOK ==
    /\ home \in [Block -> Val] /\ dlog \in [LogIndex -> Val]
    /\ dhead \in Seq(Block) /\ Len(dhead) <= LOGSIZE
    /\ lh \in Seq(Block) /\ Len(lh) <= LOGSIZE
    /\ outstanding \in Int /\ committing \in BOOLEAN
    /\ buf \in [Block -> Val \cup {NoBuf}] /\ pin \in SUBSET Block
    /\ pc \in [Op -> Waiting \cup {"call"} \cup Committing]
    /\ held \in [Op -> SUBSET Block]
    /\ tail \in Nat \ {0}
    /\ boot \in {"read_head", "install", "clear", "up"} /\ panic \in BOOLEAN

\* no block is named twice in a header: log_write() absorbs
Distinct(h) == \A i, j \in 1..Len(h) : h[i] = h[j] => i = j
Headers == Distinct(lh) /\ Distinct(dhead)

\* log.outstanding counts the calls in progress, only they hold modified buffers,
\* and the one that commits is alone
Alone(o) == \A q \in Op : q # o => pc[q] \in Waiting
Callers ==
    /\ IsFiniteSet(Active) /\ outstanding = Cardinality(Active)
    /\ \A o \in Op : held[o] # {} => pc[o] = "call"
    /\ committing => Active = {}
    /\ \A o \in Op : pc[o] \in Committing => committing /\ Alone(o)
    /\ boot # "up" => ~panic /\ \A o \in Op : pc[o] = "idle"

\* the blocks up to place n of the header are in their home locations
InstalledTo(n) == \A i \in 1..Len(lh) : i < n => home[lh[i]] = dlog[i]
\* the log holds what the cache holds, of the blocks of lh from m up to n
LoggedBetween(m, n) == \A i \in 1..Len(lh) : m <= i /\ i < n => dlog[i] = buf[lh[i]]

\* while recovery runs the cache is clean, and what it has installed is at home
Recovery ==
    /\ pin = {}
    /\ \A b \in Block : buf[b] \in {NoBuf, home[b]}
    /\ boot # "read_head" => lh = dhead
    /\ boot = "install" => InstalledTo(tail)
    /\ boot = "clear" => InstalledTo(Len(lh) + 1)

\* the buffer of a block differs from its home only if it cannot be recycled
Cache ==
    /\ \A b \in Block : buf[b] \in {NoBuf, home[b]} \/ b \in pin \/ \E o \in Op : b \in held[o]
    /\ \A b \in pin : buf[b] # NoBuf
    /\ \A o \in Op : \A b, c \in held[o] : b = c /\ buf[b] # NoBuf

\* how far the commit has come
Installing == \E o \in Op : pc[o] \in {"install", "clear"}
Progress ==
    /\ ~Installing => dhead = <<>> /\ pin = Entries(lh)
    /\ Installing => dhead = lh
    /\ \A o \in Op :
        /\ pc[o] = "write_log" => LoggedBetween(1, tail)
        /\ pc[o] = "write_head" => LoggedBetween(1, Len(lh) + 1)
        /\ pc[o] = "install" => /\ pin = {lh[i] : i \in {j \in 1..Len(lh) : tail <= j}}
                                /\ InstalledTo(tail)
                                /\ LoggedBetween(tail, Len(lh) + 1)
        /\ pc[o] = "clear" => pin = {} /\ InstalledTo(Len(lh) + 1)

\* A panic stops the machine as it is; only the disk matters then.
Inv ==
    /\ TypeOK /\ Headers /\ Callers
    /\ boot # "up" => Recovery
    /\ running => Cache /\ Progress

-----------------------------------------------------------------------------
(* Types, and headers without duplicates.                                   *)

\* What Append() and the empty header do to Entries and Distinct.
LEMMA AppendDistinct ==
    ASSUME NEW h \in Seq(Block), NEW b \in Block, b \notin Entries(h), Distinct(h)
    PROVE  /\ Distinct(Append(h, b))
           /\ Entries(Append(h, b)) = Entries(h) \cup {b}
<1> DEFINE g == Append(h, b)
<1>1. g \in Seq(Block) /\ Len(g) = Len(h) + 1 /\ Len(h) \in Nat
      /\ g[Len(h) + 1] = b /\ \A i \in 1..Len(h) : g[i] = h[i]
  OBVIOUS
<1>2. \A i \in 1..Len(h) : h[i] # b
  BY Zenon DEF Entries
<1> HIDE DEF g
<1>3. Distinct(g)
  BY <1>1, <1>2 DEF Distinct
<1>4. Entries(g) = Entries(h) \cup {b}
  BY <1>1 DEF Entries
<1> QED  BY Zenon, <1>3, <1>4 DEF g

\* The empty header has no entries and no duplicates.
LEMMA EmptyHeader == <<>> \in Seq(Block) /\ Len(<<>>) = 0 /\ Distinct(<<>>) /\ Entries(<<>>) = {}
  BY DEF Distinct, Entries

\* Every step keeps the types.
LEMMA TypesKept ==
    ASSUME TypeOK, [Next]_vars
    PROVE  TypeOK'
<1>a. tail <= Len(lh) => tail \in 1..Len(lh) /\ lh[tail] \in Block /\ tail \in LogIndex /\ dlog[tail] \in Val
  <2>1. ASSUME tail <= Len(lh)
        PROVE  tail \in 1..Len(lh) /\ tail \in LogIndex
    BY <2>1, SizesAssumption DEF TypeOK, LogIndex
  <2> QED  BY <2>1 DEF TypeOK
<1>b. \A p \in [Op -> Waiting \cup {"call"} \cup Committing] :
        wakeup(p) \in [Op -> Waiting \cup {"call"} \cup Committing]
  BY Zenon DEF wakeup, Waiting
<1>c. ASSUME NEW b \in Block, NEW v \in Val
      PROVE  [home EXCEPT ![b] = v] \in [Block -> Val] /\ [buf EXCEPT ![b] = v] \in [Block -> Val \cup {NoBuf}]
  BY Zenon DEF TypeOK
<1> USE DEF TypeOK
<1>1. CASE read_head
  BY <1>1 DEF read_head, disk, calls
<1>2. CASE recover_install
  <2>1. CASE tail <= Len(lh)
    <3>1. home' \in [Block -> Val] /\ buf' \in [Block -> Val \cup {NoBuf}]
      BY Zenon, <1>a, <1>c, <1>2, <2>1 DEF recover_install
    <3>2. tail' \in Nat \ {0}
      BY <1>2, <2>1 DEF recover_install
    <3> QED  BY Zenon, <1>2, <2>1, <3>1, <3>2 DEF recover_install, calls
  <2>2. CASE ~(tail <= Len(lh))
    BY Zenon, <1>2, <2>2 DEF recover_install, calls
  <2> QED  BY Zenon, <2>1, <2>2
<1>3. CASE recover_clear
  BY <1>3, EmptyHeader, SizesAssumption DEF recover_clear, calls
<1>4. ASSUME NEW o \in Op, Call(o) \/ begin_op(o) \/ Killed(o)
      PROVE  TypeOK'
  <2>1. CASE Call(o)
    BY Zenon, <2>1 DEF Call, disk, Waiting
  <2>2. CASE begin_op(o)
    <3>1. CASE MustWait
      BY Zenon, <2>2, <3>1 DEF begin_op, disk, Waiting
    <3>2. CASE ~MustWait
      BY <2>2, <3>2 DEF begin_op, disk, Waiting
    <3> QED  BY Zenon, <3>1, <3>2
  <2>3. CASE Killed(o)
    BY Zenon, <2>3 DEF Killed, disk, Waiting
  <2> QED  BY Zenon, <1>4, <2>1, <2>2, <2>3
<1>5. ASSUME NEW o \in Op, end_op(o)
      PROVE  TypeOK'
  <2>1. \A l \in Waiting \cup Committing :
          [pc EXCEPT ![o] = l] \in [Op -> Waiting \cup {"call"} \cup Committing]
    OBVIOUS
  <2>2. pc' \in [Op -> Waiting \cup {"call"} \cup Committing]
    <3>1. CASE outstanding = 1
      BY Zenon, <1>5, <2>1, <3>1 DEF end_op, Committing
    <3>2. CASE outstanding # 1
      <4>1. [pc EXCEPT ![o] = "idle"] \in [Op -> Waiting \cup {"call"} \cup Committing]
        BY Zenon, <2>1 DEF Waiting
      <4> QED  BY Zenon, <1>5, <1>b, <3>2, <4>1 DEF end_op
    <3> QED  BY Zenon, <3>1, <3>2
  <2>3. committing' \in BOOLEAN /\ outstanding' \in Int
    <3>1. committing' \in BOOLEAN
      BY Zenon, <1>5 DEF end_op
    <3>2. outstanding' \in Int
      BY <1>5 DEF end_op
    <3> QED  BY Zenon, <3>1, <3>2
  <2>4. panic' \in BOOLEAN
    BY Zenon, <1>5 DEF end_op
  <2> QED  BY <1>5, <2>2, <2>3, <2>4 DEF end_op, disk
<1>6. ASSUME NEW o \in Op, write_log(o)
      PROVE  TypeOK'
  <2>1. CASE tail <= Len(lh)
    <3>1. bread(lh[tail]) \in Val
      BY Zenon, <1>a, <2>1 DEF bread
    <3>2. dlog' \in [LogIndex -> Val] /\ buf' \in [Block -> Val \cup {NoBuf}]
      BY Zenon, <1>a, <1>6, <2>1, <3>1 DEF write_log
    <3>3. tail' \in Nat \ {0}
      BY <1>6, <2>1 DEF write_log
    <3> QED  BY Zenon, <1>6, <2>1, <3>2, <3>3 DEF write_log
  <2>2. CASE ~(tail <= Len(lh))
    BY Zenon, <1>6, <2>2 DEF write_log, Committing
  <2> QED  BY Zenon, <2>1, <2>2
<1>7. ASSUME NEW o \in Op, write_head(o)
      PROVE  TypeOK'
  BY <1>7 DEF write_head, Committing
<1>8. ASSUME NEW o \in Op, install_trans(o)
      PROVE  TypeOK'
  <2>1. CASE tail <= Len(lh)
    <3>1. home' \in [Block -> Val] /\ buf' \in [Block -> Val \cup {NoBuf}] /\ tail' \in Nat \ {0}
      BY <1>a, <1>c, <1>8, <2>1 DEF install_trans
    <3> QED  BY Zenon, <1>8, <2>1, <3>1 DEF install_trans
  <2>2. CASE ~(tail <= Len(lh))
    BY Zenon, <1>8, <2>2 DEF install_trans, Committing
  <2> QED  BY Zenon, <2>1, <2>2
<1>9. ASSUME NEW o \in Op, clear_head(o)
      PROVE  TypeOK'
  BY <1>9, EmptyHeader, SizesAssumption DEF clear_head, Committing
<1>10. ASSUME NEW o \in Op, end_commit(o)
       PROVE  TypeOK'
  BY Zenon, <1>10, <1>b DEF end_commit, disk, Waiting
<1>11. ASSUME NEW o \in Op, NEW b \in Block, log_write(o, b)
       PROVE  TypeOK'
  <2>1. CASE UNCHANGED <<lh, pin>>
    BY Zenon, <1>11, <2>1 DEF log_write, disk
  <2>2. CASE lh' = Append(lh, b) /\ pin' = pin \cup {b} /\ Len(lh) < LOGSIZE
    <3>1. lh' \in Seq(Block) /\ Len(lh') <= LOGSIZE
      BY <2>2, SizesAssumption
    <3> QED  BY Zenon, <1>11, <2>2, <3>1 DEF log_write, disk
  <2> QED  BY <1>11, <2>1, <2>2, SizesAssumption DEF log_write
<1>12. ASSUME NEW o \in Op, NEW b \in Block, NEW v \in Val, Modify(o, b, v)
       PROVE  TypeOK'
  BY Zenon, <1>12 DEF Modify, disk
<1>13. ASSUME NEW b \in Block, Load(b) \/ Evict(b)
       PROVE  TypeOK'
  BY Zenon, <1>13 DEF Load, Evict, disk, calls
<1>14. CASE Crash
  <2>1. /\ lh' \in Seq(Block) /\ Len(lh') <= LOGSIZE
        /\ buf' \in [Block -> Val \cup {NoBuf}] /\ pin' \in SUBSET Block
    BY <1>14, EmptyHeader, SizesAssumption DEF Crash
  <2>2. pc' \in [Op -> Waiting \cup {"call"} \cup Committing] /\ held' \in [Op -> SUBSET Block]
    BY Zenon, <1>14 DEF Crash, Waiting
  <2>3. /\ home' \in [Block -> Val] /\ dlog' \in [LogIndex -> Val]
        /\ dhead' \in Seq(Block) /\ Len(dhead') <= LOGSIZE
    BY Zenon, <1>14 DEF Crash, disk, LogIndex
  <2>4. /\ outstanding' \in Int /\ tail' \in Nat \ {0}
        /\ boot' \in {"read_head", "install", "clear", "up"}
    BY <1>14 DEF Crash
  <2>5. committing' \in BOOLEAN /\ panic' \in BOOLEAN
    BY Zenon, <1>14 DEF Crash
  <2> QED  BY Zenon, <2>1, <2>2, <2>3, <2>4, <2>5 DEF LogIndex
<1>15. CASE UNCHANGED vars
  BY Zenon, <1>15 DEF vars, disk, calls
<1> QED
  BY Zenon, <1>1, <1>2, <1>3, <1>4, <1>5, <1>6, <1>7, <1>8, <1>9, <1>10, <1>11, <1>12, <1>13, <1>14, <1>15
     DEF Next, Recover, Commit

\* A header changes by log_write(), by being copied and by being emptied.
LEMMA HeadersKept ==
    ASSUME TypeOK, Headers, [Next]_vars
    PROVE  Headers'
<1>1. \/ lh' \in {lh, dhead, <<>>}
      \/ \E b \in Block : b \notin Entries(lh) /\ lh' = Append(lh, b)
  BY Zenon DEF Next, Recover, Commit, read_head, recover_install, recover_clear, Call, begin_op, end_op, Killed,
         write_log, write_head, install_trans, clear_head, end_commit, log_write, Modify, Load, Evict, Crash, vars
<1>2. dhead' \in {dhead, lh, <<>>}
  BY Zenon DEF Next, Recover, Commit, read_head, recover_install, recover_clear, Call, begin_op, end_op, Killed,
         write_log, write_head, install_trans, clear_head, end_commit, log_write, Modify, Load, Evict, Crash,
         vars, disk
<1>3. \A h \in {lh, dhead, <<>>} : Distinct(h)
  BY Zenon, EmptyHeader DEF Headers
<1>4. Distinct(lh')
  <2>1. CASE lh' \in {lh, dhead, <<>>}
    BY Zenon, <1>3, <2>1
  <2>2. ASSUME NEW b \in Block, b \notin Entries(lh), lh' = Append(lh, b)
        PROVE  Distinct(lh')
    BY Zenon, <1>3, <2>2, AppendDistinct DEF TypeOK
  <2> QED  BY Zenon, <1>1, <2>1, <2>2
<1> QED  BY <1>2, <1>3, <1>4 DEF Headers, Distinct

-----------------------------------------------------------------------------
(* Who is where.                                                            *)

\* Steps that leave the calls and their count alone.
LEMMA SameCallers ==
    ASSUME Callers, UNCHANGED <<pc, held, outstanding, committing>>,
           boot' # "up" => boot # "up" /\ UNCHANGED panic
    PROVE  Callers'
<1>1. Active' = Active
  BY Zenon DEF Active
<1> QED  BY <1>1 DEF Callers, Alone

\* Steps of one process from a place to another that are both outside a call or
\* both in commit().
LEMMA SameKind ==
    ASSUME TypeOK, Callers, NEW o \in Op, NEW l, boot' = "up",
           UNCHANGED <<held, outstanding, committing>>, pc' = [pc EXCEPT ![o] = l],
           \/ pc[o] \in Waiting /\ l \in Waiting
           \/ pc[o] \in Committing /\ l \in Committing
    PROVE  Callers'
<1> USE DEF Waiting, Committing
<1>1. pc'[o] = l /\ pc[o] # "call" /\ \A q \in Op : q # o => pc'[q] = pc[q]
  BY Zenon DEF TypeOK
<1>2. Active' = Active
  BY Zenon, <1>1 DEF Active
<1>3. \A q \in Op : held'[q] # {} => pc'[q] = "call"
  BY Zenon, <1>1 DEF Callers
<1>4. ASSUME NEW q \in Op, pc'[q] \in Committing
      PROVE  committing' /\ Alone(q)'
  BY Zenon, <1>1, <1>4 DEF Callers, Alone
<1> QED  BY Zenon, <1>2, <1>3, <1>4 DEF Callers

\* Nobody commits while a call is in progress.
LEMMA NoCommitter ==
    ASSUME Callers, NEW o \in Op, pc[o] = "call"
    PROVE  \A q \in Op : pc[q] \notin Committing
<1>1. ASSUME NEW q \in Op, pc[q] \in Committing
      PROVE  FALSE
  BY Zenon, <1>1 DEF Callers, Alone, Committing, Waiting
<1> QED  BY Zenon, <1>1

\* Every step keeps the count of calls exact and the committer alone.
LEMMA CallersKept ==
    ASSUME TypeOK, Callers, [Next]_vars
    PROVE  Callers'
<1>1. CASE read_head \/ recover_install \/ recover_clear
  BY Zenon, <1>1, SameCallers DEF read_head, recover_install, recover_clear, calls
<1>2. ASSUME NEW o \in Op, Call(o) \/ Killed(o)
      PROVE  Callers'
  BY Zenon, <1>2, SameKind DEF Call, Killed, running, Waiting
<1>3. ASSUME NEW o \in Op, begin_op(o)
      PROVE  Callers'
  <2>1. CASE MustWait
    BY Zenon, <1>3, <2>1, SameKind DEF begin_op, running, Waiting
  <2>2. CASE ~MustWait
    <3>1. /\ pc[o] = "begin_op" /\ pc' = [pc EXCEPT ![o] = "call"] /\ ~committing
          /\ outstanding' = outstanding + 1 /\ boot' = "up" /\ UNCHANGED <<held, committing>>
      BY Zenon, <1>3, <2>2 DEF begin_op, running, MustWait
    <3>2. pc'[o] = "call" /\ \A q \in Op : q # o => pc'[q] = pc[q]
      BY Zenon, <3>1 DEF TypeOK
    <3>3. Active' = Active \cup {o} /\ o \notin Active
      BY Zenon, <3>1, <3>2 DEF Active
    <3>4. IsFiniteSet(Active') /\ outstanding' = Cardinality(Active')
      BY Zenon, <3>1, <3>3, FS_AddElement DEF Callers
    <3>5. \A q \in Op : pc'[q] \notin Committing
      BY Zenon, <3>1, <3>2 DEF Callers, Committing
    <3>6. \A q \in Op : held'[q] # {} => pc'[q] = "call"
      BY Zenon, <3>1, <3>2 DEF Callers
    <3> QED  BY Zenon, <3>1, <3>4, <3>5, <3>6 DEF Callers
  <2> QED  BY Zenon, <2>1, <2>2
<1>4. ASSUME NEW o \in Op, end_op(o)
      PROVE  Callers'
  <2>1. /\ pc[o] = "call" /\ boot' = "up" /\ outstanding' = outstanding - 1
        /\ held[o] = {} /\ UNCHANGED held
    BY Zenon, <1>4 DEF end_op, running
  <2>2. o \in Active /\ \A q \in Op : pc[q] \notin Committing
    BY Zenon, <2>1, NoCommitter DEF Active
  <2>3. IsFiniteSet(Active \ {o}) /\ outstanding' = Cardinality(Active \ {o})
    BY Zenon, <2>1, <2>2, FS_RemoveElement DEF Callers
  <2>4. CASE outstanding = 1
    <3>1. Active \ {o} = {}
      BY <2>1, <2>3, <2>4, FS_EmptySet
    <3>2. committing' = TRUE /\ \E l \in Committing : pc' = [pc EXCEPT ![o] = l]
      BY Zenon, <1>4, <2>4 DEF end_op, Committing
    <3>3. pc'[o] \in Committing /\ \A q \in Op : q # o => pc'[q] = pc[q]
      BY Zenon, <3>2 DEF TypeOK
    <3>4. \A q \in Op : q # o => pc'[q] \in Waiting
      <4>1. ASSUME NEW q \in Op, q # o
            PROVE  pc[q] \in Waiting
        BY Zenon, <2>2, <3>1, <4>1 DEF Active, TypeOK
      <4> QED  BY Zenon, <3>3, <4>1
    <3>5. Active' = Active \ {o}
      BY Zenon, <3>1, <3>3, <3>4 DEF Active, Waiting, Committing
    <3>6. \A q \in Op : held'[q] # {} => pc'[q] = "call"
      BY Zenon, <2>1, <3>3 DEF Callers
    <3>7. \A q \in Op : pc'[q] \in Committing => Alone(q)'
      BY Zenon, <3>3, <3>4 DEF Alone, Waiting, Committing
    <3> QED  BY Zenon, <2>1, <2>3, <3>1, <3>2, <3>5, <3>6, <3>7 DEF Callers
  <2>5. CASE outstanding # 1
    <3>1. pc' = wakeup([pc EXCEPT ![o] = "idle"])
      BY Zenon, <1>4, <2>5 DEF end_op
    <3>2. /\ pc'[o] = "idle"
          /\ \A q \in Op : q # o => pc'[q] = IF pc[q] = "sleep" THEN "begin_op" ELSE pc[q]
      BY Zenon, <3>1 DEF wakeup, TypeOK
    <3>3. Active' = Active \ {o}
      BY Zenon, <3>2 DEF Active
    <3>4. \A q \in Op : pc'[q] \notin Committing
      BY Zenon, <2>2, <3>2 DEF Committing
    <3>5. \A q \in Op : held'[q] # {} => pc'[q] = "call"
      BY Zenon, <2>1, <3>2 DEF Callers
    <3>6. ~committing'
      BY Zenon, <1>4, <2>2, <2>5 DEF end_op, Callers
    <3> QED  BY Zenon, <2>1, <2>3, <3>3, <3>4, <3>5, <3>6 DEF Callers
  <2> QED  BY Zenon, <2>4, <2>5
<1>5. ASSUME NEW o \in Op, write_log(o) \/ install_trans(o)
      PROVE  Callers'
  <2>1. CASE pc' = pc
    BY Zenon, <1>5, <2>1, SameCallers DEF write_log, install_trans, running
  <2>2. CASE pc' # pc
    BY Zenon, <1>5, <2>2, SameKind DEF write_log, install_trans, running, Committing
  <2> QED  BY Zenon, <2>1, <2>2
<1>6. ASSUME NEW o \in Op, write_head(o) \/ clear_head(o)
      PROVE  Callers'
  BY Zenon, <1>6, SameKind DEF write_head, clear_head, running, Committing
<1>7. ASSUME NEW o \in Op, end_commit(o)
      PROVE  Callers'
  <2>1. /\ pc[o] = "done" /\ boot' = "up" /\ ~committing' /\ UNCHANGED <<held, outstanding>>
        /\ pc' = wakeup([pc EXCEPT ![o] = "idle"])
    BY Zenon, <1>7 DEF end_commit, running
  <2>2. \A q \in Op : q # o => pc[q] \in Waiting
    BY Zenon, <2>1 DEF Callers, Alone, Committing
  <2>3. \A q \in Op : pc'[q] \in Waiting
    BY Zenon, <2>1, <2>2 DEF wakeup, TypeOK, Waiting
  <2>4. Active' = Active
    BY Zenon, <2>1, <2>2, <2>3 DEF Active, Waiting
  <2>5. \A q \in Op : held'[q] = {}
    BY Zenon, <2>1, <2>2 DEF Callers, Waiting
  <2> QED  BY Zenon, <2>1, <2>3, <2>4, <2>5 DEF Callers, Waiting, Committing
<1>8. ASSUME NEW o \in Op, NEW b \in Block,
             log_write(o, b) \/ \E v \in Val : Modify(o, b, v)
      PROVE  Callers'
  <2>1. /\ pc[o] = "call" /\ boot' = "up" /\ UNCHANGED <<pc, outstanding, committing>>
        /\ \A q \in Op : q # o => held'[q] = held[q]
    BY Zenon, <1>8 DEF log_write, Modify, running, TypeOK
  <2>2. Active' = Active
    BY Zenon, <2>1 DEF Active
  <2> QED  BY Zenon, <2>1, <2>2 DEF Callers, Alone
<1>9. ASSUME NEW b \in Block, Load(b) \/ Evict(b)
      PROVE  Callers'
  BY Zenon, <1>9, SameCallers DEF Load, Evict, running, calls
<1>10. CASE Crash
  <2>1. /\ \A q \in Op : pc'[q] = "idle" /\ held'[q] = {}
        /\ outstanding' = 0 /\ ~panic' /\ ~committing'
    BY Zenon, <1>10 DEF Crash
  <2>2. Active' = {}
    BY Zenon, <2>1 DEF Active
  <2> QED  BY Zenon, <2>1, <2>2, FS_EmptySet DEF Callers, Committing
<1>11. CASE UNCHANGED vars
  BY Zenon, <1>11, SameCallers DEF vars, calls
<1> QED
  BY Zenon, <1>1, <1>2, <1>3, <1>4, <1>5, <1>6, <1>7, <1>8, <1>9, <1>10, <1>11 DEF Next, Recover, Commit

-----------------------------------------------------------------------------
(* What the disk and the cache hold.                                        *)

\* Recovery keeps the cache clean and installs the blocks in order.
LEMMA RecoveryKept ==
    ASSUME Inv, [Next]_vars, boot' # "up"
    PROVE  Recovery'
<1>1. CASE read_head
  BY <1>1, SizesAssumption DEF read_head, Inv, Recovery, TypeOK, InstalledTo, disk
<1>2. CASE recover_install
  <2>1. /\ boot = "install" /\ Recovery /\ TypeOK /\ Distinct(lh)
        /\ UNCHANGED <<dlog, dhead, lh, pin>>
    BY Zenon, <1>2 DEF recover_install, Inv, Headers
  <2>2. CASE tail <= Len(lh)
    <3>1. tail \in 1..Len(lh) /\ lh[tail] \in Block
      BY <2>1, <2>2 DEF TypeOK
    <3>2. /\ home' = [home EXCEPT ![lh[tail]] = dlog[tail]]
          /\ buf' = [buf EXCEPT ![lh[tail]] = dlog[tail]]
          /\ tail' = tail + 1 /\ boot' = "install"
      BY Zenon, <1>2, <2>2 DEF recover_install
    <3>3. \A b \in Block : buf'[b] \in {NoBuf, home'[b]}
      BY Zenon, <2>1, <3>1, <3>2 DEF TypeOK, Recovery
    <3>4. InstalledTo(tail)'
      <4>1. ASSUME NEW i \in 1..Len(lh), i < tail + 1
            PROVE  home'[lh[i]] = dlog[i]
        <5>1. CASE i = tail
          BY Zenon, <3>1, <3>2, <5>1 DEF TypeOK, Inv
        <5>2. CASE i # tail
          <6>1. i < tail /\ lh[i] # lh[tail] /\ lh[i] \in Block
            BY <2>1, <3>1, <4>1, <5>2 DEF Distinct, TypeOK
          <6> QED  BY Zenon, <2>1, <3>2, <6>1 DEF Recovery, InstalledTo, TypeOK
        <5> QED  BY Zenon, <5>1, <5>2
      <4> QED  BY Zenon, <2>1, <3>2, <4>1 DEF InstalledTo
    <3> QED  BY Zenon, <2>1, <3>2, <3>3, <3>4 DEF Recovery
  <2>3. CASE ~(tail <= Len(lh))
    <3>1. boot' = "clear" /\ UNCHANGED <<home, buf>>
      BY Zenon, <1>2, <2>3 DEF recover_install
    <3>2. InstalledTo(Len(lh) + 1)'
      BY <2>1, <2>3, <3>1 DEF Recovery, InstalledTo, TypeOK
    <3> QED  BY Zenon, <2>1, <3>1, <3>2 DEF Recovery
  <2> QED  BY Zenon, <2>2, <2>3
<1>3. CASE Crash
  BY Zenon, <1>3 DEF Crash, Recovery
<1>4. CASE UNCHANGED vars
  BY Zenon, <1>4 DEF vars, disk, Inv, Recovery, InstalledTo
<1>5. CASE recover_clear \/ running
  <2>1. boot' = "up" \/ Crash \/ UNCHANGED vars
    BY Zenon, <1>5 DEF Next, Recover, Commit, running, read_head, recover_install, recover_clear, Call, begin_op,
       end_op, Killed, write_log, write_head, install_trans, clear_head, end_commit, log_write, Modify,
       Load, Evict
  <2> QED  BY Zenon, <1>3, <1>4, <2>1
<1> QED
  BY Zenon, <1>1, <1>2, <1>3, <1>4, <1>5
     DEF Next, Recover, Commit, Call, begin_op, end_op, Killed, write_log, write_head, install_trans,
         clear_head, end_commit, log_write, Modify, Load, Evict

\* the places of commit() at which Progress says something
Tracked == {"write_log", "write_head", "install", "clear"}

\* Steps that move no data and put nobody into commit() or further in it.
LEMMA SameData ==
    ASSUME Cache, Progress, UNCHANGED <<disk, lh, buf, pin, held>>,
           \A o \in Op : pc'[o] \in Tracked => pc'[o] = pc[o] /\ tail' = tail,
           \A o \in Op : pc[o] \in {"install", "clear"} => pc'[o] = pc[o]
    PROVE  Cache' /\ Progress'
<1>1. Cache'
  BY Zenon DEF Cache, disk
<1>2. Installing' = Installing
  BY Zenon DEF Installing, Tracked
<1>3. ASSUME NEW o \in Op, pc'[o] \in Tracked
      PROVE  /\ pc'[o] = "write_log" => LoggedBetween(1, tail)'
             /\ pc'[o] = "write_head" => LoggedBetween(1, Len(lh) + 1)'
             /\ pc'[o] = "install" => /\ pin' = {lh'[i] : i \in {j \in 1..Len(lh') : tail' <= j}}
                                      /\ InstalledTo(tail)'
                                      /\ LoggedBetween(tail, Len(lh) + 1)'
             /\ pc'[o] = "clear" => pin' = {} /\ InstalledTo(Len(lh) + 1)'
  BY <1>3 DEF Progress, LoggedBetween, InstalledTo, disk
<1>4. Progress'
  BY Zenon, <1>2, <1>3 DEF Progress, Tracked, disk, Entries
<1> QED  BY Zenon, <1>1, <1>4

\* A clean buffer that is neither pinned nor held comes and goes.
LEMMA SameDirty ==
    ASSUME TypeOK, Callers, Cache, Progress, NEW b \in Block, NEW v \in {NoBuf, home[b]},
           b \notin pin, \A o \in Op : b \notin held[o],
           buf' = [buf EXCEPT ![b] = v], UNCHANGED <<disk, lh, pin, held, pc, tail>>
    PROVE  Cache' /\ Progress'
<1>1. buf'[b] = v /\ \A c \in Block : c # b => buf'[c] = buf[c]
  BY Zenon DEF TypeOK
<1>2. Cache'
  BY <1>1 DEF Cache, TypeOK, disk
<1>3. Installing' = Installing
  BY Zenon DEF Installing
<1>4. ASSUME NEW i \in 1..Len(lh), lh[i] \in pin
      PROVE  buf'[lh[i]] = buf[lh[i]]
  BY Zenon, <1>1, <1>4 DEF TypeOK
<1>5. ASSUME NEW o \in Op, pc[o] \in {"write_log", "write_head"}
      PROVE  /\ pc[o] = "write_log" => LoggedBetween(1, tail)'
             /\ pc[o] = "write_head" => LoggedBetween(1, Len(lh) + 1)'
  <2>1. ~Installing
    BY Zenon, <1>5 DEF Callers, Alone, Installing, Committing, Waiting
  <2>2. \A i \in 1..Len(lh) : lh[i] \in pin
    BY Zenon, <2>1 DEF Progress, Entries
  <2> QED  BY Zenon, <1>4, <1>5, <2>2 DEF Progress, LoggedBetween, disk
<1>6. ASSUME NEW o \in Op, pc[o] = "install"
      PROVE  LoggedBetween(tail, Len(lh) + 1)'
  <2>1. \A i \in 1..Len(lh) : tail <= i => lh[i] \in pin
    BY <1>6 DEF Progress
  <2> QED  BY Zenon, <1>4, <1>6, <2>1 DEF Progress, LoggedBetween, disk
<1>7. Progress'
  BY <1>3, <1>5, <1>6 DEF Progress, disk, InstalledTo, Entries
<1> QED  BY Zenon, <1>2, <1>7

\* Whoever commits is alone, and nobody holds a modified buffer then.
LEMMA CommitterAlone ==
    ASSUME TypeOK, Callers, NEW o \in Op, pc[o] \in Committing
    PROVE  /\ \A q \in Op : q # o => pc[q] \in Waiting
           /\ \A q \in Op : held[q] = {}
           /\ Active = {}
  BY Zenon DEF Callers, Alone, Active, Committing, Waiting

\* write_log() copies the cache to the log, block by block.
LEMMA WriteLogKept ==
    ASSUME TypeOK, Callers, Cache, Progress, NEW o \in Op, write_log(o)
    PROVE  Cache' /\ Progress'
<1>1. /\ pc[o] = "write_log" /\ UNCHANGED <<home, dhead, lh, pin, held>>
  BY Zenon DEF write_log
<1>2. /\ \A q \in Op : q # o => pc[q] \in Waiting
      /\ ~Installing
  BY Zenon, <1>1, CommitterAlone DEF Installing, Committing, Waiting
<1>3. dhead = <<>> /\ pin = Entries(lh) /\ LoggedBetween(1, tail)
  BY Zenon, <1>1, <1>2 DEF Progress
<1>4. CASE tail <= Len(lh)
  <2>1. /\ tail \in 1..Len(lh) /\ tail \in LogIndex /\ lh[tail] \in Block /\ buf[lh[tail]] # NoBuf
    <3>1. tail \in 1..Len(lh) /\ tail \in LogIndex
      BY <1>4, SizesAssumption DEF TypeOK, LogIndex
    <3>2. lh[tail] \in Block /\ lh[tail] \in pin
      BY Zenon, <1>3, <3>1 DEF TypeOK, Entries
    <3> QED  BY Zenon, <3>1, <3>2 DEF Cache
  <2>2. /\ dlog' = [dlog EXCEPT ![tail] = buf[lh[tail]]]
        /\ buf' = [buf EXCEPT ![lh[tail]] = buf[lh[tail]]]
        /\ tail' = tail + 1 /\ pc' = pc
    BY Zenon, <1>4, <2>1 DEF write_log, bread
  <2>3. buf' = buf
    BY Zenon, <2>1, <2>2 DEF TypeOK
  <2>4. Cache'
    BY Zenon, <1>1, <2>3 DEF Cache
  <2>5. LoggedBetween(1, tail)'
    <3>1. ASSUME NEW i \in 1..Len(lh), i < tail + 1
          PROVE  dlog'[i] = buf[lh[i]]
      <4>1. CASE i = tail
        BY Zenon, <2>1, <2>2, <4>1 DEF TypeOK
      <4>2. CASE i # tail
        <5>1. i < tail /\ i \in LogIndex
          BY <3>1, <4>2, SizesAssumption DEF TypeOK, LogIndex
        <5> QED  BY <1>3, <2>2, <4>2, <5>1 DEF LoggedBetween, TypeOK
      <4> QED  BY Zenon, <4>1, <4>2
    <3> QED  BY Zenon, <1>1, <2>2, <2>3, <3>1 DEF LoggedBetween
  <2> QED  BY Zenon, <1>1, <1>2, <1>3, <2>2, <2>4, <2>5 DEF Progress, Installing, Waiting, Entries
<1>5. CASE ~(tail <= Len(lh))
  <2>1. pc' = [pc EXCEPT ![o] = "write_head"] /\ UNCHANGED <<dlog, buf>>
    BY Zenon, <1>5 DEF write_log
  <2>2. pc'[o] = "write_head" /\ \A q \in Op : q # o => pc'[q] \in Waiting
    BY Zenon, <1>2, <2>1 DEF TypeOK
  <2>3. LoggedBetween(1, Len(lh) + 1)'
    BY <1>1, <1>3, <1>5, <2>1 DEF LoggedBetween, TypeOK
  <2>4. Cache'
    BY Zenon, <1>1, <2>1 DEF Cache
  <2> QED  BY Zenon, <1>1, <1>3, <2>2, <2>3, <2>4 DEF Progress, Installing, Waiting, Entries
<1> QED  BY Zenon, <1>4, <1>5

\* install_trans(0) copies the log home, block by block.
LEMMA InstallKept ==
    ASSUME TypeOK, Headers, Callers, Cache, Progress, NEW o \in Op, install_trans(o)
    PROVE  Cache' /\ Progress'
<1>1. /\ pc[o] = "install" /\ UNCHANGED <<dlog, dhead, lh, held>>
  BY Zenon DEF install_trans
<1>2. /\ \A q \in Op : q # o => pc[q] \in Waiting
      /\ \A q \in Op : held[q] = {}
  BY Zenon, <1>1, CommitterAlone DEF Committing
<1>3. /\ dhead = lh /\ pin = {lh[i] : i \in {j \in 1..Len(lh) : tail <= j}}
      /\ InstalledTo(tail) /\ LoggedBetween(tail, Len(lh) + 1)
  BY Zenon, <1>1 DEF Progress, Installing
<1>4. CASE tail <= Len(lh)
  <2>1. tail \in 1..Len(lh) /\ lh[tail] \in Block
    BY <1>4 DEF TypeOK
  <2>2. /\ home' = [home EXCEPT ![lh[tail]] = dlog[tail]]
        /\ buf' = [buf EXCEPT ![lh[tail]] = dlog[tail]]
        /\ pin' = pin \ {lh[tail]}
        /\ tail' = tail + 1 /\ pc' = pc
    BY Zenon, <1>4 DEF install_trans
  <2>3. \A i \in 1..Len(lh) : i # tail => lh[i] # lh[tail] /\ lh[i] \in Block
    BY <2>1 DEF Headers, Distinct, TypeOK
  <2>4. /\ home'[lh[tail]] = dlog[tail] /\ buf'[lh[tail]] = dlog[tail]
        /\ \A b \in Block : b # lh[tail] => home'[b] = home[b] /\ buf'[b] = buf[b]
    BY Zenon, <2>1, <2>2 DEF TypeOK
  <2>5. Cache'
    BY Zenon, <1>1, <1>2, <2>1, <2>2, <2>4 DEF Cache, TypeOK
  <2>6. pin' = {lh[i] : i \in {j \in 1..Len(lh) : tail + 1 <= j}}
    <3>1. ASSUME NEW b
          PROVE  b \in pin' <=> \E i \in 1..Len(lh) : tail + 1 <= i /\ b = lh[i]
      BY <1>3, <2>1, <2>2, <2>3
    <3> QED  BY Zenon, <3>1
  <2>7. InstalledTo(tail)'
    <3>1. ASSUME NEW i \in 1..Len(lh), i < tail + 1
          PROVE  home'[lh[i]] = dlog[i]
      <4>1. CASE i = tail
        BY Zenon, <2>4, <4>1
      <4>2. CASE i # tail
        BY <1>3, <2>1, <2>3, <2>4, <3>1, <4>2 DEF InstalledTo
      <4> QED  BY Zenon, <4>1, <4>2
    <3> QED  BY Zenon, <1>1, <2>2, <3>1 DEF InstalledTo
  <2>8. LoggedBetween(tail, Len(lh) + 1)'
    <3>1. ASSUME NEW i \in 1..Len(lh), tail + 1 <= i
          PROVE  dlog[i] = buf'[lh[i]]
      BY <1>3, <2>1, <2>3, <2>4, <3>1 DEF LoggedBetween
    <3> QED  BY Zenon, <1>1, <2>2, <3>1 DEF LoggedBetween
  <2> QED  BY <1>1, <1>2, <1>3, <2>2, <2>5, <2>6, <2>7, <2>8 DEF Progress, Installing, Waiting
<1>5. CASE ~(tail <= Len(lh))
  <2>1. pc' = [pc EXCEPT ![o] = "clear"] /\ UNCHANGED <<home, buf, pin>>
    BY Zenon, <1>5 DEF install_trans
  <2>2. pc'[o] = "clear" /\ \A q \in Op : q # o => pc'[q] \in Waiting
    BY Zenon, <1>2, <2>1 DEF TypeOK
  <2>3. pin = {}
    BY <1>3, <1>5 DEF TypeOK
  <2>4. InstalledTo(Len(lh) + 1)'
    <3>1. \A i \in 1..Len(lh) : i < tail
      BY <1>5 DEF TypeOK
    <3>2. \A i \in 1..Len(lh) : home[lh[i]] = dlog[i]
      BY Zenon, <1>3, <3>1 DEF InstalledTo
    <3> QED  BY Zenon, <1>1, <2>1, <3>2 DEF InstalledTo
  <2>5. Cache'
    BY Zenon, <1>1, <2>1 DEF Cache
  <2> QED  BY Zenon, <1>1, <1>3, <2>1, <2>2, <2>3, <2>4, <2>5 DEF Progress, Installing, Waiting
<1> QED  BY Zenon, <1>4, <1>5

\* Every step of the running system keeps what commit() relies on.
LEMMA RunningKept ==
    ASSUME Inv, [Next]_vars, running'
    PROVE  Cache' /\ Progress'
<1> USE DEF Inv
<1>1. CASE recover_clear
  <2>1. /\ lh' = <<>> /\ dhead' = <<>> /\ Recovery /\ UNCHANGED <<home, buf, pin, pc, held>>
        /\ \A o \in Op : pc[o] = "idle" /\ held[o] = {}
    BY Zenon, <1>1 DEF recover_clear, calls, Callers
  <2>2. Cache'
    BY Zenon, <2>1 DEF Cache, Recovery
  <2>3. ~Installing' /\ \A o \in Op : pc'[o] = "idle"
    BY Zenon, <2>1 DEF Installing
  <2> QED  BY Zenon, <2>1, <2>2, <2>3, EmptyHeader DEF Progress, Recovery
<1>2. ASSUME NEW o \in Op, Call(o) \/ Killed(o) \/ begin_op(o)
      PROVE  Cache' /\ Progress'
  <2>1. /\ running /\ pc[o] \in Waiting /\ UNCHANGED <<disk, lh, buf, pin, held, tail>>
        /\ \E l \in {"begin_op", "sleep", "call"} : pc' = [pc EXCEPT ![o] = l]
    BY Zenon, <1>2 DEF Call, Killed, begin_op, Waiting
  <2>2. /\ pc'[o] \notin Tracked /\ pc[o] \notin {"install", "clear"}
        /\ \A q \in Op : q # o => pc'[q] = pc[q]
    BY Zenon, <2>1 DEF TypeOK, Waiting, Tracked
  <2> QED  BY Zenon, <2>1, <2>2, SameData
<1>3. ASSUME NEW o \in Op, end_op(o)
      PROVE  Cache' /\ Progress'
  <2>1. /\ running /\ pc[o] = "call" /\ tail' = 1 /\ UNCHANGED <<disk, lh, buf, pin, held>>
    BY Zenon, <1>3 DEF end_op
  <2>2. \A q \in Op : pc[q] \notin Committing
    BY Zenon, <2>1, NoCommitter
  <2>3. \A q \in Op : pc'[q] \in Committing => pc'[q] \in {"write_log", "done"}
    <3>1. CASE outstanding = 1
      <4>1. \E l \in {"write_log", "done"} : pc' = [pc EXCEPT ![o] = l]
        BY Zenon, <1>3, <3>1 DEF end_op
      <4> QED  BY Zenon, <2>2, <4>1 DEF TypeOK
    <3>2. CASE outstanding # 1
      BY Zenon, <1>3, <2>2, <3>2 DEF end_op, wakeup, TypeOK, Committing
    <3> QED  BY Zenon, <3>1, <3>2
  <2>4. ~Installing /\ ~Installing'
    BY Zenon, <2>2, <2>3 DEF Installing, Committing
  <2>5. dhead' = <<>> /\ pin' = Entries(lh')
    BY Zenon, <2>1, <2>4 DEF Progress, disk
  <2>6. LoggedBetween(1, tail)'
    BY <2>1 DEF LoggedBetween
  <2>7. Cache'
    BY Zenon, <2>1 DEF Cache, disk
  <2> QED  BY Zenon, <2>3, <2>4, <2>5, <2>6, <2>7 DEF Progress, Committing
<1>4. ASSUME NEW o \in Op, write_log(o)
      PROVE  Cache' /\ Progress'
  BY Zenon, <1>4, WriteLogKept DEF write_log
<1>5. ASSUME NEW o \in Op, write_head(o)
      PROVE  Cache' /\ Progress'
  <2>1. /\ running /\ pc[o] = "write_head" /\ dhead' = lh /\ tail' = 1
        /\ pc' = [pc EXCEPT ![o] = "install"] /\ UNCHANGED <<home, dlog, lh, buf, pin, held>>
    BY Zenon, <1>5 DEF write_head
  <2>2. /\ \A q \in Op : q # o => pc[q] \in Waiting
        /\ ~Installing
    BY Zenon, <2>1, CommitterAlone DEF Installing, Committing, Waiting
  <2>3. pin = Entries(lh) /\ LoggedBetween(1, Len(lh) + 1)
    BY Zenon, <2>1, <2>2 DEF Progress
  <2>4. pc'[o] = "install" /\ \A q \in Op : q # o => pc'[q] \in Waiting
    BY Zenon, <2>1, <2>2 DEF TypeOK
  <2>5. pin' = {lh'[i] : i \in {j \in 1..Len(lh') : tail' <= j}}
    BY <2>1, <2>3 DEF Entries
  <2>6. InstalledTo(tail)' /\ LoggedBetween(tail, Len(lh) + 1)'
    BY <2>1, <2>3 DEF InstalledTo, LoggedBetween
  <2>7. Cache'
    BY Zenon, <2>1 DEF Cache
  <2> QED  BY Zenon, <2>1, <2>4, <2>5, <2>6, <2>7 DEF Progress, Installing, Waiting
<1>6. ASSUME NEW o \in Op, install_trans(o)
      PROVE  Cache' /\ Progress'
  BY Zenon, <1>6, InstallKept DEF install_trans
<1>7. ASSUME NEW o \in Op, clear_head(o)
      PROVE  Cache' /\ Progress'
  <2>1. /\ running /\ pc[o] = "clear" /\ lh' = <<>> /\ dhead' = <<>>
        /\ pc' = [pc EXCEPT ![o] = "done"] /\ UNCHANGED <<home, buf, pin, held>>
    BY Zenon, <1>7 DEF clear_head
  <2>2. \A q \in Op : q # o => pc[q] \in Waiting
    BY Zenon, <2>1, CommitterAlone DEF Committing
  <2>3. pc'[o] = "done" /\ \A q \in Op : q # o => pc'[q] \in Waiting
    BY Zenon, <2>1, <2>2 DEF TypeOK
  <2>4. pin' = {}
    BY Zenon, <2>1 DEF Progress
  <2>5. Cache'
    BY Zenon, <2>1 DEF Cache
  <2> QED  BY Zenon, <2>1, <2>3, <2>4, <2>5, EmptyHeader DEF Progress, Installing, Waiting
<1>8. ASSUME NEW o \in Op, end_commit(o)
      PROVE  Cache' /\ Progress'
  <2>1. /\ running /\ pc[o] = "done" /\ UNCHANGED <<disk, lh, buf, pin, held, tail>>
        /\ pc' = wakeup([pc EXCEPT ![o] = "idle"])
    BY Zenon, <1>8 DEF end_commit
  <2>2. \A q \in Op : q # o => pc[q] \in Waiting
    BY Zenon, <2>1, CommitterAlone DEF Committing
  <2>3. \A q \in Op : pc'[q] \in Waiting
    BY Zenon, <2>1, <2>2 DEF wakeup, TypeOK, Waiting
  <2> QED  BY Zenon, <2>1, <2>2, <2>3, SameData DEF Tracked, Waiting
<1>9. ASSUME NEW o \in Op, NEW b \in Block, log_write(o, b)
      PROVE  Cache' /\ Progress'
  <2>1. /\ running /\ pc[o] = "call" /\ b \in held[o]
        /\ held' = [held EXCEPT ![o] = {}] /\ UNCHANGED <<disk, buf, pc, tail>>
    BY Zenon, <1>9 DEF log_write
  <2>2. \A q \in Op : pc[q] \notin Committing
    BY Zenon, <2>1, NoCommitter
  <2>3. ~Installing /\ ~Installing'
    BY Zenon, <2>1, <2>2 DEF Installing, Committing
  <2>4. dhead = <<>> /\ pin = Entries(lh)
    BY Zenon, <2>1, <2>3 DEF Progress
  <2>5. pin' = pin \cup {b} /\ pin' = Entries(lh')
    <3>1. CASE b \in Entries(lh)
      BY Zenon, <1>9, <2>4, <3>1 DEF log_write, running
    <3>2. CASE b \notin Entries(lh)
      <4>1. lh' = Append(lh, b) /\ pin' = pin \cup {b}
        BY Zenon, <1>9, <3>2 DEF log_write, running
      <4> QED  BY Zenon, <2>4, <3>2, <4>1, AppendDistinct DEF Headers, TypeOK
    <3> QED  BY Zenon, <3>1, <3>2
  <2>6. held[o] = {b} /\ buf[b] # NoBuf
    BY <2>1 DEF Cache
  <2>7. held'[o] = {} /\ \A q \in Op : q # o => held'[q] = held[q]
    BY Zenon, <2>1 DEF TypeOK
  <2>8. Cache'
    <3>1. ASSUME NEW c \in Block
          PROVE  buf'[c] \in {NoBuf, home'[c]} \/ c \in pin' \/ \E q \in Op : c \in held'[q]
      BY <2>1, <2>5, <2>6, <2>7 DEF Cache, disk
    <3>2. \A c \in pin' : buf'[c] # NoBuf
      BY Zenon, <2>1, <2>5, <2>6 DEF Cache
    <3>3. \A q \in Op : \A c, d \in held'[q] : c = d /\ buf'[c] # NoBuf
      BY <2>1, <2>7 DEF Cache
    <3> QED  BY Zenon, <3>1, <3>2, <3>3 DEF Cache
  <2> QED  BY Zenon, <2>1, <2>2, <2>3, <2>4, <2>5, <2>8 DEF Progress, Committing, disk
<1>10. ASSUME NEW o \in Op, NEW b \in Block, NEW v \in Val, Modify(o, b, v)
       PROVE  Cache' /\ Progress'
  <2>1. /\ running /\ pc[o] = "call" /\ UNCHANGED <<disk, lh, pin, pc, tail>>
        /\ buf' = [buf EXCEPT ![b] = v] /\ held' = [held EXCEPT ![o] = {b}]
    BY Zenon, <1>10 DEF Modify
  <2>2. \A q \in Op : pc[q] \notin Committing
    BY Zenon, <2>1, NoCommitter
  <2>3. Progress'
    BY Zenon, <2>1, <2>2 DEF Progress, Installing, Committing, disk, Entries
  <2>4. /\ held'[o] = {b} /\ \A q \in Op : q # o => held'[q] = held[q]
        /\ buf'[b] = v /\ \A c \in Block : c # b => buf'[c] = buf[c]
    BY Zenon, <2>1 DEF TypeOK
  <2>5. v # NoBuf /\ held[o] = {} /\ \A q \in Op : held[q] \subseteq Block
    BY Zenon, <1>10, BufAssumption DEF Modify, TypeOK
  <2>6. Cache'
    <3>1. ASSUME NEW c \in Block
          PROVE  buf'[c] \in {NoBuf, home'[c]} \/ c \in pin' \/ \E q \in Op : c \in held'[q]
      BY Zenon, <2>1, <2>4, <2>5 DEF Cache, disk
    <3>2. \A c \in pin' : buf'[c] # NoBuf
      BY Zenon, <2>1, <2>4, <2>5 DEF Cache, TypeOK
    <3>3. \A q \in Op : \A c, d \in held'[q] : c = d /\ buf'[c] # NoBuf
      BY <2>1, <2>4, <2>5 DEF Cache
    <3> QED  BY Zenon, <3>1, <3>2, <3>3 DEF Cache
  <2> QED  BY Zenon, <2>3, <2>6
<1>11. ASSUME NEW b \in Block, Load(b)
       PROVE  Cache' /\ Progress'
  <2>1. /\ running /\ buf[b] = NoBuf /\ buf' = [buf EXCEPT ![b] = home[b]]
        /\ UNCHANGED <<disk, lh, pin, held, pc, tail>>
    BY Zenon, <1>11 DEF Load, calls
  <2>2. b \notin pin /\ \A o \in Op : b \notin held[o]
    BY Zenon, <2>1 DEF Cache
  <2> QED  BY Zenon, <2>1, <2>2, SameDirty
<1>12. ASSUME NEW b \in Block, Evict(b)
       PROVE  Cache' /\ Progress'
  <2>1. /\ running /\ buf' = [buf EXCEPT ![b] = NoBuf]
        /\ b \notin pin /\ \A o \in Op : b \notin held[o]
        /\ UNCHANGED <<disk, lh, pin, held, pc, tail>>
    BY Zenon, <1>12 DEF Evict, calls
  <2> QED  BY Zenon, <2>1, SameDirty
<1>13. CASE UNCHANGED vars
  <2>1. running /\ UNCHANGED <<disk, lh, buf, pin, held, pc, tail>>
    BY Zenon, <1>13 DEF vars, calls, running
  <2> QED  BY Zenon, <2>1, SameData
<1>14. ~(read_head \/ recover_install \/ Crash)
  BY Zenon DEF read_head, recover_install, Crash, running
<1> QED
  BY Zenon, <1>1, <1>2, <1>3, <1>4, <1>5, <1>6, <1>7, <1>8, <1>9, <1>10, <1>11, <1>12, <1>13, <1>14
     DEF Next, Recover, Commit

-----------------------------------------------------------------------------
(* The theorems.                                                            *)

\* Inv is an invariant.
LEMMA InvHolds == Spec => []Inv
<1>1. ASSUME Init
      PROVE  Inv
  <2>1. TypeOK
    <3>1. PICK zero \in Val : dlog = [i \in LogIndex |-> zero]
      BY Zenon, <1>1 DEF Init
    <3>2. dlog \in [LogIndex -> Val]
      BY Zenon, <3>1
    <3>3. /\ home \in [Block -> Val] /\ buf \in [Block -> Val \cup {NoBuf}] /\ pin \in SUBSET Block
          /\ dhead \in Seq(Block) /\ Len(dhead) <= LOGSIZE /\ lh \in Seq(Block) /\ Len(lh) <= LOGSIZE
      BY <1>1, EmptyHeader, SizesAssumption DEF Init
    <3>4. /\ pc \in [Op -> Waiting \cup {"call"} \cup Committing]
          /\ held \in [Op -> SUBSET Block]
      BY Zenon, <1>1 DEF Init, Waiting
    <3>5. outstanding \in Int /\ tail \in Nat \ {0} /\ boot \in {"read_head", "install", "clear", "up"}
      BY <1>1 DEF Init
    <3>6. committing \in BOOLEAN /\ panic \in BOOLEAN
      BY Zenon, <1>1 DEF Init
    <3> QED  BY Zenon, <3>2, <3>3, <3>4, <3>5, <3>6 DEF TypeOK
  <2>2. Headers
    BY Zenon, <1>1, EmptyHeader DEF Init, Headers
  <2>3. Callers
    <3>1. Active = {}
      BY Zenon, <1>1 DEF Init, Active
    <3> QED  BY Zenon, <1>1, <3>1, FS_EmptySet DEF Init, Callers, Committing
  <2>4. Recovery /\ ~running
    BY Zenon, <1>1 DEF Init, Recovery, running
  <2> QED  BY Zenon, <2>1, <2>2, <2>3, <2>4 DEF Inv
<1>2. ASSUME Inv, [Next]_vars
      PROVE  Inv'
  <2>1. TypeOK' /\ Headers' /\ Callers'
    BY Zenon, <1>2, TypesKept, HeadersKept, CallersKept DEF Inv
  <2>2. boot' # "up" => Recovery'
    BY Zenon, <1>2, RecoveryKept
  <2>3. running' => Cache' /\ Progress'
    BY Zenon, <1>2, RunningKept
  <2> QED  BY Zenon, <2>1, <2>2, <2>3 DEF Inv
<1> QED  BY <1>1, <1>2, PTL DEF Spec

\* The write-ahead rule holds: install_trans(), in commit() and in recovery, writes
\* only home blocks that the header on disk names at that moment.
THEOREM WriteAheadRule == Spec => WriteAhead
<1>1. ASSUME Inv, [Next]_vars, NEW b \in Block, home'[b] # home[b]
      PROVE  b \in Entries(dhead)
  <2>1. tail \in 1..Len(lh) /\ home' = [home EXCEPT ![lh[tail]] = dlog[tail]] /\ lh = dhead
    <3>1. CASE recover_install
      BY <1>1, <3>1 DEF recover_install, Inv, TypeOK, Recovery
    <3>2. ASSUME NEW o \in Op, install_trans(o)
          PROVE  tail \in 1..Len(lh) /\ home' = [home EXCEPT ![lh[tail]] = dlog[tail]] /\ lh = dhead
      BY <1>1, <3>2 DEF install_trans, Inv, TypeOK, Progress, Installing
    <3> QED
      BY Zenon, <1>1, <3>1, <3>2
         DEF Next, Recover, Commit, read_head, recover_clear, Call, begin_op, end_op, Killed, write_log,
             write_head, clear_head, end_commit, log_write, Modify, Load, Evict, Crash, vars, disk
  <2>2. b = lh[tail]
    BY Zenon, <1>1, <2>1 DEF Inv, TypeOK
  <2> QED  BY Zenon, <2>1, <2>2 DEF Entries
<1>2. Inv /\ [Next]_vars => [\A b \in Block : home'[b] # home[b] => b \in Entries(dhead)]_vars
  BY Zenon, <1>1
<1> QED  BY <1>2, InvHolds, PTL DEF Spec, WriteAhead

\* In a header without duplicates recovery finds a block at one place.
LEMMA Lookup ==
    ASSUME NEW h \in Seq(Block), Distinct(h), NEW i \in 1..Len(h)
    PROVE  LET at == {j \in 1..Len(h) : h[j] = h[i]}
           IN at # {} /\ (CHOOSE j \in at : \A k \in at : k <= j) = i
<1> DEFINE at == {j \in 1..Len(h) : h[j] = h[i]}
<1>1. at = {i}
  BY Zenon DEF Distinct
<1>2. \A j \in at : (\A k \in at : k <= j) <=> j = i
  BY <1>1
<1>3. \E j \in at : \A k \in at : k <= j
  BY <1>1
<1> HIDE DEF at
<1>4. (CHOOSE j \in at : \A k \in at : k <= j) = i
  BY Zenon, <1>2, <1>3
<1> QED  BY Zenon, <1>1, <1>4 DEF at

\* Recovered, as a function of the disk
RecoveredFrom(h, hm, d) ==
    [b \in Block |->
        LET at == {i \in 1..Len(h) : h[i] = b}
        IN IF at = {} THEN hm[b] ELSE d[CHOOSE i \in at : \A j \in at : j <= i]]

\* What recovery makes of a disk: the blocks in the header come from the log.
LEMMA RecoveredValue ==
    ASSUME NEW h \in Seq(Block), NEW hm, NEW d, Distinct(h)
    PROVE  /\ \A i \in 1..Len(h) : RecoveredFrom(h, hm, d)[h[i]] = d[i]
           /\ \A b \in Block : b \notin Entries(h) => RecoveredFrom(h, hm, d)[b] = hm[b]
<1>1. ASSUME NEW i \in 1..Len(h)
      PROVE  RecoveredFrom(h, hm, d)[h[i]] = d[i]
  <2>1. h[i] \in Block
    OBVIOUS
  <2> QED  BY Zenon, <2>1, Lookup DEF RecoveredFrom
<1>2. ASSUME NEW b \in Block, b \notin Entries(h)
      PROVE  RecoveredFrom(h, hm, d)[b] = hm[b]
  <2>1. {i \in 1..Len(h) : h[i] = b} = {}
    BY Zenon, <1>2 DEF Entries
  <2> QED  BY Zenon, <2>1 DEF RecoveredFrom
<1> QED  BY Zenon, <1>1, <1>2

\* The same of the disk as it is now.
LEMMA RecoveredNow ==
    ASSUME TypeOK, Headers
    PROVE  /\ Recovered = RecoveredFrom(dhead, home, dlog)
           /\ Recovered = [b \in Block |-> Recovered[b]]
           /\ \A i \in 1..Len(dhead) : Recovered[dhead[i]] = dlog[i]
           /\ \A b \in Block : b \notin Entries(dhead) => Recovered[b] = home[b]
<1>1. Recovered = RecoveredFrom(dhead, home, dlog)
  BY Zenon DEF Recovered, RecoveredFrom
<1>2. Recovered = [b \in Block |-> Recovered[b]]
  BY DEF Recovered
<1> QED  BY <1>1, <1>2, RecoveredValue DEF TypeOK, Headers


\* Writing a block home that the header names changes nothing recovery makes.
LEMMA InstallSame ==
    ASSUME TypeOK, Headers, UNCHANGED <<dlog, dhead>>,
           \A b \in Block : b \notin Entries(dhead) => home'[b] = home[b]
    PROVE  UNCHANGED Recovered
<1> DEFINE R == RecoveredFrom(dhead, home', dlog)
<1>1. Recovered' = R /\ R = [b \in Block |-> R[b]]
  BY DEF Recovered, RecoveredFrom
<1>2. /\ \A i \in 1..Len(dhead) : R[dhead[i]] = dlog[i]
      /\ \A b \in Block : b \notin Entries(dhead) => R[b] = home'[b]
  BY RecoveredValue DEF TypeOK, Headers
<1> HIDE DEF R
<1>3. ASSUME NEW b \in Block
      PROVE  R[b] = Recovered[b]
  <2>1. CASE b \in Entries(dhead)
    <3>1. PICK i \in 1..Len(dhead) : b = dhead[i]
      BY Zenon, <2>1 DEF Entries
    <3> QED  BY Zenon, <1>2, <3>1, RecoveredNow
  <2>2. CASE b \notin Entries(dhead)
    BY Zenon, <1>2, <2>2, RecoveredNow
  <2> QED  BY Zenon, <2>1, <2>2
<1> QED  BY Zenon, <1>1, <1>3, RecoveredNow

\* Emptying the header of a log that is installed changes nothing either.
LEMMA ClearSame ==
    ASSUME TypeOK, Headers, dhead' = <<>>, UNCHANGED home,
           \A i \in 1..Len(dhead) : home[dhead[i]] = dlog[i]
    PROVE  UNCHANGED Recovered /\ \A b \in Block : Recovered[b] = home[b]
<1>1. ASSUME NEW b \in Block
      PROVE  Recovered[b] = home[b]
  <2>1. CASE b \in Entries(dhead)
    <3>1. PICK i \in 1..Len(dhead) : b = dhead[i]
      BY Zenon, <2>1 DEF Entries
    <3> QED  BY Zenon, <3>1, RecoveredNow
  <2>2. CASE b \notin Entries(dhead)
    BY Zenon, <2>2, RecoveredNow
  <2> QED  BY Zenon, <2>1, <2>2
<1>2. \A b \in Block : Recovered'[b] = home[b]
  BY DEF Recovered
<1>3. Recovered' = [b \in Block |-> Recovered'[b]]
  BY DEF Recovered
<1> QED  BY Zenon, <1>1, <1>2, <1>3, RecoveredNow

\* What the file system sees is a function of the disk, the cache and the phase.
LEMMA SameView ==
    ASSUME UNCHANGED <<disk, buf, boot>>
    PROVE  UNCHANGED <<Recovered, Visible>>
<1>1. UNCHANGED Recovered
  BY DEF Recovered, disk
<1> QED  BY Zenon, <1>1 DEF Visible, bread, disk

\* Steps that change the disk and the cache and not what the running system sees.
LEMMA SameVisible ==
    ASSUME boot = "up", boot' = "up", \A b \in Block : bread(b)' = bread(b)
    PROVE  UNCHANGED Visible
  BY Zenon DEF Visible

\* Steps of recovery: the recovered disk stays what it is.
LEMMA RecoverRefines ==
    ASSUME Inv, Inv', Recover
    PROVE  UNCHANGED <<Recovered, Visible, Active>>
<1> USE DEF Inv
<1>1. UNCHANGED pc /\ UNCHANGED Active
  BY Zenon DEF Recover, read_head, recover_install, recover_clear, calls, Active
<1>2. CASE read_head
  <2>1. UNCHANGED Recovered
    BY <1>2 DEF read_head, Recovered, disk
  <2> QED  BY Zenon, <1>1, <1>2, <2>1 DEF read_head, Visible
<1>3. CASE recover_install
  <2>1. /\ boot = "install" /\ boot' # "up" /\ Recovery /\ lh = dhead
        /\ UNCHANGED <<dlog, dhead>>
    BY Zenon, <1>3 DEF recover_install, Recovery
  <2>2. \A b \in Block : b \notin Entries(dhead) => home'[b] = home[b]
    BY <1>3, <2>1 DEF recover_install, Entries, TypeOK
  <2>3. UNCHANGED Recovered
    BY Zenon, <2>1, <2>2, InstallSame
  <2> QED  BY Zenon, <1>1, <2>1, <2>3 DEF Visible
<1>4. CASE recover_clear
  <2>1. /\ boot = "clear" /\ boot' = "up" /\ Recovery /\ lh = dhead
        /\ dhead' = <<>> /\ UNCHANGED <<home, buf>> /\ InstalledTo(Len(lh) + 1)
    BY Zenon, <1>4 DEF recover_clear, Recovery
  <2>2. \A i \in 1..Len(dhead) : home[dhead[i]] = dlog[i]
    BY <2>1 DEF InstalledTo, TypeOK
  <2>3. UNCHANGED Recovered /\ \A b \in Block : Recovered[b] = home[b]
    BY Zenon, <2>1, <2>2, ClearSame
  <2>4. \A b \in Block : bread(b)' = home[b]
    BY Zenon, <2>1 DEF bread, Recovery
  <2> QED  BY Zenon, <1>1, <2>1, <2>3, <2>4 DEF Visible
<1> QED  BY Zenon, <1>2, <1>3, <1>4 DEF Recover

\* Steps of commit(): the header write makes the visible contents durable, all at
\* once and with no call in progress; no other step changes what a reader or a
\* crash finds.
LEMMA CommitRefines ==
    ASSUME Inv, Inv', NEW o \in Op, Commit(o)
    PROVE  Abstract!Commit \/ UNCHANGED <<Recovered, Visible, Active>>
<1> USE DEF Inv
<1>1. running /\ Cache /\ Progress /\ boot' = "up" /\ pc[o] \in Committing
  BY Zenon DEF Commit, write_log, write_head, install_trans, clear_head, end_commit, running, Committing
<1>2. /\ \A q \in Op : q # o => pc[q] \in Waiting
      /\ \A q \in Op : held[q] = {}
      /\ Active = {}
  BY Zenon, <1>1, CommitterAlone
<1>3. Active' = {}
  <2>1. pc' = pc \/ \E l \in Committing : pc' = [pc EXCEPT ![o] = l] \/ pc' = wakeup([pc EXCEPT ![o] = "idle"])
    BY Zenon DEF Commit, write_log, write_head, install_trans, clear_head, end_commit, Committing
  <2>2. \A q \in Op : pc'[q] # "call"
    BY Zenon, <1>1, <1>2, <2>1 DEF Committing, Waiting, wakeup, TypeOK
  <2> QED  BY Zenon, <2>2 DEF Active
<1>4. UNCHANGED Active
  BY Zenon, <1>2, <1>3
<1>5. CASE write_log(o)
  <2>1. /\ ~Installing /\ UNCHANGED <<home, dhead>>
    BY Zenon, <1>2, <1>5 DEF write_log, Installing, Waiting
  <2>2. dhead = <<>> /\ pin = Entries(lh)
    BY Zenon, <1>1, <2>1 DEF Progress
  <2>3. UNCHANGED Recovered
    BY <2>1, <2>2 DEF Recovered
  <2>4. buf' = buf
    <3>1. CASE tail <= Len(lh)
      <4>1. tail \in 1..Len(lh) /\ lh[tail] \in Block
        BY <3>1 DEF TypeOK
      <4>2. buf[lh[tail]] # NoBuf
        BY <1>1, <2>2, <4>1 DEF Cache, Entries
      <4> QED  BY Zenon, <1>5, <3>1, <4>1, <4>2 DEF write_log, bread, TypeOK
    <3>2. CASE ~(tail <= Len(lh))
      BY Zenon, <1>5, <3>2 DEF write_log
    <3> QED  BY Zenon, <3>1, <3>2
  <2>5. UNCHANGED Visible
    BY Zenon, <1>1, <2>1, <2>4, SameVisible DEF bread, running
  <2> QED  BY Zenon, <1>4, <2>3, <2>5
<1>6. CASE write_head(o)
  <2>1. /\ pc[o] = "write_head" /\ dhead' = lh /\ UNCHANGED <<home, dlog, buf>> /\ ~Installing
    BY Zenon, <1>2, <1>6 DEF write_head, Installing, Waiting
  <2>2. pin = Entries(lh) /\ LoggedBetween(1, Len(lh) + 1)
    BY Zenon, <1>1, <2>1 DEF Progress
  <2>3. Recovered' = RecoveredFrom(lh, home, dlog)
    BY <2>1 DEF Recovered, RecoveredFrom
  <2>4. ASSUME NEW b \in Block
        PROVE  RecoveredFrom(lh, home, dlog)[b] = bread(b)
    <3>1. CASE b \in Entries(lh)
      <4>1. PICK i \in 1..Len(lh) : b = lh[i]
        BY Zenon, <3>1 DEF Entries
      <4>2. dlog[i] = buf[b] /\ buf[b] # NoBuf
        BY <1>1, <2>2, <3>1, <4>1 DEF LoggedBetween, Cache, TypeOK
      <4> QED  BY <4>1, <4>2, RecoveredValue DEF bread, TypeOK, Headers
    <3>2. CASE b \notin Entries(lh)
      <4>1. buf[b] \in {NoBuf, home[b]}
        BY Zenon, <1>1, <1>2, <2>2, <3>2 DEF Cache
      <4> QED  BY <3>2, <4>1, RecoveredValue DEF bread, TypeOK, Headers
    <3> QED  BY Zenon, <3>1, <3>2
  <2>5. RecoveredFrom(lh, home, dlog) = [b \in Block |-> RecoveredFrom(lh, home, dlog)[b]]
    BY DEF RecoveredFrom
  <2>6. Recovered' = Visible
    BY Zenon, <1>1, <2>3, <2>4, <2>5 DEF Visible, running
  <2>7. UNCHANGED Visible
    BY Zenon, <1>1, <2>1, SameVisible DEF bread, running
  <2> QED  BY Zenon, <1>2, <1>4, <2>6, <2>7 DEF Abstract!Commit
<1>7. CASE install_trans(o)
  <2>1. /\ pc[o] = "install" /\ UNCHANGED <<dlog, dhead, lh>>
    BY Zenon, <1>7 DEF install_trans
  <2>2. dhead = lh /\ LoggedBetween(tail, Len(lh) + 1)
    BY Zenon, <1>1, <2>1 DEF Progress, Installing
  <2>3. CASE tail <= Len(lh)
    <3>1. tail \in 1..Len(lh) /\ lh[tail] \in Block /\ dlog[tail] = buf[lh[tail]]
          /\ lh[tail] \in pin
      <4>1. tail \in 1..Len(lh)
        BY <2>3 DEF TypeOK
      <4>2. lh[tail] \in Block /\ dlog[tail] = buf[lh[tail]]
        <5>1. tail <= tail /\ tail < Len(lh) + 1
          BY <4>1
        <5>2. lh[tail] \in Block
          BY <4>1 DEF TypeOK, Headers
        <5> QED  BY Zenon, <2>2, <4>1, <5>1, <5>2 DEF LoggedBetween
      <4>3. pin = {lh[i] : i \in {j \in 1..Len(lh) : tail <= j}} /\ tail <= tail
        BY <1>1, <2>1, <4>1 DEF Progress
      <4> QED  BY Zenon, <4>1, <4>2, <4>3
    <3>2. buf[lh[tail]] # NoBuf
      BY Zenon, <1>1, <3>1 DEF Cache
    <3>3. buf' = buf /\ home' = [home EXCEPT ![lh[tail]] = dlog[tail]]
      BY <1>7, <2>3, <3>1 DEF install_trans, TypeOK
    <3>4. \A b \in Block : bread(b)' = bread(b)
      BY Zenon, <3>1, <3>2, <3>3 DEF bread, TypeOK
    <3>5. UNCHANGED Visible
      BY Zenon, <1>1, <3>4, SameVisible DEF running
    <3>6. \A b \in Block : b \notin Entries(dhead) => home'[b] = home[b]
      BY Zenon, <2>2, <3>1, <3>3 DEF Entries, TypeOK
    <3>7. UNCHANGED Recovered
      BY Zenon, <2>1, <3>6, InstallSame
    <3> QED  BY Zenon, <1>4, <3>5, <3>7
  <2>4. CASE ~(tail <= Len(lh))
    BY Zenon, <1>1, <1>4, <1>7, <2>4, SameView DEF install_trans, disk, running
  <2> QED  BY Zenon, <2>3, <2>4
<1>8. CASE clear_head(o)
  <2>1. /\ pc[o] = "clear" /\ dhead' = <<>> /\ UNCHANGED <<home, buf>>
    BY Zenon, <1>8 DEF clear_head
  <2>2. dhead = lh /\ InstalledTo(Len(lh) + 1)
    BY Zenon, <1>1, <2>1 DEF Progress, Installing
  <2>3. \A i \in 1..Len(dhead) : home[dhead[i]] = dlog[i]
    BY <2>2 DEF InstalledTo, TypeOK
  <2>4. UNCHANGED Recovered
    BY Zenon, <2>1, <2>3, ClearSame
  <2>5. UNCHANGED Visible
    BY Zenon, <1>1, <2>1, SameVisible DEF bread, running
  <2> QED  BY Zenon, <1>4, <2>4, <2>5
<1>9. CASE end_commit(o)
  BY Zenon, <1>4, <1>9, SameView DEF end_commit
<1> QED  BY Zenon, <1>5, <1>6, <1>7, <1>8, <1>9 DEF Commit

\* Every step is a step of AtomicDisk or changes none of its variables.
LEMMA StepRefines ==
    ASSUME Inv, Inv', [Next]_vars
    PROVE  [Abstract!Next]_<<Recovered, Visible, Active>>
<1> USE DEF Inv
<1>1. CASE Recover
  BY Zenon, <1>1, RecoverRefines
<1>2. ASSUME NEW o \in Op, Commit(o)
      PROVE  [Abstract!Next]_<<Recovered, Visible, Active>>
  BY Zenon, <1>2, CommitRefines DEF Abstract!Next
<1>3. ASSUME NEW o \in Op, Call(o) \/ Killed(o) \/ begin_op(o)
      PROVE  [Abstract!Next]_<<Recovered, Visible, Active>>
  <2>1. /\ pc[o] \in Waiting /\ UNCHANGED <<Recovered, Visible>>
        /\ \E l \in {"begin_op", "sleep", "call"} : pc' = [pc EXCEPT ![o] = l]
    BY Zenon, <1>3, SameView DEF Call, Killed, begin_op, Waiting
  <2>2. o \notin Active /\ (UNCHANGED Active \/ Active' = Active \cup {o})
    BY <2>1 DEF Active, TypeOK, Waiting
  <2> QED  BY Zenon, <2>1, <2>2 DEF Abstract!Next, Abstract!Begin
<1>4. ASSUME NEW o \in Op, end_op(o)
      PROVE  [Abstract!Next]_<<Recovered, Visible, Active>>
  <2>1. o \in Active /\ UNCHANGED <<Recovered, Visible>>
    BY Zenon, <1>4, SameView DEF end_op, Active
  <2>2. Active' = Active \ {o}
    <3>1. \/ \E l \in {"write_log", "done"} : pc' = [pc EXCEPT ![o] = l]
          \/ pc' = wakeup([pc EXCEPT ![o] = "idle"])
      BY Zenon, <1>4 DEF end_op
    <3> QED  BY Zenon, <3>1 DEF Active, wakeup, TypeOK
  <2> QED  BY Zenon, <2>1, <2>2 DEF Abstract!Next, Abstract!End
<1>5. ASSUME NEW o \in Op, NEW b \in Block, log_write(o, b)
      PROVE  [Abstract!Next]_<<Recovered, Visible, Active>>
  BY Zenon, <1>5, SameView DEF log_write, Active
<1>6. ASSUME NEW o \in Op, NEW b \in Block, NEW v \in Val, Modify(o, b, v)
      PROVE  [Abstract!Next]_<<Recovered, Visible, Active>>
  <2>1. /\ o \in Active /\ UNCHANGED <<disk, boot, Active>> /\ boot = "up"
        /\ buf' = [buf EXCEPT ![b] = v] /\ v # NoBuf
    BY Zenon, <1>6, BufAssumption DEF Modify, Active, running
  <2>2. UNCHANGED Recovered
    BY <2>1 DEF Recovered, disk
  <2>3. bread(b)' = v /\ \A c \in Block : c # b => bread(c)' = bread(c)
    BY Zenon, <2>1 DEF bread, TypeOK, disk
  <2>4. Visible' = [Visible EXCEPT ![b] = v]
    BY Zenon, <2>1, <2>3 DEF Visible
  <2> QED  BY Zenon, <2>1, <2>2, <2>4 DEF Abstract!Next, Abstract!Write
<1>7. ASSUME NEW b \in Block, Load(b) \/ Evict(b)
      PROVE  [Abstract!Next]_<<Recovered, Visible, Active>>
  <2>1. running /\ Cache /\ boot' = "up" /\ UNCHANGED <<disk, Active>>
    BY Zenon, <1>7 DEF Load, Evict, running, calls, Active
  <2>2. /\ buf[b] \in {NoBuf, home[b]}
        /\ \E v \in {NoBuf, home[b]} : buf' = [buf EXCEPT ![b] = v]
    BY Zenon, <1>7, <2>1 DEF Load, Evict, Cache
  <2>3. \A c \in Block : bread(c)' = bread(c)
    BY Zenon, <2>1, <2>2 DEF bread, TypeOK, disk
  <2>4. UNCHANGED Visible
    BY Zenon, <2>1, <2>3, SameVisible DEF running
  <2>5. UNCHANGED Recovered
    BY <2>1 DEF Recovered, disk
  <2> QED  BY Zenon, <2>1, <2>4, <2>5
<1>8. CASE Crash
  <2>1. /\ UNCHANGED disk /\ boot' = "read_head" /\ pc' = [o \in Op |-> "idle"]
    BY Zenon, <1>8 DEF Crash
  <2>2. UNCHANGED Recovered
    BY <2>1 DEF Recovered, disk
  <2>3. Visible' = Recovered
    BY Zenon, <2>1, <2>2, RecoveredNow DEF Visible
  <2>4. Active' = {}
    BY Zenon, <2>1 DEF Active
  <2> QED  BY Zenon, <2>2, <2>3, <2>4 DEF Abstract!Next, Abstract!Crash
<1>9. CASE UNCHANGED vars
  BY Zenon, <1>9, SameView DEF vars, calls, Active
<1> QED  BY Zenon, <1>1, <1>2, <1>3, <1>4, <1>5, <1>6, <1>7, <1>8, <1>9 DEF Next

\* The log implements AtomicDisk: begin_op(), log_write(), commit(), install_trans()
\* and recovery together make the updates of concurrent calls durable all at once,
\* and only when no call is half done, whatever write a crash interrupts.
THEOREM LogImplements == Spec => ImplementsAtomicDisk
<1>1. ASSUME Init
      PROVE  Abstract!Init
  <2>1. Recovered = home
    BY <1>1 DEF Init, Recovered
  <2>2. Visible = Recovered
    BY Zenon, <1>1, <2>1 DEF Init, Visible
  <2>3. Active = {}
    BY Zenon, <1>1 DEF Init, Active
  <2> QED  BY Zenon, <1>1, <2>1, <2>2, <2>3 DEF Init, Abstract!Init
<1>2. Inv /\ Inv' /\ [Next]_vars => [Abstract!Next]_(Abstract!vars)
  BY Zenon, StepRefines DEF Abstract!vars
<1> QED  BY <1>1, <1>2, InvHolds, PTL DEF Spec, ImplementsAtomicDisk, Abstract!Spec
=============================================================================
