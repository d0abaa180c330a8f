------------------------------ MODULE LogSpace ------------------------------
(***************************************************************************)
(* The space begin_op() reserves is enough: no call panics in log_write(), *)
(* for every number of callers and every size of the log.                  *)
(***************************************************************************)
EXTENDS LogProofs

\* the reserved log blocks that the calls in progress have not used
Free == {x \in Active \X (1..MAXOPBLOCKS) : x[2] > Cardinality(wrote[x[1]])}

\* What is in the log and what is still reserved fit in it; a call has logged what
\* it wrote and stays within its limit.
Space ==
    /\ ~panic
    /\ Len(lh) + Cardinality(Free) <= LOGSIZE
    /\ wrote \in [Op -> SUBSET Block]
    /\ \A o \in Active : /\ wrote[o] \subseteq Entries(lh)
                         /\ IsFiniteSet(wrote[o]) /\ Cardinality(wrote[o]) <= OpBlocks
    /\ \A o \in Active : \A b \in held[o] : Cardinality(wrote[o] \cup {b}) <= OpBlocks

\* Free is finite and no larger than the reservation of the calls in progress.
LEMMA FreeBound ==
    ASSUME IsFiniteSet(Active)
    PROVE  /\ IsFiniteSet(Free) /\ Cardinality(Free) \in Nat
           /\ Cardinality(Free) <= Cardinality(Active) * MAXOPBLOCKS
<1>1. IsFiniteSet(1..MAXOPBLOCKS) /\ Cardinality(1..MAXOPBLOCKS) = MAXOPBLOCKS
  BY FS_Interval, SizesAssumption
<1>2. /\ IsFiniteSet(Active \X (1..MAXOPBLOCKS))
      /\ Cardinality(Active \X (1..MAXOPBLOCKS)) = Cardinality(Active) * MAXOPBLOCKS
  BY Zenon, <1>1, FS_Product
<1>3. Free \in SUBSET (Active \X (1..MAXOPBLOCKS))
  BY Zenon DEF Free
<1>4. IsFiniteSet(Free) /\ Cardinality(Free) <= Cardinality(Active) * MAXOPBLOCKS
  BY Zenon, <1>2, <1>3, FS_Subset
<1> QED  BY Zenon, <1>4, FS_CardinalityType

\* Steps outside a call: they leave the calls, what they hold and wrote alone, and
\* change lh only when no call is in progress.
LEMMA SameSpace ==
    ASSUME Space, TypeOK', Callers, Callers', UNCHANGED <<Active, wrote, held, panic>>,
           UNCHANGED lh \/ Active = {}
    PROVE  Space'
<1>1. Free' = Free
  BY Zenon DEF Free
<1>2. CASE UNCHANGED lh
  BY Zenon, <1>1, <1>2 DEF Space, Entries
<1>3. CASE Active = {}
  <2>1. Free = {}
    BY Zenon, <1>3 DEF Free
  <2>2. Cardinality(Free') = 0
    BY Zenon, <1>1, <2>1, FS_EmptySet
  <2> QED  BY <1>3, <2>2 DEF Space, TypeOK
<1> QED  BY Zenon, <1>2, <1>3

\* A call that is about to log a block has at least two blocks of its own left.
LEMMA SpaceLeft ==
    ASSUME TypeOK, Callers, Space, OpBlocks <= MAXOPBLOCKS - 2, NEW o \in Active
    PROVE  Len(lh) + 2 <= LOGSIZE /\ outstanding >= 1
<1>1. /\ Cardinality(wrote[o]) \in Nat /\ Cardinality(wrote[o]) <= MAXOPBLOCKS - 2
      /\ MAXOPBLOCKS \in Nat /\ MAXOPBLOCKS >= 2
  BY FS_CardinalityType, SizesAssumption DEF Space
<1> DEFINE x == <<o, MAXOPBLOCKS - 1>>
           y == <<o, MAXOPBLOCKS>>
<1>2. x \in Free /\ y \in Free /\ x # y
  BY <1>1 DEF Free
<1>3. IsFiniteSet(Free) /\ Cardinality(Free) \in Nat
  BY Zenon, FreeBound DEF Callers
<1> HIDE DEF x, y
<1>4. IsFiniteSet({x, y}) /\ Cardinality({x, y}) = 2
  <2>1. IsFiniteSet({x}) /\ Cardinality({x}) = 1
    BY Zenon, FS_Singleton
  <2>2. {x} \cup {y} = {x, y} /\ y \notin {x}
    BY Zenon, <1>2
  <2> QED  BY <2>1, <2>2, FS_AddElement
<1>5. {x, y} \in SUBSET Free
  BY Zenon, <1>2
<1>6. 2 <= Cardinality(Free)
  BY <1>3, <1>4, <1>5, FS_Subset
<1>7. outstanding # 0 /\ outstanding \in Nat
  BY Zenon, FS_EmptySet, FS_CardinalityType DEF Callers
<1> QED  BY <1>3, <1>6, <1>7, SizesAssumption DEF Space, TypeOK

\* Every step keeps the log within its space.
LEMMA SpaceKept ==
    ASSUME Inv, Inv', Space, OpBlocks <= MAXOPBLOCKS - 2, [Next]_vars
    PROVE  Space'
<1> USE DEF Inv
<1>1. CASE Recover
  <2>1. Active = {} /\ UNCHANGED <<Active, wrote, held, panic>>
    BY Zenon, <1>1 DEF Recover, read_head, recover_install, recover_clear, calls, Active, Callers
  <2> QED  BY Zenon, <2>1, SameSpace
<1>2. ASSUME NEW o \in Op, Commit(o)
      PROVE  Space'
  <2>1. Active = {} /\ UNCHANGED <<wrote, held, panic>>
    BY Zenon, <1>2, CommitterAlone
       DEF Commit, write_log, write_head, install_trans, clear_head, end_commit, Committing
  <2>2. UNCHANGED Active
    BY Zenon, <1>2, CommitRefines DEF Abstract!Commit
  <2> QED  BY Zenon, <2>1, <2>2, SameSpace
<1>3. ASSUME NEW o \in Op, Call(o) \/ Killed(o) \/ (begin_op(o) /\ MustWait)
      PROVE  Space'
  <2>1. UNCHANGED <<wrote, held, panic, lh>> /\ pc[o] \in Waiting
        /\ \E l \in Waiting : pc' = [pc EXCEPT ![o] = l]
    BY Zenon, <1>3 DEF Call, Killed, begin_op, Waiting
  <2>2. UNCHANGED Active
    BY Zenon, <2>1 DEF Active, TypeOK, Waiting
  <2> QED  BY Zenon, <2>1, <2>2, SameSpace
<1>4. ASSUME NEW o \in Op, begin_op(o), ~MustWait
      PROVE  Space'
  <2>1. /\ pc[o] = "begin_op" /\ pc' = [pc EXCEPT ![o] = "call"]
        /\ wrote' = [wrote EXCEPT ![o] = {}] /\ outstanding' = outstanding + 1
        /\ UNCHANGED <<lh, held, panic>>
        /\ Len(lh) + (outstanding + 1) * MAXOPBLOCKS <= LOGSIZE
    BY <1>4, SizesAssumption DEF begin_op, MustWait, TypeOK
  <2>2. held[o] = {}
    BY Zenon, <2>1 DEF Callers
  <2>3. Active' = Active \cup {o}
    BY <2>1 DEF Active, TypeOK
  <2>4. wrote'[o] = {} /\ wrote' \in [Op -> SUBSET Block] /\ \A q \in Op : q # o => wrote'[q] = wrote[q]
    BY Zenon, <2>1 DEF Space
  <2>5. /\ Cardinality(Free') \in Nat
        /\ Cardinality(Free') <= Cardinality(Active') * MAXOPBLOCKS
    <3>1. IsFiniteSet(Active)'
      BY Zenon DEF Callers
    <3>2. /\ IsFiniteSet(1..MAXOPBLOCKS) /\ Cardinality(1..MAXOPBLOCKS) = MAXOPBLOCKS
      BY FS_Interval, SizesAssumption
    <3>3. /\ IsFiniteSet(Active' \X (1..MAXOPBLOCKS))
          /\ Cardinality(Active' \X (1..MAXOPBLOCKS)) = Cardinality(Active') * MAXOPBLOCKS
      BY Zenon, <3>1, <3>2, FS_Product
    <3>4. Free' \in SUBSET (Active' \X (1..MAXOPBLOCKS))
      BY Zenon DEF Free
    <3> QED  BY Zenon, <3>3, <3>4, FS_Subset, FS_CardinalityType
  <2>6. Cardinality(Active') = outstanding + 1
    BY Zenon, <2>1 DEF Callers
  <2>7. Len(lh') + Cardinality(Free') <= LOGSIZE
    <3>1. Cardinality(Free') <= (outstanding + 1) * MAXOPBLOCKS
      BY Zenon, <2>5, <2>6
    <3>2. (outstanding + 1) * MAXOPBLOCKS \in Int
      BY SizesAssumption DEF TypeOK
    <3> QED  BY <2>1, <2>5, <3>1, <3>2, SizesAssumption DEF TypeOK
  <2>8. IsFiniteSet({}) /\ Cardinality({}) <= OpBlocks
    BY FS_EmptySet, SizesAssumption
  <2>9. o \in Op /\ \A q \in Active' : q # o => q \in Active /\ q \in Op
    BY Zenon, <2>3 DEF Active
  <2>10. \A q \in Active' : /\ wrote'[q] \subseteq Entries(lh')
                            /\ IsFiniteSet(wrote'[q]) /\ Cardinality(wrote'[q]) <= OpBlocks
    <3>1. ASSUME NEW q \in Active', q = o
          PROVE  /\ wrote'[q] \subseteq Entries(lh')
                 /\ IsFiniteSet(wrote'[q]) /\ Cardinality(wrote'[q]) <= OpBlocks
      BY Zenon, <2>4, <2>8, <3>1
    <3>2. ASSUME NEW q \in Active', q # o
          PROVE  /\ wrote'[q] \subseteq Entries(lh')
                 /\ IsFiniteSet(wrote'[q]) /\ Cardinality(wrote'[q]) <= OpBlocks
      BY Zenon, <2>1, <2>4, <2>9, <3>2 DEF Space
    <3> QED  BY Zenon, <3>1, <3>2
  <2>11. \A q \in Active' : \A b \in held'[q] : Cardinality(wrote'[q] \cup {b}) <= OpBlocks
    BY Zenon, <2>1, <2>2, <2>4, <2>9 DEF Space
  <2> QED  BY Zenon, <2>1, <2>4, <2>7, <2>10, <2>11 DEF Space
<1>5. ASSUME NEW o \in Op, end_op(o)
      PROVE  Space'
  <2>1. /\ pc[o] = "call" /\ panic' = committing /\ UNCHANGED <<lh, held, wrote>>
    BY Zenon, <1>5 DEF end_op
  <2>2. o \in Active /\ ~committing
    BY Zenon, <2>1 DEF Active, Callers
  <2>3. Active' = Active \ {o}
    <3>1. \/ \E l \in {"write_log", "done"} : pc' = [pc EXCEPT ![o] = l]
          \/ pc' = wakeup([pc EXCEPT ![o] = "idle"])
      BY Zenon, <1>5 DEF end_op
    <3> QED  BY Zenon, <3>1 DEF Active, wakeup, TypeOK
  <2>4. Free' \in SUBSET Free
    BY Zenon, <2>1, <2>3 DEF Free
  <2>5. Len(lh') + Cardinality(Free') <= LOGSIZE
    <3>1. IsFiniteSet(Free) /\ Cardinality(Free) \in Nat
      BY Zenon, FreeBound DEF Callers
    <3>2. Cardinality(Free') \in Nat /\ Cardinality(Free') <= Cardinality(Free)
      BY Zenon, <2>4, <3>1, FS_Subset, FS_CardinalityType
    <3> QED  BY <2>1, <3>1, <3>2, SizesAssumption DEF Space, TypeOK
  <2> QED  BY Zenon, <2>1, <2>2, <2>3, <2>5 DEF Space
<1>6. ASSUME NEW o \in Op, NEW b \in Block, log_write(o, b)
      PROVE  Space'
  <2>1. /\ pc[o] = "call" /\ b \in held[o] /\ o \in Active
        /\ held' = [held EXCEPT ![o] = {}] /\ wrote' = [wrote EXCEPT ![o] = @ \cup {b}]
        /\ UNCHANGED Active
    BY Zenon, <1>6 DEF log_write, Active
  <2>2. Len(lh) + 2 <= LOGSIZE /\ outstanding >= 1
    BY Zenon, <2>1, SpaceLeft
  <2>3. /\ ~panic'
        /\ \/ b \in Entries(lh) /\ lh' = lh
           \/ b \notin Entries(lh) /\ lh' = Append(lh, b)
    <3>1. ~(Len(lh) >= LOGSIZE \/ Len(lh) >= log_size - 1 \/ outstanding < 1)
      BY <2>2, SizesAssumption DEF log_size, TypeOK
    <3>2. ~panic' /\ (IF b \in Entries(lh) THEN UNCHANGED <<lh, pin>>
                                           ELSE lh' = Append(lh, b) /\ pin' = pin \cup {b})
      BY Zenon, <1>6, <3>1 DEF log_write, Space
    <3> QED  BY Zenon, <3>2
  <2>4. Entries(lh') = Entries(lh) \cup {b}
    BY Zenon, <2>3, AppendDistinct DEF TypeOK, Headers
  <2>5. /\ wrote' \in [Op -> SUBSET Block] /\ wrote'[o] = wrote[o] \cup {b}
        /\ \A q \in Op : q # o => wrote'[q] = wrote[q]
    BY Zenon, <2>1 DEF Space
  <2>6. held'[o] = {} /\ \A q \in Op : q # o => held'[q] = held[q]
    BY Zenon, <2>1 DEF TypeOK
  <2>7. /\ IsFiniteSet(wrote[o]) /\ Cardinality(wrote[o]) \in Nat
        /\ IsFiniteSet(wrote'[o]) /\ Cardinality(wrote'[o]) <= OpBlocks
        /\ Cardinality(wrote'[o]) = IF b \in wrote[o] THEN Cardinality(wrote[o]) ELSE Cardinality(wrote[o]) + 1
    BY Zenon, <2>1, <2>5, FS_AddElement, FS_CardinalityType DEF Space
  <2>8. ASSUME NEW q \in Active
        PROVE  /\ wrote'[q] \subseteq Entries(lh')
               /\ IsFiniteSet(wrote'[q]) /\ Cardinality(wrote'[q]) <= OpBlocks
    <3>1. CASE q = o
      BY Zenon, <2>1, <2>4, <2>5, <2>7, <3>1 DEF Space
    <3>2. CASE q # o
      BY Zenon, <2>4, <2>5, <3>2 DEF Space, Active
    <3> QED  BY Zenon, <3>1, <3>2
  <2>9. \A q \in Active : \A c \in held'[q] : Cardinality(wrote'[q] \cup {c}) <= OpBlocks
    BY Zenon, <2>5, <2>6 DEF Space, Active
  <2>10. Free' \in SUBSET Free
    <3>1. ASSUME NEW x \in Free'
          PROVE  x \in Free
      <4>1. /\ x \in Active \X (1..MAXOPBLOCKS) /\ x[1] \in Active /\ x[2] \in Nat
            /\ x[2] > Cardinality(wrote'[x[1]])
        BY <2>1, <3>1, SizesAssumption DEF Free
      <4>2. CASE x[1] = o
        BY <2>7, <4>1, <4>2 DEF Free
      <4>3. CASE x[1] # o
        BY Zenon, <2>5, <4>1, <4>3 DEF Free, Active
      <4> QED  BY Zenon, <4>2, <4>3
    <3> QED  BY Zenon, <3>1
  <2>11. IsFiniteSet(Free) /\ Cardinality(Free) \in Nat
    BY Zenon, FreeBound DEF Callers
  <2>12. Len(lh') + Cardinality(Free') <= LOGSIZE
    <3>1. CASE b \in Entries(lh)
      BY <2>3, <2>10, <2>11, <3>1, FS_Subset, FS_CardinalityType, SizesAssumption DEF Space, TypeOK
    <3>2. CASE b \notin Entries(lh)
      <4>1. lh' = Append(lh, b) /\ Len(lh') = Len(lh) + 1
        BY <2>3, <3>2 DEF TypeOK
      <4>2. b \notin wrote[o]
        BY Zenon, <2>1, <3>2 DEF Space
      <4> DEFINE x == <<o, Cardinality(wrote[o]) + 1>>
      <4>3. x \in Free
        BY <2>1, <2>7, <4>2, SizesAssumption DEF Free
      <4>4. x \notin Free'
        BY <2>7, <4>2 DEF Free
      <4>5. Free' \in SUBSET (Free \ {x})
        BY Zenon, <2>10, <4>4
      <4> HIDE DEF x
      <4>6. IsFiniteSet(Free \ {x}) /\ Cardinality(Free \ {x}) = Cardinality(Free) - 1
        BY Zenon, <2>11, <4>3, FS_RemoveElement
      <4>7. Cardinality(Free') \in Nat /\ Cardinality(Free') <= Cardinality(Free) - 1
        BY <4>5, <4>6, FS_Subset, FS_CardinalityType
      <4> QED  BY <2>11, <4>1, <4>7, SizesAssumption DEF Space, TypeOK
    <3> QED  BY Zenon, <3>1, <3>2
  <2> QED  BY Zenon, <2>1, <2>3, <2>5, <2>8, <2>9, <2>12 DEF Space
<1>7. ASSUME NEW o \in Op, NEW b \in Block, NEW v \in Val, Modify(o, b, v)
      PROVE  Space'
  <2>1. /\ held' = [held EXCEPT ![o] = {b}] /\ Cardinality(wrote[o] \cup {b}) <= OpBlocks
        /\ UNCHANGED <<lh, wrote, panic, Active>>
    BY Zenon, <1>7 DEF Modify, Active
  <2>2. held'[o] = {b} /\ \A q \in Op : q # o => held'[q] = held[q]
    BY Zenon, <2>1 DEF TypeOK
  <2>3. Free' = Free
    BY Zenon, <2>1 DEF Free
  <2>4. \A q \in Active : \A c \in held'[q] : Cardinality(wrote[q] \cup {c}) <= OpBlocks
    BY Zenon, <2>1, <2>2 DEF Space, Active
  <2> QED  BY Zenon, <2>1, <2>3, <2>4 DEF Space
<1>8. ASSUME NEW b \in Block, Load(b) \/ Evict(b)
      PROVE  Space'
  BY Zenon, <1>8, SameSpace DEF Load, Evict, calls, Active
<1>9. CASE Crash
  <2>1. Active' = {} /\ ~panic' /\ wrote' = [o \in Op |-> {}]
    BY Zenon, <1>9 DEF Crash, Active
  <2>2. Free' = {}
    BY Zenon, <2>1 DEF Free
  <2>3. Len(lh') + Cardinality(Free') <= LOGSIZE
    BY <2>2, FS_EmptySet DEF TypeOK
  <2>4. wrote' \in [Op -> SUBSET Block]
    BY Zenon, <2>1
  <2> QED  BY Zenon, <2>1, <2>3, <2>4 DEF Space
<1>10. CASE UNCHANGED vars
  BY Zenon, <1>10, SameSpace DEF vars, calls, Active
<1>11. ASSUME NEW o \in Op, Call(o) \/ begin_op(o) \/ Killed(o)
       PROVE  Space'
  BY Zenon, <1>3, <1>4, <1>11
<1> HIDE DEF Inv
<1> QED  BY Zenon, <1>1, <1>2, <1>5, <1>6, <1>7, <1>8, <1>9, <1>10, <1>11 DEF Next

\* No panic of log.c is reachable if every call writes at least two blocks less than
\* begin_op() reserves for it: log_write() tests for one block less than the log
\* has, and tests before it looks whether the block is in the log already.
THEOREM SpaceSafety ==
    ASSUME OpBlocks <= MAXOPBLOCKS - 2
    PROVE  Spec => []NoPanic
<1>1. Init => Space
  <2>1. ASSUME Init
        PROVE  Space
    <3>1. Active = {} /\ Free = {}
      BY Zenon, <2>1 DEF Init, Active, Free
    <3> QED  BY <2>1, <3>1, FS_EmptySet, SizesAssumption DEF Init, Space
  <2> QED  BY Zenon, <2>1
<1>2. Inv /\ Inv' /\ Space /\ [Next]_vars => Space'
  BY Zenon, SpaceKept
<1>3. Space => NoPanic
  BY Zenon DEF Space, NoPanic
<1> QED  BY <1>1, <1>2, <1>3, InvHolds, PTL DEF Spec
=============================================================================
