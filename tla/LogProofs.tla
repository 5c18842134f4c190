----------------------------- MODULE LogProofs -----------------------------
(***************************************************************************)
(* Log keeps its inductive invariant, for every set of processes, blocks   *)
(* and contents and every log size.                                        *)
(***************************************************************************)
EXTENDS LogInv, FiniteSetTheorems, TLAPS

USE DEF disk, bufs, locked, vars

\* A transaction fits the header's array and the log on disk.
LEMMA CapacityType == Capacity \in Nat /\ Capacity <= LOGSIZE /\ Capacity <= NLOG - 1
BY LogAssumption DEF Capacity

\* The two tests of log_write are one against the smaller limit.
LEMMA FullMeans == TypeOK => (Full <=> Len(lh) >= Capacity)
BY LogAssumption DEF TypeOK, LogType, Full, Capacity

\* The initial state is well typed.
LEMMA TypeInit == Init => TypeOK
<1> SUFFICES ASSUME Init PROVE TypeOK
  OBVIOUS
<1> USE LogAssumption, CapacityType DEF Init
<1>1. DiskType /\ CacheType
  BY DEF DiskType, CacheType
<1>2. LogType
  BY DEF LogType
<1>3. FlagType /\ PcType /\ WroteType
  BY Zenon DEF FlagType, PcType, WroteType, CommitStates
<1> QED BY <1>1, <1>2, <1>3 DEF TypeOK

\* A call that runs is counted in log.outstanding.
LEMMA Counted ==
    ASSUME TypeOK, CountInv, NEW p \in Procs, pc[p] = "op"
    PROVE  outstanding >= 1
<1>1. p \in Active /\ IsFiniteSet(Active)
  BY LogAssumption, FS_Subset DEF Active
<1>2. Cardinality(Active) # 0 /\ Cardinality(Active) \in Nat
  BY <1>1, FS_EmptySet, FS_CardinalityType
<1> QED BY <1>2 DEF CountInv, TypeOK

\* Every step keeps TypeOK.
LEMMA TypeStep == IInv /\ [Next]_vars => TypeOK'
<1> SUFFICES ASSUME IInv, [Next]_vars PROVE TypeOK'
  OBVIOUS
<1> USE LogAssumption, CapacityType DEF IInv, TypeOK, CommitStates
<1>1. CASE read_head
  BY <1>1 DEF read_head, DiskType, CacheType, LogType, FlagType, PcType, WroteType
<1>2. CASE recover_install
  BY <1>2 DEF recover_install, InstallBlock, Unpin, NextTail, DiskType, CacheType, LogType, FlagType, PcType, WroteType
<1>3. CASE recover_clear
  BY <1>3 DEF recover_clear, DiskType, CacheType, LogType, FlagType, PcType, WroteType
<1>4. ASSUME NEW p \in Procs, begin_op(p) PROVE TypeOK'
  <2>1. DiskType'
    BY <1>4 DEF begin_op, DiskType
  <2>2. CacheType'
    BY <1>4 DEF begin_op, CacheType
  <2>3. LogType'
    BY <1>4 DEF begin_op, LogType
  <2>4. FlagType'
    BY <1>4 DEF begin_op, FlagType
  <2>5. PcType'
    BY <1>4 DEF begin_op, PcType
  <2>6. WroteType'
    BY <1>4 DEF begin_op, WroteType
  <2> QED BY <2>1, <2>2, <2>3, <2>4, <2>5, <2>6 DEF TypeOK
<1>5. ASSUME NEW p \in Procs, end_op(p) PROVE TypeOK'
  <2>1. DiskType'
    BY <1>5 DEF end_op, DiskType
  <2>2. CacheType'
    BY <1>5 DEF end_op, CacheType
  <2>3. LogType'
    BY <1>5, Counted DEF end_op, LogType
  <2>4. FlagType'
    BY Zenon, <1>5 DEF end_op, FlagType
  <2>5. PcType'
    BY <1>5 DEF end_op, PcType, Wakeup
  <2>6. WroteType'
    BY <1>5 DEF end_op, WroteType
  <2> QED BY <2>1, <2>2, <2>3, <2>4, <2>5, <2>6 DEF TypeOK
<1>6. ASSUME NEW p \in Procs, Commit(p) PROVE TypeOK'
  <2>1. CASE write_log(p)
    BY <2>1 DEF write_log, NextTail, bread, HeadInv, DiskType, CacheType, LogType, FlagType, PcType, WroteType
  <2>2. CASE write_head(p)
    BY <2>2 DEF write_head, DiskType, CacheType, LogType, FlagType, PcType, WroteType
  <2>3. CASE install_trans(p)
    <3>1. pin[lh[tail + 1]] = 1
      BY <2>3 DEF install_trans, InstallBlock, PinsExact, BootInv, DiskType, CacheType, LogType, FlagType, PcType, WroteType
    <3> QED
      BY <2>3, <3>1 DEF install_trans, InstallBlock, Unpin, NextTail, DiskType, CacheType, LogType, FlagType, PcType, WroteType
  <2>4. CASE clear_head(p)
    BY <2>4 DEF clear_head, DiskType, CacheType, LogType, FlagType, PcType, WroteType
  <2>5. CASE end_commit(p)
    BY Zenon, <2>5 DEF end_commit, Wakeup, DiskType, CacheType, LogType, FlagType, PcType, WroteType
  <2> QED BY <1>6, <2>1, <2>2, <2>3, <2>4, <2>5 DEF Commit
<1>7. ASSUME NEW p \in Procs, NEW b \in Blocks, NEW v \in Val, log_write(p, b, v)
      PROVE TypeOK'
  <2>1. DiskType'
    BY <1>7 DEF log_write, DiskType
  <2>2. CacheType'
    <3>1. pin' = pin \/ pin' = [pin EXCEPT ![b] = @ + 1]
      BY <1>7 DEF log_write, bpin
    <3>2. pin' \in [Blocks -> Nat]
      BY <3>1 DEF CacheType
    <3>3. cache' \in [Blocks -> Val \cup {Absent}]
      BY <1>7 DEF log_write, CacheType
    <3> QED BY <3>2, <3>3 DEF CacheType
  <2>3. LogType'
    <3>1. \/ lh' = lh
          \/ lh' = Append(lh, b) /\ ~Full
      BY Zenon, <1>7 DEF log_write
    <3>2. /\ lh' \in Seq(Blocks)
          /\ Len(lh') <= Capacity
      BY <3>1, FullMeans DEF LogType
    <3> QED BY <1>7, <3>2 DEF log_write, LogType
  <2>4. FlagType'
    BY <1>7 DEF log_write, FlagType
  <2>5. PcType'
    BY <1>7 DEF log_write, PcType
  <2>6. WroteType'
    BY <1>7 DEF log_write, WroteType
  <2> QED BY <2>1, <2>2, <2>3, <2>4, <2>5, <2>6 DEF TypeOK
<1>8. ASSUME NEW b \in Blocks, Recycle(b) PROVE TypeOK'
  BY <1>8 DEF Recycle, DiskType, CacheType, LogType, FlagType, PcType, WroteType
<1>9. CASE Crash
  <2>1. DiskType'
    BY <1>9 DEF Crash, DiskType
  <2>2. CacheType'
    BY <1>9 DEF Crash, CacheType
  <2>3. LogType'
    BY <1>9 DEF Crash, LogType
  <2>4. FlagType'
    BY Zenon, <1>9 DEF Crash, FlagType
  <2>5. PcType'
    BY <1>9 DEF Crash, PcType
  <2>6. WroteType'
    BY <1>9 DEF Crash, WroteType
  <2> QED BY <2>1, <2>2, <2>3, <2>4, <2>5, <2>6 DEF TypeOK
<1>10. CASE UNCHANGED vars
  BY <1>10 DEF vars, DiskType, CacheType, LogType, FlagType, PcType, WroteType
<1> QED
  BY <1>1, <1>2, <1>3, <1>4, <1>5, <1>6, <1>7, <1>8, <1>9, <1>10 DEF Next, Recover

\* A set of reservations of the calls in A.
LEMMA ReservedBound ==
    ASSUME NEW A, IsFiniteSet(A), NEW R \in SUBSET (A \X (1..MAXOPBLOCKS))
    PROVE  /\ IsFiniteSet(R)
           /\ Cardinality(R) \in Nat
           /\ Cardinality(R) <= Cardinality(A) * MAXOPBLOCKS
<1>1. IsFiniteSet(1..MAXOPBLOCKS) /\ Cardinality(1..MAXOPBLOCKS) = MAXOPBLOCKS
  BY FS_Interval, LogAssumption
<1>2. /\ IsFiniteSet(A \X (1..MAXOPBLOCKS))
      /\ Cardinality(A \X (1..MAXOPBLOCKS)) = Cardinality(A) * MAXOPBLOCKS
  BY Zenon, <1>1, FS_Product
<1> QED BY <1>2, FS_Subset, FS_CardinalityType

\* What the call of p may still add.
Left(p) == {p} \X ((Cardinality(wrote[p]) + 1)..MAXOPBLOCKS)

\* The reservation of a running call, less the blocks it has written.
LEMMA LeftSize ==
    ASSUME TypeOK, CountInv, NEW p \in Procs, pc[p] = "op"
    PROVE  /\ Left(p) \subseteq Reserved /\ IsFiniteSet(Left(p))
           /\ Cardinality(wrote[p]) \in 0..OpBlocks
           /\ Cardinality(Left(p)) = MAXOPBLOCKS - Cardinality(wrote[p])
<1>1. PICK n : n = Cardinality(wrote[p])
  OBVIOUS
<1>2. n \in 0..OpBlocks /\ n <= MAXOPBLOCKS
  <2>1. n \in Nat /\ n <= OpBlocks
    BY Zenon, <1>1, FS_CardinalityType DEF CountInv
  <2> QED BY <2>1, LogAssumption, BudgetAssumption
<1>3. /\ IsFiniteSet((n + 1)..MAXOPBLOCKS)
      /\ Cardinality((n + 1)..MAXOPBLOCKS) = MAXOPBLOCKS - n
  <2>1. n + 1 \in Int /\ MAXOPBLOCKS \in Int
    BY <1>2, LogAssumption
  <2>2. /\ IsFiniteSet((n + 1)..MAXOPBLOCKS)
        /\ Cardinality((n + 1)..MAXOPBLOCKS) =
             IF n + 1 > MAXOPBLOCKS THEN 0 ELSE MAXOPBLOCKS - (n + 1) + 1
    BY Zenon, <2>1, FS_Interval
  <2> QED BY <1>2, <2>2, LogAssumption
<1>4. /\ IsFiniteSet(Left(p))
      /\ Cardinality(Left(p)) = 1 * Cardinality((n + 1)..MAXOPBLOCKS)
  <2>1. IsFiniteSet({p}) /\ Cardinality({p}) = 1
    BY Zenon, FS_Singleton
  <2> QED BY Zenon, <1>1, <1>3, <2>1, FS_Product DEF Left
<1>5. Left(p) \subseteq Reserved
  <2> SUFFICES ASSUME NEW k \in (n + 1)..MAXOPBLOCKS PROVE <<p, k>> \in Reserved
    BY <1>1 DEF Left
  <2> QED BY <1>1, <1>2, LogAssumption DEF Reserved
<1>6. Cardinality(Left(p)) = MAXOPBLOCKS - n
  BY <1>2, <1>3, <1>4, LogAssumption
<1> QED BY Zenon, <1>1, <1>2, <1>4, <1>5, <1>6

\* Two running calls reserve what they both may still add.
LEMMA TwoLeft ==
    ASSUME TypeOK, CountInv, LogFits,
           NEW p \in Procs, pc[p] = "op", NEW q \in Procs, pc[q] = "op", p # q
    PROVE  Len(lh) + (MAXOPBLOCKS - Cardinality(wrote[p])) <= LOGSIZE - Slack
<1>1. PICK n, m : n = Cardinality(wrote[p]) /\ m = Cardinality(wrote[q])
  OBVIOUS
<1>2. /\ n \in 0..OpBlocks /\ m \in 0..OpBlocks
      /\ Left(p) \subseteq Reserved /\ IsFiniteSet(Left(p))
      /\ Left(q) \subseteq Reserved /\ IsFiniteSet(Left(q))
      /\ Cardinality(Left(p)) = MAXOPBLOCKS - n
      /\ Cardinality(Left(q)) = MAXOPBLOCKS - m
  BY Zenon, <1>1, LeftSize
<1>3. Left(p) \cap Left(q) = {}
  BY DEF Left
<1>4. Cardinality(Left(p) \cup Left(q)) =
        Cardinality(Left(p)) + Cardinality(Left(q)) - Cardinality({})
  <2>1. Cardinality(Left(p) \cup Left(q)) =
          Cardinality(Left(p)) + Cardinality(Left(q)) - Cardinality(Left(p) \cap Left(q))
    BY ONLY Zenon, <1>2, FS_Union
  <2> QED BY ONLY <1>3, <2>1
<1>5. Cardinality({}) = 0
  BY Zenon, FS_EmptySet
<1>6. IsFiniteSet(Reserved) /\ Cardinality(Reserved) \in Nat
  <2>1. Reserved \in SUBSET (Procs \X (1..MAXOPBLOCKS)) /\ IsFiniteSet(Procs)
    BY Zenon, LogAssumption DEF Reserved
  <2> QED BY Zenon, <2>1, ReservedBound
<1>7. Cardinality(Left(p) \cup Left(q)) <= Cardinality(Reserved)
  BY Zenon, <1>2, <1>6, FS_Subset
<1>8. Len(lh) \in Nat /\ Len(lh) + Cardinality(Reserved) <= LOGSIZE
  BY DEF LogFits, TypeOK, LogType
<1>9. Len(lh) + (MAXOPBLOCKS - n) <= LOGSIZE - Slack
  BY <1>2, <1>4, <1>5, <1>6, <1>7, <1>8, LogAssumption DEF Slack
<1> QED BY Zenon, <1>1, <1>9

\* A running call finds room in the log: alone, what is there is its own or leaves
\* the slack of a call that ended; with another one both slacks are free.
LEMMA Room ==
    ASSUME TypeOK, CountInv, SpaceInv, NEW p \in Procs, pc[p] = "op"
    PROVE  Len(lh) < Capacity
<1>1. PICK n : n = Cardinality(wrote[p])
  OBVIOUS
<1>2. n \in 0..OpBlocks
  BY Zenon, <1>1, LeftSize
<1>3. \/ Len(lh) <= n
      \/ Len(lh) + (MAXOPBLOCKS - n) <= LOGSIZE - Slack
  <2>1. CASE Active = {p}
    BY Zenon, <1>1, <2>1 DEF SpaceInv, AloneInv
  <2>2. CASE Active # {p}
    <3>1. PICK q \in Procs : pc[q] = "op" /\ q # p
      BY <2>2 DEF Active
    <3> QED BY Zenon, <1>1, <3>1, TwoLeft DEF SpaceInv
  <2> QED BY Zenon, <2>1, <2>2
<1> QED BY <1>2, <1>3, LogAssumption, BudgetAssumption, CapacityType
       DEF TypeOK, LogType, Slack

\* No step panics: log_write has room and is inside a call, end_op never
\* meets a commit.
LEMMA NoPanicStep == IInv /\ [Next]_vars => NoPanic'
<1> SUFFICES ASSUME IInv, [Next]_vars PROVE NoPanic'
  OBVIOUS
<1> USE LogAssumption DEF IInv, TypeOK, PcType, NoPanic
<1>1. ASSUME NEW p \in Procs, end_op(p) PROVE NoPanic'
  <2>1. ~committing
    BY <1>1 DEF end_op, CommitInv, Active
  <2> QED BY <1>1, <2>1 DEF end_op, Wakeup
<1>2. ASSUME NEW p \in Procs, NEW b \in Blocks, NEW v \in Val, log_write(p, b, v)
      PROVE NoPanic'
  <2>1. boot = "up" /\ outstanding >= 1
    BY <1>2, Counted DEF log_write, BootInv
  <2>2. ~Full
    <3>1. pc[p] = "op"
      BY Zenon, <1>2 DEF log_write
    <3>2. Len(lh) < Capacity
      BY Zenon, <3>1, Room
    <3> QED BY <3>2, FullMeans, CapacityType DEF LogType
  <2>3. pc' = pc
    BY <1>2, <2>1, <2>2 DEF log_write, LogType
  <2> QED BY <2>3
<1>3. CASE Recover \/ Crash \/ UNCHANGED vars
  BY Zenon, <1>3 DEF Recover, read_head, recover_install, recover_clear, Crash
<1>4. ASSUME NEW p \in Procs, begin_op(p) \/ Commit(p) PROVE NoPanic'
  BY Zenon, <1>4 DEF begin_op, Commit, write_log, write_head, install_trans,
              clear_head, end_commit, Wakeup
<1>5. ASSUME NEW b \in Blocks, Recycle(b) PROVE NoPanic'
  BY <1>5 DEF Recycle
<1> QED BY <1>1, <1>2, <1>3, <1>4, <1>5 DEF Next

\* Before recovery ends nobody has entered the log.
LEMMA BootStep == IInv /\ [Next]_vars => BootInv'
<1> SUFFICES ASSUME IInv, [Next]_vars PROVE BootInv'
  OBVIOUS
<1> USE LogAssumption DEF IInv, BootInv, TypeOK
<1>1. CASE boot = "up" /\ ~Crash
  <2>1. boot' = "up"
    BY Zenon, <1>1 DEF Next, Recover, Commit, read_head, recover_install, recover_clear,
       begin_op, end_op, write_log, write_head, install_trans, clear_head,
       end_commit, log_write, Recycle
  <2> QED BY <2>1
<1>2. CASE Crash
  BY <1>2 DEF Crash
<1>3. CASE boot # "up"
  <2>1. \A p \in Procs : pc[p] = "idle"
    BY <1>3
  <2>2. CASE read_head \/ recover_clear \/ UNCHANGED vars
    BY <1>3, <2>2 DEF read_head, recover_clear
  <2>3. CASE recover_install
    BY <1>3, <2>3 DEF recover_install, InstallBlock, Unpin, DiskType, CacheType,
       LogType
  <2>4. ASSUME NEW b \in Blocks, Recycle(b) PROVE BootInv'
    BY <1>3, <2>4 DEF Recycle, CacheType
  <2>5. ASSUME NEW p \in Procs PROVE ~begin_op(p) /\ ~end_op(p) /\ ~Commit(p)
    BY Zenon, <1>3, <2>1 DEF begin_op, end_op, Commit, write_log, write_head,
       install_trans, clear_head, end_commit
  <2>6. ASSUME NEW p \in Procs, NEW b \in Blocks, NEW v \in Val
        PROVE  ~log_write(p, b, v)
    BY <2>1 DEF log_write
  <2> QED BY Zenon, <1>2, <2>2, <2>3, <2>4, <2>5, <2>6 DEF Next, Recover
<1> QED BY <1>1, <1>2, <1>3

\* log.committing has one owner and keeps calls out.
LEMMA CommitStep == IInv /\ [Next]_vars => CommitInv'
<1> SUFFICES ASSUME IInv, [Next]_vars PROVE CommitInv'
  OBVIOUS
<1> USE LogAssumption DEF IInv, TypeOK, PcType, FlagType, CommitInv, Committer,
        CommitStates, Active
<1>1. CASE Crash
  BY <1>1 DEF Crash
<1>2. CASE Recover \/ UNCHANGED vars
  <2>1. pc' = pc /\ committing' = committing
    BY Zenon, <1>2 DEF Recover, read_head, recover_install, recover_clear
  <2> QED BY <2>1
<1>3. ASSUME NEW b \in Blocks, Recycle(b) PROVE CommitInv'
  BY <1>3 DEF Recycle
<1>4. ASSUME NEW p \in Procs, begin_op(p) PROVE CommitInv'
  BY <1>4 DEF begin_op, MustWait
<1>5. ASSUME NEW p \in Procs, end_op(p) PROVE CommitInv'
  <2>1. ~committing /\ \A q \in Procs : ~Committer(q)
    BY <1>5 DEF end_op
  <2>2. CASE LastCall
    <3>1. Active = {p}
      <4>1. p \in Active /\ IsFiniteSet(Active) /\ Cardinality(Active) = 1
        BY <1>5, <2>2, FS_Subset DEF end_op, LastCall, CountInv
      <4> QED BY <4>1, FS_Singleton
    <3>2. /\ committing' = TRUE
          /\ pc'[p] \in CommitStates
          /\ \A q \in Procs \ {p} : pc'[q] = pc[q]
      BY <1>5, <2>1, <2>2 DEF end_op
    <3> QED BY <2>1, <3>1, <3>2
  <2>3. CASE ~LastCall
    BY <1>5, <2>1, <2>3 DEF end_op, Wakeup
  <2> QED BY <2>2, <2>3
<1>6. ASSUME NEW p \in Procs, Commit(p) PROVE CommitInv'
  <2>1. CASE write_log(p) \/ write_head(p) \/ install_trans(p) \/ clear_head(p)
    BY ZenonT(60), <2>1 DEF write_log, write_head, install_trans, clear_head
  <2>2. CASE end_commit(p)
    BY <2>2 DEF end_commit, Wakeup
  <2> QED BY <1>6, <2>1, <2>2 DEF Commit
<1>7. ASSUME NEW p \in Procs, NEW b \in Blocks, NEW v \in Val, log_write(p, b, v)
      PROVE CommitInv'
  BY <1>7, NoPanicStep DEF log_write, NoPanic
<1> QED BY <1>1, <1>2, <1>3, <1>4, <1>5, <1>6, <1>7 DEF Next

\* log.outstanding counts the running calls, each within its budget.
LEMMA CountStep == IInv /\ [Next]_vars => CountInv'
<1> SUFFICES ASSUME IInv, [Next]_vars PROVE CountInv'
  OBVIOUS
<1> USE LogAssumption DEF IInv, TypeOK, PcType, WroteType, LogType, CountInv
<1>0. IsFiniteSet(Active)
  BY FS_Subset DEF Active
<1>1. CASE Crash
  <2>1. Active' = {}
    BY <1>1 DEF Crash, Active
  <2>2. \A p \in Procs : wrote'[p] = {}
    BY <1>1 DEF Crash
  <2> QED BY <1>1, <2>1, <2>2, FS_EmptySet DEF Crash
<1>2. CASE Recover \/ UNCHANGED vars
  BY Zenon, <1>2 DEF Recover, read_head, recover_install, recover_clear, Active
<1>3. ASSUME NEW b \in Blocks, Recycle(b) PROVE CountInv'
  BY <1>3 DEF Recycle, Active
<1>4. ASSUME NEW p \in Procs, begin_op(p) PROVE CountInv'
  <2>1. CASE MustWait
    <3>1. Active' = Active
      BY <1>4, <2>1 DEF begin_op, Active
    <3> QED BY <1>4, <2>1, <3>1 DEF begin_op
  <2>2. CASE ~MustWait
    <3>1. Active' = Active \cup {p} /\ p \notin Active
      BY <1>4, <2>2 DEF begin_op, Active
    <3>2. Cardinality(Active') = outstanding + 1
      BY Zenon, <1>0, <3>1, FS_AddElement
    <3>3. \A q \in Procs : wrote'[q] = IF q = p THEN {} ELSE wrote[q]
      BY <1>4, <2>2 DEF begin_op
    <3>4. outstanding' = outstanding + 1
      BY <1>4, <2>2 DEF begin_op
    <3>5. \A q \in Procs : IsFiniteSet(wrote'[q]) /\ Cardinality(wrote'[q]) <= OpBlocks
      BY <3>3, FS_EmptySet
    <3> QED BY <3>2, <3>4, <3>5
  <2> QED BY <2>1, <2>2
<1>5. ASSUME NEW p \in Procs, end_op(p) PROVE CountInv'
  <2>1. Active' = Active \ {p} /\ p \in Active
    BY <1>5 DEF end_op, Active, Wakeup, CommitStates
  <2>2. Cardinality(Active') = outstanding - 1
    BY Zenon, <1>0, <2>1, FS_RemoveElement
  <2> QED BY <1>5, <2>2 DEF end_op
<1>6. ASSUME NEW p \in Procs, Commit(p) PROVE CountInv'
  <2>1. Active' = Active /\ wrote' = wrote /\ outstanding' = outstanding
    BY Zenon, <1>6 DEF Commit, write_log, write_head, install_trans, clear_head,
       end_commit, Wakeup, Active
  <2> QED BY <2>1
<1>7. ASSUME NEW p \in Procs, NEW b \in Blocks, NEW v \in Val, log_write(p, b, v)
      PROVE CountInv'
  <2>1. Active' = Active
    BY <1>7, NoPanicStep DEF log_write, NoPanic, Active
  <2>2. IsFiniteSet(wrote[p] \cup {b})
    BY FS_AddElement
  <2> QED BY <1>7, <2>1, <2>2 DEF log_write
<1> QED BY <1>1, <1>2, <1>3, <1>4, <1>5, <1>6, <1>7 DEF Next

\* A sleeper of begin_op is always owed a wakeup.
LEMMA SleeperStep == IInv /\ [Next]_vars => SleeperIsOwed'
<1> SUFFICES ASSUME IInv, [Next]_vars PROVE SleeperIsOwed'
  OBVIOUS
<1> USE LogAssumption DEF IInv, TypeOK, PcType, LogType, SleeperIsOwed
<1>1. CASE Recover \/ Crash \/ UNCHANGED vars
  BY Zenon, <1>1 DEF Recover, read_head, recover_install, recover_clear, Crash
<1>2. ASSUME NEW b \in Blocks, Recycle(b) PROVE SleeperIsOwed'
  BY <1>2 DEF Recycle
<1>3. ASSUME NEW p \in Procs, begin_op(p) PROVE SleeperIsOwed'
  <2>1. CASE MustWait /\ ~committing /\ outstanding = 0
    <3>1. boot = "up"
      BY <1>3 DEF begin_op
    <3> QED BY <2>1, <3>1, BudgetAssumption DEF MustWait, LoggedInv
  <2>2. CASE ~MustWait \/ committing \/ outstanding > 0
    BY <1>3, <2>2 DEF begin_op
  <2> QED BY <2>1, <2>2
<1>4. ASSUME NEW p \in Procs, end_op(p) PROVE SleeperIsOwed'
  <2>1. CASE LastCall
    BY <1>4, <2>1 DEF end_op
  <2>2. CASE ~LastCall
    BY <1>4, <2>2, NoPanicStep, Counted DEF end_op, LastCall, Wakeup, NoPanic
  <2> QED BY <2>1, <2>2
<1>5. ASSUME NEW p \in Procs, Commit(p) PROVE SleeperIsOwed'
  BY Zenon, <1>5 DEF Commit, write_log, write_head, install_trans, clear_head,
     end_commit, Wakeup
<1>6. ASSUME NEW p \in Procs, NEW b \in Blocks, NEW v \in Val, log_write(p, b, v)
      PROVE SleeperIsOwed'
  BY <1>6, NoPanicStep DEF log_write, NoPanic
<1> QED BY <1>1, <1>2, <1>3, <1>4, <1>5, <1>6 DEF Next

\* The log has room for what it holds and what is reserved.
LEMMA FitsStep == IInv /\ [Next]_vars => LogFits'
<1> SUFFICES ASSUME IInv, [Next]_vars PROVE LogFits'
  OBVIOUS
<1> USE LogAssumption, BudgetAssumption, CapacityType
    DEF IInv, TypeOK, LogType, SpaceInv, LogFits
<1>1. /\ IsFiniteSet(Active) /\ Reserved \in SUBSET (Active \X (1..MAXOPBLOCKS))
      /\ IsFiniteSet(Reserved) /\ Cardinality(Reserved) \in Nat
  <2>1. IsFiniteSet(Active) /\ Reserved \in SUBSET (Active \X (1..MAXOPBLOCKS))
    BY FS_Subset DEF Active, Reserved
  <2> QED BY <2>1, ReservedBound
<1>2. CASE Recover \/ Crash
  <2>1. \A p \in Procs : pc'[p] = "idle"
    BY Zenon, <1>2 DEF BootInv, Recover, read_head, recover_install, recover_clear, Crash
  <2>2. Reserved' = {}
    BY <2>1 DEF Reserved
  <2>3. Len(lh') <= LOGSIZE
    <3>1. CASE recover_clear \/ Crash
      <4>1. lh' = <<>>
        BY <3>1 DEF recover_clear, Crash
      <4> QED BY <4>1
    <3>2. CASE read_head
      BY <3>2 DEF read_head, DiskType
    <3>3. CASE recover_install
      BY <3>3 DEF recover_install
    <3> QED BY <1>2, <3>1, <3>2, <3>3 DEF Recover
  <2> QED BY <2>2, <2>3, TypeStep, FS_EmptySet
<1>3. ASSUME NEW b \in Blocks, Recycle(b) PROVE LogFits'
  BY <1>3 DEF Recycle, Reserved
<1>4. ASSUME NEW p \in Procs, begin_op(p) PROVE LogFits'
  <2>1. CASE MustWait
    <3>1. Reserved' = Reserved
      BY <1>4, <2>1 DEF begin_op, Reserved, PcType
    <3> QED BY <1>4, <2>1, <3>1 DEF begin_op
  <2>2. CASE ~MustWait
    <3>1. Reserved' \in SUBSET (Active' \X (1..MAXOPBLOCKS)) /\ IsFiniteSet(Active')
      <4>1. Reserved' \in SUBSET (Active' \X (1..MAXOPBLOCKS)) /\ Active' \subseteq Procs
        BY DEF Active, Reserved
      <4> QED BY Zenon, <4>1, FS_Subset
    <3>2. Cardinality(Reserved') <= (outstanding + 1) * MAXOPBLOCKS
      BY <1>4, <2>2, <3>1, ReservedBound, CountStep DEF begin_op, CountInv
    <3>3. Cardinality(Reserved') \in Nat
      BY Zenon, <3>1, ReservedBound
    <3> QED BY <1>4, <2>2, <3>2, <3>3 DEF begin_op, MustWait
  <2> QED BY <2>1, <2>2
<1>5. ASSUME NEW p \in Procs, end_op(p) \/ Commit(p) PROVE LogFits'
  <2>1. Reserved' \in SUBSET Reserved
    BY Zenon, <1>5 DEF end_op, Commit, write_log, write_head, install_trans, clear_head,
       end_commit, Wakeup, Reserved, PcType, CommitStates
  <2>2. Cardinality(Reserved') <= Cardinality(Reserved) /\ Cardinality(Reserved') \in Nat
    BY <1>1, <2>1, FS_Subset, FS_CardinalityType
  <2>3. boot' = boot /\ (lh' = lh \/ lh' = <<>>)
    BY Zenon, <1>5 DEF end_op, Commit, write_log, write_head, install_trans, clear_head,
       end_commit
  <2>4. Len(lh') <= Len(lh) /\ Len(lh') \in Nat /\ 0 < LOGSIZE
    BY <2>3
  <2> QED BY <1>1, <2>2, <2>3, <2>4
<1>6. ASSUME NEW p \in Procs, NEW b \in Blocks, NEW v \in Val, log_write(p, b, v)
      PROVE LogFits'
  <2>1. /\ pc' = pc /\ pc[p] = "op" /\ boot' = boot
        /\ wrote' = [wrote EXCEPT ![p] = @ \cup {b}]
        /\ Cardinality(wrote[p] \cup {b}) <= OpBlocks
    BY <1>6, NoPanicStep DEF log_write, NoPanic, PcType
  <2>2. /\ lh' = lh \/ lh' = Append(lh, b)
        /\ b \in Range(lh) => lh' = lh
    BY <1>6 DEF log_write, Absorbed
  <2>3. CASE b \in wrote[p]
    <3>1. b \in Range(lh)
      BY <2>1, <2>3 DEF LoggedInv, Active
    <3>2. wrote' = wrote
      BY <2>1, <2>3 DEF WroteType
    <3> QED BY Zenon, <2>1, <2>2, <3>1, <3>2 DEF Reserved
  <2>4. CASE b \notin wrote[p]
    <3> DEFINE k == Cardinality(wrote[p]) + 1
    <3>0. IsFiniteSet(wrote[p]) /\ Cardinality(wrote[p]) \in Nat
      BY FS_CardinalityType DEF CountInv
    <3>1. /\ k \in 1..OpBlocks
          /\ Cardinality(wrote'[p]) = k
          /\ \A q \in Procs \ {p} : wrote'[q] = wrote[q]
      <4>1. /\ wrote'[p] = wrote[p] \cup {b}
            /\ \A q \in Procs \ {p} : wrote'[q] = wrote[q]
        BY <2>1 DEF WroteType
      <4>2. Cardinality(wrote[p] \cup {b}) = k
        BY Zenon, <2>4, <3>0, FS_AddElement
      <4>3. k \in 1..OpBlocks
        BY <2>1, <3>0, <4>2
      <4> QED BY <4>1, <4>2, <4>3
    <3>2. <<p, k>> \in Reserved /\ Reserved' = Reserved \ {<<p, k>>}
      <4>1. <<p, k>> \in Reserved
        BY <2>1, <3>0, <3>1 DEF Reserved
      <4>2. ASSUME NEW r \in Procs \X (1..MAXOPBLOCKS)
            PROVE  r \in Reserved' <=> r \in Reserved /\ r # <<p, k>>
        <5>1. CASE r[1] = p
          <6>1. r \in Reserved' <=> r[2] > k
            BY Zenon, <2>1, <3>1, <5>1 DEF Reserved
          <6>2. r \in Reserved <=> r[2] > k - 1
            BY <2>1, <3>0, <5>1 DEF Reserved
          <6>3. r = <<p, k>> <=> r[2] = k
            BY <5>1
          <6> QED BY <3>0, <6>1, <6>2, <6>3
        <5>2. CASE r[1] # p
          BY <2>1, <3>1, <5>2 DEF Reserved
        <5> QED BY <5>1, <5>2
      <4> QED BY <4>1, <4>2 DEF Reserved
    <3> HIDE DEF k
    <3>3. Cardinality(Reserved') = Cardinality(Reserved) - 1
      BY Zenon, <1>1, <3>2, FS_RemoveElement
    <3>4. Len(lh') <= Len(lh) + 1 /\ Len(lh') \in Nat
      BY <2>2
    <3> QED BY SMTT(60), <1>1, <3>3, <3>4
  <2> QED BY <2>3, <2>4
<1>7. CASE UNCHANGED vars
  BY <1>7 DEF Reserved
<1> QED BY <1>2, <1>3, <1>4, <1>5, <1>6, <1>7 DEF Next

\* A call that runs alone has the log to itself, or what another left of its slack.
LEMMA AloneStep == IInv /\ [Next]_vars => AloneInv'
<1> SUFFICES ASSUME IInv, [Next]_vars, NEW q \in Procs, Active' = {q}
             PROVE  \/ Len(lh') <= Cardinality(wrote'[q])
                    \/ Len(lh') + (MAXOPBLOCKS - Cardinality(wrote'[q])) <= LOGSIZE - Slack
  BY Zenon DEF AloneInv, Active
<1>a. TypeOK /\ CountInv /\ CommitInv /\ BootInv /\ LoggedInv /\ LogFits /\ AloneInv
  BY Zenon DEF IInv, SpaceInv
<1> DEFINE Kept == Len(lh') = Len(lh) /\ wrote'[q] = wrote[q]
<1>b. ASSUME Active = {q}, Kept
      PROVE  \/ Len(lh') <= Cardinality(wrote'[q])
             \/ Len(lh') + (MAXOPBLOCKS - Cardinality(wrote'[q])) <= LOGSIZE - Slack
  BY Zenon, <1>a, <1>b DEF AloneInv
<1>1. CASE Recover \/ Crash
  <2>1. Active' = {}
    BY Zenon, <1>a, <1>1 DEF Recover, read_head, recover_install, recover_clear, Crash,
       BootInv, Active
  <2> QED BY Zenon, <2>1
<1>2. ASSUME NEW b \in Blocks, Recycle(b) PROVE Active = {q} /\ Kept
  BY Zenon, <1>2 DEF Recycle, Active
<1>3. ASSUME NEW p \in Procs, begin_op(p)
      PROVE  (Active = {q} /\ Kept) \/ Len(lh') <= Cardinality(wrote'[q])
  <2>1. CASE MustWait
    BY Zenon, <1>a, <1>3, <2>1 DEF begin_op, Active, TypeOK, PcType
  <2>2. CASE ~MustWait
    <3>1. p = q /\ Active = {} /\ ~committing /\ boot = "up"
      BY Zenon, <1>a, <1>3, <2>2 DEF begin_op, Active, TypeOK, PcType, MustWait
    <3>2. outstanding = 0
      BY Zenon, <1>a, <3>1, FS_EmptySet DEF CountInv
    <3>3. lh = <<>>
      BY <1>a, <3>1, <3>2 DEF LoggedInv
    <3>4. lh' = <<>> /\ wrote'[q] = {}
      BY Zenon, <1>a, <1>3, <2>2, <3>1, <3>3 DEF begin_op, TypeOK, WroteType
    <3>5. Cardinality({}) = 0
      BY Zenon, FS_EmptySet
    <3> QED BY <3>4, <3>5
  <2> QED BY Zenon, <2>1, <2>2
<1>4. ASSUME NEW p \in Procs, end_op(p)
      PROVE  Len(lh') + (MAXOPBLOCKS - Cardinality(wrote'[q])) <= LOGSIZE - Slack
  <2>1. lh' = lh /\ wrote' = wrote /\ pc[p] = "op" /\ pc[q] = "op" /\ p # q
    <3>1. lh' = lh /\ wrote' = wrote /\ pc[p] = "op"
      BY Zenon, <1>4 DEF end_op
    <3>2. pc'[p] # "op" /\ \A r \in Procs : pc'[r] = "op" => pc[r] = "op"
      BY Zenon, <1>a, <1>4 DEF end_op, Wakeup, TypeOK, PcType
    <3> QED BY Zenon, <3>1, <3>2 DEF Active
  <2> QED BY Zenon, <1>a, <2>1, TwoLeft
<1>5. ASSUME NEW p \in Procs, Commit(p) PROVE FALSE
  <2>1. Active = {}
    BY Zenon, <1>a, <1>5 DEF Commit, write_log, write_head, install_trans, clear_head,
       end_commit, CommitInv, Committer, CommitStates
  <2>2. \A r \in Procs : pc'[r] = "op" => pc[r] = "op"
    BY Zenon, <1>a, <1>5 DEF Commit, write_log, write_head, install_trans, clear_head,
       end_commit, Wakeup, TypeOK, PcType
  <2> QED BY Zenon, <2>1, <2>2 DEF Active
<1>6. ASSUME NEW p \in Procs, NEW b \in Blocks, NEW v \in Val, log_write(p, b, v)
      PROVE  \/ Len(lh') <= Cardinality(wrote'[q])
             \/ Len(lh') + (MAXOPBLOCKS - Cardinality(wrote'[q])) <= LOGSIZE - Slack
  <2>1. pc' = pc /\ pc[p] = "op"
    BY Zenon, <1>6, NoPanicStep DEF log_write, NoPanic, IInv, TypeOK, PcType
  <2>2. p = q /\ Active = {q}
    BY Zenon, <2>1 DEF Active
  <2>3. /\ wrote'[q] = wrote[q] \cup {b}
        /\ lh' = lh \/ lh' = Append(lh, b)
        /\ b \in Range(lh) => lh' = lh
    BY Zenon, <1>a, <1>6, <2>2 DEF log_write, Absorbed, TypeOK, WroteType
  <2>4. CASE b \in wrote[q]
    <3>1. wrote'[q] = wrote[q]
      BY Zenon, <2>3, <2>4
    <3>2. b \in Range(lh)
      BY Zenon, <1>a, <2>2, <2>4 DEF LoggedInv
    <3> QED BY Zenon, <1>b, <2>2, <2>3, <3>1, <3>2
  <2>5. CASE b \notin wrote[q]
    <3>1. PICK n : n = Cardinality(wrote[q])
      OBVIOUS
    <3>2. n \in Nat /\ Cardinality(wrote'[q]) = n + 1
      BY Zenon, <1>a, <2>3, <2>5, <3>1, FS_AddElement, FS_CardinalityType DEF CountInv
    <3>3. Len(lh) \in Nat /\ Len(lh') \in Nat /\ Len(lh') <= Len(lh) + 1
      BY <1>a, <2>3 DEF TypeOK, LogType
    <3>4. \/ Len(lh) <= n
          \/ Len(lh) + (MAXOPBLOCKS - n) <= LOGSIZE - Slack
      BY Zenon, <1>a, <2>2, <3>1 DEF AloneInv
    <3> QED BY <3>2, <3>3, <3>4, LogAssumption DEF Slack
  <2> QED BY Zenon, <2>4, <2>5
<1>7. CASE UNCHANGED vars
  BY Zenon, <1>b, <1>7 DEF Active
<1> QED BY Zenon, <1>b, <1>1, <1>2, <1>3, <1>4, <1>5, <1>6, <1>7 DEF Next

\* Appending a block to a header.
LEMMA AppendRange ==
    ASSUME NEW s \in Seq(Blocks), NEW b \in Blocks
    PROVE  /\ Range(Append(s, b)) = Range(s) \cup {b}
           /\ IsInjective(s) /\ b \notin Range(s) => IsInjective(Append(s, b))
<1>1. /\ DOMAIN s = 1..Len(s) /\ DOMAIN Append(s, b) = 1..(Len(s) + 1)
      /\ Len(s) \in Nat
      /\ \A i \in 1..Len(s) : Append(s, b)[i] = s[i]
      /\ Append(s, b)[Len(s) + 1] = b
  OBVIOUS
<1>2. Range(Append(s, b)) = Range(s) \cup {b}
  BY <1>1 DEF Range
<1>3. ASSUME IsInjective(s), b \notin Range(s) PROVE IsInjective(Append(s, b))
  BY <1>1, <1>3 DEF Range, IsInjective
<1> QED BY <1>2, <1>3

\* log_write either absorbs the block or appends it and takes one pin.
LEMMA LogWriteEffect ==
    ASSUME IInv, NEW p \in Procs, NEW b \in Blocks, NEW v \in Val,
           log_write(p, b, v)
    PROVE  /\ pc' = pc /\ pc[p] = "op" /\ boot = "up" /\ boot' = "up"
           /\ ~committing /\ dhead = <<>>
           /\ \A q \in Procs : pc[q] \notin CommitStates
           /\ outstanding' = outstanding /\ outstanding >= 1
           /\ cache' = [cache EXCEPT ![b] = v]
           /\ wrote' = [wrote EXCEPT ![p] = @ \cup {b}]
           /\ b \in Range(lh) => lh' = lh /\ pin' = pin
           /\ b \notin Range(lh) => /\ lh' = Append(lh, b)
                                    /\ pin' = [pin EXCEPT ![b] = @ + 1]
<1> USE LogAssumption DEF IInv, TypeOK, LogType
<1>1. pc[p] = "op" /\ boot = "up" /\ outstanding >= 1 /\ boot' = "up"
  BY Counted DEF log_write, BootInv
<1>2. ~committing /\ \A q \in Procs : pc[q] \notin CommitStates
  BY <1>1 DEF CommitInv, Committer, Active
<1>3. ~Full
  <2>1. Len(lh) < Capacity
    BY Zenon, <1>1, Room
  <2> QED BY <2>1, FullMeans, CapacityType
<1>4. dhead = <<>>
  BY <1>1, <1>2 DEF HeadInv, CommitStates
<1>5. ~(Full \/ outstanding < 1)
  BY <1>1, <1>3
<1> QED BY Zenon, <1>1, <1>2, <1>4, <1>5 DEF log_write, Absorbed, bpin

\* The header holds each block once, and all the running calls wrote.
LEMMA LoggedStep == IInv /\ [Next]_vars => LoggedInv'
<1> SUFFICES ASSUME IInv, [Next]_vars PROVE LoggedInv'
  OBVIOUS
<1>a. /\ TypeOK /\ NoPanic /\ CountInv /\ CommitInv /\ BootInv /\ LoggedInv
      /\ HeadInv
  BY DEF IInv
<1> USE LogAssumption, <1>a DEF TypeOK, PcType, LogType, DiskType, LoggedInv
<1>0. IsInjective(<<>>)
  BY DEF IsInjective
<1>1. CASE Recover \/ Crash
  <2>1. Active' = {}
    BY Zenon, <1>1 DEF Recover, read_head, recover_install, recover_clear, Crash,
       BootInv, Active
  <2>2. boot' = "up" => lh' = <<>>
    BY Zenon, <1>1 DEF Recover, read_head, recover_install, recover_clear, Crash
  <2>3. lh' \in {lh, dhead, <<>>} /\ dhead' \in {dhead, <<>>}
    BY Zenon, <1>1 DEF Recover, read_head, recover_install, recover_clear, Crash,
       InstallBlock
  <2> QED BY Zenon, <1>0, <2>1, <2>2, <2>3
<1>2. ASSUME NEW b \in Blocks, Recycle(b) PROVE LoggedInv'
  BY <1>2 DEF Recycle, Active
<1>3. ASSUME NEW p \in Procs, begin_op(p) PROVE LoggedInv'
  <2>1. lh' = lh /\ dhead' = dhead /\ boot' = boot /\ committing' = committing
    BY Zenon, <1>3 DEF begin_op
  <2>2. outstanding' \in {outstanding, outstanding + 1}
    BY <1>3 DEF begin_op
  <2>3. \A q \in Active' : wrote'[q] = {} \/ (q \in Active /\ wrote'[q] = wrote[q])
    BY <1>3 DEF begin_op, Active, WroteType
  <2>4. committing \/ outstanding > 0 => committing' \/ outstanding' > 0
    BY SMTT(60), <2>1, <2>2
  <2> QED BY <2>1, <2>3, <2>4
<1>4. ASSUME NEW p \in Procs, end_op(p) PROVE LoggedInv'
  <2>1. lh' = lh /\ dhead' = dhead /\ boot' = boot /\ wrote' = wrote
    BY Zenon, <1>4 DEF end_op
  <2>2. committing' \/ outstanding' > 0
    BY <1>4, Counted, NoPanicStep DEF end_op, LastCall, NoPanic
  <2>3. Active' \subseteq Active
    BY Zenon, <1>4 DEF end_op, Wakeup, Active, CommitStates
  <2> QED BY <2>1, <2>2, <2>3
<1>5. ASSUME NEW p \in Procs, Commit(p) PROVE LoggedInv'
  <2>1. Active' = {}
    BY Zenon, <1>5 DEF Commit, write_log, write_head, install_trans, clear_head,
       end_commit, Wakeup, Active, CommitInv, Committer, CommitStates
  <2>2. lh' \in {lh, <<>>} /\ dhead' \in {dhead, lh, <<>>}
    BY Zenon, <1>5 DEF Commit, write_log, write_head, install_trans, clear_head,
       end_commit, InstallBlock
  <2>3. committing' \/ lh' = <<>>
    BY Zenon, <1>5 DEF Commit, write_log, write_head, install_trans, clear_head,
       end_commit, HeadInv, CommitInv, Committer, CommitStates
  <2> QED BY Zenon, <1>0, <2>1, <2>2, <2>3
<1>6. ASSUME NEW p \in Procs, NEW b \in Blocks, NEW v \in Val, log_write(p, b, v)
      PROVE LoggedInv'
  <2>1. outstanding' > 0 /\ dhead' = dhead /\ Active' = Active
    <3>1. pc' = pc /\ outstanding' = outstanding /\ outstanding >= 1
      BY <1>6, LogWriteEffect
    <3>2. dhead' = dhead
      BY <1>6 DEF log_write
    <3> QED BY <3>1, <3>2 DEF Active
  <2>2. Range(lh') = Range(lh) \cup {b} /\ IsInjective(lh')
    <3>1. \/ b \in Range(lh) /\ lh' = lh
          \/ b \notin Range(lh) /\ lh' = Append(lh, b)
      BY Zenon, <1>6, LogWriteEffect
    <3>2. CASE b \in Range(lh) /\ lh' = lh
      BY <3>2
    <3>3. CASE b \notin Range(lh) /\ lh' = Append(lh, b)
      BY Zenon, <3>3, AppendRange
    <3> QED BY Zenon, <3>1, <3>2, <3>3
  <2>3. \A q \in Procs : wrote'[q] \subseteq wrote[q] \cup {b}
    BY Zenon, <1>6 DEF log_write, WroteType
  <2> QED BY Zenon, <2>1, <2>2, <2>3 DEF Active
<1>7. CASE UNCHANGED vars
  BY Zenon, <1>7 DEF Active
<1> QED BY Zenon, <1>1, <1>2, <1>3, <1>4, <1>5, <1>6, <1>7 DEF Next

\* While one process commits the others are outside the log.
LEMMA OnlyCommitter ==
    ASSUME IInv, NEW p \in Procs, pc[p] \in CommitStates
    PROVE  /\ boot = "up" /\ committing /\ Active = {}
           /\ \A q \in Procs \ {p} : pc[q] \in {"idle", "asleep", "woken"}
<1>1. boot = "up"
  BY DEF IInv, BootInv, CommitStates
<1>2. committing /\ Active = {} /\ \A q \in Procs \ {p} : pc[q] \notin CommitStates
  BY DEF IInv, CommitInv, Committer
<1>3. \A q \in Procs \ {p} : pc[q] \in {"idle", "asleep", "woken"}
  BY <1>2 DEF IInv, TypeOK, PcType, Active, NoPanic
<1> QED BY <1>1, <1>2, <1>3

\* While a call runs nobody commits.
LEMMA NoCommitter ==
    ASSUME IInv, NEW p \in Procs, pc[p] = "op"
    PROVE  /\ boot = "up" /\ ~committing /\ dhead = <<>>
           /\ \A q \in Procs : pc[q] \in {"idle", "asleep", "woken", "op"}
<1>1. boot = "up"
  BY DEF IInv, BootInv
<1>2. ~committing /\ \A q \in Procs : pc[q] \notin CommitStates
  BY DEF IInv, CommitInv, Committer, Active
<1>3. \A q \in Procs : pc[q] \in {"idle", "asleep", "woken", "op"}
  BY <1>2 DEF IInv, TypeOK, PcType, NoPanic
<1>4. dhead = <<>>
  BY <1>1, <1>3 DEF IInv, HeadInv
<1> QED BY <1>1, <1>2, <1>3, <1>4

\* The header on disk is empty but while a transaction is installed.
LEMMA HeadStep == IInv /\ [Next]_vars => HeadInv'
<1> SUFFICES ASSUME IInv, [Next]_vars PROVE HeadInv'
  OBVIOUS
<1>a. TypeOK /\ BootInv /\ HeadInv
  BY DEF IInv
<1> USE <1>a DEF TypeOK, PcType, LogType, HeadInv
<1>1. CASE Recover \/ Crash
  <2>1. \A p \in Procs : pc'[p] = "idle"
    BY Zenon, <1>1 DEF BootInv, Recover, read_head, recover_install, recover_clear, Crash
  <2>2. /\ boot' = "install" => lh' = dhead'
        /\ boot' = "up" => dhead' = <<>>
    BY Zenon, <1>1 DEF Recover, read_head, recover_install, recover_clear, Crash,
       InstallBlock
  <2> QED BY <2>1, <2>2
<1>2. ASSUME NEW b \in Blocks, Recycle(b) PROVE HeadInv'
  BY <1>2 DEF Recycle
<1>3. ASSUME NEW p \in Procs, begin_op(p) PROVE HeadInv'
  BY <1>3 DEF begin_op
<1>4. ASSUME NEW p \in Procs, end_op(p) PROVE HeadInv'
  <2>1. /\ dhead = <<>> /\ boot = "up"
        /\ \A q \in Procs : pc[q] \in {"idle", "asleep", "woken", "op"}
    BY Zenon, <1>4, NoCommitter DEF end_op
  <2>2. dhead' = dhead /\ boot' = boot /\ lh' = lh
    BY <1>4 DEF end_op
  <2>3. \A q \in Procs : \/ pc'[q] \in {"idle", "asleep", "woken", "op", "panic"}
                         \/ pc'[q] = "finish" /\ lh = <<>>
                         \/ pc'[q] = "write_log" /\ lh # <<>> /\ tail' = 0
    BY <1>4, <2>1 DEF end_op, Wakeup
  <2> QED BY <2>1, <2>2, <2>3
<1>5. ASSUME NEW p \in Procs, Commit(p) PROVE HeadInv'
  <2>1. /\ boot = "up"
        /\ \A q \in Procs \ {p} : pc[q] \in {"idle", "asleep", "woken"}
    BY Zenon, <1>5, OnlyCommitter DEF Commit, write_log, write_head, install_trans,
       clear_head, end_commit, CommitStates
  <2>2. CASE write_log(p)
    <3>1. /\ pc[p] = "write_log" /\ tail < Len(lh) /\ tail' = tail + 1
          /\ lh' = lh /\ dhead' = dhead /\ boot' = boot
          /\ pc'[p] = IF tail' = Len(lh) THEN "write_head" ELSE "write_log"
          /\ \A q \in Procs \ {p} : pc'[q] = pc[q]
      BY Zenon, <2>2 DEF write_log, NextTail
    <3>2. dhead = <<>> /\ lh # <<>>
      BY Zenon, <2>1, <3>1
    <3> QED BY <2>1, <3>1, <3>2
  <2>3. CASE write_head(p)
    BY <2>1, <2>3 DEF write_head
  <2>4. CASE install_trans(p)
    BY <2>1, <2>4 DEF install_trans, InstallBlock, NextTail
  <2>5. CASE clear_head(p)
    BY <2>1, <2>5 DEF clear_head
  <2>6. CASE end_commit(p)
    BY <2>1, <2>6 DEF end_commit, Wakeup
  <2> QED BY Zenon, <1>5, <2>2, <2>3, <2>4, <2>5, <2>6 DEF Commit
<1>6. ASSUME NEW p \in Procs, NEW b \in Blocks, NEW v \in Val, log_write(p, b, v)
      PROVE HeadInv'
  <2>1. /\ dhead = <<>> /\ boot = "up" /\ pc' = pc
        /\ \A q \in Procs : pc[q] \in {"idle", "asleep", "woken", "op"}
    BY Zenon, <1>6, NoCommitter, LogWriteEffect DEF log_write
  <2>2. dhead' = dhead /\ boot' = boot
    BY Zenon, <1>6 DEF log_write
  <2> QED BY <2>1, <2>2
<1>7. CASE UNCHANGED vars
  BY <1>7
<1> QED BY Zenon, <1>1, <1>2, <1>3, <1>4, <1>5, <1>6, <1>7 DEF Next

\* bpin and bunpin balance.
LEMMA PinsStep == IInv /\ [Next]_vars => PinsExact'
<1> SUFFICES ASSUME IInv, [Next]_vars PROVE PinsExact'
  OBVIOUS
<1>a. TypeOK /\ BootInv /\ HeadInv /\ PinsExact /\ IsInjective(lh)
  BY DEF IInv, LoggedInv
<1> USE <1>a DEF TypeOK, PcType, LogType, CacheType
<1>1. CASE Recover \/ Crash
  <2>1. boot' = "up" => lh' = <<>> /\ \A b \in Blocks : pin'[b] = 0
    BY Zenon, <1>1 DEF BootInv, Recover, read_head, recover_install, recover_clear, Crash
  <2> QED BY <2>1 DEF PinsExact
<1>2. ASSUME NEW b \in Blocks, Recycle(b) PROVE PinsExact'
  BY <1>2 DEF Recycle, PinsExact
<1>3. ASSUME NEW p \in Procs, begin_op(p) PROVE PinsExact'
  BY <1>3 DEF begin_op, PinsExact
<1>4. ASSUME NEW p \in Procs, end_op(p) PROVE PinsExact'
  <2>1. /\ boot = "up"
        /\ \A q \in Procs : pc[q] # "install" /\ pc'[q] # "install"
    BY Zenon, <1>4, NoCommitter DEF end_op, Wakeup
  <2>2. pin' = pin /\ lh' = lh
    BY <1>4 DEF end_op
  <2> QED BY Zenon, <2>1, <2>2 DEF PinsExact
<1>5. ASSUME NEW p \in Procs, Commit(p) PROVE PinsExact'
  <2>1. /\ boot = "up"
        /\ \A q \in Procs \ {p} : pc[q] \in {"idle", "asleep", "woken"}
    BY Zenon, <1>5, OnlyCommitter DEF Commit, write_log, write_head, install_trans,
       clear_head, end_commit, CommitStates
  <2>2. CASE write_log(p)
    BY Zenon, <2>1, <2>2 DEF write_log, PinsExact
  <2>3. CASE write_head(p)
    <3>1. \A j \in DOMAIN lh : ~(j <= tail')
      BY <2>3 DEF write_head
    <3>2. \A q \in Procs : pc[q] # "install"
      BY Zenon, <2>1, <2>3 DEF write_head
    <3>3. pin' = pin /\ lh' = lh
      BY <2>3 DEF write_head
    <3> QED BY Zenon, <2>1, <3>1, <3>2, <3>3 DEF PinsExact
  <2>4. CASE install_trans(p)
    <3>1. /\ pc[p] = "install" /\ pc' = pc /\ lh' = lh
          /\ tail' = tail + 1 /\ tail + 1 \in DOMAIN lh
          /\ pin' = [pin EXCEPT ![lh[tail + 1]] = @ - 1]
      BY <2>4 DEF install_trans, InstallBlock, NextTail, Unpin
    <3>2. \A b \in Blocks : pin[b] = IF \E j \in DOMAIN lh : lh[j] = b /\ j > tail
                                     THEN 1 ELSE 0
      BY SMTT(60), <2>1, <3>1 DEF PinsExact
    <3>3. \A b \in Blocks : pin'[b] = IF \E j \in DOMAIN lh : lh[j] = b /\ j > tail + 1
                                      THEN 1 ELSE 0
      <4> SUFFICES ASSUME NEW b \in Blocks
                   PROVE  pin'[b] = IF \E j \in DOMAIN lh : lh[j] = b /\ j > tail + 1
                                    THEN 1 ELSE 0
        OBVIOUS
      <4>1. CASE b = lh[tail + 1]
        <5>1. pin[b] = 1
          BY <3>1, <3>2, <4>1
        <5>2. ~ \E j \in DOMAIN lh : lh[j] = b /\ j > tail + 1
          BY <3>1, <4>1 DEF IsInjective
        <5> QED BY <3>1, <4>1, <5>1, <5>2
      <4>2. CASE b # lh[tail + 1]
        BY <3>1, <3>2, <4>2
      <4> QED BY <4>1, <4>2
    <3>4. \A j \in DOMAIN lh : j > tail + 1 <=> ~(j <= tail')
      BY <3>1
    <3> QED BY Zenon, <3>1, <3>3, <3>4 DEF PinsExact
  <2>5. CASE clear_head(p)
    <3>1. \A j \in DOMAIN lh : j <= tail
      BY <2>5 DEF clear_head, Installed
    <3>2. \A b \in Blocks : pin[b] = 0
      BY Zenon, <2>1, <2>5, <3>1 DEF clear_head, PinsExact
    <3> QED BY <2>5, <3>2 DEF clear_head, PinsExact
  <2>6. CASE end_commit(p)
    BY <2>1, <2>6 DEF end_commit, Wakeup, PinsExact
  <2> QED BY <1>5, <2>2, <2>3, <2>4, <2>5, <2>6 DEF Commit
<1>6. ASSUME NEW p \in Procs, NEW b \in Blocks, NEW v \in Val, log_write(p, b, v)
      PROVE PinsExact'
  <2>1. /\ boot = "up" /\ pc' = pc /\ boot' = "up"
        /\ b \in Range(lh) => lh' = lh /\ pin' = pin
        /\ b \notin Range(lh) => /\ lh' = Append(lh, b)
                                 /\ pin' = [pin EXCEPT ![b] = @ + 1]
    BY <1>6, LogWriteEffect
  <2>2. \A q \in Procs : pc[q] # "install"
    BY Zenon, <1>6, NoCommitter DEF log_write
  <2>3. \A c \in Blocks : pin[c] = IF c \in Range(lh) THEN 1 ELSE 0
    BY SMTT(60), <2>1, <2>2 DEF PinsExact, Range
  <2>4. Range(lh') = Range(lh) \cup {b}
    <3>1. CASE b \in Range(lh)
      BY <2>1, <3>1
    <3>2. CASE b \notin Range(lh)
      BY Zenon, <2>1, <3>2, AppendRange
    <3> QED BY <3>1, <3>2
  <2>5. \A c \in Blocks : pin'[c] = IF c \in Range(lh') THEN 1 ELSE 0
    BY <2>1, <2>3, <2>4
  <2> QED BY <2>1, <2>2, <2>5 DEF PinsExact, Range
<1>7. CASE UNCHANGED vars
  BY <1>7 DEF PinsExact
<1> QED BY <1>1, <1>2, <1>3, <1>4, <1>5, <1>6, <1>7 DEF Next

\* An unpinned buffer agrees with the disk.
LEMMA CoherentStep == IInv /\ [Next]_vars => CacheCoherent'
<1> SUFFICES ASSUME IInv, [Next]_vars PROVE CacheCoherent'
  OBVIOUS
<1>a. TypeOK /\ BootInv /\ PinsExact /\ CacheCoherent
  BY DEF IInv
<1> USE <1>a DEF TypeOK, PcType, LogType, CacheType, DiskType
<1>1. CASE Recover \/ Crash
  BY Zenon, <1>1 DEF BootInv, CacheCoherent, Recover, read_head, recover_install,
     recover_clear, Crash
<1>2. ASSUME NEW b \in Blocks, Recycle(b) PROVE CacheCoherent'
  BY <1>2 DEF Recycle, CacheCoherent
<1>3. ASSUME NEW p \in Procs, begin_op(p) \/ end_op(p) PROVE CacheCoherent'
  BY Zenon, <1>3 DEF begin_op, end_op, CacheCoherent
<1>4. ASSUME NEW p \in Procs, Commit(p) PROVE CacheCoherent'
  <2>1. CASE install_trans(p)
    <3>1. boot = "up" /\ boot' = boot
      BY <2>1, OnlyCommitter DEF install_trans, CommitStates
    <3>2. /\ home' = [home EXCEPT ![lh[tail + 1]] = dlog[tail + 1]]
          /\ cache' = [cache EXCEPT ![lh[tail + 1]] = dlog[tail + 1]]
          /\ pin' = [pin EXCEPT ![lh[tail + 1]] = @ - 1]
          /\ lh[tail + 1] \in Blocks
      BY <2>1 DEF install_trans, InstallBlock, Unpin
    <3>3. ASSUME NEW b \in Blocks, pin'[b] = 0 PROVE cache'[b] \in {Absent, home'[b]}
      BY <3>1, <3>2, <3>3 DEF CacheCoherent
    <3> QED BY <3>3 DEF CacheCoherent
  <2>2. CASE ~install_trans(p)
    BY Zenon, <1>4, <2>2 DEF Commit, write_log, write_head, clear_head, end_commit,
       CacheCoherent
  <2> QED BY <2>1, <2>2
<1>5. ASSUME NEW p \in Procs, NEW b \in Blocks, NEW v \in Val, log_write(p, b, v)
      PROVE CacheCoherent'
  <2>1. /\ boot = "up" /\ home' = home
        /\ cache' = [cache EXCEPT ![b] = v]
        /\ b \in Range(lh) => pin' = pin
        /\ b \notin Range(lh) => pin' = [pin EXCEPT ![b] = @ + 1]
    BY Zenon, <1>5, LogWriteEffect DEF log_write
  <2>2. b \in Range(lh) => pin[b] = 1
    BY Zenon, <1>5, <2>1, NoCommitter DEF log_write, PinsExact, Range
  <2>3. ASSUME NEW c \in Blocks, pin'[c] = 0 PROVE cache'[c] \in {Absent, home'[c]}
    <3>1. c # b
      BY <2>1, <2>2, <2>3
    <3>2. pin[c] = 0
      BY <2>1, <2>3, <3>1
    <3> QED BY <2>1, <3>1, <3>2 DEF CacheCoherent
  <2> QED BY <2>3 DEF CacheCoherent
<1>6. CASE UNCHANGED vars
  BY <1>6 DEF CacheCoherent
<1> QED BY <1>1, <1>2, <1>3, <1>4, <1>5, <1>6 DEF Next

\* A block commit still has to install is pinned, so it is in the cache.
LEMMA LoggedPinned ==
    ASSUME IInv, NEW p \in Procs, pc[p] \in {"write_log", "write_head", "install"},
           NEW j \in DOMAIN lh, pc[p] = "install" => j > tail
    PROVE  pin[lh[j]] = 1 /\ cache[lh[j]] # Absent
<1>1. boot = "up" /\ \A q \in Procs \ {p} : pc[q] # "install"
  BY OnlyCommitter DEF CommitStates
<1>2. lh[j] \in Blocks /\ j \in Nat /\ tail \in Nat
  BY DEF IInv, TypeOK, LogType
<1>3. j <= tail => ~ \E q \in Procs : pc[q] = "install"
  BY <1>1, <1>2
<1>4. pin[lh[j]] = 1
  BY <1>1, <1>2, <1>3 DEF IInv, PinsExact
<1> QED BY <1>2, <1>4 DEF IInv, DataInv

\* What commit has copied is in the log, what it has installed is home.
LEMMA DataStep == IInv /\ [Next]_vars => DataInv'
<1> SUFFICES ASSUME IInv, [Next]_vars PROVE DataInv'
  OBVIOUS
<1>a. TypeOK /\ BootInv /\ HeadInv /\ PinsExact /\ CacheCoherent /\ DataInv
      /\ IsInjective(lh)
  BY Zenon DEF IInv, LoggedInv
<1> USE <1>a DEF TypeOK, PcType, LogType, CacheType, DiskType
<1>1. CASE read_head \/ recover_clear \/ Crash
  <2>1. /\ \A p \in Procs : pc'[p] = "idle"
        /\ \A b \in Blocks : pin'[b] = 0
        /\ boot' = "install" => tail' = 0 /\ Len(lh') \in Nat
    BY SMTT(60), <1>1 DEF BootInv, read_head, recover_clear, Crash
  <2> QED BY SMTT(60), <2>1 DEF DataInv, Installing
<1>2. CASE recover_install
  <2>1. /\ \A p \in Procs : pc'[p] = "idle"
        /\ \A b \in Blocks : pin'[b] = 0
    BY SMTT(60), <1>2 DEF BootInv, recover_install, InstallBlock, Unpin
  <2>2. /\ home' = [home EXCEPT ![lh[tail + 1]] = dlog[tail + 1]]
        /\ tail' = tail + 1 /\ lh' = lh /\ dlog' = dlog /\ tail < Len(lh)
        /\ \A j \in 1..tail : home[lh[j]] = dlog[j]
    BY Zenon, <1>2 DEF recover_install, InstallBlock, NextTail, DataInv, Installing
  <2>3. tail' <= Len(lh') /\ \A j \in 1..tail' : home'[lh'[j]] = dlog'[j]
    <3>1. IsInjective(lh) /\ lh \in Seq(Blocks) /\ home \in [Blocks -> Val] /\ tail \in Nat
      BY <1>a
    <3> QED BY ONLY SMTT(60), <2>2, <3>1 DEF IsInjective
  <2>4. 1 # 0 /\ ~(0 > 0)
    OBVIOUS
  <2> QED BY Zenon, <2>1, <2>3, <2>4 DEF DataInv
<1>3. ASSUME NEW b \in Blocks, Recycle(b) PROVE DataInv'
  <2>1. \A q \in Procs, j \in DOMAIN lh :
           /\ pc[q] \in {"write_log", "write_head"} => lh[j] # b
           /\ pc[q] = "install" /\ j > tail => lh[j] # b
    BY <1>3, LoggedPinned DEF Recycle
  <2>2. /\ home' = home /\ dlog' = dlog /\ lh' = lh /\ tail' = tail /\ pc' = pc
        /\ boot' = boot /\ pin' = pin
        /\ pin[b] = 0
        /\ \A c \in Blocks \ {b} : cache'[c] = cache[c]
    BY <1>3 DEF Recycle
  <2>3. \A j \in 1..Len(lh) : j \in DOMAIN lh /\ lh[j] \in Blocks
    OBVIOUS
  <2>4. \A q \in Procs :
          /\ pc[q] = "write_log" => \A j \in 1..tail : dlog[j] = cache'[lh[j]]
          /\ pc[q] \in {"write_head", "install"} =>
                \A j \in 1..Len(lh) : (pc[q] = "install" => j > tail) =>
                    dlog[j] = cache'[lh[j]]
    <3> SUFFICES ASSUME NEW q \in Procs
                 PROVE  /\ pc[q] = "write_log" =>
                              \A j \in 1..tail : dlog[j] = cache'[lh[j]]
                        /\ pc[q] \in {"write_head", "install"} =>
                              \A j \in 1..Len(lh) : (pc[q] = "install" => j > tail)
                                  => dlog[j] = cache'[lh[j]]
      BY Zenon
    <3>1. CASE pc[q] = "write_log"
      <4> SUFFICES ASSUME NEW j \in 1..tail PROVE dlog[j] = cache'[lh[j]]
        BY Zenon, <3>1
      <4>1. tail < Len(lh)
        BY Zenon, <3>1 DEF HeadInv
      <4>2. j \in 1..Len(lh)
        BY <4>1
      <4>3. lh[j] \in Blocks /\ lh[j] # b
        BY Zenon, <2>1, <2>3, <3>1, <4>2
      <4>4. dlog[j] = cache[lh[j]]
        BY Zenon, <3>1 DEF DataInv
      <4> QED BY Zenon, <2>2, <4>3, <4>4
    <3>2. CASE pc[q] \in {"write_head", "install"}
      <4> SUFFICES ASSUME NEW j \in 1..Len(lh), pc[q] = "install" => j > tail
                   PROVE  dlog[j] = cache'[lh[j]]
        BY Zenon, <3>2
      <4>1. lh[j] \in Blocks /\ lh[j] # b
        BY <2>1, <2>3, <3>2
      <4>2. dlog[j] = cache[lh[j]]
        BY Zenon, <3>2 DEF DataInv
      <4> QED BY Zenon, <2>2, <4>1, <4>2
    <3> QED BY Zenon, <3>1, <3>2
  <2>5. \A c \in Blocks : pin'[c] > 0 => cache'[c] # Absent
    <3>1. ~(pin[b] > 0)
      BY <2>2
    <3> QED BY Zenon, <2>2, <3>1 DEF DataInv
  <2> QED BY ZenonT(60), <2>2, <2>4, <2>5 DEF DataInv, Installing
<1>4. ASSUME NEW p \in Procs, begin_op(p) PROVE DataInv'
  BY ZenonT(60), <1>4 DEF begin_op, DataInv, Installing
<1>5. ASSUME NEW p \in Procs, end_op(p) PROVE DataInv'
  <2>1. /\ boot = "up" /\ boot' = boot /\ pin' = pin /\ cache' = cache
        /\ \A q \in Procs : pc[q] \in {"idle", "asleep", "woken", "op"}
    BY <1>5, NoCommitter DEF end_op
  <2>2. \A q \in Procs : \/ pc'[q] \notin {"write_log", "write_head", "install"}
                         \/ pc'[q] = "write_log" /\ tail' = 0
    BY Zenon, <1>5, <2>1 DEF end_op, Wakeup
  <2> QED BY SMTT(60), <2>1, <2>2 DEF DataInv, Installing
<1>6. ASSUME NEW p \in Procs, Commit(p) PROVE DataInv'
  <2>1. /\ boot = "up" /\ boot' = boot /\ pc[p] \in CommitStates
        /\ \A q \in Procs \ {p} : pc[q] \in {"idle", "asleep", "woken"}
    BY Zenon, <1>6, OnlyCommitter DEF Commit, write_log, write_head, install_trans,
       clear_head, end_commit, CommitStates
  <2>2. CASE write_log(p)
    <3>1. /\ pc[p] = "write_log" /\ tail < Len(lh) /\ tail' = tail + 1
          /\ dlog' = [dlog EXCEPT ![tail + 1] = bread(lh[tail + 1])]
          /\ lh' = lh /\ cache' = cache /\ pin' = pin
          /\ pc'[p] = IF tail + 1 = Len(lh) THEN "write_head" ELSE "write_log"
          /\ \A q \in Procs \ {p} : pc'[q] = pc[q]
      BY Zenon, <2>2 DEF write_log, NextTail
    <3>2. cache[lh[tail + 1]] # Absent
      BY SMTT(60), <3>1, LoggedPinned
    <3>3. \A j \in 1..(tail + 1) : dlog'[j] = cache[lh[j]]
      <4>1. \A j \in 1..tail : dlog[j] = cache[lh[j]]
        BY Zenon, <3>1 DEF DataInv
      <4>2. bread(lh[tail + 1]) = cache[lh[tail + 1]]
        BY <3>2 DEF bread
      <4>3. dlog' = [dlog EXCEPT ![tail + 1] = cache[lh[tail + 1]]]
        BY <3>1, <4>2
      <4>4. tail \in Nat /\ tail + 1 \in 1..NLOG - 1 /\ NLOG \in Nat
        BY <3>1, LogAssumption, CapacityType
      <4>5. dlog \in [1..NLOG - 1 -> Val]
        BY Zenon, <1>a
      <4>6. \A j \in 1..(tail + 1) : j = tail + 1 \/ j \in 1..tail
        BY ONLY <4>4
      <4>7. \A j \in 1..tail : j # tail + 1
        BY ONLY <4>4
      <4>8. \A j \in 1..tail : dlog'[j] = dlog[j] \/ j \notin 1..NLOG - 1
        BY Zenon, <4>3, <4>5, <4>7
      <4>9. \A j \in 1..tail : j \in 1..NLOG - 1
        <5> SUFFICES ASSUME NEW j \in 1..tail PROVE j \in 1..NLOG - 1
          BY Zenon
        <5> QED BY ONLY <4>4, j \in 1..tail
      <4> QED BY Zenon, <4>1, <4>3, <4>4, <4>5, <4>6, <4>8, <4>9
    <3> QED BY ZenonT(60), <2>1, <3>1, <3>3 DEF DataInv, Installing
  <2>3. CASE write_head(p)
    <3>1. /\ pc[p] = "write_head" /\ pc'[p] = "install" /\ tail' = 0
          /\ lh' = lh /\ cache' = cache /\ pin' = pin /\ dlog' = dlog
          /\ \A q \in Procs \ {p} : pc'[q] = pc[q]
      BY Zenon, <2>3 DEF write_head
    <3> QED BY SMTT(60), <2>1, <3>1 DEF DataInv, Installing
  <2>4. CASE install_trans(p)
    <3>1. /\ home' = [home EXCEPT ![lh[tail + 1]] = dlog[tail + 1]]
          /\ cache' = [cache EXCEPT ![lh[tail + 1]] = dlog[tail + 1]]
          /\ pin' = [pin EXCEPT ![lh[tail + 1]] = @ - 1]
          /\ tail' = tail + 1 /\ lh' = lh /\ dlog' = dlog /\ pc' = pc
          /\ tail < Len(lh) /\ pc[p] = "install"
      BY <2>4 DEF install_trans, InstallBlock, NextTail, Unpin
    <3>2. /\ \A j \in 1..tail : home[lh[j]] = dlog[j]
          /\ \A j \in 1..Len(lh) : j > tail => dlog[j] = cache[lh[j]]
          /\ \A b \in Blocks : pin[b] > 0 => cache[b] # Absent
      BY Zenon, <3>1 DEF DataInv, Installing
    <3>0. /\ IsInjective(lh) /\ lh \in Seq(Blocks) /\ tail \in Nat
          /\ home \in [Blocks -> Val] /\ cache \in [Blocks -> Val \cup {Absent}]
      BY <1>a
    <3>3. \A j \in 1..tail' : home'[lh[j]] = dlog[j]
      BY ONLY SMTT(60), <3>0, <3>1, <3>2 DEF IsInjective
    <3>4. \A j \in 1..Len(lh) : j > tail' => dlog[j] = cache'[lh[j]]
      BY ONLY SMTT(60), <3>0, <3>1, <3>2 DEF IsInjective
    <3>5. \A b \in Blocks : pin'[b] > 0 => cache'[b] # Absent
      <4>1. tail + 1 \in 1..NLOG - 1 /\ tail + 1 \in 1..Len(lh)
        BY <3>1, LogAssumption, CapacityType
      <4>2. dlog[tail + 1] \in Val /\ dlog[tail + 1] # Absent
        BY Zenon, <4>1, LogAssumption
      <4> QED BY <3>1, <3>2, <4>1, <4>2
    <3>6. tail' <= Len(lh')
      BY <3>1
    <3>7. \A q \in Procs : q = p \/ pc'[q] \notin {"write_log", "write_head", "install"}
      BY Zenon, <2>1, <3>1
    <3> QED BY ZenonT(60), <3>1, <3>3, <3>4, <3>5, <3>6, <3>7 DEF DataInv, Installing
  <2>5. CASE clear_head(p) \/ end_commit(p)
    <3>1. /\ \A q \in Procs : pc'[q] \in {"idle", "asleep", "woken", "finish"}
          /\ cache' = cache /\ pin' = pin
      BY Zenon, <2>1, <2>5 DEF clear_head, end_commit, Wakeup
    <3> QED BY Zenon, <2>1, <3>1 DEF DataInv, Installing
  <2> QED BY <1>6, <2>2, <2>3, <2>4, <2>5 DEF Commit
<1>7. ASSUME NEW p \in Procs, NEW b \in Blocks, NEW v \in Val, log_write(p, b, v)
      PROVE DataInv'
  <2>1. /\ boot' = "up" /\ pc' = pc
        /\ cache' = [cache EXCEPT ![b] = v]
        /\ b \in Range(lh) => pin' = pin
        /\ b \notin Range(lh) => pin' = [pin EXCEPT ![b] = @ + 1]
    BY SMTT(60), <1>7, LogWriteEffect
  <2>2. \A q \in Procs : pc[q] \in {"idle", "asleep", "woken", "op"}
    BY Zenon, <1>7, NoCommitter DEF log_write
  <2>3. ASSUME NEW c \in Blocks, pin'[c] > 0 PROVE cache'[c] # Absent
    <3>1. CASE c = b
      BY <2>1, <3>1, LogAssumption
    <3>2. CASE c # b
      BY Zenon, <2>1, <2>3, <3>2 DEF DataInv
    <3> QED BY <3>1, <3>2
  <2> QED BY Zenon, <2>1, <2>2, <2>3 DEF DataInv, Installing
<1>8. CASE UNCHANGED vars
  BY Zenon, <1>8 DEF DataInv, Installing
<1> QED BY <1>1, <1>2, <1>3, <1>4, <1>5, <1>6, <1>7, <1>8 DEF Next, Recover

-----------------------------------------------------------------------------
\* The initial states satisfy the invariant.
LEMMA InvInit == Init => IInv
<1> SUFFICES ASSUME Init PROVE IInv
  OBVIOUS
<1> USE LogAssumption, BudgetAssumption DEF Init
<1>1. Active = {} /\ Reserved = {} /\ \A p \in Procs : wrote[p] = {}
  BY DEF Active, Reserved
<1>2. CountInv /\ SpaceInv
  BY <1>1, FS_EmptySet DEF CountInv, SpaceInv, LogFits, AloneInv
<1>3. NoPanic /\ CommitInv /\ BootInv /\ SleeperIsOwed
  BY <1>1 DEF NoPanic, CommitInv, Committer, CommitStates, BootInv, SleeperIsOwed
<1>4. LoggedInv /\ HeadInv
  BY <1>1 DEF LoggedInv, HeadInv, IsInjective
<1>5. PinsExact /\ CacheCoherent /\ DataInv
  BY DEF PinsExact, CacheCoherent, DataInv, Installing
<1> QED BY <1>2, <1>3, <1>4, <1>5, TypeInit DEF IInv

\* Every step, crashes and recovery included, keeps the invariant.
LEMMA InvStep == IInv /\ [Next]_vars => IInv'
BY Zenon, TypeStep, NoPanicStep, CountStep, CommitStep, BootStep, FitsStep,
   AloneStep, LoggedStep, HeadStep, PinsStep, CoherentStep, DataStep, SleeperStep
   DEF IInv, SpaceInv

\* The inductive invariant holds in every reachable state of log.c.
THEOREM Invariance == Spec => []IInv
BY InvInit, InvStep, PTL DEF Spec

\* log.c keeps its types: pins never go negative, no header outgrows its array or
\* the log on disk.
THEOREM TypeCorrect == Spec => []TypeOK
<1>1. IInv => TypeOK
  BY DEF IInv
<1> QED BY <1>1, Invariance, PTL

\* begin_op's reservation is enough, whatever the size of the log on disk, as long
\* as BudgetAssumption holds: neither test of log_write for too big a transaction
\* succeeds, end_op meets no commit, and the log has room for all running calls.
THEOREM NoOverflow == Spec => [](NoPanic /\ LogFits)
<1>1. IInv => NoPanic /\ LogFits
  BY DEF IInv, SpaceInv
<1> QED BY <1>1, Invariance, PTL

\* No process sleeps in begin_op with nobody left to wake it.
THEOREM NoLostSleeper == Spec => []SleeperIsOwed
<1>1. IInv => SleeperIsOwed
  BY DEF IInv
<1> QED BY <1>1, Invariance, PTL

\* bpin and bunpin balance, and an unpinned buffer can be recycled safely.
THEOREM CacheSafe == Spec => [](PinsExact /\ CacheCoherent)
<1>1. IInv => PinsExact /\ CacheCoherent
  BY DEF IInv
<1> QED BY <1>1, Invariance, PTL
=============================================================================
