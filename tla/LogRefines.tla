----------------------------- MODULE LogRefines -----------------------------
(***************************************************************************)
(* Log implements AtomicDisk, for every set of processes, blocks and       *)
(* contents and every log size, by its inductive invariant.                *)
(***************************************************************************)
EXTENDS LogProofs

USE DEF disk, bufs, locked, vars

\* A block of an injective header is found at its own index.
LEMMA HeaderIndex ==
    ASSUME NEW h, IsInjective(h), NEW j \in DOMAIN h
    PROVE  (CHOOSE k \in DOMAIN h : h[k] = h[j]) = j
BY DEF IsInjective

\* Recovered gives a value to every block, and to nothing else.
LEMMA RecoveredShape == Recovered = [b \in Blocks |-> Recovered[b]]
BY SMTT(30) DEF Recovered

\* An empty header leaves the home blocks; a header names the log's blocks.
LEMMA RecoveredValue ==
    ASSUME IInv, NEW b \in Blocks
    PROVE  /\ b \notin Range(dhead) => Recovered[b] = home[b]
           /\ \A j \in DOMAIN dhead : dhead[j] = b => Recovered[b] = dlog[j]
<1>1. b \notin Range(dhead) => Recovered[b] = home[b]
  BY DEF Recovered
<1>2. ASSUME NEW j \in DOMAIN dhead, dhead[j] = b PROVE Recovered[b] = dlog[j]
  <2>1. b \in Range(dhead)
    BY <1>2 DEF Range
  <2>2. (CHOOSE k \in DOMAIN dhead : dhead[k] = b) = j
    BY <1>2, HeaderIndex DEF IInv, LoggedInv
  <2> QED BY Zenon, <2>1, <2>2 DEF Recovered
<1> QED BY <1>1, <1>2

\* With no call running and no commit under way the disk is current.
LEMMA QuietIsDurable == IInv => QuiescentDurable
<1> SUFFICES ASSUME IInv, boot = "up", Active = {}, ~committing
             PROVE  Recovered = Current
  BY DEF QuiescentDurable
<1>1. outstanding = 0
  BY Zenon, FS_EmptySet DEF IInv, CountInv
<1>2. lh = <<>> /\ \A p \in Procs : pc[p] # "install"
  BY <1>1 DEF IInv, LoggedInv, CommitInv, Committer, CommitStates
<1>3. dhead = <<>>
  BY <1>2 DEF IInv, HeadInv
<1>4. \A b \in Blocks : pin[b] = 0
  BY <1>2 DEF IInv, PinsExact
<1>5. ASSUME NEW b \in Blocks PROVE Recovered[b] = home[b] /\ bread(b) = home[b]
  <2>1. Recovered[b] = home[b]
    BY <1>3 DEF Recovered, Range
  <2>2. cache[b] \in {Absent, home[b]}
    BY <1>4 DEF IInv, CacheCoherent
  <2> QED BY <2>1, <2>2 DEF bread
<1>6. Recovered = [b \in Blocks |-> home[b]] /\ Current = [b \in Blocks |-> home[b]]
  <2>1. Recovered = [b \in Blocks |-> home[b]]
    BY <1>3 DEF Recovered, Range
  <2>2. Current = [b \in Blocks |-> home[b]]
    BY <1>5 DEF Current
  <2> QED BY <2>1, <2>2
<1> QED BY <1>6

\* When the last end_op has returned, everything written is on disk.
THEOREM DurableWhenQuiet == Spec => []QuiescentDurable
BY QuietIsDurable, Invariance, PTL

\* The same in the state after a step.
LEMMA QuietIsDurableNext == IInv' => QuiescentDurable'
BY QuietIsDurable, PTL

\* While a transaction is installed the cache shows the committed blocks.
LEMMA InstallIsCurrent ==
    ASSUME IInv, NEW p \in Procs, pc[p] = "install"
    PROVE  Recovered = Current
<1>1. boot = "up" /\ dhead = lh
  BY OnlyCommitter DEF CommitStates, IInv, HeadInv
<1>2. ASSUME NEW b \in Blocks PROVE Recovered[b] = bread(b)
  <2>1. CASE b \notin Range(lh)
    <3>1. pin[b] = 0
      BY Zenon, <1>1, <2>1 DEF IInv, PinsExact, Range
    <3>2. cache[b] \in {Absent, home[b]}
      BY Zenon, <1>1, <3>1 DEF IInv, CacheCoherent
    <3> QED BY Zenon, <1>1, <2>1, <3>2, RecoveredValue DEF bread
  <2>2. CASE b \in Range(lh)
    <3>1. PICK j \in DOMAIN lh : lh[j] = b
      BY Zenon, <2>2 DEF Range
    <3>2. Recovered[b] = dlog[j] /\ j \in 1..Len(lh) /\ tail \in Nat
      <4>1. Recovered[b] = dlog[j]
        BY Zenon, <1>1, <3>1, RecoveredValue
      <4>2. lh \in Seq(Blocks) /\ tail \in Nat
        BY DEF IInv, TypeOK, LogType
      <4> QED BY <4>1, <4>2
    <3>3. CASE j > tail
      BY Zenon, <3>1, <3>2, <3>3, LoggedPinned DEF IInv, DataInv, bread
    <3>4. CASE j <= tail
      <4>1. home[b] = dlog[j]
        <5>1. \A i \in 1..tail : home[lh[i]] = dlog[i]
          BY Zenon DEF IInv, DataInv, Installing
        <5>2. j \in 1..tail
          BY ONLY <3>2, <3>4
        <5> QED BY Zenon, <3>1, <5>1, <5>2
      <4>2. pin[b] = 0
        BY Zenon, <1>1, <3>1, <3>4 DEF IInv, PinsExact, LoggedInv, IsInjective
      <4>3. cache[b] \in {Absent, home[b]}
        BY Zenon, <1>1, <4>2 DEF IInv, CacheCoherent
      <4> QED BY Zenon, <3>2, <4>1, <4>3 DEF bread
    <3> QED
      <4>1. j > tail \/ j <= tail
        BY ONLY <3>2
      <4> QED BY Zenon, <3>3, <3>4, <4>1
  <2> QED BY Zenon, <2>1, <2>2
<1>3. Current = [b \in Blocks |-> bread(b)]
  BY <1>1 DEF Current
<1> QED BY ONLY SMTT(30), <1>2, <1>3, RecoveredShape

InstallShown == \A p \in Procs : pc[p] = "install" => Recovered = Current

\* The same in the state after a step.
LEMMA InstallIsCurrentNext == IInv' => InstallShown'
<1>1. IInv => InstallShown
  BY InstallIsCurrent DEF InstallShown
<1> QED BY <1>1, PTL

\* Only write_head, "the true point at which the current transaction commits",
\* changes the disk a reboot would see.
LEMMA DurableStep ==
    ASSUME IInv, IInv', [Next]_vars, \A p \in Procs : ~write_head(p)
    PROVE  Recovered' = Recovered
<1>a. TypeOK /\ HeadInv /\ DataInv /\ BootInv
  BY DEF IInv
<1> USE <1>a DEF TypeOK, LogType, DiskType
<1>1. CASE home' = home /\ dlog' = dlog /\ dhead' = dhead
  BY <1>1 DEF Recovered
<1>2. ASSUME NEW p \in Procs, write_log(p) PROVE Recovered' = Recovered
  <2>1. dhead = <<>> /\ dhead' = dhead /\ home' = home
    <3>1. boot = "up" /\ \A q \in Procs : pc[q] # "install"
      BY Zenon, <1>2, OnlyCommitter DEF write_log, CommitStates
    <3> QED BY Zenon, <1>2, <3>1 DEF write_log, HeadInv
  <2> QED BY <2>1 DEF Recovered, Range
<1>3. CASE recover_install \/ \E p \in Procs : install_trans(p)
  <2>1. /\ dhead' = dhead /\ dlog' = dlog /\ lh = dhead /\ tail + 1 \in DOMAIN dhead
        /\ home' = [home EXCEPT ![lh[tail + 1]] = dlog[tail + 1]]
    <3>1. lh = dhead
      BY Zenon, <1>3, OnlyCommitter DEF recover_install, install_trans, HeadInv,
         CommitStates
    <3>2. /\ tail < Len(lh) /\ dhead' = dhead /\ dlog' = dlog
          /\ home' = [home EXCEPT ![lh[tail + 1]] = dlog[tail + 1]]
      BY Zenon, <1>3 DEF recover_install, install_trans, InstallBlock
    <3> QED BY <3>1, <3>2
  <2>2. \A b \in Blocks : b \notin Range(dhead) => home'[b] = home[b]
    BY SMTT(60), <2>1 DEF Range
  <2> QED BY <2>1, <2>2 DEF Recovered
<1>4. CASE recover_clear \/ \E p \in Procs : clear_head(p)
  <2>1. /\ dhead' = <<>> /\ home' = home /\ lh = dhead
        /\ \A j \in DOMAIN dhead : home[dhead[j]] = dlog[j]
    <3>1. Installed /\ Installing /\ dhead' = <<>> /\ home' = home
      BY <1>4 DEF recover_clear, clear_head, Installing
    <3>2. lh = dhead
      BY Zenon, <1>4, OnlyCommitter DEF recover_clear, clear_head, HeadInv, CommitStates
    <3> QED BY <3>1, <3>2 DEF DataInv, Installed
  <2>2. \A b \in Blocks : Recovered[b] = home[b]
    <3> SUFFICES ASSUME NEW b \in Blocks PROVE Recovered[b] = home[b]
      OBVIOUS
    <3>1. CASE b \in Range(dhead)
      BY <2>1, <3>1, RecoveredValue DEF Range
    <3> QED BY Zenon, <3>1, RecoveredValue
  <2>3. Recovered = [b \in Blocks |-> home[b]]
    BY ONLY SMTT(30), <2>2, RecoveredShape
  <2>4. Recovered' = [b \in Blocks |-> home[b]]
    <3>1. \A b \in Blocks : b \notin Range(dhead')
      BY ONLY <2>1 DEF Range
    <3> QED BY Zenon, <2>1, <3>1 DEF Recovered
  <2> QED BY Zenon, <2>3, <2>4
<1> QED
  BY Zenon, <1>1, <1>2, <1>3, <1>4 DEF Next, Recover, Commit, read_head, begin_op, end_op,
     end_commit, log_write, Recycle, Crash

\* What recovery would find depends on the disk alone.
LEMMA SameDurable ==
    ASSUME home' = home, dlog' = dlog, dhead' = dhead
    PROVE  Recovered' = Recovered
BY SMT DEF Recovered

\* What the file system reads depends on the disk, the cache and recovery alone.
LEMMA SameCurrent ==
    ASSUME home' = home, dlog' = dlog, dhead' = dhead, cache' = cache, boot' = boot
    PROVE  Current' = Current
<1>1. Recovered' = Recovered
  BY SameDurable
<1>2. [b \in Blocks |-> bread(b)]' = [b \in Blocks |-> bread(b)]
  BY Zenon DEF bread
<1> QED BY Zenon, <1>1, <1>2 DEF Current

\* Every step of log.c is a step of AtomicDisk, or none.
LEMMA StepRefines ==
    ASSUME IInv, IInv', [Next]_vars
    PROVE  [Abstract!Next]_(Abstract!vars)
<1>a. TypeOK /\ BootInv
  BY DEF IInv
<1> USE <1>a DEF TypeOK, PcType, CacheType, Abstract!Next, Abstract!vars
<1>1. CASE Recover
  <2>1. Recovered' = Recovered
    BY Zenon, <1>1, DurableStep DEF Recover, read_head, recover_install, recover_clear,
       BootInv, write_head
  <2>2. Active = {} /\ Active' = {} /\ Current = Recovered
    BY Zenon, <1>1 DEF Recover, read_head, recover_install, recover_clear, BootInv,
       Active, Current
  <2>3. Current' = Recovered'
    <3>1. CASE boot' # "up"
      BY <3>1 DEF Current
    <3>2. CASE boot' = "up"
      <4>1. ~committing'
        BY ZenonT(60), <2>2, <3>2, <1>1 DEF IInv, CommitInv, Committer, CommitStates, BootInv,
           Recover, read_head, recover_install, recover_clear
      <4> QED BY <2>2, <3>2, <4>1, QuietIsDurableNext DEF QuiescentDurable
    <3> QED BY <3>1, <3>2
  <2> QED BY <2>1, <2>2, <2>3
<1>2. CASE Crash
  <2>1. Recovered' = Recovered /\ Current' = Recovered' /\ Active' = {}
    BY SMTT(60), <1>2 DEF Crash, Recovered, Current, Active
  <2> QED BY <2>1 DEF Abstract!Crash
<1>3. ASSUME NEW b \in Blocks, Recycle(b)
      PROVE  UNCHANGED <<Recovered, Current, Active>>
  <2>1. Recovered' = Recovered /\ Active' = Active
    BY SMTT(60), <1>3 DEF Recycle, Recovered, Active
  <2>2. CASE boot # "up"
    BY <1>3, <2>1, <2>2 DEF Recycle, Current
  <2>3. CASE boot = "up"
    <3>1. \A c \in Blocks : bread(c)' = bread(c)
      BY Zenon, <1>3, <2>3 DEF Recycle, bread, IInv, CacheCoherent
    <3>2. Current' = [c \in Blocks |-> bread(c)'] /\ Current = [c \in Blocks |-> bread(c)]
      BY <1>3, <2>3 DEF Recycle, Current
    <3> QED BY <2>1, <3>1, <3>2
  <2> QED BY <2>2, <2>3
<1>4. ASSUME NEW p \in Procs, begin_op(p)
      PROVE  Abstract!Begin(p) \/ UNCHANGED <<Recovered, Current, Active>>
  <2>1. Recovered' = Recovered /\ Current' = Current
    BY Zenon, <1>4, SameDurable, SameCurrent DEF begin_op
  <2>2. Active' = Active \/ (p \notin Active /\ Active' = Active \cup {p})
    BY SMTT(60), <1>4 DEF begin_op, Active
  <2> QED BY <2>1, <2>2 DEF Abstract!Begin
<1>5. ASSUME NEW p \in Procs, end_op(p) PROVE Abstract!End(p)
  <2>1. Recovered' = Recovered /\ Current' = Current
    BY <1>5, SameDurable, SameCurrent DEF end_op
  <2>2. p \in Active /\ Active' = Active \ {p}
    BY SMTT(60), <1>5 DEF end_op, Active, Wakeup, CommitStates
  <2> QED BY <2>1, <2>2 DEF Abstract!End
<1>6. ASSUME NEW p \in Procs, Commit(p)
      PROVE  Abstract!Commit \/ UNCHANGED <<Recovered, Current, Active>>
  <2>1. /\ boot = "up" /\ boot' = "up" /\ Active = {}
        /\ Active' = {} /\ pc[p] \in CommitStates
    BY Zenon, <1>6, OnlyCommitter DEF Commit, write_log, write_head, install_trans,
       clear_head, end_commit, CommitStates, Active, Wakeup
  <2>2. CASE install_trans(p)
    <3>1. Recovered' = Recovered
      BY Zenon, <2>2, DurableStep DEF install_trans, write_head, IInv, CommitInv,
         Committer, CommitStates
    <3>2. Recovered = Current /\ Recovered' = Current'
      BY <2>2, InstallIsCurrent, InstallIsCurrentNext DEF install_trans, InstallShown
    <3> QED BY <2>1, <3>1, <3>2
  <2>3. CASE ~install_trans(p)
    <3>1. Current' = Current
      BY Zenon, <1>6, <2>1, <2>3 DEF Commit, write_log, write_head, clear_head, end_commit,
         Current, bread
    <3>2. CASE write_head(p)
      <4>1. Recovered' = Current'
        BY <3>2, InstallIsCurrentNext DEF write_head, InstallShown
      <4> QED BY <2>1, <3>1, <4>1 DEF Abstract!Commit
    <3>3. CASE ~write_head(p)
      <4>1. Recovered' = Recovered
        BY Zenon, <2>1, <3>3, DurableStep DEF write_head, IInv, CommitInv, Committer,
           CommitStates
      <4> QED BY <2>1, <3>1, <4>1
    <3> QED BY <3>2, <3>3
  <2> QED BY <2>2, <2>3
<1>7. ASSUME NEW p \in Procs, NEW b \in Blocks, NEW v \in Val, log_write(p, b, v)
      PROVE Abstract!Write(p, b, v)
  <2>1. /\ pc' = pc /\ pc[p] = "op" /\ boot = "up" /\ boot' = "up"
        /\ cache' = [cache EXCEPT ![b] = v]
    BY <1>7, LogWriteEffect
  <2>2. home' = home /\ dlog' = dlog /\ dhead' = dhead
    BY <1>7 DEF log_write
  <2>3. Recovered' = Recovered
    BY <2>2, SameDurable
  <2>4. Active' = Active /\ p \in Active
    BY <2>1 DEF Active
  <2>5. \A c \in Blocks : bread(c)' = IF c = b THEN v ELSE bread(c)
    BY Zenon, <2>1, <2>2, LogAssumption DEF bread
  <2>6. Current' = [Current EXCEPT ![b] = v]
    <3>1. Current' = [c \in Blocks |-> bread(c)'] /\ Current = [c \in Blocks |-> bread(c)]
      BY <2>1 DEF Current
    <3> QED BY <2>5, <3>1
  <2> QED BY <2>3, <2>4, <2>6 DEF Abstract!Write
<1>8. CASE UNCHANGED vars
  BY Zenon, <1>8, SameDurable, SameCurrent DEF Active
<1> QED BY Zenon, <1>1, <1>2, <1>3, <1>4, <1>5, <1>6, <1>7, <1>8 DEF Next

\* The log makes file-system calls atomic: log.c with crashes and recovery
\* implements AtomicDisk.
THEOREM Refinement == Spec => Atomic
<1>1. Init => Abstract!Init
  <2> SUFFICES ASSUME Init PROVE Abstract!Init
    OBVIOUS
  <2>1. Recovered = [b \in Blocks |-> home[b]]
    BY DEF Init, Recovered, Range
  <2>2. Recovered \in [Blocks -> Val] /\ Current = Recovered /\ Active = {}
    BY <2>1 DEF Init, Current, Active
  <2> QED BY <2>2 DEF Abstract!Init
<1>2. IInv /\ IInv' /\ [Next]_vars => [Abstract!Next]_(Abstract!vars)
  BY StepRefines
<1> QED BY <1>1, <1>2, Invariance, PTL DEF Spec, Atomic, Abstract!Spec
=============================================================================
