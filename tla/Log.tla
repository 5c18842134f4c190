-------------------------------- MODULE Log --------------------------------
(***************************************************************************)
(* The redo log of kernel/log.c with the part of the buffer cache          *)
(* (kernel/bio.c) it relies on: group commit of concurrent file-system     *)
(* calls, a crash between any two disk writes, and recovery at boot.       *)
(*                                                                         *)
(* One step is one critical section under log.lock, or one disk write.     *)
(* A single block write is atomic (the header's used part fits a sector).  *)
(***************************************************************************)
EXTENDS Integers, Sequences, FiniteSets, Functions

CONSTANTS
    Procs,        \* processes making file-system calls
    Blocks,       \* block numbers outside the log
    Val,          \* block contents
    Absent,       \* "no buffer caches this block"
    MAXOPBLOCKS,  \* blocks begin_op reserves for one call
    LOGSIZE,      \* data blocks the header can name
    NLOG,         \* sb.nlog: blocks of the on-disk log, header included
    OpBlocks,     \* distinct blocks one call really writes
    MaxCrashes    \* bound on crashes in one behaviour

ASSUME LogAssumption ==
    /\ IsFiniteSet(Procs)
    /\ Absent \notin Val
    /\ MAXOPBLOCKS \in Nat /\ LOGSIZE \in Nat /\ NLOG \in Nat
    /\ OpBlocks \in Nat /\ MaxCrashes \in Nat
    /\ NLOG > 0

VARIABLES
    home,        \* disk: the blocks at their home location
    dlog,        \* disk: the log's data blocks
    dhead,       \* disk: the header, as the sequence block[0..n-1]
    cache,       \* buffer cache: contents, or Absent
    pin,         \* buffer cache: references taken by bpin
    lh,          \* log.lh, as the sequence block[0..n-1]
    outstanding, \* log.outstanding
    committing,  \* log.committing
    tail,        \* loop index of write_log / install_trans
    pc,          \* where each process is in begin_op .. end_op
    wrote,       \* the blocks the current call of each process has written
    boot,        \* recover_from_log: "read", "install", "clear", then "up"
    crashes

disk   == <<home, dlog, dhead>>
bufs   == <<cache, pin>>
locked == <<lh, outstanding, committing>>
vars   == <<disk, bufs, locked, tail, pc, wrote, boot, crashes>>

\* The data bread(b) returns: the cached copy, or what the disk holds.
bread(b) == IF cache[b] = Absent THEN home[b] ELSE cache[b]

Init ==
    /\ home \in [Blocks -> Val]
    /\ dlog \in [1..NLOG - 1 -> Val]
    /\ dhead = <<>>
    /\ cache = [b \in Blocks |-> Absent]
    /\ pin = [b \in Blocks |-> 0]
    /\ lh = <<>>
    /\ outstanding = 0
    /\ committing = FALSE
    /\ tail = 0
    /\ pc = [p \in Procs |-> "idle"]
    /\ wrote = [p \in Procs |-> {}]
    /\ boot = "read"
    /\ crashes = 0

-----------------------------------------------------------------------------
(* recover_from_log, run by the first process before any system call.      *)

read_head ==
    /\ boot = "read"
    /\ lh' = dhead
    /\ tail' = 0
    /\ boot' = "install"
    /\ UNCHANGED <<disk, bufs, outstanding, committing, pc, wrote, crashes>>

MutAlwaysUnpin(recovering) ==
    pin' = [pin EXCEPT ![lh[tail + 1]] = @ - 1]

\* install_trans drops the pin log_write took, unless it is recovering.
Unpin(recovering) ==
    pin' = IF recovering THEN pin ELSE [pin EXCEPT ![lh[tail + 1]] = @ - 1]

MutStuckTail == tail

\* The for loops of write_log and install_trans.
NextTail == tail + 1

\* One iteration of install_trans: log block to cache and home location.
InstallBlock(recovering) ==
    /\ tail < Len(lh)
    /\ home' = [home EXCEPT ![lh[tail + 1]] = dlog[tail + 1]]
    /\ cache' = [cache EXCEPT ![lh[tail + 1]] = dlog[tail + 1]]
    /\ Unpin(recovering)
    /\ tail' = NextTail
    /\ UNCHANGED <<dlog, dhead>>

MutInstalledAllButOne == tail >= Len(lh) - 1

Installed == tail = Len(lh)

recover_install ==
    /\ boot = "install"
    /\ InstallBlock(TRUE)
    /\ UNCHANGED <<locked, pc, wrote, boot, crashes>>

\* lh.n = 0 followed by write_head.
recover_clear ==
    /\ boot = "install"
    /\ Installed
    /\ lh' = <<>>
    /\ dhead' = <<>>
    /\ boot' = "up"
    /\ UNCHANGED <<home, dlog, bufs, outstanding, committing, tail, pc, wrote,
                   crashes>>

-----------------------------------------------------------------------------
(* begin_op, log_write and end_op.                                          *)

MutIgnoresCommit == Len(lh) + (outstanding + 1) * MAXOPBLOCKS > LOGSIZE
MutForgetsItself == committing \/ Len(lh) + outstanding * MAXOPBLOCKS > LOGSIZE
MutNoReservation == committing

\* begin_op must sleep: a commit is running, or this call might exhaust the log.
MustWait ==
    \/ committing
    \/ Len(lh) + (outstanding + 1) * MAXOPBLOCKS > LOGSIZE

\* One pass of begin_op's loop under log.lock: sleep, or join.
begin_op(p) ==
    /\ boot = "up"
    /\ pc[p] \in {"idle", "woken"}
    /\ IF MustWait
       THEN /\ pc' = [pc EXCEPT ![p] = "asleep"]
            /\ UNCHANGED <<outstanding, wrote>>
       ELSE /\ pc' = [pc EXCEPT ![p] = "op"]
            /\ outstanding' = outstanding + 1
            /\ wrote' = [wrote EXCEPT ![p] = {}]
    /\ UNCHANGED <<disk, bufs, lh, committing, tail, boot, crashes>>

MutNoAbsorption(b) == FALSE

\* log_write finds b in the transaction already.
Absorbed(b) == b \in Range(lh)

\* log_write's test for "too big a transaction": the header's array is full,
\* or the log on disk.  It comes before the search for b.
Full == Len(lh) >= LOGSIZE \/ Len(lh) >= NLOG - 1

MutNoPin(b) == UNCHANGED pin

bpin(b) == pin' = [pin EXCEPT ![b] = @ + 1]

\* The caller changed b->data under the buffer's sleep-lock.
log_write(p, b, v) ==
    /\ pc[p] = "op"
    /\ Cardinality(wrote[p] \cup {b}) <= OpBlocks
    /\ wrote' = [wrote EXCEPT ![p] = @ \cup {b}]
    /\ cache' = [cache EXCEPT ![b] = v]
    /\ IF Full \/ outstanding < 1
       THEN /\ pc' = [pc EXCEPT ![p] = "panic"]
            /\ UNCHANGED <<lh, pin>>
       ELSE /\ IF Absorbed(b)
               THEN UNCHANGED <<lh, pin>>
               ELSE /\ lh' = Append(lh, b)
                    /\ bpin(b)
            /\ UNCHANGED pc
    /\ UNCHANGED <<disk, outstanding, committing, tail, boot, crashes>>

MutNoWakeup(f) == f

\* wakeup(&log).
Wakeup(f) == [q \in Procs |-> IF f[q] = "asleep" THEN "woken" ELSE f[q]]

MutAnyCall == TRUE

\* end_op: log.outstanding drops to 0.
LastCall == outstanding = 1

\* end_op's first critical section.
end_op(p) ==
    /\ pc[p] = "op"
    /\ outstanding' = outstanding - 1
    /\ IF committing
       THEN /\ pc' = [pc EXCEPT ![p] = "panic"]
            /\ UNCHANGED <<committing, tail>>
       ELSE IF LastCall
       THEN /\ committing' = TRUE
            /\ tail' = 0
            /\ pc' = [pc EXCEPT ![p] = IF lh = <<>> THEN "finish"
                                                    ELSE "write_log"]
       ELSE /\ pc' = Wakeup([pc EXCEPT ![p] = "idle"])
            /\ UNCHANGED <<committing, tail>>
    /\ UNCHANGED <<disk, bufs, lh, wrote, boot, crashes>>

-----------------------------------------------------------------------------
(* commit(), without log.lock.                                              *)

write_log(p) ==
    /\ pc[p] = "write_log"
    /\ tail < Len(lh)
    /\ dlog' = [dlog EXCEPT ![tail + 1] = bread(lh[tail + 1])]
    /\ tail' = NextTail
    /\ pc' = [pc EXCEPT ![p] = IF tail' = Len(lh) THEN "write_head" ELSE @]
    /\ UNCHANGED <<home, dhead, bufs, locked, wrote, boot, crashes>>

\* "the real commit"
write_head(p) ==
    /\ pc[p] = "write_head"
    /\ dhead' = lh
    /\ tail' = 0
    /\ pc' = [pc EXCEPT ![p] = "install"]
    /\ UNCHANGED <<home, dlog, bufs, locked, wrote, boot, crashes>>

install_trans(p) ==
    /\ pc[p] = "install"
    /\ InstallBlock(FALSE)
    /\ UNCHANGED <<locked, pc, wrote, boot, crashes>>

\* lh.n = 0 followed by write_head: erase the transaction.
clear_head(p) ==
    /\ pc[p] = "install"
    /\ Installed
    /\ lh' = <<>>
    /\ dhead' = <<>>
    /\ pc' = [pc EXCEPT ![p] = "finish"]
    /\ UNCHANGED <<home, dlog, bufs, outstanding, committing, tail, wrote,
                   boot, crashes>>

\* end_op's last critical section.
end_commit(p) ==
    /\ pc[p] = "finish"
    /\ committing' = FALSE
    /\ pc' = Wakeup([pc EXCEPT ![p] = "idle"])
    /\ UNCHANGED <<disk, bufs, lh, outstanding, tail, wrote, boot, crashes>>

-----------------------------------------------------------------------------
\* bget recycles a buffer nobody references.  Of b->refcnt only the pins are kept:
\* what bread and brelse add for the time of a call is within one step here.
Recycle(b) ==
    /\ cache[b] # Absent
    /\ pin[b] = 0
    /\ cache' = [cache EXCEPT ![b] = Absent]
    /\ UNCHANGED <<disk, pin, locked, tail, pc, wrote, boot, crashes>>

\* Power failure: the disk is all that survives.
Crash ==
    /\ crashes < MaxCrashes
    /\ crashes' = crashes + 1
    /\ cache' = [b \in Blocks |-> Absent]
    /\ pin' = [b \in Blocks |-> 0]
    /\ lh' = <<>>
    /\ outstanding' = 0
    /\ committing' = FALSE
    /\ tail' = 0
    /\ pc' = [p \in Procs |-> "idle"]
    /\ wrote' = [p \in Procs |-> {}]
    /\ boot' = "read"
    /\ UNCHANGED disk

Commit(p) ==
    \/ write_log(p)
    \/ write_head(p)
    \/ install_trans(p)
    \/ clear_head(p)
    \/ end_commit(p)

Recover == read_head \/ recover_install \/ recover_clear

Next ==
    \/ Recover
    \/ \E p \in Procs : begin_op(p) \/ end_op(p) \/ Commit(p)
    \/ \E p \in Procs, b \in Blocks, v \in Val : log_write(p, b, v)
    \/ \E b \in Blocks : Recycle(b)
    \/ Crash

Spec == Init /\ [][Next]_vars

\* The kernel keeps running code that can run: recovery, a committer, a
\* woken process and a system call that ends are never stopped for good.
Fairness ==
    /\ WF_vars(Recover)
    /\ \A p \in Procs :
          WF_vars(end_op(p)) /\ WF_vars(Commit(p))
          /\ WF_vars(pc[p] = "woken" /\ begin_op(p))

FairSpec == Spec /\ Fairness

-----------------------------------------------------------------------------
(* Properties.                                                              *)

CommitStates == {"write_log", "write_head", "install", "finish"}

\* Blocks a transaction can have: the header and the log on disk both limit it.
Capacity == IF LOGSIZE < NLOG - 1 THEN LOGSIZE ELSE NLOG - 1

DiskType ==
    /\ home \in [Blocks -> Val]
    /\ dlog \in [1..NLOG - 1 -> Val]
    /\ dhead \in Seq(Blocks) /\ Len(dhead) <= Capacity

CacheType ==
    /\ cache \in [Blocks -> Val \cup {Absent}]
    /\ pin \in [Blocks -> Nat]

LogType ==
    /\ lh \in Seq(Blocks) /\ Len(lh) <= Capacity
    /\ outstanding \in Nat
    /\ tail \in 0..Capacity
    /\ boot \in {"read", "install", "up"}
    /\ crashes \in 0..MaxCrashes

PcType == pc \in [Procs -> {"idle", "asleep", "woken", "op", "panic"}
                           \cup CommitStates]

FlagType == committing \in BOOLEAN

WroteType == wrote \in [Procs -> SUBSET Blocks]

\* Types; the pins never go negative, and neither header outgrows its array or
\* the log on disk.
TypeOK == DiskType /\ CacheType /\ LogType /\ FlagType /\ PcType /\ WroteType

\* The disk a reboot would end up with: the home blocks, overridden by the
\* blocks of a committed log.
Recovered ==
    [b \in Blocks |->
        IF b \in Range(dhead)
        THEN dlog[CHOOSE i \in DOMAIN dhead : dhead[i] = b]
        ELSE home[b]]

\* What the file system reads: the cache, once recovery is over.
Current == IF boot = "up" THEN [b \in Blocks |-> bread(b)] ELSE Recovered

Active == {p \in Procs : pc[p] = "op"}

\* None of the panics of log.c is reached: "too big a transaction" and
\* "log_write outside of trans" in log_write, "log.committing" in end_op.
NoPanic == \A p \in Procs : pc[p] # "panic"

\* begin_op's reservation (log.lh.n + (outstanding+1)*MAXOPBLOCKS) is enough:
\* the log always has room for the blocks already in it and for everything
\* the running calls may still add.
Reserved ==
    {r \in Procs \X (1..MAXOPBLOCKS) :
        pc[r[1]] = "op" /\ r[2] > Cardinality(wrote[r[1]])}
LogFits == Len(lh) + Cardinality(Reserved) <= LOGSIZE

\* A process asleep in begin_op is always owed a wakeup: a commit is under
\* way, or a call is outstanding whose end_op will wake it.
SleeperIsOwed ==
    (\E p \in Procs : pc[p] = "asleep") => committing \/ outstanding > 0

\* bpin and bunpin balance: a logged block stays in the cache until it is
\* installed, and nothing stays pinned after the commit.
PinsExact ==
    boot = "up" => \A b \in Blocks :
        pin[b] = IF \E i \in DOMAIN lh :
                        /\ lh[i] = b
                        /\ i <= tail => ~ \E p \in Procs : pc[p] = "install"
                 THEN 1 ELSE 0

\* An unlogged block reads the same from the cache and from the disk, so
\* recycling its buffer loses nothing.
CacheCoherent ==
    boot = "up" => \A b \in Blocks :
        pin[b] = 0 => cache[b] \in {Absent, home[b]}

\* When the last end_op has returned everything the calls wrote is durable.
QuiescentDurable ==
    boot = "up" /\ Active = {} /\ ~committing => Recovered = Current

\* Every file-system call is atomic with respect to crashes: log.c implements
\* AtomicDisk, whose disk only ever changes to a state between calls.
Abstract == INSTANCE AtomicDisk
                WITH durable <- Recovered, current <- Current, active <- Active
Atomic == Abstract!Spec

\* A process asleep in begin_op is woken.
SleeperWakes == \A p \in Procs : pc[p] = "asleep" ~> pc[p] # "asleep"

\* Every commit comes to an end, and every recovery.
CommitEnds == (committing ~> ~committing) /\ (boot # "up" ~> boot = "up")
=============================================================================
