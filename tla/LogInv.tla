------------------------------- MODULE LogInv -------------------------------
(***************************************************************************)
(* The inductive invariant of Log, under the assumption its callers have   *)
(* to meet on the blocks a file-system call writes.                        *)
(***************************************************************************)
EXTENDS Log

\* What a call leaves unused of the blocks begin_op reserves for it.
Slack == MAXOPBLOCKS - OpBlocks

\* A call writes no more than its reservation, one reservation fits the log, and
\* a log as full as the calls can make it is not Full: alone a call leaves
\* OpBlocks blocks in it, two or more leave their slacks free.  (With
\* LOGSIZE = 3 * MAXOPBLOCKS and sb.nlog >= LOGSIZE: OpBlocks < MAXOPBLOCKS.)
ASSUME BudgetAssumption ==
    /\ OpBlocks <= MAXOPBLOCKS /\ MAXOPBLOCKS <= LOGSIZE
    /\ OpBlocks < Capacity
    /\ LOGSIZE - 2 * Slack < Capacity

Committer(p) == pc[p] \in CommitStates

\* log.outstanding counts the running calls; a call stays in its budget.
CountInv ==
    /\ outstanding = Cardinality(Active)
    /\ \A p \in Procs :
          IsFiniteSet(wrote[p]) /\ Cardinality(wrote[p]) <= OpBlocks

\* log.committing is held by one process, and excludes running calls.
CommitInv ==
    /\ committing <=> \E p \in Procs : Committer(p)
    /\ \A p, q \in Procs : Committer(p) /\ Committer(q) => p = q
    /\ committing => Active = {}

\* Before recovery is over no process has entered the log.
BootInv ==
    boot # "up" => /\ pc = [p \in Procs |-> "idle"]
                   /\ pin = [b \in Blocks |-> 0]
                   /\ \A b \in Blocks : cache[b] \in {Absent, home[b]}

\* A call that runs alone has written all of the log, or another call has ended
\* since it began and left its slack.
AloneInv ==
    \A p \in Active :
        Active = {p} =>
            \/ Len(lh) <= Cardinality(wrote[p])
            \/ Len(lh) + (MAXOPBLOCKS - Cardinality(wrote[p])) <= LOGSIZE - Slack

\* The log has room.
SpaceInv == LogFits /\ AloneInv

\* The header holds what the running calls wrote, each block once, and is
\* empty between transactions.
LoggedInv ==
    /\ boot = "up" /\ lh # <<>> => committing \/ outstanding > 0
    /\ \A p \in Active : wrote[p] \subseteq Range(lh)
    /\ IsInjective(lh)
    /\ IsInjective(dhead)

\* The disk's header: empty, or the header of the transaction being installed.
HeadInv ==
    /\ boot = "install" => lh = dhead
    /\ boot = "up" =>
          IF \E p \in Procs : pc[p] = "install" THEN dhead = lh
                                                ELSE dhead = <<>>
    /\ \A p \in Procs :
          /\ pc[p] \in {"write_log", "write_head", "install"} => lh # <<>>
          /\ pc[p] = "write_log" => tail < Len(lh)
          /\ pc[p] = "install" => tail <= Len(lh)
          /\ pc[p] = "finish" => lh = <<>>

Installing == boot = "install" \/ \E p \in Procs : pc[p] = "install"

\* Blocks already installed are home; logged blocks stay in the cache until
\* then; what commit has copied so far is what the cache holds.
DataInv ==
    /\ Installing => tail <= Len(lh) /\ \A i \in 1..tail : home[lh[i]] = dlog[i]
    /\ \A p \in Procs :
          /\ pc[p] = "write_log" =>
                \A i \in 1..tail : dlog[i] = cache[lh[i]]
          /\ pc[p] \in {"write_head", "install"} =>
                \A i \in 1..Len(lh) : (pc[p] = "install" => i > tail) =>
                    dlog[i] = cache[lh[i]]
    /\ \A b \in Blocks : pin[b] > 0 => cache[b] # Absent

\* The inductive invariant of the log: what log.c keeps true between any two steps.
IInv ==
    /\ TypeOK
    /\ NoPanic
    /\ CountInv
    /\ CommitInv
    /\ BootInv
    /\ SpaceInv
    /\ LoggedInv
    /\ HeadInv
    /\ PinsExact
    /\ CacheCoherent
    /\ DataInv
    /\ SleeperIsOwed
=============================================================================
