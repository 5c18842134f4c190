------------------------------ MODULE ProcInv ------------------------------
(***************************************************************************)
(* The inductive invariant behind the safety properties of Proc.           *)
(***************************************************************************)
EXTENDS Proc

Dying == {"wake_init", "wake_parent", "zombie"}
Forking == {"set_parent", "spin_parent", "set_runnable"}

\* p is between allocproc and the last store of fork, running or preempted.
InFork(p) == pc[p] \in Forking \/ ret[p] \in Forking

\* A thread off its CPU or in sched() is not RUNNING, every other one is, and
\* no two CPUs have the same process.
CpuInv ==
    /\ \A c \in CPUs : cpu[c] # None => pc[cpu[c]] # "off"
    /\ \A c, d \in CPUs : c # d /\ cpu[c] # None => cpu[c] # cpu[d]
    /\ \A p \in Slots : pc[p] \notin {"off", "sched"} => state[p] = "RUNNING"
    /\ \A p \in Slots : pc[p] = "off" => state[p] # "RUNNING"
    /\ \A p \in Slots : pc[p] = "sched" =>
            state[p] \in {"RUNNABLE", "SLEEPING", "ZOMBIE"}
    /\ \A p \in Slots : state[p] \in {"RUNNABLE", "SLEEPING"} => ret[p] # "off"
    /\ \A p \in Slots : state[p] \notin {"RUNNABLE", "SLEEPING"} => ret[p] = "off"

\* wait_lock is held exactly by the thread whose pc is in a section under it.
LockInv == \A p \in Slots : wait_lock = p <=> pc[p] \in Holding

\* init never exits and is nobody's child.
InitInv ==
    /\ parent[initproc] = None
    /\ state[initproc] \in {"SLEEPING", "RUNNABLE", "RUNNING"}
    /\ pc[initproc] \notin Dying \cup {"exit", "spin_exit"}
    /\ ret[initproc] # "exit"

\* The child that fork is setting up is its own, and unused by anyone else.
ForkInv ==
    /\ \A p \in Slots : InFork(p) =>
            np[p] \in Slots /\ state[np[p]] = "USED"
    /\ \A p, q \in Slots : InFork(p) /\ InFork(q) /\ np[p] = np[q] => p = q
    /\ \A p \in Slots : (pc[p] = "set_runnable" \/ ret[p] = "set_runnable") =>
            parent[np[p]] = p

\* Parents are alive, and an exiting process has given its children away.
ParentInv ==
    /\ \A p, q \in Slots : parent[q] = p =>
            state[p] \in {"SLEEPING", "RUNNABLE", "RUNNING"} /\ pc[p] \notin Dying
    /\ \A q \in Slots \ {initproc} :
            state[q] \notin {"UNUSED", "USED"} => parent[q] # None

\* Zombies and sleeping parents, wait_lock held or not.
WaitInv ==
    /\ \A p \in Slots : state[p] = "SLEEPING" => chan[p] = p
    /\ \A p, q \in Slots :
            state[p] = "SLEEPING" /\ parent[q] = p /\ state[q] = "ZOMBIE" =>
                p = initproc /\ \E r \in Slots : pc[r] = "wake_init"
    /\ \A p, r \in Slots : pc[r] = "zombie" /\ parent[r] = p => state[p] # "SLEEPING"
    /\ \A p, q \in Slots : pc[p] = "sleep" /\ parent[q] = p => state[q] # "ZOMBIE"

\* The inductive invariant of the process table.
IInv == TypeOK /\ CpuInv /\ LockInv /\ InitInv /\ ForkInv /\ ParentInv /\ WaitInv
=============================================================================
