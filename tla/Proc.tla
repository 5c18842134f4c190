-------------------------------- MODULE Proc --------------------------------
(***************************************************************************)
(* The process table of kernel/proc.c: fork, exit, wait, kill, sleep,      *)
(* wakeup and the per-CPU scheduler, interleaved at the granularity of     *)
(* their critical sections under p->lock and wait_lock.                    *)
(*                                                                         *)
(* p->lock is held across a step boundary only from the assignment to      *)
(* p->state that precedes sched() until the scheduler, back on its own     *)
(* stack, releases it; that window is pc[p] = "sched".  Every other        *)
(* section under p->lock is one step, enabled when the lock is free.       *)
(***************************************************************************)
EXTENDS Integers, FiniteSets

CONSTANTS
    Slots,   \* the entries of proc[NPROC]
    initproc,
    CPUs,
    Victims, \* the slots whose pids processes pass to kill; init's is not one
    None

ASSUME ProcAssumption ==
    /\ initproc \in Slots
    /\ Victims \subseteq Slots \ {initproc}
    /\ None \notin Slots

VARIABLES
    state,     \* p->state
    parent,    \* p->parent
    chan,      \* p->chan; wait() sleeps on the waiting process itself
    killed,    \* p->killed
    pc,        \* where the process's kernel thread is
    ret,       \* where it continues after sched()
    np,        \* fork: the child being set up
    cpu,       \* c->proc
    wait_lock  \* the holder of wait_lock

vars == <<state, parent, chan, killed, pc, ret, np, cpu, wait_lock>>

Init ==
    /\ state = [p \in Slots |-> IF p = initproc THEN "RUNNABLE" ELSE "UNUSED"]
    /\ parent = [p \in Slots |-> None]
    /\ chan = [p \in Slots |-> None]
    /\ killed = [p \in Slots |-> FALSE]
    /\ pc = [p \in Slots |-> "off"]
    /\ ret = [p \in Slots |-> IF p = initproc THEN "user" ELSE "off"]
    /\ np = [p \in Slots |-> None]
    /\ cpu = [c \in CPUs |-> None]
    /\ wait_lock = None

\* The state is published before the switch is complete.
MutNeverLocked(p) == FALSE

\* p->lock is held between two steps.
Locked(p) == pc[p] = "sched"

\* The thread of p is executing at label l.
At(p, l) == pc[p] = l

Goto(p, l) == pc' = [pc EXCEPT ![p] = l]

\* acquire(&wait_lock), first half: push_off() disables interrupts, so that from
\* here on p spins without being preempted.
Spin == [set_parent |-> "spin_parent", exit |-> "spin_exit", wait |-> "spin_wait"]

acquire(p) ==
    /\ pc[p] \in DOMAIN Spin
    /\ Goto(p, Spin[pc[p]])
    /\ UNCHANGED <<state, parent, chan, killed, ret, np, cpu, wait_lock>>

\* Second half: the atomic swap finds the lock free.
acquired(p) == wait_lock = None /\ wait_lock' = p

-----------------------------------------------------------------------------
(* Scheduler and context switch.                                            *)

\* Resumes where it stopped, without taking the released lock again.
MutResumesInPlace(p, s, l) ==
    /\ state' = [state EXCEPT ![p] = s]
    /\ ret' = [ret EXCEPT ![p] = pc[p]]
    /\ Goto(p, "sched")

\* sched(): give up the CPU in the state s, to continue at l.
sched(p, s, l) ==
    /\ state' = [state EXCEPT ![p] = s]
    /\ ret' = [ret EXCEPT ![p] = l]
    /\ Goto(p, "sched")

\* The scheduler resumes after swtch: c->proc = 0; release(&p->lock).
SwitchOut(c) ==
    /\ cpu[c] # None
    /\ pc[cpu[c]] = "sched"
    /\ cpu' = [cpu EXCEPT ![c] = None]
    /\ Goto(cpu[c], "off")
    /\ UNCHANGED <<state, parent, chan, killed, ret, np, wait_lock>>

\* The scheduler picks p; p returns from sched() (sleep clears p->chan there)
\* or starts in forkret, and releases p->lock.
scheduler(c, p) ==
    /\ cpu[c] = None
    /\ ~Locked(p)
    /\ state[p] = "RUNNABLE"
    /\ state' = [state EXCEPT ![p] = "RUNNING"]
    /\ cpu' = [cpu EXCEPT ![c] = p]
    /\ chan' = [chan EXCEPT ![p] = None]
    /\ Goto(p, ret[p])
    /\ ret' = [ret EXCEPT ![p] = "off"]
    /\ UNCHANGED <<parent, killed, np, wait_lock>>

\* Timer interrupt while p neither holds nor spins on a spinlock.
yield(p) ==
    /\ pc[p] \in {"user", "set_parent", "set_runnable", "exit", "wait"}
    /\ sched(p, "RUNNABLE", pc[p])
    /\ UNCHANGED <<parent, chan, killed, np, cpu, wait_lock>>

\* wakeup(ch) called by p; it waits for the lock of a process that is still
\* switching away.
wakeup(p, ch) ==
    /\ \A q \in Slots \ {p} : chan[q] = ch => ~Locked(q)
    /\ state' = [q \in Slots |->
                    IF q # p /\ state[q] = "SLEEPING" /\ chan[q] = ch
                    THEN "RUNNABLE" ELSE state[q]]

-----------------------------------------------------------------------------
(* fork                                                                     *)

\* System calls are not started by a killed process (usertrap).
InUser(p) == At(p, "user") /\ ~killed[p]

freeproc(q) ==
    /\ state' = [state EXCEPT ![q] = "UNUSED"]
    /\ parent' = [parent EXCEPT ![q] = None]
    /\ killed' = [killed EXCEPT ![q] = FALSE]
    /\ chan' = [chan EXCEPT ![q] = None]

Unused(q) == state[q] = "UNUSED" /\ ~Locked(q)

\* p->killed is left as it is.
allocproc(q) ==
    /\ Unused(q)
    /\ state' = [state EXCEPT ![q] = "USED"]
    /\ UNCHANGED <<parent, chan, killed>>

\* No memory for the trapframe or the page table (allocproc), or for the copy of
\* the parent's memory (fork): the slot is given back.
AllocFails(q) == Unused(q) /\ freeproc(q)

fork(p) ==
    /\ InUser(p)
    /\ \E q \in Slots :
          \/ allocproc(q) /\ np' = [np EXCEPT ![p] = q] /\ Goto(p, "set_parent")
          \/ AllocFails(q) /\ UNCHANGED <<np, pc>>
    /\ UNCHANGED <<ret, cpu, wait_lock>>

ForkSetParent(p) ==
    /\ At(p, "spin_parent")
    /\ wait_lock = None
    /\ parent' = [parent EXCEPT ![np[p]] = p]
    /\ Goto(p, "set_runnable")
    /\ UNCHANGED <<state, chan, killed, ret, np, cpu, wait_lock>>

ForkSetRunnable(p) ==
    /\ At(p, "set_runnable")
    /\ ~Locked(np[p])
    /\ state' = [state EXCEPT ![np[p]] = "RUNNABLE"]
    /\ ret' = [ret EXCEPT ![np[p]] = "user"]
    /\ np' = [np EXCEPT ![p] = None]
    /\ Goto(p, "user")
    /\ UNCHANGED <<parent, chan, killed, cpu, wait_lock>>

-----------------------------------------------------------------------------
(* exit                                                                     *)

exit(p) ==
    /\ p # initproc
    /\ At(p, "user")
    /\ Goto(p, "exit")
    /\ UNCHANGED <<state, parent, chan, killed, ret, np, cpu, wait_lock>>

MutNoReparent(p) == UNCHANGED parent

\* reparent: p's children become init's.
Reparent(p) ==
    parent' = [q \in Slots |-> IF parent[q] = p THEN initproc ELSE parent[q]]

ExitReparent(p) ==
    /\ At(p, "spin_exit")
    /\ acquired(p)
    /\ Reparent(p)
    /\ Goto(p, IF \E q \in Slots : parent[q] = p THEN "wake_init"
                                                  ELSE "wake_parent")
    /\ UNCHANGED <<state, chan, killed, ret, np, cpu>>

MutNoWakeInit(p) ==
    /\ At(p, "wake_init")
    /\ Goto(p, "wake_parent")
    /\ UNCHANGED <<state, parent, chan, killed, ret, np, cpu, wait_lock>>

\* reparent: wakeup(initproc).
ExitWakeInit(p) ==
    /\ At(p, "wake_init")
    /\ wakeup(p, initproc)
    /\ Goto(p, "wake_parent")
    /\ UNCHANGED <<parent, chan, killed, ret, np, cpu, wait_lock>>

MutNoWakeParent(p) ==
    /\ At(p, "wake_parent")
    /\ Goto(p, "zombie")
    /\ UNCHANGED <<state, parent, chan, killed, ret, np, cpu, wait_lock>>

ExitWakeParent(p) ==
    /\ At(p, "wake_parent")
    /\ wakeup(p, parent[p])
    /\ Goto(p, "zombie")
    /\ UNCHANGED <<parent, chan, killed, ret, np, cpu, wait_lock>>

MutZombieKeepsLock(p) ==
    /\ At(p, "zombie")
    /\ sched(p, "ZOMBIE", "off")
    /\ UNCHANGED <<parent, chan, killed, np, cpu, wait_lock>>

\* Under p->lock: become a zombie, release wait_lock, sched().
ExitZombie(p) ==
    /\ At(p, "zombie")
    /\ sched(p, "ZOMBIE", "off")
    /\ wait_lock' = None
    /\ UNCHANGED <<parent, chan, killed, np, cpu>>

-----------------------------------------------------------------------------
(* wait                                                                     *)

Children(p) == {q \in Slots : parent[q] = p}

\* init only waits for children it has (user/init.c).
wait(p) ==
    /\ InUser(p)
    /\ p = initproc => Children(p) # {}
    /\ Goto(p, "wait")
    /\ UNCHANGED <<state, parent, chan, killed, ret, np, cpu, wait_lock>>

WaitLock(p) ==
    /\ At(p, "spin_wait")
    /\ acquired(p)
    /\ Goto(p, "scan")
    /\ UNCHANGED <<state, parent, chan, killed, ret, np, cpu>>

\* The scan found a zombie: copyout may fail, else freeproc; either way wait
\* returns.
WaitReap(p) ==
    /\ At(p, "scan")
    /\ \E q \in Children(p) :
          /\ state[q] = "ZOMBIE"
          /\ ~Locked(q)
          /\ \/ freeproc(q)
             \/ p # initproc /\ UNCHANGED <<state, parent, killed, chan>>
    /\ wait_lock' = None
    /\ Goto(p, "user")
    /\ UNCHANGED <<ret, np, cpu>>

\* The scan found no zombie.
WaitNone(p) ==
    /\ At(p, "scan")
    /\ \A q \in Children(p) : state[q] # "ZOMBIE"
    /\ IF Children(p) = {} \/ killed[p]
       THEN wait_lock' = None /\ Goto(p, "user")
       ELSE wait_lock' = wait_lock /\ Goto(p, "sleep")
    /\ UNCHANGED <<state, parent, chan, killed, ret, np, cpu>>

\* wait_lock released a step before p->lock is taken.
MutSleepUnlocked(p) ==
    /\ At(p, "sleep")
    /\ IF wait_lock = p
       THEN wait_lock' = None /\ UNCHANGED <<chan, state, ret, pc>>
       ELSE /\ chan' = [chan EXCEPT ![p] = p]
            /\ sched(p, "SLEEPING", "wait")
            /\ UNCHANGED wait_lock
    /\ UNCHANGED <<parent, killed, np, cpu>>

\* sleep(p, &wait_lock): under p->lock release wait_lock, then sched().
sleep(p) ==
    /\ At(p, "sleep")
    /\ wait_lock' = None
    /\ chan' = [chan EXCEPT ![p] = p]
    /\ sched(p, "SLEEPING", "wait")
    /\ UNCHANGED <<parent, killed, np, cpu>>

-----------------------------------------------------------------------------
\* kill(pid); pid 0 matches an unused slot.
kill(p, q) ==
    /\ InUser(p)
    /\ q \in Victims
    /\ ~Locked(q)
    /\ killed' = [killed EXCEPT ![q] = TRUE]
    /\ state' = [state EXCEPT ![q] = IF @ = "SLEEPING" THEN "RUNNABLE" ELSE @]
    /\ UNCHANGED <<parent, chan, pc, ret, np, cpu, wait_lock>>

Thread(p) ==
    \/ acquire(p)
    \/ ForkSetParent(p) \/ ForkSetRunnable(p)
    \/ ExitReparent(p) \/ ExitWakeInit(p) \/ ExitWakeParent(p) \/ ExitZombie(p)
    \/ WaitLock(p) \/ WaitReap(p) \/ WaitNone(p) \/ sleep(p)

Next ==
    \/ \E c \in CPUs : SwitchOut(c) \/ \E p \in Slots : scheduler(c, p)
    \/ \E p \in Slots : Thread(p) \/ yield(p) \/ fork(p) \/ exit(p) \/ wait(p)
    \/ \E p, q \in Slots : kill(p, q)

Spec == Init /\ [][Next]_vars

\* A spinning acquire gets its lock, the round-robin scan of scheduler reaches
\* every process, swtch completes, and init keeps calling wait.  The timer of a
\* CPU keeps ticking: an interrupt that comes while interrupts are off stays pending.
Fairness ==
    /\ \A c \in CPUs : WF_vars(SwitchOut(c))
    /\ \A p \in Slots : SF_vars(\E c \in CPUs : scheduler(c, p))
    /\ \A p \in Slots : SF_vars(Thread(p))
    /\ \A c \in CPUs : SF_vars(\E p \in Slots : cpu[c] = p /\ yield(p))
    /\ SF_vars(wait(initproc))

FairSpec == Spec /\ Fairness

-----------------------------------------------------------------------------
States == {"UNUSED", "USED", "SLEEPING", "RUNNABLE", "RUNNING", "ZOMBIE"}
Saved == {"user", "set_parent", "set_runnable", "exit", "wait", "off"}
Spinning == {"spin_parent", "spin_exit", "spin_wait"}
Holding == {"wake_init", "wake_parent", "zombie", "scan", "sleep"}

\* The process table, CPUs and wait_lock hold values of their C types.
TypeOK ==
    /\ state \in [Slots -> States]
    /\ parent \in [Slots -> Slots \cup {None}]
    /\ chan \in [Slots -> Slots \cup {None}]
    /\ killed \in [Slots -> BOOLEAN]
    /\ pc \in [Slots -> Saved \cup Spinning \cup Holding \cup {"sched"}]
    /\ ret \in [Slots -> Saved]
    /\ np \in [Slots -> Slots \cup {None}]
    /\ cpu \in [CPUs -> Slots \cup {None}]
    /\ wait_lock \in Slots \cup {None}

\* No kernel stack is used by two CPUs, and what a CPU runs has not been freed:
\* the process is RUNNING, or its CPU is still inside sched() with p->lock held.
StackSafe ==
    \A c \in CPUs : cpu[c] # None =>
        /\ \A d \in CPUs \ {c} : cpu[d] # cpu[c]
        /\ pc[cpu[c]] # "sched" => state[cpu[c]] = "RUNNING"
        /\ state[cpu[c]] # "UNUSED"

\* sched() is entered with no lock but p->lock (its panic "sched locks"), and
\* wait_lock is never left held by a process that does not run.
SchedLocks ==
    wait_lock # None => pc[wait_lock] \in Holding /\ state[wait_lock] = "RUNNING"

\* wait() misses no exit(): once wait_lock is free, no process sleeps in wait
\* while a child of it is a zombie.
NoMissedExit ==
    wait_lock = None =>
        \A p, q \in Slots :
            state[p] = "SLEEPING" /\ chan[p] = p /\ parent[q] = p
                => state[q] # "ZOMBIE"

\* exit() leaves no child behind: a parent can still run, so every process has
\* somebody to reap it.
ParentsAlive ==
    /\ \A q \in Slots : parent[q] # None =>
            state[parent[q]] \notin {"UNUSED", "USED", "ZOMBIE"}
    /\ \A q \in Slots \ {initproc} :
            state[q] \notin {"UNUSED", "USED"} => parent[q] # None

InWait(p) ==
    \/ pc[p] \in {"wait", "spin_wait", "scan", "sleep"}
    \/ pc[p] \in {"sched", "off"} /\ ret[p] = "wait"

\* A process waiting in wait() while a child is a zombie leaves wait().
WaitReturns ==
    \A p \in Slots :
        (InWait(p) /\ \E q \in Children(p) : state[q] = "ZOMBIE") ~> ~InWait(p)

\* "Kill the process with the given pid": kill marks processes only.
KillMarksProcess == \A p \in Slots : killed[p] => state[p] # "UNUSED"
=============================================================================
