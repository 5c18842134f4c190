------------------------------ MODULE Zemaphore ------------------------------
(***************************************************************************)
(* projects/project_5/zemaphore.h: a semaphore made of an int, a mutex and *)
(* a condition variable.  A section under the mutex is one step; between a *)
(* signal and the return of Cond_wait any other thread may take the mutex, *)
(* and Cond_wait may also return without a signal.                         *)
(***************************************************************************)
EXTENDS Integers, FiniteSets

CONSTANTS
    Threads,
    InitValue,  \* the argument of Zem_init
    MaxValue    \* bound on value, for model checking

ASSUME ZemAssumption ==
    /\ IsFiniteSet(Threads)
    /\ InitValue \in Nat
    /\ MaxValue \in Nat /\ InitValue <= MaxValue

VARIABLES
    value,
    asleep,   \* threads inside Cond_wait, not signalled
    woken     \* threads whose Cond_wait returns once they have the mutex

vars == <<value, asleep, woken>>

Zem_init ==
    /\ value = InitValue
    /\ asleep = {}
    /\ woken = {}

Idle(t) == t \notin asleep \cup woken

MutTestNegative(t) ==
    IF value < 0
    THEN asleep' = asleep \cup {t} /\ UNCHANGED value
    ELSE value' = value - 1 /\ UNCHANGED asleep

\* The loop of Zem_wait, entered with the mutex held.
TestValue(t) ==
    IF value <= 0
    THEN asleep' = asleep \cup {t} /\ UNCHANGED value
    ELSE value' = value - 1 /\ UNCHANGED asleep

Zem_wait(t) ==
    /\ Idle(t)
    /\ TestValue(t)
    /\ UNCHANGED woken

\* "if" for "while": the value is not tested again.
MutIfForWhile(t) ==
    /\ t \in woken
    /\ woken' = woken \ {t}
    /\ value' = value - 1
    /\ UNCHANGED asleep

\* Cond_wait returns with the mutex; the while condition is tested again.
Cond_return(t) ==
    /\ t \in woken
    /\ woken' = woken \ {t}
    /\ TestValue(t)

MutNoSignal == UNCHANGED <<asleep, woken>>

Cond_signal ==
    IF asleep = {}
    THEN UNCHANGED <<asleep, woken>>
    ELSE \E t \in asleep : asleep' = asleep \ {t} /\ woken' = woken \cup {t}

Zem_post(t) ==
    /\ Idle(t)
    /\ value < MaxValue
    /\ value' = value + 1
    /\ Cond_signal

\* A spurious wakeup, which POSIX allows.
Spurious(t) ==
    /\ t \in asleep
    /\ asleep' = asleep \ {t}
    /\ woken' = woken \cup {t}
    /\ UNCHANGED value

Next == \E t \in Threads : Zem_wait(t) \/ Cond_return(t) \/ Zem_post(t) \/ Spurious(t)

Spec == Zem_init /\ [][Next]_vars

-----------------------------------------------------------------------------
\* value is an int that never goes negative; a thread sleeps or is woken.
TypeOK ==
    /\ value \in 0..MaxValue
    /\ asleep \subseteq Threads
    /\ woken \subseteq Threads
    /\ asleep \cap woken = {}

\* No signal is lost: while threads sleep, each unit of value has a woken thread
\* on its way to it, whatever other threads barge in before.
NoLostSignal == asleep # {} => value <= Cardinality(woken)

Abstract == INSTANCE Semaphore WITH count <- value, waiting <- asleep \cup woken

\* zemaphore.h implements a counting semaphore.
Implements == Abstract!Spec
=============================================================================
