------------------------------- MODULE Dining1 -------------------------------
(***************************************************************************)
(* projects/project_5/1-dp.c: every philosopher takes the left fork, then  *)
(* the right one.  A fork is a Zem_t, used through the promise of module   *)
(* Semaphore: Zem_wait is a step enabled when the value is positive.       *)
(***************************************************************************)
EXTENDS Integers

CONSTANT N  \* the command-line argument n

\* With fewer than 5 philosophers right() indexes past the forks array.
ASSUME NAssumption == N \in Nat /\ N >= 5

VARIABLES forks, pc

vars == <<forks, pc>>

Philosophers == 0..N - 1

left(p) == p

right(p) == (p + 1) % 5

Init ==
    /\ forks = [f \in Philosophers |-> 1]
    /\ pc = [p \in Philosophers |-> "think"]

Zem_wait(f) == forks[f] > 0 /\ forks' = [forks EXCEPT ![f] = @ - 1]

Zem_post(f) == forks' = [forks EXCEPT ![f] = @ + 1]

Step(p, from, to) == pc[p] = from /\ pc' = [pc EXCEPT ![p] = to]

\* get_forks, a Zem_wait at a time.
GetLeft(p) == Step(p, "think", "get_right") /\ Zem_wait(left(p))

MutNoWait(p) == Step(p, "get_right", "eat") /\ UNCHANGED forks

GetRight(p) == Step(p, "get_right", "eat") /\ Zem_wait(right(p))

MutPutsNothing(p) == Step(p, "eat", "put_right") /\ UNCHANGED forks

\* put_forks, a Zem_post at a time.
PutLeft(p) == Step(p, "eat", "put_right") /\ Zem_post(left(p))

MutPutsLeftTwice(p) == Step(p, "put_right", "think") /\ Zem_post(left(p))

PutRight(p) == Step(p, "put_right", "think") /\ Zem_post(right(p))

Philosopher(p) == GetLeft(p) \/ GetRight(p) \/ PutLeft(p) \/ PutRight(p)

Next == \E p \in Philosophers : Philosopher(p)

Spec == Init /\ [][Next]_vars

-----------------------------------------------------------------------------
\* A philosopher is in one of its four places, a fork there or taken.
TypeOK ==
    /\ forks \in [Philosophers -> {0, 1}]
    /\ pc \in [Philosophers -> {"think", "get_right", "eat", "put_right"}]

Problem == INSTANCE Dining WITH eating <- {p \in Philosophers : pc[p] = "eat"}

\* "the two adjacent forks must be acquired" to eat: neighbours never eat at the
\* same time.
NeighboursExclude == Problem!Spec

Blocked(p) ==
    \/ pc[p] = "think" /\ forks[left(p)] = 0
    \/ pc[p] = "get_right" /\ forks[right(p)] = 0

\* The table stops only in the deadlock the algorithm is known for: everybody
\* has taken the left fork and waits for the right one.
StopsAllLeft ==
    (\A p \in Philosophers : Blocked(p)) => \A p \in Philosophers : pc[p] = "get_right"
=============================================================================
