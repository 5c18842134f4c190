------------------------------- MODULE Dining3 -------------------------------
(***************************************************************************)
(* projects/project_5/3-dp.c: at most n - 1 philosophers sit at the table, *)
(* each takes the right fork, then the left one.  The semaphores keep the  *)
(* promise of module Semaphore.                                            *)
(***************************************************************************)
EXTENDS Integers

CONSTANT N  \* the command-line argument n

\* With one philosopher the table semaphore starts at 0.
ASSUME NAssumption == N \in Nat /\ N >= 2

VARIABLES forks, table, pc

vars == <<forks, table, pc>>

Philosophers == 0..N - 1

left(p) == p

MutWrapsEarly(p) == (p + 1) % (N - 1)

right(p) == (p + 1) % N

Seats == N - 1

Init ==
    /\ forks = [f \in Philosophers |-> 1]
    /\ table = Seats
    /\ pc = [p \in Philosophers |-> "think"]

Zem_wait(f) == forks[f] > 0 /\ forks' = [forks EXCEPT ![f] = @ - 1]

Zem_post(f) == forks' = [forks EXCEPT ![f] = @ + 1]

Step(p, from, to) == pc[p] = from /\ pc' = [pc EXCEPT ![p] = to]

MutNoTable(p) == Step(p, "think", "get_right") /\ UNCHANGED <<forks, table>>

Sit(p) ==
    /\ Step(p, "think", "get_right")
    /\ table > 0 /\ table' = table - 1
    /\ UNCHANGED forks

GetRight(p) ==
    Step(p, "get_right", "get_left") /\ Zem_wait(right(p)) /\ UNCHANGED table

GetLeft(p) == Step(p, "get_left", "eat") /\ Zem_wait(left(p)) /\ UNCHANGED table

PutRight(p) == Step(p, "eat", "put_left") /\ Zem_post(right(p)) /\ UNCHANGED table

MutPutsRightTwice(p) ==
    Step(p, "put_left", "leave") /\ Zem_post(right(p)) /\ UNCHANGED table

PutLeft(p) == Step(p, "put_left", "leave") /\ Zem_post(left(p)) /\ UNCHANGED table

Leave(p) == Step(p, "leave", "think") /\ table' = table + 1 /\ UNCHANGED forks

Philosopher(p) ==
    Sit(p) \/ GetRight(p) \/ GetLeft(p) \/ PutRight(p) \/ PutLeft(p) \/ Leave(p)

Next == \E p \in Philosophers : Philosopher(p)

Spec == Init /\ [][Next]_vars

\* Every thread runs; a semaphore promises no order among its waiters.
FairSpec == Spec /\ \A p \in Philosophers : WF_vars(Philosopher(p))

-----------------------------------------------------------------------------
Places == {"think", "get_right", "get_left", "eat", "put_left", "leave"}

ForkType == forks \in [Philosophers -> {0, 1}] /\ pc \in [Philosophers -> Places]

\* A fork is there or taken, and the table has 0 to N - 1 free seats.
TypeOK == ForkType /\ table \in 0..Seats

Problem == INSTANCE Dining WITH eating <- {p \in Philosophers : pc[p] = "eat"}

\* Neighbours never eat at the same time.
NeighboursExclude == Problem!Spec

HoldsRight(p) == pc[p] \in {"get_left", "eat"}
HoldsLeft(p) == pc[p] \in {"eat", "put_left"}

\* A fork somebody holds is taken, and nobody else holds it: Zem_wait and Zem_post
\* pair up for each fork.
ForksHeld ==
    /\ \A p \in Philosophers : HoldsRight(p) => forks[right(p)] = 0
    /\ \A p \in Philosophers : HoldsLeft(p) => forks[left(p)] = 0
    /\ \A p, q \in Philosophers : HoldsLeft(p) /\ HoldsRight(q) => left(p) # right(q)

\* Somebody always gets to eat again: with n - 1 seats the right forks are never
\* all taken by philosophers that wait for the left one.
SomebodyEats == []<>(\E p \in Philosophers : pc[p] = "eat")

\* "This algorithm does not cause deadlock nor starvation" (writeup.pdf): every
\* philosopher eats again and again.
NobodyStarves == \A p \in Philosophers : []<>(pc[p] = "eat")
=============================================================================
