------------------------------- MODULE Dining2 -------------------------------
(***************************************************************************)
(* projects/project_5/2-dp.c: under a mutex a philosopher looks whether    *)
(* both bits of fork_bitmap are clear and sets them; then it takes the     *)
(* fork semaphores, eats, and gives everything back under the mutex.  The  *)
(* semaphores keep the promise of module Semaphore.                        *)
(***************************************************************************)
EXTENDS Integers, FiniteSets

CONSTANT N  \* the command-line argument n

\* With one philosopher both forks are the same.
ASSUME NAssumption == N \in Nat /\ N >= 2

VARIABLES
    forks, mutex,
    fork_bitmap,  \* the bits that are set
    pc

vars == <<forks, mutex, fork_bitmap, pc>>

Philosophers == 0..N - 1

left(p) == p

MutWrapsEarly(p) == (p + 1) % (N - 1)

right(p) == (p + 1) % N

Both(p) == {left(p), right(p)}

Init ==
    /\ forks = [f \in Philosophers |-> 1]
    /\ mutex = 1
    /\ fork_bitmap = {}
    /\ pc = [p \in Philosophers |-> "think"]

Step(p, from, to) == pc[p] = from /\ pc' = [pc EXCEPT ![p] = to]

lock == mutex > 0 /\ mutex' = mutex - 1

unlock == mutex' = mutex + 1

Zem_wait(f) == forks[f] > 0 /\ forks' = [forks EXCEPT ![f] = @ - 1]

Zem_post(f) == forks' = [forks EXCEPT ![f] = @ + 1]

Lock(p) ==
    /\ Step(p, "think", "test")
    /\ lock
    /\ UNCHANGED <<forks, fork_bitmap>>

MutTestsRight(p) == right(p) \notin fork_bitmap

Available(p) == Both(p) \cap fork_bitmap = {}

\* Both bits are clear: set them, release the mutex.  The statistics, which are
\* only printed, are left out.
Take(p) ==
    /\ Step(p, "test", "get_right")
    /\ Available(p)
    /\ fork_bitmap' = fork_bitmap \cup Both(p)
    /\ unlock
    /\ UNCHANGED forks

\* One is set: try again later.
GiveUp(p) ==
    /\ Step(p, "test", "think")
    /\ ~Available(p)
    /\ unlock
    /\ UNCHANGED <<forks, fork_bitmap>>

Fork(p, from, to, Op(_), f) ==
    /\ Step(p, from, to)
    /\ Op(f)
    /\ UNCHANGED <<mutex, fork_bitmap>>

\* get_forks
GetRight(p) == Fork(p, "get_right", "get_left", Zem_wait, right(p))

GetLeft(p) == Fork(p, "get_left", "eat", Zem_wait, left(p))

LockAgain(p) ==
    /\ Step(p, "eat", "put_right")
    /\ lock
    /\ UNCHANGED <<forks, fork_bitmap>>

\* put_forks
PutRight(p) == Fork(p, "put_right", "put_left", Zem_post, right(p))

MutPutsRightTwice(p) == Fork(p, "put_left", "clear", Zem_post, right(p))

PutLeft(p) == Fork(p, "put_left", "clear", Zem_post, left(p))

MutClearsRight(p) ==
    /\ Step(p, "clear", "think")
    /\ fork_bitmap' = fork_bitmap \ {right(p)}
    /\ unlock
    /\ UNCHANGED forks

\* The bits are toggled with ^, and the mutex released.
Clear(p) ==
    /\ Step(p, "clear", "think")
    /\ fork_bitmap' = (fork_bitmap \ Both(p)) \cup (Both(p) \ fork_bitmap)
    /\ unlock
    /\ UNCHANGED forks

Philosopher(p) ==
    \/ Lock(p) \/ Take(p) \/ GiveUp(p)
    \/ GetRight(p) \/ GetLeft(p) \/ LockAgain(p)
    \/ PutRight(p) \/ PutLeft(p) \/ Clear(p)

Next == \E p \in Philosophers : Philosopher(p)

Spec == Init /\ [][Next]_vars

\* Every thread runs; a semaphore promises no order among its waiters.
FairSpec == Spec /\ \A p \in Philosophers : WF_vars(Philosopher(p))

-----------------------------------------------------------------------------
Places == {"think", "test", "get_right", "get_left", "eat", "put_right",
           "put_left", "clear"}

\* Semaphores are 0 or 1, the bitmap has a bit per fork.
TypeOK ==
    /\ forks \in [Philosophers -> {0, 1}]
    /\ mutex \in {0, 1}
    /\ fork_bitmap \subseteq Philosophers
    /\ pc \in [Philosophers -> Places]

Problem == INSTANCE Dining WITH eating <- {p \in Philosophers : pc[p] = "eat"}

\* Neighbours never eat at the same time.
NeighboursExclude == Problem!Spec

\* "both forks are grabbed at the same time": once the bits are set, get_forks
\* never blocks, so the fork semaphores are redundant.
GetForksNeverBlocks ==
    \A p \in Philosophers :
        /\ pc[p] = "get_right" => forks[right(p)] = 1
        /\ pc[p] \in {"get_right", "get_left"} => forks[left(p)] = 1

\* The bitmap has exactly the bits of the philosophers between Take and Clear,
\* no two of whom share one: toggling with ^ clears and never sets a bit.
BitmapExact ==
    LET owners == {p \in Philosophers : pc[p] \notin {"think", "test"}}
    IN  /\ fork_bitmap = UNION {Both(p) : p \in owners}
        /\ \A p, q \in owners : p # q => Both(p) \cap Both(q) = {}

\* Meals begin again and again: giving up and trying later does not keep the table
\* busy without a meal.  The one exception is a philosopher who has eaten and never
\* gets the mutex to put the forks back (Zem_wait promises no order, so others that
\* test and give up may overtake it for ever).
MealsGoOn ==
    \/ []<><<\E p \in Philosophers : GetLeft(p)>>_vars
    \/ \E p \in Philosophers : <>[](pc[p] = "eat")
=============================================================================
