------------------------------ MODULE Semaphore ------------------------------
(***************************************************************************)
(* What a counting semaphore promises: a wait returns by taking one of the *)
(* units that the initial value and the posts put in, and never blocks a   *)
(* post.                                                                   *)
(***************************************************************************)
EXTENDS Integers

CONSTANTS Threads, InitValue

VARIABLES
    count,   \* units available
    waiting  \* threads inside wait

Init == count = InitValue /\ waiting = {}

\* A thread calls wait.
Request(t) ==
    /\ t \notin waiting
    /\ waiting' = waiting \cup {t}
    /\ UNCHANGED count

\* Its wait returns.
Return(t) ==
    /\ t \in waiting
    /\ count > 0
    /\ count' = count - 1
    /\ waiting' = waiting \ {t}

\* A thread that found a unit at once.
Pass(t) ==
    /\ t \notin waiting
    /\ count > 0
    /\ count' = count - 1
    /\ UNCHANGED waiting

Post(t) ==
    /\ t \notin waiting
    /\ count' = count + 1
    /\ UNCHANGED waiting

Next == \E t \in Threads : Request(t) \/ Return(t) \/ Pass(t) \/ Post(t)

Spec == Init /\ [][Next]_<<count, waiting>>
=============================================================================
