------------------------------- MODULE Shuttle -------------------------------
(***************************************************************************)
(* projects/project_5/shuttles-problem.c: attendees and a shuttle driver   *)
(* that share mutexes, counters and notification semaphores.  Semaphores   *)
(* keep the promise of module Semaphore.  Taking a mutex while another one *)
(* is held is a step of its own; a section is one step with the            *)
(* acquisition of its last mutex and the release of all of them.           *)
(***************************************************************************)
EXTENDS Integers, FiniteSets

CONSTANTS
    Attendees,
    shuttle_capacity,
    MaxArrived   \* bound on the surplus of the arrived semaphores

ASSUME ShuttleAssumption ==
    IsFiniteSet(Attendees) /\ shuttle_capacity \in Nat \ {0} /\ MaxArrived \in Nat

Stops == {"A", "B"}

Other(s) == IF s = "A" THEN "B" ELSE "A"

VARIABLES
    waiting_mutex, passengers_mutex, door_mutex,
    bus_stop, arrived, start_shuttle,       \* notification semaphores
    waiting_at, passengers, door,
    at,        \* the stop an attendee waits at or has left
    pc,        \* attendees
    leg,       \* the stop the driver handles
    driver     \* the driver's place

mutexes == <<waiting_mutex, passengers_mutex, door_mutex>>
attendees == <<at, pc>>
shuttle == <<leg, driver>>
vars == <<waiting_mutex, passengers_mutex, door_mutex, bus_stop, arrived,
          start_shuttle, waiting_at, passengers, door, at, pc, leg, driver>>

Init ==
    /\ waiting_mutex = [s \in Stops |-> 1]
    /\ passengers_mutex = 1
    /\ door_mutex = 1
    /\ bus_stop = [s \in Stops |-> 0]
    /\ arrived = [s \in Stops |-> 0]
    /\ start_shuttle = 0
    /\ waiting_at = [s \in Stops |-> 0]
    /\ passengers = 0
    /\ door = 0
    /\ at = [a \in Attendees |-> "A"]
    /\ pc = [a \in Attendees |-> "come"]
    /\ leg = "A"
    /\ driver = "debug1"

Step(a, from, to) == pc[a] = from /\ pc' = [pc EXCEPT ![a] = to]

Drive(from, to) == driver = from /\ driver' = to

-----------------------------------------------------------------------------
(* attendee                                                                 *)

MutNotCounted(a) ==
    /\ Step(a, "come", "stop")
    /\ waiting_mutex[at[a]] > 0
    /\ UNCHANGED <<mutexes, bus_stop, arrived, start_shuttle, waiting_at, passengers,
                   door, at, shuttle>>

Come(a) ==
    /\ Step(a, "come", "stop")
    /\ waiting_mutex[at[a]] > 0
    /\ waiting_at' = [waiting_at EXCEPT ![at[a]] = @ + 1]
    /\ UNCHANGED <<mutexes, bus_stop, arrived, start_shuttle, passengers, door, at,
                   shuttle>>

Enter(a) ==
    /\ Step(a, "stop", "lock_passengers")
    /\ bus_stop[at[a]] > 0
    /\ bus_stop' = [bus_stop EXCEPT ![at[a]] = @ - 1]
    /\ UNCHANGED <<mutexes, arrived, start_shuttle, waiting_at, passengers, door, at,
                   shuttle>>

MutNoPassengersLock(a) ==
    /\ Step(a, "lock_passengers", "lock_door")
    /\ UNCHANGED <<mutexes, bus_stop, arrived, start_shuttle, waiting_at, passengers,
                   door, at, shuttle>>

LockPassengers(a) ==
    /\ Step(a, "lock_passengers", "lock_door")
    /\ passengers_mutex > 0
    /\ passengers_mutex' = passengers_mutex - 1
    /\ UNCHANGED <<waiting_mutex, door_mutex, bus_stop, arrived, start_shuttle,
                   waiting_at, passengers, door, at, shuttle>>

LockDoor(a) ==
    /\ Step(a, "lock_door", "last")
    /\ door_mutex > 0
    /\ door_mutex' = door_mutex - 1
    /\ UNCHANGED <<waiting_mutex, passengers_mutex, bus_stop, arrived, start_shuttle,
                   waiting_at, passengers, door, at, shuttle>>

\* "if last passenger, tell shuttle to leave"
LastPassenger(a) ==
    /\ Step(a, "last", "ride")
    /\ waiting_mutex[at[a]] > 0
    /\ IF (waiting_at[at[a]] = 0 \/ passengers = shuttle_capacity) /\ door = 0
       THEN door' = 1 /\ start_shuttle' = start_shuttle + 1
       ELSE UNCHANGED <<door, start_shuttle>>
    /\ passengers_mutex' = passengers_mutex + 1
    /\ door_mutex' = door_mutex + 1
    /\ UNCHANGED <<waiting_mutex, bus_stop, arrived, waiting_at, passengers, at,
                   shuttle>>

Arrive(a) ==
    LET there == Other(at[a])
    IN  /\ Step(a, "ride", "come")
        /\ arrived[there] > 0
        /\ arrived' = [arrived EXCEPT ![there] = @ - 1]
        /\ at' = [at EXCEPT ![a] = there]
        /\ UNCHANGED <<mutexes, bus_stop, start_shuttle, waiting_at, passengers, door,
                       shuttle>>

attendee(a) ==
    \/ Come(a) \/ Enter(a) \/ LockPassengers(a) \/ LockDoor(a)
    \/ LastPassenger(a) \/ Arrive(a)

-----------------------------------------------------------------------------
(* shuttle_driver                                                           *)

\* Takes waiting_mutex s on the way from one place to another.
LockWaiting(from, to, s) ==
    /\ Drive(from, to)
    /\ waiting_mutex[s] > 0
    /\ waiting_mutex' = [waiting_mutex EXCEPT ![s] = @ - 1]
    /\ UNCHANGED <<passengers_mutex, door_mutex, bus_stop, arrived, start_shuttle,
                   waiting_at, passengers, door, attendees, leg>>

Debug1 == LockWaiting("debug1", "debug2", "A")

Debug2 == LockWaiting("debug2", "debug3", "B")

Debug3 ==
    /\ Drive("debug3", "open")
    /\ passengers_mutex > 0
    /\ waiting_mutex' = [s \in Stops |-> waiting_mutex[s] + 1]
    /\ UNCHANGED <<passengers_mutex, door_mutex, bus_stop, arrived, start_shuttle,
                   waiting_at, passengers, door, attendees, leg>>

OpenDoor ==
    /\ Drive("open", "board1")
    /\ door_mutex > 0
    /\ door' = 0
    /\ UNCHANGED <<mutexes, bus_stop, arrived, start_shuttle, waiting_at, passengers,
                   attendees, leg>>

Board1 == LockWaiting("board1", "board2", leg)

Board2 == LockWaiting("board2", "board3", Other(leg))

MutBoardsAll == waiting_at[leg]

\* How many the loop lets in.
Boarding ==
    LET free == shuttle_capacity - passengers
    IN  IF waiting_at[leg] < free THEN waiting_at[leg] ELSE free

Board ==
    /\ Drive("board3", "start")
    /\ passengers_mutex > 0
    /\ waiting_at' = [waiting_at EXCEPT ![leg] = @ - Boarding]
    /\ bus_stop' = [bus_stop EXCEPT ![leg] = @ + Boarding]
    /\ passengers' = passengers + Boarding
    /\ start_shuttle' = start_shuttle + (IF waiting_at[leg] = 0 THEN 1 ELSE 0)
    /\ waiting_mutex' = [s \in Stops |-> waiting_mutex[s] + 1]
    /\ UNCHANGED <<passengers_mutex, door_mutex, arrived, door, attendees, leg>>

Start ==
    /\ Drive("start", "drop1")
    /\ start_shuttle > 0
    /\ start_shuttle' = start_shuttle - 1
    /\ UNCHANGED <<mutexes, bus_stop, arrived, waiting_at, passengers, door, attendees,
                   leg>>

Drop1 == LockWaiting("drop1", "drop2", Other(leg))

\* "wake up all passengers", shuttle_capacity posts; on to the other stop.
DropOff ==
    /\ Drive("drop2", IF leg = "A" THEN "open" ELSE "debug1")
    /\ passengers_mutex > 0
    /\ arrived[Other(leg)] + shuttle_capacity <= MaxArrived
    /\ passengers' = 0
    /\ arrived' = [arrived EXCEPT ![Other(leg)] = @ + shuttle_capacity]
    /\ waiting_mutex' = [waiting_mutex EXCEPT ![Other(leg)] = @ + 1]
    /\ leg' = Other(leg)
    /\ UNCHANGED <<passengers_mutex, door_mutex, bus_stop, start_shuttle, waiting_at,
                   door, attendees>>

shuttle_driver ==
    \/ Debug1 \/ Debug2 \/ Debug3 \/ OpenDoor \/ Board1 \/ Board2 \/ Board
    \/ Start \/ Drop1 \/ DropOff

Next == shuttle_driver \/ \E a \in Attendees : attendee(a)

Spec == Init /\ [][Next]_vars

-----------------------------------------------------------------------------
\* Mutexes are 0 or 1, counters and semaphores never negative, and no more
\* passengers are counted than the shuttle holds.
TypeOK ==
    /\ waiting_mutex \in [Stops -> {0, 1}]
    /\ passengers_mutex \in {0, 1} /\ door_mutex \in {0, 1}
    /\ bus_stop \in [Stops -> Nat] /\ waiting_at \in [Stops -> Nat]
    /\ arrived \in [Stops -> 0..MaxArrived]
    /\ start_shuttle \in Nat
    /\ passengers \in 0..shuttle_capacity
    /\ door \in {0, 1}
    /\ at \in [Attendees -> Stops]
    /\ pc \in [Attendees -> {"come", "stop", "lock_passengers", "lock_door", "last",
                             "ride"}]
    /\ leg \in Stops
    /\ driver \in {"debug1", "debug2", "debug3", "open", "board1", "board2", "board3",
                   "start", "drop1", "drop2"}

\* Nobody is lost at a stop: an attendee waiting there is counted in waiting_at
\* or has a post of bus_stop to its name.
StopConserved ==
    \A s \in Stops :
        waiting_at[s] + bus_stop[s] =
            Cardinality({a \in Attendees : pc[a] = "stop" /\ at[a] = s})

\* passengers_mutex admits one attendee at a time to the door and to the test for
\* the last passenger, and is free exactly when nobody is there: it is neither
\* lost nor posted twice.
OneInDoorway ==
    LET inside == {a \in Attendees : pc[a] \in {"lock_door", "last"}}
    IN  Cardinality(inside) = 1 - passengers_mutex

\* "The program does not deadlock" (the writeup): somebody can always take a step.
\* A driver held back by the bound on arrived is not stopped by the program.
NoDeadlock ==
    \/ ENABLED Next
    \/ \E s \in Stops : arrived[s] + shuttle_capacity > MaxArrived
=============================================================================
