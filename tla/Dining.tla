------------------------------- MODULE Dining -------------------------------
(***************************************************************************)
(* The dining philosophers problem, as the headers of 1-dp.c, 2-dp.c and   *)
(* 3-dp.c state it: n philosophers at a circular table, a fork between two *)
(* neighbours, and both adjacent forks are needed to eat.                  *)
(***************************************************************************)
EXTENDS Integers

CONSTANT N

VARIABLE eating  \* the philosophers that eat

Philosophers == 0..N - 1

Adjacent(p) == {p, (p + 1) % N}

Init == eating = {}

Eat(p) ==
    /\ p \notin eating
    /\ \A q \in eating : Adjacent(p) \cap Adjacent(q) = {}
    /\ eating' = eating \cup {p}

Think(p) == p \in eating /\ eating' = eating \ {p}

Spec == Init /\ [][\E p \in Philosophers : Eat(p) \/ Think(p)]_eating
=============================================================================
