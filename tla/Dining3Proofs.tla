---------------------------- MODULE Dining3Proofs ----------------------------
(***************************************************************************)
(* 3-dp.c solves the dining philosophers problem for every n >= 2: no two  *)
(* neighbours eat together.                                                *)
(***************************************************************************)
EXTENDS Dining3, TLAPS

\* What NeighboursExclude rests on.
IInv == ForkType /\ ForksHeld

\* right() wraps around at n.
LEMMA RightIs == \A p \in Philosophers : right(p) = IF p = N - 1 THEN 0 ELSE p + 1
<1> SUFFICES ASSUME NEW p \in Philosophers
             PROVE  right(p) = IF p = N - 1 THEN 0 ELSE p + 1
  OBVIOUS
<1>1. p \in Nat /\ p < N /\ N \in Nat /\ N > 0
  BY NAssumption DEF Philosophers
<1>2. CASE p = N - 1
  BY <1>1, <1>2 DEF right
<1>3. CASE p # N - 1
  BY <1>1, <1>3 DEF right
<1>4. QED  BY <1>2, <1>3

\* The right fork of a philosopher is a fork, is not its left one, and is the
\* right fork of nobody else.
LEMMA RightFork ==
    /\ \A p \in Philosophers : right(p) \in Philosophers /\ right(p) # left(p)
    /\ \A p, q \in Philosophers : right(p) = right(q) => p = q
BY RightIs, NAssumption DEF Philosophers, left

\* Every step of a philosopher keeps IInv.
LEMMA ForksStep == IInv /\ [Next]_vars => IInv'
<1> SUFFICES ASSUME IInv, [Next]_vars PROVE IInv'  OBVIOUS
<1> USE RightFork DEF IInv, ForkType, ForksHeld, HoldsLeft, HoldsRight, Step, Places
<1>l. \A q \in Philosophers : left(q) = q
  BY DEF left
<1>1. ASSUME NEW p \in Philosophers, Sit(p) PROVE IInv'
  BY <1>1 DEF Sit
<1>2. ASSUME NEW p \in Philosophers, GetRight(p) PROVE IInv'
  BY <1>l, <1>2 DEF GetRight, Zem_wait
<1>3. ASSUME NEW p \in Philosophers, GetLeft(p) PROVE IInv'
  BY <1>l, <1>3 DEF GetLeft, Zem_wait
<1>4. ASSUME NEW p \in Philosophers, PutRight(p) PROVE IInv'
  BY <1>l, <1>4 DEF PutRight, Zem_post
<1>5. ASSUME NEW p \in Philosophers, PutLeft(p) PROVE IInv'
  BY <1>l, <1>5 DEF PutLeft, Zem_post
<1>6. ASSUME NEW p \in Philosophers, Leave(p) PROVE IInv'
  BY <1>6 DEF Leave
<1>7. CASE UNCHANGED vars
  BY <1>7 DEF vars
<1>8. QED  BY <1>1, <1>2, <1>3, <1>4, <1>5, <1>6, <1>7 DEF Next, Philosopher

\* For every n >= 2 a fork is held by one philosopher at a time.
THEOREM ForksExclusive == Spec => []ForksHeld
<1>1. Init => IInv
  BY RightFork DEF Init, IInv, ForkType, ForksHeld, HoldsLeft, HoldsRight, Places
<1>2. IInv => ForksHeld
  BY DEF IInv
<1>3. QED  BY <1>1, <1>2, ForksStep, PTL DEF Spec

Eating == {p \in Philosophers : pc[p] = "eat"}

\* A step other than the last Zem_wait and the first Zem_post changes nobody's
\* eating.
LEMMA EatingStep ==
    ASSUME IInv, [Next]_vars
    PROVE  \/ UNCHANGED Eating
           \/ \E p \in Philosophers : GetLeft(p) \/ PutRight(p)
<1> USE DEF IInv, ForkType, Eating, Step
<1>1. ASSUME NEW p \in Philosophers, Sit(p) \/ GetRight(p) \/ PutLeft(p) \/ Leave(p)
      PROVE  UNCHANGED Eating
  BY <1>1 DEF Sit, GetRight, PutLeft, Leave
<1>2. CASE UNCHANGED vars
  BY <1>2 DEF vars
<1>3. QED  BY <1>1, <1>2 DEF Next, Philosopher

\* 3-dp.c implements the problem statement: the moment of the second Zem_wait is
\* the one at which a philosopher whose neighbours do not eat begins to.
THEOREM Solves == Spec => NeighboursExclude
<1>1. Init => Problem!Init
  BY DEF Init, Problem!Init
<1>2. ASSUME IInv, [Next]_vars
      PROVE  [\E p \in Problem!Philosophers : Problem!Eat(p) \/ Problem!Think(p)]_Eating
  <2>1. ASSUME NEW p \in Philosophers, GetLeft(p) PROVE Problem!Eat(p)
    <3>1. /\ pc[p] = "get_left" /\ forks[left(p)] > 0
          /\ pc' = [pc EXCEPT ![p] = "eat"]
      BY <2>1 DEF GetLeft, Step, Zem_wait
    <3>2. Eating' = Eating \cup {p} /\ p \notin Eating
      BY <1>2, <3>1 DEF Eating, IInv, ForkType
    <3>3. ASSUME NEW q \in Eating PROVE {left(p), right(p)} \cap {left(q), right(q)} = {}
      <4>1. q \in Philosophers /\ q # p /\ forks[left(q)] = 0 /\ forks[right(q)] = 0
        BY <1>2, <3>1 DEF Eating, IInv, ForksHeld, HoldsLeft, HoldsRight
      <4>2. left(p) \notin {left(q), right(q)}
        BY <3>1, <4>1
      <4>3. right(p) # left(q)
        BY <1>2, <3>1, <4>1 DEF Eating, IInv, ForksHeld, HoldsLeft, HoldsRight
      <4>4. right(p) # right(q)
        BY <4>1, RightFork
      <4>5. QED  BY <4>2, <4>3, <4>4
    <3>4. \A q \in Eating : Problem!Adjacent(p) \cap Problem!Adjacent(q) = {}
      BY <3>3 DEF Problem!Adjacent, left, right
    <3>5. QED  BY <3>2, <3>4 DEF Problem!Eat, Eating
  <2>2. ASSUME NEW p \in Philosophers, PutRight(p) PROVE Problem!Think(p)
    <3>1. pc[p] = "eat" /\ pc' = [pc EXCEPT ![p] = "put_left"]
      BY <2>2 DEF PutRight, Step
    <3>2. p \in Eating /\ Eating' = Eating \ {p}
      BY <1>2, <3>1 DEF Eating, IInv, ForkType
    <3>3. QED  BY <3>2 DEF Problem!Think, Eating
  <2>3. QED
    BY <1>2, <2>1, <2>2, EatingStep DEF Problem!Philosophers, Philosophers
<1>3. Spec => []IInv
  <2>1. Init => IInv
    BY RightFork DEF Init, IInv, ForkType, ForksHeld, HoldsLeft, HoldsRight, Places
  <2>2. QED  BY <2>1, ForksStep, PTL DEF Spec
<1>4. QED  BY <1>1, <1>2, <1>3, PTL DEF Spec, NeighboursExclude, Problem!Spec, Eating
=============================================================================
