--------------------------- MODULE ZemaphoreProofs ---------------------------
(***************************************************************************)
(* zemaphore.h loses no signal and implements a counting semaphore, for    *)
(* any number of threads and any value.                                    *)
(***************************************************************************)
EXTENDS Zemaphore, FiniteSetTheorems, TLAPS

\* What the two theorems rest on.
IInv == TypeOK /\ NoLostSignal

\* value stays in 0..MaxValue and a thread is asleep or woken, never both.
LEMMA TypeStep == TypeOK /\ [Next]_vars => TypeOK'
<1> SUFFICES ASSUME TypeOK, [Next]_vars PROVE TypeOK'  OBVIOUS
<1> USE ZemAssumption DEF TypeOK
<1>1. ASSUME NEW t \in Threads, Zem_wait(t) PROVE TypeOK'
  BY <1>1 DEF Zem_wait, Idle, TestValue
<1>2. ASSUME NEW t \in Threads, Cond_return(t) PROVE TypeOK'
  BY <1>2 DEF Cond_return, TestValue
<1>3. ASSUME NEW t \in Threads, Zem_post(t) PROVE TypeOK'
  BY <1>3 DEF Zem_post, Cond_signal
<1>4. ASSUME NEW t \in Threads, Spurious(t) PROVE TypeOK'
  BY <1>4 DEF Spurious
<1>5. CASE UNCHANGED vars
  BY <1>5 DEF vars
<1>6. QED  BY <1>1, <1>2, <1>3, <1>4, <1>5 DEF Next

\* Adding a sleeping thread to the woken ones adds one to their number, and
\* taking one out removes one.
LEMMA WokenCount ==
    ASSUME TypeOK
    PROVE  /\ Cardinality(woken) \in Nat
           /\ \A t \in asleep : Cardinality(woken \cup {t}) = Cardinality(woken) + 1
           /\ \A t \in woken : Cardinality(woken \ {t}) = Cardinality(woken) - 1
<1>1. IsFiniteSet(woken)
  BY ZemAssumption, FS_Subset DEF TypeOK
<1>2. Cardinality(woken) \in Nat
  BY <1>1, FS_CardinalityType
<1>3. ASSUME NEW t \in asleep PROVE Cardinality(woken \cup {t}) = Cardinality(woken) + 1
  <2>1. t \notin woken
    BY DEF TypeOK
  <2>2. QED  BY <1>1, <2>1, FS_AddElement
<1>4. ASSUME NEW t \in woken PROVE Cardinality(woken \ {t}) = Cardinality(woken) - 1
  BY <1>1, FS_RemoveElement
<1>5. QED  BY <1>2, <1>3, <1>4

\* A step of zemaphore.h preserves NoLostSignal.
LEMMA SignalStep == IInv /\ [Next]_vars => NoLostSignal'
<1> SUFFICES ASSUME IInv, [Next]_vars PROVE NoLostSignal'  OBVIOUS
<1>h. TypeOK /\ NoLostSignal
  BY DEF IInv
<1>c. /\ Cardinality(woken) \in Nat
      /\ \A t \in asleep : Cardinality(woken \cup {t}) = Cardinality(woken) + 1
      /\ \A t \in woken : Cardinality(woken \ {t}) = Cardinality(woken) - 1
  BY <1>h, WokenCount
<1>v. value \in Nat
  BY <1>h, ZemAssumption DEF TypeOK
<1>1. ASSUME NEW t \in Threads, Zem_wait(t) PROVE NoLostSignal'
  BY <1>1, <1>h, <1>c, <1>v DEF Zem_wait, TestValue, NoLostSignal
<1>2. ASSUME NEW t \in Threads, Cond_return(t) PROVE NoLostSignal'
  <2>1. /\ t \in woken
        /\ Cardinality(woken') = Cardinality(woken) - 1
    BY <1>2, <1>c DEF Cond_return
  <2>2. Cardinality(woken') \in Nat
    <3>1. IsFiniteSet(woken) /\ woken' = woken \ {t}
      BY <1>h, <1>2, ZemAssumption, FS_Subset DEF TypeOK, Cond_return
    <3>2. QED  BY <3>1, FS_RemoveElement, FS_CardinalityType
  <2>3. CASE value <= 0
    BY <1>2, <1>v, <2>2, <2>3 DEF Cond_return, TestValue, NoLostSignal
  <2>4. CASE value > 0
    BY <1>2, <1>h, <1>c, <1>v, <2>1, <2>4 DEF Cond_return, TestValue, NoLostSignal
  <2>5. QED  BY <1>v, <2>3, <2>4
<1>3. ASSUME NEW t \in Threads, Zem_post(t) PROVE NoLostSignal'
  <2>1. CASE asleep = {}
    BY <1>3, <2>1 DEF Zem_post, Cond_signal, NoLostSignal
  <2>2. CASE asleep # {}
    <3>1. PICK s \in asleep : woken' = woken \cup {s}
      BY <1>3, <2>2 DEF Zem_post, Cond_signal
    <3>2. Cardinality(woken') = Cardinality(woken) + 1
      BY <1>c, <3>1
    <3>3. QED  BY <1>3, <1>h, <1>c, <1>v, <2>2, <3>2 DEF Zem_post, NoLostSignal
  <2>3. QED  BY <2>1, <2>2
<1>4. ASSUME NEW t \in Threads, Spurious(t) PROVE NoLostSignal'
  <2>1. t \in asleep /\ Cardinality(woken') = Cardinality(woken) + 1
    BY <1>4, <1>c DEF Spurious
  <2>2. QED  BY <1>4, <1>h, <1>c, <1>v, <2>1 DEF Spurious, NoLostSignal
<1>5. CASE UNCHANGED vars
  BY <1>5, <1>h DEF vars, NoLostSignal
<1>6. QED  BY <1>1, <1>2, <1>3, <1>4, <1>5 DEF Next

\* zemaphore.h loses no signal: while threads sleep in Zem_wait, every unit that
\* Zem_post added has a woken thread on its way to it.
THEOREM NoLostWakeup == Spec => [](TypeOK /\ NoLostSignal)
<1>1. Zem_init => IInv
  BY ZemAssumption DEF Zem_init, IInv, TypeOK, NoLostSignal
<1>2. IInv /\ [Next]_vars => IInv'
  BY TypeStep, SignalStep DEF IInv
<1>3. QED  BY <1>1, <1>2, PTL DEF Spec, IInv

\* Every behaviour of zemaphore.h is one of the abstract semaphore: a Zem_wait
\* returns only by taking a unit, however Cond_wait wakes threads up.
THEOREM Refinement == Spec => Implements
<1>1. Zem_init => Abstract!Init
  BY DEF Zem_init, Abstract!Init
<1>2. ASSUME TypeOK, [Next]_vars
      PROVE  [Abstract!Next]_<<value, asleep \cup woken>>
  <2> USE ZemAssumption DEF TypeOK, Abstract!Next
  <2>v. value \in Nat /\ (value <= 0 <=> ~(value > 0))
    BY <1>2
  <2>1. ASSUME NEW t \in Threads, Zem_wait(t) PROVE Abstract!Request(t) \/ Abstract!Pass(t)
    <3>1. t \notin asleep \cup woken /\ woken' = woken
      BY <2>1 DEF Zem_wait, Idle
    <3>2. CASE value <= 0
      <4>1. asleep' = asleep \cup {t} /\ value' = value
        BY <2>1, <3>2 DEF Zem_wait, TestValue
      <4>2. QED  BY <3>1, <4>1 DEF Abstract!Request
    <3>3. CASE value > 0
      <4>1. asleep' = asleep /\ value' = value - 1
        BY <2>1, <2>v, <3>3 DEF Zem_wait, TestValue
      <4>2. QED  BY <3>1, <3>3, <4>1 DEF Abstract!Pass
    <3>4. QED  BY <2>v, <3>2, <3>3
  <2>2. ASSUME NEW t \in Threads, Cond_return(t)
        PROVE  Abstract!Return(t) \/ UNCHANGED <<value, asleep \cup woken>>
    <3>1. t \in woken /\ t \notin asleep /\ woken' = woken \ {t}
      BY <1>2, <2>2 DEF Cond_return
    <3>2. CASE value <= 0
      <4>1. asleep' = asleep \cup {t} /\ value' = value
        BY <2>2, <3>2 DEF Cond_return, TestValue
      <4>2. (asleep \cup woken)' = asleep \cup woken
        BY <3>1, <4>1
      <4>3. QED  BY <4>1, <4>2
    <3>3. CASE value > 0
      <4>1. asleep' = asleep /\ value' = value - 1
        BY <2>2, <2>v, <3>3 DEF Cond_return, TestValue
      <4>2. (asleep \cup woken)' = (asleep \cup woken) \ {t}
        BY <3>1, <4>1
      <4>3. QED  BY <3>1, <3>3, <4>1, <4>2 DEF Abstract!Return
    <3>4. QED  BY <2>v, <3>2, <3>3
  <2>3. ASSUME NEW t \in Threads, Zem_post(t) PROVE Abstract!Post(t)
    BY <2>3 DEF Zem_post, Idle, Cond_signal, Abstract!Post
  <2>4. ASSUME NEW t \in Threads, Spurious(t) PROVE UNCHANGED <<value, asleep \cup woken>>
    BY <2>4 DEF Spurious
  <2>5. CASE UNCHANGED vars
    BY <2>5 DEF vars
  <2>6. QED  BY <1>2, <2>1, <2>2, <2>3, <2>4, <2>5 DEF Next
<1>3. Spec => []TypeOK
  BY NoLostWakeup, PTL
<1>4. QED  BY <1>1, <1>2, <1>3, PTL DEF Spec, Implements, Abstract!Spec
=============================================================================
