----------------------------- MODULE ProcProofs -----------------------------
(***************************************************************************)
(* The safety of the process table, for any number of slots and CPUs.      *)
(* IInv is inductive; each lemma shows that every action preserves one     *)
(* part of it.                                                             *)
(***************************************************************************)
EXTENDS ProcInv, TLAPS

\* Every step of the process table keeps the types.
LEMMA TypeStep == IInv /\ [Next]_vars => TypeOK'
<1> SUFFICES ASSUME IInv, [Next]_vars PROVE TypeOK'  OBVIOUS
<1>h. TypeOK  BY DEF IInv
<1> USE ProcAssumption, <1>h DEF Holding, Saved, Spinning, States, TypeOK
<1>1. ASSUME NEW c \in CPUs, SwitchOut(c) PROVE TypeOK'
  BY <1>1 DEF SwitchOut, Goto
<1>2. ASSUME NEW c \in CPUs, NEW p \in Slots, scheduler(c, p) PROVE TypeOK'
  BY <1>2 DEF scheduler, Goto
<1>3. ASSUME NEW p \in Slots, yield(p) PROVE TypeOK'
  BY <1>3 DEF yield, sched, Goto
<1>4. ASSUME NEW p \in Slots, fork(p) PROVE TypeOK'
  <2>1. PICK q \in Slots :
           \/ allocproc(q) /\ np' = [np EXCEPT ![p] = q] /\ Goto(p, "set_parent")
           \/ AllocFails(q) /\ UNCHANGED <<np, pc>>
    BY <1>4 DEF fork
  <2>2. UNCHANGED <<ret, cpu, wait_lock>>
    BY <1>4 DEF fork
  <2>3. CASE AllocFails(q) /\ UNCHANGED <<np, pc>>
    BY <2>2, <2>3 DEF AllocFails, freeproc
  <2>4. CASE allocproc(q) /\ np' = [np EXCEPT ![p] = q] /\ Goto(p, "set_parent")
    BY <2>2, <2>4 DEF allocproc, Goto
  <2>5. QED  BY <2>1, <2>3, <2>4
<1>5. ASSUME NEW p \in Slots, exit(p) PROVE TypeOK'
  BY <1>5 DEF exit, At, Goto
<1>6. ASSUME NEW p \in Slots, wait(p) PROVE TypeOK'
  BY <1>6 DEF wait, InUser, At, Goto
<1>7. ASSUME NEW p \in Slots, acquire(p) PROVE TypeOK'
  BY <1>7 DEF acquire, Spin, Goto
<1>8. ASSUME NEW p \in Slots, ForkSetParent(p) PROVE TypeOK'
  BY Zenon, <1>8 DEF ForkSetParent, At, Goto
<1>9. ASSUME NEW p \in Slots, ForkSetRunnable(p) PROVE TypeOK'
  BY Zenon, <1>9 DEF ForkSetRunnable, At, Goto, Locked
<1>10. ASSUME NEW p \in Slots, ExitReparent(p) PROVE TypeOK'
  BY <1>10 DEF ExitReparent, At, Goto, acquired, Reparent
<1>11. ASSUME NEW p \in Slots, ExitWakeInit(p) PROVE TypeOK'
  BY <1>11 DEF ExitWakeInit, At, Goto, wakeup
<1>12. ASSUME NEW p \in Slots, ExitWakeParent(p) PROVE TypeOK'
  BY <1>12 DEF ExitWakeParent, At, Goto, wakeup
<1>13. ASSUME NEW p \in Slots, ExitZombie(p) PROVE TypeOK'
  BY <1>13 DEF ExitZombie, At, Goto, sched
<1>14. ASSUME NEW p \in Slots, WaitLock(p) PROVE TypeOK'
  BY <1>14 DEF WaitLock, At, Goto, acquired
<1>15. ASSUME NEW p \in Slots, WaitReap(p) PROVE TypeOK'
  <2>1. PICK q \in Slots : freeproc(q) \/ UNCHANGED <<state, parent, killed, chan>>
    BY <1>15 DEF WaitReap, Children
  <2>2. /\ wait_lock' = None /\ ret' = ret /\ np' = np /\ cpu' = cpu
        /\ pc' = [pc EXCEPT ![p] = "user"]
    BY <1>15 DEF WaitReap, Goto
  <2>3. CASE freeproc(q)
    BY <2>2, <2>3 DEF freeproc
  <2>4. CASE UNCHANGED <<state, parent, killed, chan>>
    BY <2>2, <2>4
  <2> QED BY <2>1, <2>3, <2>4
<1>16. ASSUME NEW p \in Slots, WaitNone(p) PROVE TypeOK'
  BY <1>16 DEF WaitNone, At, Goto, Children
<1>17. ASSUME NEW p \in Slots, sleep(p) PROVE TypeOK'
  BY <1>17 DEF sleep, At, Goto, sched
<1>18. ASSUME NEW p \in Slots, NEW q \in Slots, kill(p, q) PROVE TypeOK'
  BY <1>18 DEF kill, InUser, At, Locked
<1>19. CASE UNCHANGED vars
  BY <1>19 DEF vars
<1>20. QED
  BY <1>1, <1>2, <1>3, <1>4, <1>5, <1>6, <1>7, <1>8, <1>9, <1>10,
     <1>11, <1>12, <1>13, <1>14, <1>15, <1>16, <1>17, <1>18, <1>19
  DEF Next, Thread

\* A process is picked only when its last switch is complete, so no two CPUs
\* get the same one: p->lock is held from the state change to the swtch.
LEMMA CpuStep == IInv /\ [Next]_vars => CpuInv'
<1> SUFFICES ASSUME IInv, [Next]_vars PROVE CpuInv'  OBVIOUS
<1>h. TypeOK /\ CpuInv /\ InitInv /\ ForkInv  BY DEF IInv
<1> USE ProcAssumption, <1>h DEF CpuInv, ForkInv, Forking, Holding, InFork, InitInv, Locked,
        Saved, Spinning, States, TypeOK
<1>1. ASSUME NEW c \in CPUs, SwitchOut(c) PROVE CpuInv'
  BY <1>1 DEF SwitchOut, Goto
<1>2. ASSUME NEW c \in CPUs, NEW p \in Slots, scheduler(c, p) PROVE CpuInv'
  BY <1>2 DEF scheduler, Goto
<1>3. ASSUME NEW p \in Slots, yield(p) PROVE CpuInv'
  BY <1>3 DEF yield, sched, Goto
<1>4. ASSUME NEW p \in Slots, fork(p) PROVE CpuInv'
  BY SMTT(60), <1>4 DEF fork, InUser, At, Unused, allocproc, AllocFails, freeproc, Goto
<1>5. ASSUME NEW p \in Slots, exit(p) PROVE CpuInv'
  BY <1>5 DEF exit, At, Goto
<1>6. ASSUME NEW p \in Slots, wait(p) PROVE CpuInv'
  BY <1>6 DEF wait, InUser, At, Goto
<1>7. ASSUME NEW p \in Slots, acquire(p) PROVE CpuInv'
  BY <1>7 DEF acquire, Spin, Goto
<1>8. ASSUME NEW p \in Slots, ForkSetParent(p) PROVE CpuInv'
  BY <1>8 DEF ForkSetParent, At, Goto
<1>9. ASSUME NEW p \in Slots, ForkSetRunnable(p) PROVE CpuInv'
  BY <1>9 DEF ForkSetRunnable, At, Goto
<1>10. ASSUME NEW p \in Slots, ExitReparent(p) PROVE CpuInv'
  BY <1>10 DEF ExitReparent, At, Goto, acquired, Reparent
<1>11. ASSUME NEW p \in Slots, ExitWakeInit(p) PROVE CpuInv'
  BY <1>11 DEF ExitWakeInit, At, Goto, wakeup
<1>12. ASSUME NEW p \in Slots, ExitWakeParent(p) PROVE CpuInv'
  BY <1>12 DEF ExitWakeParent, At, Goto, wakeup
<1>13. ASSUME NEW p \in Slots, ExitZombie(p) PROVE CpuInv'
  BY <1>13 DEF ExitZombie, At, Goto, sched
<1>14. ASSUME NEW p \in Slots, WaitLock(p) PROVE CpuInv'
  BY <1>14 DEF WaitLock, At, Goto, acquired
<1>15. ASSUME NEW p \in Slots, WaitReap(p) PROVE CpuInv'
  BY <1>15 DEF WaitReap, At, Goto, freeproc, Children
<1>16. ASSUME NEW p \in Slots, WaitNone(p) PROVE CpuInv'
  BY <1>16 DEF WaitNone, At, Goto, Children
<1>17. ASSUME NEW p \in Slots, sleep(p) PROVE CpuInv'
  BY <1>17 DEF sleep, At, Goto, sched
<1>18. ASSUME NEW p \in Slots, NEW q \in Slots, kill(p, q) PROVE CpuInv'
  BY <1>18 DEF kill, InUser, At
<1>19. CASE UNCHANGED vars
  BY <1>19 DEF vars
<1>20. QED
  BY Zenon, <1>1, <1>2, <1>3, <1>4, <1>5, <1>6, <1>7, <1>8, <1>9, <1>10,
     <1>11, <1>12, <1>13, <1>14, <1>15, <1>16, <1>17, <1>18, <1>19
  DEF Next, Thread

\* wait_lock is acquired and released by the section that the pc says.
LEMMA LockStep == IInv /\ [Next]_vars => LockInv'
<1> SUFFICES ASSUME IInv, [Next]_vars PROVE LockInv'  OBVIOUS
<1>h. TypeOK /\ CpuInv /\ LockInv  BY DEF IInv
<1> USE ProcAssumption, <1>h DEF CpuInv, Holding, LockInv, Saved, Spinning, States, TypeOK
<1>1. ASSUME NEW c \in CPUs, SwitchOut(c) PROVE LockInv'
  BY <1>1 DEF SwitchOut, Goto
<1>2. ASSUME NEW c \in CPUs, NEW p \in Slots, scheduler(c, p) PROVE LockInv'
  BY <1>2 DEF scheduler, Goto
<1>3. ASSUME NEW p \in Slots, yield(p) PROVE LockInv'
  BY <1>3 DEF yield, sched, Goto
<1>4. ASSUME NEW p \in Slots, fork(p) PROVE LockInv'
  BY <1>4 DEF fork, InUser, At, Unused, allocproc, AllocFails, freeproc, Goto
<1>5. ASSUME NEW p \in Slots, exit(p) PROVE LockInv'
  BY <1>5 DEF exit, At, Goto
<1>6. ASSUME NEW p \in Slots, wait(p) PROVE LockInv'
  BY <1>6 DEF wait, InUser, At, Goto
<1>7. ASSUME NEW p \in Slots, acquire(p) PROVE LockInv'
  BY <1>7 DEF acquire, Spin, Goto
<1>8. ASSUME NEW p \in Slots, ForkSetParent(p) PROVE LockInv'
  BY <1>8 DEF ForkSetParent, At, Goto
<1>9. ASSUME NEW p \in Slots, ForkSetRunnable(p) PROVE LockInv'
  BY <1>9 DEF ForkSetRunnable, At, Goto, Locked
<1>10. ASSUME NEW p \in Slots, ExitReparent(p) PROVE LockInv'
  BY <1>10 DEF ExitReparent, At, Goto, acquired, Reparent
<1>11. ASSUME NEW p \in Slots, ExitWakeInit(p) PROVE LockInv'
  BY <1>11 DEF ExitWakeInit, At, Goto, wakeup
<1>12. ASSUME NEW p \in Slots, ExitWakeParent(p) PROVE LockInv'
  BY <1>12 DEF ExitWakeParent, At, Goto, wakeup
<1>13. ASSUME NEW p \in Slots, ExitZombie(p) PROVE LockInv'
  BY <1>13 DEF ExitZombie, At, Goto, sched
<1>14. ASSUME NEW p \in Slots, WaitLock(p) PROVE LockInv'
  BY <1>14 DEF WaitLock, At, Goto, acquired
<1>15. ASSUME NEW p \in Slots, WaitReap(p) PROVE LockInv'
  BY <1>15 DEF WaitReap, At, Goto, freeproc, Children, Locked
<1>16. ASSUME NEW p \in Slots, WaitNone(p) PROVE LockInv'
  BY <1>16 DEF WaitNone, At, Goto, Children
<1>17. ASSUME NEW p \in Slots, sleep(p) PROVE LockInv'
  BY <1>17 DEF sleep, At, Goto, sched
<1>18. ASSUME NEW p \in Slots, NEW q \in Slots, kill(p, q) PROVE LockInv'
  BY <1>18 DEF kill, InUser, At, Locked
<1>19. CASE UNCHANGED vars
  BY <1>19 DEF vars
<1>20. QED
  BY <1>1, <1>2, <1>3, <1>4, <1>5, <1>6, <1>7, <1>8, <1>9, <1>10,
     <1>11, <1>12, <1>13, <1>14, <1>15, <1>16, <1>17, <1>18, <1>19
  DEF Next, Thread

\* init stays alive and nobody becomes its parent.
LEMMA InitStep == IInv /\ [Next]_vars => InitInv'
<1> SUFFICES ASSUME IInv, [Next]_vars PROVE InitInv'  OBVIOUS
<1>h. TypeOK /\ CpuInv /\ InitInv /\ ForkInv  BY DEF IInv
<1> USE ProcAssumption, <1>h DEF CpuInv, Dying, ForkInv, Forking, Holding, InFork, InitInv,
        Saved, Spinning, States, TypeOK
<1>1. ASSUME NEW c \in CPUs, SwitchOut(c) PROVE InitInv'
  BY <1>1 DEF SwitchOut, Goto
<1>2. ASSUME NEW c \in CPUs, NEW p \in Slots, scheduler(c, p) PROVE InitInv'
  BY <1>2 DEF scheduler, Goto
<1>3. ASSUME NEW p \in Slots, yield(p) PROVE InitInv'
  BY <1>3 DEF yield, sched, Goto
<1>4. ASSUME NEW p \in Slots, fork(p) PROVE InitInv'
  BY <1>4 DEF fork, InUser, At, Unused, allocproc, AllocFails, freeproc, Goto
<1>5. ASSUME NEW p \in Slots, exit(p) PROVE InitInv'
  BY <1>5 DEF exit, At, Goto
<1>6. ASSUME NEW p \in Slots, wait(p) PROVE InitInv'
  BY <1>6 DEF wait, InUser, At, Goto
<1>7. ASSUME NEW p \in Slots, acquire(p) PROVE InitInv'
  BY <1>7 DEF acquire, Spin, Goto
<1>8. ASSUME NEW p \in Slots, ForkSetParent(p) PROVE InitInv'
  BY <1>8 DEF ForkSetParent, At, Goto
<1>9. ASSUME NEW p \in Slots, ForkSetRunnable(p) PROVE InitInv'
  BY <1>9 DEF ForkSetRunnable, At, Goto, Locked
<1>10. ASSUME NEW p \in Slots, ExitReparent(p) PROVE InitInv'
  BY <1>10 DEF ExitReparent, At, Goto, acquired, Reparent
<1>11. ASSUME NEW p \in Slots, ExitWakeInit(p) PROVE InitInv'
  BY <1>11 DEF ExitWakeInit, At, Goto, wakeup
<1>12. ASSUME NEW p \in Slots, ExitWakeParent(p) PROVE InitInv'
  BY <1>12 DEF ExitWakeParent, At, Goto, wakeup
<1>13. ASSUME NEW p \in Slots, ExitZombie(p) PROVE InitInv'
  BY <1>13 DEF ExitZombie, At, Goto, sched
<1>14. ASSUME NEW p \in Slots, WaitLock(p) PROVE InitInv'
  BY <1>14 DEF WaitLock, At, Goto, acquired
<1>15. ASSUME NEW p \in Slots, WaitReap(p) PROVE InitInv'
  BY <1>15 DEF WaitReap, At, Goto, freeproc, Children, Locked
<1>16. ASSUME NEW p \in Slots, WaitNone(p) PROVE InitInv'
  BY <1>16 DEF WaitNone, At, Goto, Children
<1>17. ASSUME NEW p \in Slots, sleep(p) PROVE InitInv'
  BY <1>17 DEF sleep, At, Goto, sched
<1>18. ASSUME NEW p \in Slots, NEW q \in Slots, kill(p, q) PROVE InitInv'
  BY <1>18 DEF kill, InUser, At, Locked
<1>19. CASE UNCHANGED vars
  BY <1>19 DEF vars
<1>20. QED
  BY Zenon, <1>1, <1>2, <1>3, <1>4, <1>5, <1>6, <1>7, <1>8, <1>9, <1>10,
     <1>11, <1>12, <1>13, <1>14, <1>15, <1>16, <1>17, <1>18, <1>19
  DEF Next, Thread

\* Nobody else takes, kills off or reparents the slot that fork sets up.
LEMMA ForkStep == IInv /\ [Next]_vars => ForkInv'
<1> SUFFICES ASSUME IInv, [Next]_vars PROVE ForkInv'  OBVIOUS
<1>h. TypeOK /\ CpuInv /\ InitInv /\ ForkInv  BY DEF IInv
<1> USE ProcAssumption, <1>h DEF CpuInv, ForkInv, Forking, Holding, InFork, InitInv, Saved,
        Spinning, States, TypeOK
<1>1. ASSUME NEW c \in CPUs, SwitchOut(c) PROVE ForkInv'
  BY <1>1 DEF SwitchOut, Goto
<1>2. ASSUME NEW c \in CPUs, NEW p \in Slots, scheduler(c, p) PROVE ForkInv'
  BY <1>2 DEF scheduler, Goto
<1>3. ASSUME NEW p \in Slots, yield(p) PROVE ForkInv'
  BY <1>3 DEF yield, sched, Goto
<1>4. ASSUME NEW p \in Slots, fork(p) PROVE ForkInv'
  BY <1>4 DEF fork, InUser, At, Unused, allocproc, AllocFails, freeproc, Goto
<1>5. ASSUME NEW p \in Slots, exit(p) PROVE ForkInv'
  BY <1>5 DEF exit, At, Goto
<1>6. ASSUME NEW p \in Slots, wait(p) PROVE ForkInv'
  BY <1>6 DEF wait, InUser, At, Goto
<1>7. ASSUME NEW p \in Slots, acquire(p) PROVE ForkInv'
  BY <1>7 DEF acquire, Spin, Goto
<1>8. ASSUME NEW p \in Slots, ForkSetParent(p) PROVE ForkInv'
  BY <1>8 DEF ForkSetParent, At, Goto
<1>9. ASSUME NEW p \in Slots, ForkSetRunnable(p) PROVE ForkInv'
  BY <1>9 DEF ForkSetRunnable, At, Goto, Locked
<1>10. ASSUME NEW p \in Slots, ExitReparent(p) PROVE ForkInv'
  BY <1>10 DEF ExitReparent, At, Goto, acquired, Reparent
<1>11. ASSUME NEW p \in Slots, ExitWakeInit(p) PROVE ForkInv'
  BY <1>11 DEF ExitWakeInit, At, Goto, wakeup
<1>12. ASSUME NEW p \in Slots, ExitWakeParent(p) PROVE ForkInv'
  BY <1>12 DEF ExitWakeParent, At, Goto, wakeup
<1>13. ASSUME NEW p \in Slots, ExitZombie(p) PROVE ForkInv'
  BY <1>13 DEF ExitZombie, At, Goto, sched
<1>14. ASSUME NEW p \in Slots, WaitLock(p) PROVE ForkInv'
  BY <1>14 DEF WaitLock, At, Goto, acquired
<1>15. ASSUME NEW p \in Slots, WaitReap(p) PROVE ForkInv'
  BY <1>15 DEF WaitReap, At, Goto, freeproc, Children, Locked
<1>16. ASSUME NEW p \in Slots, WaitNone(p) PROVE ForkInv'
  BY <1>16 DEF WaitNone, At, Goto, Children
<1>17. ASSUME NEW p \in Slots, sleep(p) PROVE ForkInv'
  BY <1>17 DEF sleep, At, Goto, sched
<1>18. ASSUME NEW p \in Slots, NEW q \in Slots, kill(p, q) PROVE ForkInv'
  BY <1>18 DEF kill, InUser, At, Locked
<1>19. CASE UNCHANGED vars
  BY <1>19 DEF vars
<1>20. QED
  BY Zenon, <1>1, <1>2, <1>3, <1>4, <1>5, <1>6, <1>7, <1>8, <1>9, <1>10,
     <1>11, <1>12, <1>13, <1>14, <1>15, <1>16, <1>17, <1>18, <1>19
  DEF Next, Thread

\* reparent leaves no child to a process that exits.
LEMMA ParentStep == IInv /\ [Next]_vars => ParentInv'
<1> SUFFICES ASSUME IInv, [Next]_vars PROVE ParentInv'  OBVIOUS
<1>h. TypeOK /\ CpuInv /\ LockInv /\ InitInv /\ ForkInv /\ ParentInv  BY DEF IInv
<1> USE ProcAssumption, <1>h DEF CpuInv, Dying, ForkInv, Forking, Holding, InFork, InitInv,
        LockInv, Locked, ParentInv, Saved, Spinning, States, TypeOK
<1>1. ASSUME NEW c \in CPUs, SwitchOut(c) PROVE ParentInv'
  BY <1>1 DEF SwitchOut, Goto
<1>2. ASSUME NEW c \in CPUs, NEW p \in Slots, scheduler(c, p) PROVE ParentInv'
  BY <1>2 DEF scheduler, Goto
<1>3. ASSUME NEW p \in Slots, yield(p) PROVE ParentInv'
  BY <1>3 DEF yield, sched, Goto
<1>4. ASSUME NEW p \in Slots, fork(p) PROVE ParentInv'
  BY SMTT(60), <1>4 DEF fork, InUser, At, Unused, allocproc, AllocFails, freeproc, Goto
<1>5. ASSUME NEW p \in Slots, exit(p) PROVE ParentInv'
  BY <1>5 DEF exit, At, Goto
<1>6. ASSUME NEW p \in Slots, wait(p) PROVE ParentInv'
  BY <1>6 DEF wait, InUser, At, Goto
<1>7. ASSUME NEW p \in Slots, acquire(p) PROVE ParentInv'
  BY <1>7 DEF acquire, Spin, Goto
<1>8. ASSUME NEW p \in Slots, ForkSetParent(p) PROVE ParentInv'
  BY <1>8 DEF ForkSetParent, At, Goto
<1>9. ASSUME NEW p \in Slots, ForkSetRunnable(p) PROVE ParentInv'
  BY <1>9 DEF ForkSetRunnable, At, Goto
<1>10. ASSUME NEW p \in Slots, ExitReparent(p) PROVE ParentInv'
  BY <1>10 DEF ExitReparent, At, Goto, acquired, Reparent
<1>11. ASSUME NEW p \in Slots, ExitWakeInit(p) PROVE ParentInv'
  BY <1>11 DEF ExitWakeInit, At, Goto, wakeup
<1>12. ASSUME NEW p \in Slots, ExitWakeParent(p) PROVE ParentInv'
  BY <1>12 DEF ExitWakeParent, At, Goto, wakeup
<1>13. ASSUME NEW p \in Slots, ExitZombie(p) PROVE ParentInv'
  BY <1>13 DEF ExitZombie, At, Goto, sched
<1>14. ASSUME NEW p \in Slots, WaitLock(p) PROVE ParentInv'
  BY <1>14 DEF WaitLock, At, Goto, acquired
<1>15. ASSUME NEW p \in Slots, WaitReap(p) PROVE ParentInv'
  BY SMTT(60), <1>15 DEF WaitReap, At, Goto, freeproc, Children
<1>16. ASSUME NEW p \in Slots, WaitNone(p) PROVE ParentInv'
  BY <1>16 DEF WaitNone, At, Goto, Children
<1>17. ASSUME NEW p \in Slots, sleep(p) PROVE ParentInv'
  BY <1>17 DEF sleep, At, Goto, sched
<1>18. ASSUME NEW p \in Slots, NEW q \in Slots, kill(p, q) PROVE ParentInv'
  BY <1>18 DEF kill, InUser, At
<1>19. CASE UNCHANGED vars
  BY <1>19 DEF vars
<1>20. QED
  BY Zenon, <1>1, <1>2, <1>3, <1>4, <1>5, <1>6, <1>7, <1>8, <1>9, <1>10,
     <1>11, <1>12, <1>13, <1>14, <1>15, <1>16, <1>17, <1>18, <1>19
  DEF Next, Thread

\* A parent does not fall asleep on, or stay asleep beside, a zombie child.
LEMMA WaitStep == IInv /\ [Next]_vars => WaitInv'
<1> SUFFICES ASSUME IInv, [Next]_vars PROVE WaitInv'  OBVIOUS
<1>h. TypeOK /\ CpuInv /\ LockInv /\ InitInv /\ ForkInv /\ ParentInv /\ WaitInv  BY DEF IInv
<1> USE ProcAssumption, <1>h DEF CpuInv, Dying, ForkInv, Forking, Holding, InFork, InitInv,
        LockInv, Locked, ParentInv, Saved, Spinning, States, TypeOK,
        WaitInv
<1>1. ASSUME NEW c \in CPUs, SwitchOut(c) PROVE WaitInv'
  BY <1>1 DEF SwitchOut, Goto
<1>2. ASSUME NEW c \in CPUs, NEW p \in Slots, scheduler(c, p) PROVE WaitInv'
  BY SMTT(60), <1>2 DEF scheduler, Goto
<1>3. ASSUME NEW p \in Slots, yield(p) PROVE WaitInv'
  BY <1>3 DEF yield, sched, Goto
<1>4. ASSUME NEW p \in Slots, fork(p) PROVE WaitInv'
  BY SMTT(60), <1>4 DEF fork, InUser, At, Unused, allocproc, AllocFails, freeproc, Goto
<1>5. ASSUME NEW p \in Slots, exit(p) PROVE WaitInv'
  BY <1>5 DEF exit, At, Goto
<1>6. ASSUME NEW p \in Slots, wait(p) PROVE WaitInv'
  BY <1>6 DEF wait, InUser, At, Goto
<1>7. ASSUME NEW p \in Slots, acquire(p) PROVE WaitInv'
  BY <1>7 DEF acquire, Spin, Goto
<1>8. ASSUME NEW p \in Slots, ForkSetParent(p) PROVE WaitInv'
  BY <1>8 DEF ForkSetParent, At, Goto
<1>9. ASSUME NEW p \in Slots, ForkSetRunnable(p) PROVE WaitInv'
  BY <1>9 DEF ForkSetRunnable, At, Goto
<1>10. ASSUME NEW p \in Slots, ExitReparent(p) PROVE WaitInv'
  BY <1>10 DEF ExitReparent, At, Goto, acquired, Reparent
<1>11. ASSUME NEW p \in Slots, ExitWakeInit(p) PROVE WaitInv'
  BY <1>11 DEF ExitWakeInit, At, Goto, wakeup
<1>12. ASSUME NEW p \in Slots, ExitWakeParent(p) PROVE WaitInv'
  BY <1>12 DEF ExitWakeParent, At, Goto, wakeup
<1>13. ASSUME NEW p \in Slots, ExitZombie(p) PROVE WaitInv'
  BY <1>13 DEF ExitZombie, At, Goto, sched
<1>14. ASSUME NEW p \in Slots, WaitLock(p) PROVE WaitInv'
  BY <1>14 DEF WaitLock, At, Goto, acquired
<1>15. ASSUME NEW p \in Slots, WaitReap(p) PROVE WaitInv'
  BY <1>15 DEF WaitReap, At, Goto, freeproc, Children
<1>16. ASSUME NEW p \in Slots, WaitNone(p) PROVE WaitInv'
  BY <1>16 DEF WaitNone, At, Goto, Children
<1>17. ASSUME NEW p \in Slots, sleep(p) PROVE WaitInv'
  BY <1>17 DEF sleep, At, Goto, sched
<1>18. ASSUME NEW p \in Slots, NEW q \in Slots, kill(p, q) PROVE WaitInv'
  BY <1>18 DEF kill, InUser, At
<1>19. CASE UNCHANGED vars
  BY <1>19 DEF vars
<1>20. QED
  BY Zenon, <1>1, <1>2, <1>3, <1>4, <1>5, <1>6, <1>7, <1>8, <1>9, <1>10,
     <1>11, <1>12, <1>13, <1>14, <1>15, <1>16, <1>17, <1>18, <1>19
  DEF Next, Thread

\* The inductive invariant holds of the process table.
THEOREM Invariance == Spec => []IInv
<1>1. Init => IInv
  BY ProcAssumption
  DEF Init, IInv, TypeOK, CpuInv, LockInv, InitInv, ForkInv, ParentInv, WaitInv,
      InFork, Forking, Dying, States, Saved, Spinning, Holding
<1>2. IInv /\ [Next]_vars => IInv'
  BY TypeStep, CpuStep, LockStep, InitStep, ForkStep, ParentStep, WaitStep DEF IInv
<1>3. QED  BY <1>1, <1>2, PTL DEF Spec

\* The table, the CPUs and wait_lock keep their types.
THEOREM TypeCorrect == Spec => []TypeOK
<1>1. IInv => TypeOK
  BY DEF IInv
<1>2. QED  BY <1>1, Invariance, PTL

\* No two CPUs run on one kernel stack, and none on a freed one.
THEOREM StacksSafe == Spec => []StackSafe
<1>1. IInv => StackSafe
  BY ProcAssumption DEF IInv, StackSafe, TypeOK, CpuInv
<1>2. QED  BY <1>1, Invariance, PTL

\* sched() is never entered with wait_lock held: its panic is unreachable.
THEOREM NoSchedPanic == Spec => []SchedLocks
<1>1. IInv => SchedLocks
  BY ProcAssumption DEF IInv, SchedLocks, TypeOK, CpuInv, LockInv, Holding
<1>2. QED  BY <1>1, Invariance, PTL

\* wait() misses no exit(): a parent asleep in wait has no zombie child once
\* wait_lock is free.
THEOREM NoExitMissed == Spec => []NoMissedExit
<1>1. IInv => NoMissedExit
  BY ProcAssumption DEF IInv, NoMissedExit, TypeOK, LockInv, WaitInv, Holding
<1>2. QED  BY <1>1, Invariance, PTL

\* Every process has a parent that can still reap it.
THEOREM EveryParentAlive == Spec => []ParentsAlive
<1>1. IInv => ParentsAlive
  BY ProcAssumption DEF IInv, ParentsAlive, TypeOK, ParentInv
<1>2. QED  BY <1>1, Invariance, PTL
=============================================================================
