----------------------------- MODULE AtomicDisk -----------------------------
(***************************************************************************)
(* What kernel/log.c promises the file-system code: system calls bracket   *)
(* their block updates with begin_op()/end_op(); the disk a crash leaves   *)
(* behind always holds the effect of whole system calls.  `durable' is     *)
(* the disk a reboot would see, `current' what running code reads through  *)
(* the buffer cache, `active' the system calls between begin_op and end_op.*)
(***************************************************************************)
CONSTANTS Procs, Blocks, Val

VARIABLES durable, current, active

vars == <<durable, current, active>>

Init ==
    /\ durable \in [Blocks -> Val]
    /\ current = durable
    /\ active = {}

Begin(p) ==
    /\ p \notin active
    /\ active' = active \cup {p}
    /\ UNCHANGED <<durable, current>>

Write(p, b, v) ==
    /\ p \in active
    /\ current' = [current EXCEPT ![b] = v]
    /\ UNCHANGED <<durable, active>>

End(p) ==
    /\ p \in active
    /\ active' = active \ {p}
    /\ UNCHANGED <<durable, current>>

\* Group commit: only between system calls, and of everything they wrote.
Commit ==
    /\ active = {}
    /\ durable' = current
    /\ UNCHANGED <<current, active>>

Crash ==
    /\ current' = durable
    /\ active' = {}
    /\ UNCHANGED durable

Next ==
    \/ \E p \in Procs : Begin(p) \/ End(p)
    \/ \E p \in Procs, b \in Blocks, v \in Val : Write(p, b, v)
    \/ Commit
    \/ Crash

Spec == Init /\ [][Next]_vars
=============================================================================
