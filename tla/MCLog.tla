------------------------------- MODULE MCLog -------------------------------
(* Instances of Log for TLC.                                                *)
EXTENDS LogInv, TLC

\* Processes, block numbers and block contents are interchangeable.
Symmetry == Permutations(Procs) \cup Permutations(Blocks) \cup Permutations(Val)
=============================================================================
