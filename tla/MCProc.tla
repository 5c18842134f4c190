------------------------------- MODULE MCProc -------------------------------
(***************************************************************************)
(* TLC instances of Proc.                                                  *)
(***************************************************************************)
EXTENDS ProcInv, TLC

Symmetry == Permutations(Slots \ {initproc}) \cup Permutations(CPUs)
=============================================================================
