------------------------------ MODULE MCShuttle ------------------------------
(***************************************************************************)
(* TLC instances of Shuttle.                                               *)
(***************************************************************************)
EXTENDS Shuttle, TLC

Symmetry == Permutations(Attendees)
=============================================================================
