------------------------------ MODULE MCHandles ------------------------------
(***************************************************************************)
(* Handles for TLC.  Goroutines are alike, and so are handles: their names *)
(* are compared and never ordered.                                         *)
(***************************************************************************)
EXTENDS Handles

Symmetry == Permutations(Routines) \cup Permutations(Slots)
=============================================================================
