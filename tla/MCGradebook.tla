---------------------------- MODULE MCGradebook ----------------------------
(***************************************************************************)
(* Gradebook for TLC: students and classes are interchangeable.             *)
(***************************************************************************)
EXTENDS Gradebook, TLC

Symmetry == Permutations(Students) \cup Permutations(Classes)
=============================================================================
