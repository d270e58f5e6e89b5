------------------------ MODULE MCTutoringSettlement ------------------------
(***************************************************************************)
(* TutoringSettlement for TLC: requests are interchangeable.               *)
(***************************************************************************)
EXTENDS TutoringSettlement

Symmetry == Permutations(Requests)
=============================================================================
