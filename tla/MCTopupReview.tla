--------------------------- MODULE MCTopupReview ---------------------------
(***************************************************************************)
(* TopupReview for TLC: requests and children are interchangeable.         *)
(***************************************************************************)
EXTENDS TopupReview

Symmetry == Permutations(Requests) \cup Permutations(Children)
=============================================================================
