----------------------------- MODULE MCBilling -----------------------------
(***************************************************************************)
(* Billing for TLC: threads and seats are interchangeable.                 *)
(***************************************************************************)
EXTENDS Billing

Symmetry == Permutations(Threads) \cup Permutations(Seats)
=============================================================================
