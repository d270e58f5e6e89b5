--------------------------- MODULE MCTenantScope ---------------------------
(***************************************************************************)
(* TenantScope for TLC: a pupil of each of two schools, a super_admin, and *)
(* a request without an account.                                           *)
(***************************************************************************)
EXTENDS TenantScope, TLC

MCTenantOf == [amal |-> "s1", badr |-> "s2", root |-> "platform", anonymous |-> "none"]
Symmetry == Permutations(Threads) \cup Permutations(Connections)
=============================================================================
