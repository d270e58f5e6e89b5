--------------------------- MODULE MCWalletLedger ---------------------------
(***************************************************************************)
(* WalletLedger for TLC.  Requests, wallets and keys are interchangeable   *)
(* in the safety runs; the run that checks liveness uses no symmetry.      *)
(***************************************************************************)
EXTENDS WalletLedger, TLC

Symmetry ==
  Permutations(Requests) \cup Permutations(Wallets) \cup Permutations(Keys)
=============================================================================
