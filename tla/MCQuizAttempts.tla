--------------------------- MODULE MCQuizAttempts ---------------------------
(***************************************************************************)
(* QuizAttempts for TLC: threads are interchangeable where no liveness is  *)
(* checked.                                                                *)
(***************************************************************************)
EXTENDS QuizAttempts

Symmetry == Permutations(Threads)
=============================================================================
