------------------------------- MODULE MCFiles -------------------------------
(* Instances of Files for TLC.  Workers run the same code and only           *)
(* invariants are checked, so they may be permuted.                          *)
EXTENDS Files, TLC

WorkerSymmetry == Permutations(Workers)
=============================================================================
