---------------------------- MODULE MCConnQueue ----------------------------
(* Instances of ConnQueue for TLC.  The workers run the same code, but no    *)
(* symmetry is declared: it is not sound for the liveness properties.        *)
EXTENDS ConnQueue
=============================================================================
