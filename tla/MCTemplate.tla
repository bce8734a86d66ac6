----------------------------- MODULE MCTemplate -----------------------------
(* Instances of Template for TLC.  The workers run the same code, but no     *)
(* symmetry is declared: it is not sound for the liveness property.          *)
EXTENDS Template
=============================================================================
