------------------------------ MODULE MCDaemon -------------------------------
(* Instances of Daemon for TLC.  Liveness is checked, so the operators are    *)
(* not permuted.                                                             *)
EXTENDS Daemon
=============================================================================
