----------------------------- MODULE MCShutdown ------------------------------
(* Instances of Shutdown for TLC.  Workers are numbered: the handler stops   *)
(* them in order, so that no symmetry holds between them.                    *)
EXTENDS Shutdown
=============================================================================
