------------------------------- MODULE MCJudge -------------------------------
(* Instances of Judge for TLC.  Inputs are empty, as large as the pipe, or   *)
(* larger than it.                                                           *)
EXTENDS Judge

\* Any programs, or any program and then one that keeps to the rules.
AnyProgram == [n \in 1..Submissions |-> {FALSE}]
PoliteLast == [n \in 1..Submissions |-> IF n < Submissions THEN BOOLEAN ELSE {TRUE}]
=============================================================================
