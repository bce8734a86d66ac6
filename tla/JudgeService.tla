---------------------------- MODULE JudgeService -----------------------------
(***************************************************************************)
(* What the daemon is for its clients: each connection waits, is taken     *)
(* once by one of the workers, and is answered once or dropped.  A verdict *)
(* on a program is given to a request that is fit to be understood only    *)
(* when the program was compiled and handed to the runner, and the verdict *)
(* "does not compile" only when it was not.  Session.tla is shown to       *)
(* implement this.                                                         *)
(***************************************************************************)
EXTENDS Naturals, FiniteSets

CONSTANTS Clients, WorkerCounts

VARIABLES up,       \* the daemon runs
          workers,  \* how many connections it serves at once
          stage,    \* of each client: "new", "waiting", "serving", "answered", "dropped"
          verdict,  \* the answer, or "none"
          handed,   \* clients whose program was handed to the runner
          fit       \* clients whose request can be understood

vars == <<up, workers, stage, verdict, handed, fit>>

Verdicts == {"ACCEPTED", "OTHER", "COMPILE", "INTERNAL"}

Init == /\ up = TRUE /\ workers \in WorkerCounts /\ stage = [c \in Clients |-> "new"]
        /\ verdict = [c \in Clients |-> "none"] /\ handed = {} /\ fit \subseteq Clients

Connect(c) == /\ up /\ stage[c] = "new"
              /\ stage' = [stage EXCEPT ![c] = "waiting"]
              /\ UNCHANGED <<up, workers, verdict, handed, fit>>

Take(c) == /\ up /\ stage[c] = "waiting"
           /\ Cardinality({d \in Clients : stage[d] = "serving"}) < workers
           /\ stage' = [stage EXCEPT ![c] = "serving"]
           /\ UNCHANGED <<up, workers, verdict, handed, fit>>

HandOver(c) == /\ up /\ stage[c] = "serving" /\ c \notin handed
               /\ handed' = handed \cup {c}
               /\ UNCHANGED <<up, workers, stage, verdict, fit>>

\* INTERNAL says nothing about the program.
Answer(c, v) == /\ up /\ stage[c] = "serving"
                /\ v \in {"ACCEPTED", "OTHER"} => c \in handed \/ c \notin fit
                /\ v = "COMPILE" => c \notin handed
                /\ stage' = [stage EXCEPT ![c] = "answered"]
                /\ verdict' = [verdict EXCEPT ![c] = v]
                /\ UNCHANGED <<up, workers, handed, fit>>

\* The request is one the daemon does not serve, or nobody takes the answer.
Drop(c) == /\ up /\ stage[c] = "serving"
           /\ stage' = [stage EXCEPT ![c] = "dropped"]
           /\ UNCHANGED <<up, workers, verdict, handed, fit>>

\* The client breaks off.
Leave(c) == fit' = fit \ {c} /\ UNCHANGED <<up, workers, stage, verdict, handed>>

End == up /\ up' = FALSE /\ UNCHANGED <<workers, stage, verdict, handed, fit>>

Next == \/ End
        \/ \E c \in Clients : \/ Connect(c) \/ Take(c) \/ HandOver(c) \/ Drop(c) \/ Leave(c)
                              \/ \E v \in Verdicts : Answer(c, v)

Spec == Init /\ [][Next]_vars
=============================================================================
