---------------------------- MODULE WatcherServer ----------------------------
(***************************************************************************)
(* What the template process gives the workers, seen from outside: a       *)
(* server that answers one request at a time.  For a request it clones a   *)
(* watcher, once, and answers with that watcher, or it clones none and     *)
(* says so.  It keeps this promise until it is disturbed.  Template.tla is *)
(* shown to implement this.                                                *)
(***************************************************************************)
EXTENDS Naturals, Sequences

CONSTANTS Workers,    \* who asks
          Requests    \* how many requests are ever made

VARIABLES stage,      \* of each worker: "idle", "asking", "served"
          req,        \* its request
          answer,     \* the watcher it is given, 0 for none
          spawned,    \* spawned[p] is the request watcher p was cloned for
          asked,      \* requests made so far
          disturbed   \* the server's promise is off

vars == <<stage, req, answer, spawned, asked, disturbed>>

Init == /\ stage = [w \in Workers |-> "idle"]
        /\ req = [w \in Workers |-> 0] /\ answer = [w \in Workers |-> 0]
        /\ spawned = <<>> /\ asked = 0 /\ disturbed = FALSE

Ask(w) == /\ stage[w] = "idle" /\ asked < Requests
          /\ asked' = asked + 1
          /\ req' = [req EXCEPT ![w] = asked + 1]
          /\ stage' = [stage EXCEPT ![w] = "asking"]
          /\ UNCHANGED <<answer, spawned, disturbed>>

\* One worker at a time is served, with a watcher of its own or with none.
Serve(w) == /\ stage[w] = "asking" /\ \A v \in Workers : stage[v] # "served"
            /\ stage' = [stage EXCEPT ![w] = "served"]
            /\ \/ /\ spawned' = Append(spawned, req[w])
                  /\ answer' = [answer EXCEPT ![w] = Len(spawned) + 1]
               \/ /\ answer' = [answer EXCEPT ![w] = 0]
                  /\ UNCHANGED spawned
            /\ UNCHANGED <<req, asked, disturbed>>

Return(w) == /\ stage[w] = "served"
             /\ stage' = [stage EXCEPT ![w] = "idle"]
             /\ UNCHANGED <<req, answer, spawned, asked, disturbed>>

\* A server that is disturbed promises nothing, from then on.
Disturbed == disturbed' = TRUE

Next == Disturbed \/ \E w \in Workers : Ask(w) \/ Serve(w) \/ Return(w)

Spec == Init /\ [][Next]_vars
=============================================================================
