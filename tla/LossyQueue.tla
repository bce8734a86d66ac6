----------------------------- MODULE LossyQueue -----------------------------
(***************************************************************************)
(* What the connection queue of src/queue.c delivers, seen from outside:   *)
(* a FIFO of connections with one producer.  Connections are numbered in   *)
(* the order in which accept() returns them.  The queue never reorders and *)
(* never delivers twice, but it is lossy: a connection can be dropped when *)
(* it is added, and the removal of the oldest connection can drop all the  *)
(* connections behind it.  ConnQueue.tla is shown to implement this.       *)
(***************************************************************************)
EXTENDS Naturals, Sequences

CONSTANT Connections    \* how many connections are ever accepted

VARIABLES queue,        \* connections waiting for a worker, oldest first
          popped,       \* connections handed to workers, in that order
          added         \* number of connections the producer tried to add

vars == <<queue, popped, added>>

Init == /\ queue = <<>>
        /\ popped = <<>>
        /\ added = 0

\* The producer adds the next connection at the end, or loses it.
Add == /\ added < Connections
       /\ added' = added + 1
       /\ queue' \in {Append(queue, added + 1), queue}
       /\ UNCHANGED popped

\* A worker takes the oldest connection; the ones behind it stay or are lost.
Take == /\ queue # <<>>
        /\ popped' = Append(popped, Head(queue))
        /\ queue' \in {Tail(queue), <<>>}
        /\ UNCHANGED added

Next == Add \/ Take

Spec == Init /\ [][Next]_vars
=============================================================================
