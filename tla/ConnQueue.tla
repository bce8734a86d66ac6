------------------------------ MODULE ConnQueue ------------------------------
(***************************************************************************)
(* The connection queue between the accept loop of the daemon (kudosd.c)   *)
(* and the worker threads (queue.c).  The queue is a linked list with      *)
(* head and tail pointers, a mutex that only the workers take, and a       *)
(* counting semaphore.  One step of this module is one load or store of    *)
(* shared memory in the order gcc emits them without optimisation, which   *)
(* is how the Makefile builds the daemon.                                  *)
(*                                                                         *)
(* Entries (and the connections they carry) are numbered in the order in   *)
(* which accept() returns them; 0 is the NULL pointer.  An entry's memory  *)
(* is never given to another entry while the producer can still hold a     *)
(* pointer to it: the producer allocates before it loads the tail.         *)
(***************************************************************************)
EXTENDS Naturals, Sequences, FiniteSets

CONSTANTS Workers,      \* the worker threads
          Connections,  \* bound: connections accepted in a behaviour
          NoWorker      \* the mutex is free

ASSUME QueueAssumption == /\ Connections \in Nat
                          /\ NoWorker \notin Workers

Entries  == 1..Connections
Pointers == 0..Connections

VARIABLES
  head, tail,    \* g_queue->head and g_queue->tail
  next,          \* next[e] is e->next
  freed,         \* entries given back with free()
  sem,           \* value of work_semaphore
  mutex,         \* holder of access_mutex
  ppc,           \* where the accept loop is
  new,           \* the entry being pushed; all of 1..new are allocated
  ptail,         \* the producer's copy of g_queue->tail
  wpc,           \* where each worker is
  entry,         \* entry[w]: local variable of queue_pop_connection
  nxt,           \* nxt[w]: the worker's copy of head->next
  popped,        \* history: entries unlinked, in order
  served,        \* history: connections served
  overlap,       \* history: entries whose push overlapped a critical section
  uaf            \* history: freed memory was written

listVars   == <<head, tail, next, freed>>
prodVars   == <<ppc, new, ptail>>
workVars   == <<wpc, entry, nxt>>
histVars   == <<popped, served, overlap, uaf>>
vars == <<head, tail, next, freed, sem, mutex, ppc, new, ptail,
          wpc, entry, nxt, popped, served, overlap, uaf>>

PushPCs == {"test", "setHead", "setTailHead", "readTail", "link", "setTail"}
PopPCs  == {"test", "next", "store"}
InPush  == ppc \in PushPCs
InPop(w) == wpc[w] \in PopPCs

TypeOK ==
  /\ head \in Pointers /\ tail \in Pointers /\ ptail \in Pointers
  /\ next \in [Entries -> Pointers]
  /\ freed \subseteq Entries
  /\ sem \in Nat
  /\ mutex \in Workers \cup {NoWorker}
  /\ ppc \in PushPCs \cup {"accept", "post"}
  /\ new \in Pointers
  /\ wpc \in [Workers -> PopPCs \cup {"wait", "lock", "unlock", "free", "serve"}]
  /\ entry \in [Workers -> Pointers]
  /\ nxt \in [Workers -> Pointers]
  /\ popped \in Seq(Entries)
  /\ served \subseteq Entries
  /\ overlap \subseteq Entries
  /\ uaf \in BOOLEAN

\* queue_init: an empty list, a free mutex, a semaphore at zero.  The workers
\* are launched before the accept loop starts.
Init ==
  /\ head = 0 /\ tail = 0 /\ ptail = 0
  /\ next = [e \in Entries |-> 0]
  /\ freed = {}
  /\ sem = 0
  /\ mutex = NoWorker
  /\ ppc = "accept"
  /\ new = 0
  /\ wpc = [w \in Workers |-> "wait"]
  /\ entry = [w \in Workers |-> 0]
  /\ nxt = [w \in Workers |-> 0]
  /\ popped = <<>> /\ served = {} /\ overlap = {} /\ uaf = FALSE

-----------------------------------------------------------------------------
(* The accept loop: kudosd.c calls queue_push_connection without the mutex. *)

\* accept() returns a connection and its entry is allocated with next = 0.
Accept ==
  /\ ppc = "accept" /\ new < Connections
  /\ new' = new + 1
  /\ ppc' = "test"
  /\ overlap' = IF \E w \in Workers : InPop(w) THEN overlap \cup {new + 1} ELSE overlap
  /\ UNCHANGED <<listVars, sem, mutex, ptail, workVars, popped, served, uaf>>

\* Mutant of PushTest: a push that always takes the branch for an empty list.
PushTest_NoElse ==
  /\ ppc = "test"
  /\ ppc' = "setHead"
  /\ UNCHANGED <<listVars, sem, mutex, new, ptail, workVars, histVars>>

PushTest ==
  /\ ppc = "test"
  /\ ppc' = IF head = 0 THEN "setHead" ELSE "readTail"
  /\ UNCHANGED <<listVars, sem, mutex, new, ptail, workVars, histVars>>

PushSetHead ==
  /\ ppc = "setHead"
  /\ head' = new
  /\ ppc' = "setTailHead"
  /\ UNCHANGED <<tail, next, freed, sem, mutex, new, ptail, workVars, histVars>>

\* Mutant of PushSetTailHead: tail is not set when the list was empty.
PushSetTailHead_NoTail ==
  /\ ppc = "setTailHead"
  /\ ppc' = "post"
  /\ UNCHANGED <<listVars, sem, mutex, new, ptail, workVars, histVars>>

\* tail = head = new_entry: the compiled code loads head again.
PushSetTailHead ==
  /\ ppc = "setTailHead"
  /\ tail' = head
  /\ ppc' = "post"
  /\ UNCHANGED <<head, next, freed, sem, mutex, new, ptail, workVars, histVars>>

PushReadTail ==
  /\ ppc = "readTail"
  /\ ptail' = tail
  /\ ppc' = "link"
  /\ UNCHANGED <<listVars, sem, mutex, new, workVars, histVars>>

\* tail->next = new_entry, whether or not the entry tail points at still lives.
PushLink ==
  /\ ppc = "link"
  /\ next' = [next EXCEPT ![ptail] = new]
  /\ uaf' = (uaf \/ ptail \in freed)
  /\ ppc' = "setTail"
  /\ UNCHANGED <<head, tail, freed, sem, mutex, new, ptail, workVars,
                 popped, served, overlap>>

PushSetTail ==
  /\ ppc = "setTail"
  /\ tail' = new
  /\ ppc' = "post"
  /\ UNCHANGED <<head, next, freed, sem, mutex, new, ptail, workVars, histVars>>

\* Mutant of SemPost: the workers are only woken for a list that was empty.
SemPost_OnlyFirst ==
  /\ ppc = "post"
  /\ sem' = IF head = new THEN sem + 1 ELSE sem
  /\ ppc' = "accept"
  /\ UNCHANGED <<listVars, mutex, new, ptail, workVars, histVars>>

SemPost ==
  /\ ppc = "post"
  /\ sem' = sem + 1
  /\ ppc' = "accept"
  /\ UNCHANGED <<listVars, mutex, new, ptail, workVars, histVars>>

-----------------------------------------------------------------------------
(* The workers: queue_worker_main and queue_pop_connection. *)

\* Mutant of SemWait: the worker does not wait for a permit.
SemWait_NoBlock(w) ==
  /\ wpc[w] = "wait"
  /\ sem' = sem - 1
  /\ wpc' = [wpc EXCEPT ![w] = "lock"]
  /\ UNCHANGED <<listVars, mutex, prodVars, entry, nxt, histVars>>

SemWait(w) ==
  /\ wpc[w] = "wait" /\ sem > 0
  /\ sem' = sem - 1
  /\ wpc' = [wpc EXCEPT ![w] = "lock"]
  /\ UNCHANGED <<listVars, mutex, prodVars, entry, nxt, histVars>>

PopLock(w) ==
  /\ wpc[w] = "lock" /\ mutex = NoWorker
  /\ mutex' = w
  /\ wpc' = [wpc EXCEPT ![w] = "test"]
  /\ overlap' = IF InPush THEN overlap \cup {new} ELSE overlap
  /\ UNCHANGED <<listVars, sem, prodVars, entry, nxt, popped, served, uaf>>

\* Mutant of PopTest: the entry is freed as soon as it is read.
PopTest_Frees(w) ==
  /\ wpc[w] = "test"
  /\ entry' = [entry EXCEPT ![w] = head]
  /\ freed' = IF head = 0 THEN freed ELSE freed \cup {head}
  /\ wpc' = [wpc EXCEPT ![w] = IF head = 0 THEN "unlock" ELSE "next"]
  /\ UNCHANGED <<head, tail, next, sem, mutex, prodVars, nxt, histVars>>

\* entry = head, or 0 when the list is empty.
PopTest(w) ==
  /\ wpc[w] = "test"
  /\ entry' = [entry EXCEPT ![w] = head]
  /\ wpc' = [wpc EXCEPT ![w] = IF head = 0 THEN "unlock" ELSE "next"]
  /\ UNCHANGED <<listVars, sem, mutex, prodVars, nxt, histVars>>

\* Mutant of PopReadNext: the rest of the list is dropped.
PopReadNext_DropsRest(w) ==
  /\ wpc[w] = "next"
  /\ nxt' = [nxt EXCEPT ![w] = 0]
  /\ wpc' = [wpc EXCEPT ![w] = "store"]
  /\ UNCHANGED <<listVars, sem, mutex, prodVars, entry, histVars>>

PopReadNext(w) ==
  /\ wpc[w] = "next"
  /\ nxt' = [nxt EXCEPT ![w] = next[head]]
  /\ wpc' = [wpc EXCEPT ![w] = "store"]
  /\ UNCHANGED <<listVars, sem, mutex, prodVars, entry, histVars>>

\* Mutant of PopStoreHead: head is not advanced.
PopStoreHead_Stays(w) ==
  /\ wpc[w] = "store"
  /\ popped' = Append(popped, entry[w])
  /\ wpc' = [wpc EXCEPT ![w] = "unlock"]
  /\ UNCHANGED <<listVars, sem, mutex, prodVars, entry, nxt, served, overlap, uaf>>

PopStoreHead(w) ==
  /\ wpc[w] = "store"
  /\ head' = nxt[w]
  /\ popped' = Append(popped, entry[w])
  /\ wpc' = [wpc EXCEPT ![w] = "unlock"]
  /\ UNCHANGED <<tail, next, freed, sem, mutex, prodVars, entry, nxt,
                 served, overlap, uaf>>

PopUnlock(w) ==
  /\ wpc[w] = "unlock"
  /\ mutex' = NoWorker
  /\ wpc' = [wpc EXCEPT ![w] = IF entry[w] = 0 THEN "wait" ELSE "free"]
  /\ UNCHANGED <<listVars, sem, prodVars, entry, nxt, histVars>>

PopFree(w) ==
  /\ wpc[w] = "free"
  /\ freed' = freed \cup {entry[w]}
  /\ wpc' = [wpc EXCEPT ![w] = "serve"]
  /\ UNCHANGED <<head, tail, next, sem, mutex, prodVars, entry, nxt, histVars>>

\* queue_worker_serv; what serving is made of is not the queue's business.
Serve(w) ==
  /\ wpc[w] = "serve"
  /\ served' = served \cup {entry[w]}
  /\ wpc' = [wpc EXCEPT ![w] = "wait"]
  /\ UNCHANGED <<listVars, sem, mutex, prodVars, entry, nxt, popped, overlap, uaf>>

Producer == Accept \/ PushTest \/ PushSetHead \/ PushSetTailHead
            \/ PushReadTail \/ PushLink \/ PushSetTail \/ SemPost

Worker(w) == SemWait(w) \/ PopLock(w) \/ PopTest(w) \/ PopReadNext(w)
             \/ PopStoreHead(w) \/ PopUnlock(w) \/ PopFree(w) \/ Serve(w)

Next == Producer \/ \E w \in Workers : Worker(w)

Spec == Init /\ [][Next]_vars

\* Fairness: the scheduler runs every thread; clients connecting (Accept) is
\* not owed by anyone.
Fairness == /\ WF_vars(Producer /\ ppc # "accept")
            /\ \A w \in Workers : WF_vars(Worker(w))

FairSpec == Spec /\ Fairness

-----------------------------------------------------------------------------
(* The list as data. *)

PoppedSet == {popped[i] : i \in 1..Len(popped)}

\* Entries reachable from head.  A link leads to the entry pushed right after
\* (LinkInv of ConnQueueProofs), so that the chain is consecutive.
Chain == IF head = 0 THEN {}
         ELSE {e \in head..new : \A f \in head..(e - 1) : next[f] = f + 1}

\* Entries whose push has stored them into the list.
Inserted == 1..(IF ppc \in {"setTailHead", "setTail", "post", "accept"}
                THEN new ELSE IF new = 0 THEN 0 ELSE new - 1)

\* Entries that were pushed and that no worker can ever reach any more.
Lost == Inserted \ (Chain \cup PoppedSet)

\* queue_pop_connection hands connections out in the order they came and never
\* hands one out twice, although queue_push_connection takes no lock.
InOrder == \A i, j \in 1..Len(popped) : i < j => popped[i] < popped[j]

\* The store through g_queue->tail in queue_push_connection never goes through
\* a null pointer: it goes to the entry of the push before.
LinkTargetValid == ppc = "link" => ptail # 0 /\ ptail + 1 = new

\* A connection is only ever lost when its push overlapped a worker's critical
\* section: queue_push_connection under access_mutex would lose nothing.
LossNeedsOverlap == Lost \subseteq overlap

\* The list's memory: the head entry was not freed, so that the worker's head->next
\* reads live memory; free() runs once per entry; and queue_push_connection writes
\* freed memory (tail->next of an entry a worker freed) only in a push that loses
\* its connection.
UafMeansLoss ==
  /\ head \notin freed
  /\ \A w \in Workers : wpc[w] = "free" => entry[w] \notin freed
  /\ \A w, v \in Workers : w # v /\ wpc[w] = "free" /\ wpc[v] = "free" => entry[w] # entry[v]
  /\ uaf => Lost # {}

\* No connection that queue_push_connection inserted waits for ever: a worker
\* serves it, unless the race with queue_pop_connection cut it off the list.
ServedOrLost == \A e \in Entries : e \in Inserted ~> e \in served \/ e \in Lost

\* queue.h: every handle pushed is retrieved by a worker and processed.
EveryConnectionServed ==
  \A e \in Entries : e \in Inserted ~> e \in served

-----------------------------------------------------------------------------
(* The queue implements the lossy FIFO of LossyQueue.tla. *)

ChainSeq == [i \in 1..Cardinality(Chain) |-> head + i - 1]

LQ == INSTANCE LossyQueue WITH queue <- ChainSeq,
                               added <- IF InPush /\ ppc \notin {"setTailHead", "setTail"}
                                        THEN new - 1 ELSE new

ImplementsLossyQueue == LQ!Spec
=============================================================================
