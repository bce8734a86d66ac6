--------------------------- MODULE ConnQueueProofs ---------------------------
(***************************************************************************)
(* Proofs about ConnQueue for every number of workers and connections: the *)
(* lock-free push never makes the pop hand out a connection twice or out   *)
(* of order and never links through a null tail; it loses connections and  *)
(* writes freed memory only in an overlap; the list is a lossy FIFO.       *)
(***************************************************************************)
EXTENDS ConnQueue, FiniteSetTheorems, TLAPS

\* The entries stored into the list so far are 1..Stored.
Stored == IF ppc \in {"test", "setHead", "readTail", "link"} THEN new - 1 ELSE new

\* The mutex is held by the one worker inside the critical section.
MutexInv ==
  \A w \in Workers : wpc[w] \in {"test", "next", "store", "unlock"} <=> mutex = w

\* Links lead to the entry pushed right after, and only once it is stored.
LinkInv ==
  /\ ppc # "accept" => new > 0
  /\ head <= Stored
  /\ \A e \in Entries : next[e] # 0 => next[e] = e + 1 /\ next[e] <= Stored

\* What the producer knows at each of its steps: an empty list is only refilled
\* by the producer, and the tail is the entry of the push before.
TailInv ==
  /\ ppc = "setHead" => head = 0
  /\ ppc = "setTailHead" => head \in {0, new}
  /\ ppc \in {"accept", "post"} => tail = new \/ (tail = 0 /\ head = 0)
  /\ ppc = "test" => (tail + 1 = new /\ tail # 0) \/ (tail = 0 /\ head = 0)
  /\ ppc = "readTail" => tail + 1 = new /\ tail # 0
  /\ ppc = "link" => ptail + 1 = new /\ ptail # 0

\* What a worker inside the critical section knows about the head.
HeadInv ==
  \A w \in Workers :
    /\ wpc[w] \in {"next", "store"} => entry[w] = head /\ head # 0
    /\ wpc[w] \in {"free", "serve"} => entry[w] # 0
    /\ entry[w] <= Stored
    /\ wpc[w] = "store" /\ nxt[w] # 0 => nxt[w] = head + 1 /\ nxt[w] <= Stored

\* The list only holds entries younger than all the entries handed out.
OrderInv ==
  /\ InOrder
  /\ \A i \in 1..Len(popped) : popped[i] <= Stored /\ (head # 0 => popped[i] < head)

\* The inductive invariant.
IndInv == TypeOK /\ MutexInv /\ LinkInv /\ TailInv /\ HeadInv /\ OrderInv

\* queue_init establishes the invariant: nothing is pushed, no worker is awake.
LEMMA InitInd == Init => IndInv
<1> SUFFICES ASSUME Init PROVE IndInv
  OBVIOUS
<1> USE QueueAssumption DEF Init, Entries, Pointers, PushPCs, PopPCs, Stored
<1>1. TypeOK
  <2>1. popped \in Seq(Entries) OBVIOUS
  <2>2. wpc \in [Workers -> PopPCs \cup {"wait", "lock", "unlock", "free", "serve"}]
    OBVIOUS
  <2>3. next \in [Entries -> Pointers] OBVIOUS
  <2>4. entry \in [Workers -> Pointers] /\ nxt \in [Workers -> Pointers] OBVIOUS
  <2>5. served \subseteq Entries /\ freed \subseteq Entries /\ overlap \subseteq Entries
    OBVIOUS
  <2>6. uaf \in BOOLEAN OBVIOUS
  <2>7. mutex \in Workers \cup {NoWorker} /\ ppc \in PushPCs \cup {"accept", "post"} OBVIOUS
  <2>8. head \in Pointers /\ tail \in Pointers /\ ptail \in Pointers
        /\ new \in Pointers /\ sem \in Nat
    OBVIOUS
  <2> QED BY ONLY <2>1, <2>2, <2>3, <2>4, <2>5, <2>6, <2>7, <2>8 DEF TypeOK
<1>2. MutexInv BY DEF MutexInv
<1>3. LinkInv BY DEF LinkInv
<1>4. TailInv BY DEF TailInv
<1>5. HeadInv BY DEF HeadInv
<1>6. OrderInv BY DEF OrderInv, InOrder
<1> QED BY <1>1, <1>2, <1>3, <1>4, <1>5, <1>6 DEF IndInv

\* Each step of the accept loop and of a worker keeps the variables typed.
LEMMA TypeStep == IndInv /\ [Next]_vars => TypeOK'
<1> SUFFICES ASSUME IndInv, [Next]_vars PROVE TypeOK'
  OBVIOUS
<1> USE QueueAssumption DEF IndInv, TypeOK, Entries, Pointers, PushPCs, PopPCs,
        listVars, prodVars, workVars, histVars
<1>1. CASE Accept BY <1>1 DEF Accept, InPop
<1>2. CASE PushTest BY <1>2 DEF PushTest
<1>3. CASE PushSetHead BY <1>3 DEF PushSetHead
<1>4. CASE PushSetTailHead BY <1>4 DEF PushSetTailHead
<1>5. CASE PushReadTail BY <1>5 DEF PushReadTail
<1>6. CASE PushLink BY <1>6 DEF PushLink
<1>7. CASE PushSetTail BY <1>7 DEF PushSetTail
<1>8. CASE SemPost BY <1>8 DEF SemPost
<1>9. ASSUME NEW w \in Workers, Worker(w) PROVE TypeOK'
  <2>1. CASE SemWait(w) BY <2>1 DEF SemWait
  <2>2. CASE PopLock(w) BY <2>2 DEF PopLock, InPush, LinkInv
  <2>3. CASE PopTest(w) BY <2>3 DEF PopTest
  <2>4. CASE PopReadNext(w)
    <3>1. head \in Entries BY <2>4 DEF PopReadNext, HeadInv
    <3> QED BY <2>4, <3>1 DEF PopReadNext
  <2>5. CASE PopStoreHead(w)
    <3>1. entry[w] \in Entries BY <2>5 DEF PopStoreHead, HeadInv
    <3> QED BY <2>5, <3>1, SMTT(30) DEF PopStoreHead
  <2>6. CASE PopUnlock(w) BY <2>6 DEF PopUnlock
  <2>7. CASE PopFree(w)
    <3>1. entry[w] \in Entries BY <2>7 DEF PopFree, HeadInv
    <3> QED BY <2>7, <3>1 DEF PopFree
  <2>8. CASE Serve(w)
    <3>1. entry[w] \in Entries
      BY <2>8 DEF Serve, HeadInv, LinkInv, Stored
    <3> QED BY <2>8, <3>1 DEF Serve
  <2> QED BY <1>9, <2>1, <2>2, <2>3, <2>4, <2>5, <2>6, <2>7, <2>8 DEF Worker
<1>10. CASE UNCHANGED vars BY <1>10 DEF vars
<1> QED BY <1>1, <1>2, <1>3, <1>4, <1>5, <1>6, <1>7, <1>8, <1>9, <1>10 DEF Next, Producer

\* The mutex keeps the critical sections of queue_pop_connection apart.
LEMMA MutexStep == IndInv /\ [Next]_vars => MutexInv'
<1> SUFFICES ASSUME IndInv, [Next]_vars PROVE MutexInv'
  OBVIOUS
<1> USE QueueAssumption DEF IndInv, TypeOK, MutexInv, listVars, prodVars, workVars, histVars
<1>1. CASE Producer
  BY <1>1 DEF Producer, Accept, PushTest, PushSetHead, PushSetTailHead,
     PushReadTail, PushLink, PushSetTail, SemPost
<1>2. ASSUME NEW w \in Workers, Worker(w) PROVE MutexInv'
  <2>1. CASE SemWait(w) BY <2>1 DEF SemWait
  <2>2. CASE PopLock(w) BY <2>2 DEF PopLock
  <2>3. CASE PopTest(w) BY <2>3 DEF PopTest
  <2>4. CASE PopReadNext(w) BY <2>4 DEF PopReadNext
  <2>5. CASE PopStoreHead(w) BY <2>5 DEF PopStoreHead
  <2>6. CASE PopUnlock(w) BY <2>6 DEF PopUnlock
  <2>7. CASE PopFree(w) BY <2>7 DEF PopFree
  <2>8. CASE Serve(w) BY <2>8 DEF Serve
  <2> QED BY <1>2, <2>1, <2>2, <2>3, <2>4, <2>5, <2>6, <2>7, <2>8 DEF Worker
<1>3. CASE UNCHANGED vars BY <1>3 DEF vars
<1> QED BY <1>1, <1>2, <1>3 DEF Next

\* A step of the accept loop keeps the list, the workers' copies of it and the
\* order of what was handed out consistent.
LEMMA ProducerStep ==
  IndInv /\ Producer => LinkInv' /\ TailInv' /\ HeadInv' /\ OrderInv'
<1> SUFFICES ASSUME IndInv, Producer
             PROVE  LinkInv' /\ TailInv' /\ HeadInv' /\ OrderInv'
  OBVIOUS
<1> USE QueueAssumption DEF IndInv, TypeOK, LinkInv, TailInv, HeadInv, OrderInv,
        InOrder, Stored, Entries, Pointers, PushPCs, listVars, workVars, histVars
<1>1. CASE Accept BY <1>1 DEF Accept
<1>2. CASE PushTest BY <1>2 DEF PushTest
<1>3. CASE PushSetHead BY <1>3 DEF PushSetHead
<1>4. CASE PushSetTailHead BY <1>4 DEF PushSetTailHead
<1>5. CASE PushReadTail BY <1>5 DEF PushReadTail
<1>6. CASE PushLink
  <2> USE <1>6 DEF PushLink
  <2>1. ptail \in Entries /\ ptail + 1 = new
    OBVIOUS
  <2>2. \A e \in Entries : next'[e] = IF e = ptail THEN new ELSE next[e]
    BY <2>1
  <2>3. LinkInv'
    BY <2>1, <2>2
  <2>4. TailInv'
    BY <2>1
  <2>5. HeadInv'
    BY <2>1
  <2>6. OrderInv'
    BY <2>1, SMTT(30)
  <2> QED BY <2>3, <2>4, <2>5, <2>6
<1>7. CASE PushSetTail BY <1>7 DEF PushSetTail
<1>8. CASE SemPost BY <1>8 DEF SemPost
<1> QED BY <1>1, <1>2, <1>3, <1>4, <1>5, <1>6, <1>7, <1>8 DEF Producer

\* Appending a number above all the others keeps a sequence increasing.
LEMMA AppendOrdered ==
  ASSUME NEW s \in Seq(Nat), NEW n \in Nat,
         \A i \in 1..Len(s) : s[i] < n
  PROVE  /\ \A i \in 1..Len(Append(s, n)) : Append(s, n)[i] <= n
         /\ (\A i, j \in 1..Len(s) : i < j => s[i] < s[j])
            => \A i, j \in 1..Len(Append(s, n)) : i < j => Append(s, n)[i] < Append(s, n)[j]
<1> DEFINE t == Append(s, n)
<1>1. Len(t) = Len(s) + 1 /\ Len(s) \in Nat OBVIOUS
<1>2. \A i \in 1..Len(s) : t[i] = s[i] /\ s[i] \in Nat OBVIOUS
<1>3. t[Len(s) + 1] = n OBVIOUS
<1> HIDE DEF t
<1>4. \A i \in 1..Len(t) : t[i] <= n BY <1>1, <1>2, <1>3
<1>5. ASSUME \A i, j \in 1..Len(s) : i < j => s[i] < s[j],
             NEW i \in 1..Len(t), NEW j \in 1..Len(t), i < j
      PROVE  t[i] < t[j]
  <2>1. i \in 1..Len(s) BY <1>1, <1>5
  <2>2. CASE j = Len(s) + 1 BY <2>1, <2>2, <1>2, <1>3
  <2>3. CASE j \in 1..Len(s) BY <2>1, <2>3, <1>2, <1>5
  <2> QED BY <1>1, <2>2, <2>3
<1> QED BY <1>4, <1>5 DEF t

\* So does a step of a worker; only PopStoreHead moves the head.
LEMMA WorkerStep ==
  ASSUME NEW w \in Workers, IndInv, Worker(w)
  PROVE  LinkInv' /\ TailInv' /\ HeadInv' /\ OrderInv'
<1> USE QueueAssumption DEF IndInv, TypeOK, LinkInv, TailInv, HeadInv, OrderInv,
        InOrder, Stored, Entries, Pointers, PushPCs, PopPCs, listVars, prodVars, histVars
<1>1. CASE SemWait(w) BY <1>1 DEF SemWait
<1>2. CASE PopLock(w) BY <1>2 DEF PopLock
<1>3. CASE PopTest(w) BY <1>3 DEF PopTest
<1>4. CASE PopReadNext(w) BY <1>4 DEF PopReadNext
<1>5. CASE PopStoreHead(w)
  <2> USE <1>5 DEF PopStoreHead
  <2>1. entry[w] = head /\ head # 0
    OBVIOUS
  <2>2. LinkInv' /\ TailInv'
    BY <2>1
  <2>3. HeadInv'
    BY <2>1 DEF MutexInv
  <2>4. OrderInv'
    <3>1. popped' = Append(popped, head) /\ Stored' = Stored BY <2>1
    <3>2. popped \in Seq(Nat) /\ head \in Nat OBVIOUS
    <3>3. \A i \in 1..Len(popped) : popped[i] < head BY <2>1
    <3>4. \A i \in 1..Len(popped') : popped'[i] <= head
      BY ONLY <3>1, <3>2, <3>3, AppendOrdered
    <3>5. InOrder'
      BY ONLY <3>1, <3>2, <3>3, InOrder, AppendOrdered DEF InOrder
    <3>6. head <= Stored /\ Stored \in Nat /\ Len(popped') \in Nat BY <2>1, <3>1
    <3>7. head' # 0 => head' = head + 1 BY <2>1
    <3>8. \A i \in 1..Len(popped') : popped'[i] \in Nat
      BY ONLY <3>1, <3>2
    <3> QED BY ONLY <3>1, <3>2, <3>4, <3>5, <3>6, <3>7, <3>8 DEF OrderInv
  <2> QED BY <2>2, <2>3, <2>4
<1>6. CASE PopUnlock(w) BY <1>6 DEF PopUnlock
<1>7. CASE PopFree(w) BY <1>7 DEF PopFree
<1>8. CASE Serve(w) BY <1>8 DEF Serve
<1> QED BY <1>1, <1>2, <1>3, <1>4, <1>5, <1>6, <1>7, <1>8 DEF Worker

\* The invariant is inductive, so it holds in every state of the queue.
THEOREM IndInvHolds == Spec => []IndInv
<1>1. IndInv /\ [Next]_vars => IndInv'
  <2> SUFFICES ASSUME IndInv, [Next]_vars PROVE IndInv'
    OBVIOUS
  <2>1. TypeOK' /\ MutexInv' BY TypeStep, MutexStep
  <2>2. CASE UNCHANGED vars
    BY <2>2 DEF IndInv, vars, TypeOK, MutexInv, LinkInv, TailInv, HeadInv,
       OrderInv, InOrder, Stored
  <2>3. CASE Producer BY <2>1, <2>3, ProducerStep DEF IndInv
  <2>4. CASE \E w \in Workers : Worker(w) BY <2>1, <2>4, WorkerStep DEF IndInv
  <2> QED BY <2>2, <2>3, <2>4 DEF Next
<1> QED BY InitInd, <1>1, PTL DEF Spec

\* Every variable of the queue keeps its type, for every number of workers and
\* connections.
THEOREM TypeCorrect == Spec => []TypeOK
BY IndInvHolds, PTL DEF IndInv

\* queue_pop_connection hands connections out in arrival order and never twice,
\* however it interleaves with the unlocked queue_push_connection.
THEOREM HandedOutInOrder == Spec => []InOrder
<1>1. IndInv => InOrder BY DEF IndInv, OrderInv
<1> QED BY IndInvHolds, <1>1, PTL

\* The store through tail in queue_push_connection never goes through NULL: it
\* writes the next field of the entry pushed just before.
THEOREM LinkTargetAlwaysValid == Spec => []LinkTargetValid
<1>1. IndInv => LinkTargetValid BY DEF IndInv, TailInv, LinkTargetValid
<1> QED BY IndInvHolds, <1>1, PTL

-----------------------------------------------------------------------------
(* What is lost, and the memory of the entries.                              *)

\* The list from a head that is not null is complete, up to the last entry stored.
FullInv == head # 0 => \A e \in Entries : head <= e /\ e < Stored => next[e] = e + 1

\* A push and a critical section at the same time are an overlap; the decision to
\* append to a list that is empty by now, and the worker's null copy of a next
\* field that is set by now, come from one.
OverlapInv ==
  /\ InPush => \A w \in Workers : InPop(w) => new \in overlap
  /\ ppc \in {"readTail", "link"} /\ head = 0 => new \in overlap
  /\ \A w \in Workers : wpc[w] = "store" /\ nxt[w] = 0
                          => \A e \in Entries : head < e /\ e <= Stored => e \in overlap

\* An entry stored was handed out, is in the list or is lost by an overlap.
CoverInv ==
  \A e \in Entries : e <= Stored => e \in PoppedSet \/ (head # 0 /\ head <= e) \/ e \in overlap

\* Entries on their way to free() were handed out to one worker and not freed.
Freeing(w) == wpc[w] \in {"unlock", "free"} /\ entry[w] # 0

FreeInv ==
  /\ freed \subseteq PoppedSet
  /\ \A w \in Workers : Freeing(w) => entry[w] \in PoppedSet \ freed
  /\ \A w, v \in Workers : w # v /\ Freeing(w) /\ Freeing(v) => entry[w] # entry[v]

\* Freed memory was written in a push whose entry is lost since.
UafInv == uaf => \E e \in Entries : e <= Stored /\ e \notin PoppedSet /\ (head = 0 \/ e < head)

LossInv == FullInv /\ OverlapInv /\ CoverInv /\ FreeInv /\ UafInv

\* What was handed out lies below the head and was stored.
LEMMA PoppedBelow ==
  ASSUME IndInv
  PROVE  /\ PoppedSet \subseteq Entries
         /\ \A e \in PoppedSet : e <= Stored /\ (head # 0 => e < head)
BY DEF IndInv, TypeOK, OrderInv, PoppedSet

\* PopStoreHead adds the head to what was handed out.
LEMMA PoppedGrows ==
  ASSUME TypeOK, NEW e \in Entries, popped' = Append(popped, e)
  PROVE  PoppedSet' = PoppedSet \cup {e}
<1>1. popped \in Seq(Entries) BY DEF TypeOK
<1>2. /\ Len(popped') = Len(popped) + 1 /\ Len(popped) \in Nat
      /\ \A i \in 1..Len(popped) : popped'[i] = popped[i]
      /\ popped'[Len(popped) + 1] = e
  BY <1>1
<1>3. 1..Len(popped') = 1..Len(popped) \cup {Len(popped) + 1} BY <1>2
<1> QED BY <1>2, <1>3 DEF PoppedSet

\* Nothing is lost, freed or overlapping at first.
LEMMA InitLoss == Init => LossInv
BY QueueAssumption DEF Init, LossInv, FullInv, OverlapInv, CoverInv, FreeInv, UafInv, Stored, PoppedSet, Freeing, InPush,
       PushPCs, Entries

\* The steps of the accept loop.
LEMMA ProducerLoss ==
  ASSUME IndInv, IndInv', LossInv, Producer
  PROVE  LossInv'
<1> USE QueueAssumption DEF listVars, prodVars, workVars, histVars
<1>0. TypeOK /\ LinkInv /\ TailInv /\ HeadInv /\ new \in Nat /\ head \in Nat /\ Stored \in Nat /\ new <= Connections
  <2>1. TypeOK /\ LinkInv /\ TailInv /\ HeadInv BY DEF IndInv
  <2>2. new \in Nat /\ head \in Nat /\ new <= Connections BY <2>1 DEF TypeOK, Pointers
  <2>3. Stored \in Nat BY <2>1, <2>2 DEF LinkInv, Stored
  <2> QED BY <2>1, <2>2, <2>3
<1>s. PoppedSet \subseteq Entries /\ \A e \in PoppedSet : e <= Stored /\ (head # 0 => e < head)
  BY PoppedBelow
<1>f. ASSUME UNCHANGED <<freed, popped, wpc, entry>> PROVE FreeInv'
  BY <1>f DEF LossInv, FreeInv, PoppedSet, Freeing
<1>1. CASE Accept
  <2>1. Stored' = Stored BY <1>0, <1>1 DEF Accept, Stored
  <2>2. PoppedSet' = PoppedSet BY <1>1 DEF Accept, PoppedSet
  <2>3. OverlapInv'
    <3>1. (\E w \in Workers : InPop(w)) => new' \in overlap'
      BY <1>1 DEF Accept
    <3>2. overlap \subseteq overlap' /\ ppc' = "test" /\ UNCHANGED <<head, wpc, nxt>>
      BY <1>1 DEF Accept
    <3> QED BY <2>1, <3>1, <3>2 DEF LossInv, OverlapInv, InPop
  <2> QED BY <1>1, <1>f, <2>1, <2>2, <2>3 DEF Accept, LossInv, FullInv, CoverInv, UafInv
<1>2. CASE PushTest \/ PushSetTailHead \/ PushReadTail \/ PushSetTail \/ SemPost
  <2>1. Stored' = Stored /\ UNCHANGED <<head, next, freed, new, workVars, histVars>>
    BY <1>0, <1>2 DEF PushTest, PushSetTailHead, PushReadTail, PushSetTail, SemPost, Stored
  <2>2. PoppedSet' = PoppedSet BY <2>1 DEF PoppedSet
  <2>3. /\ InPush' => InPush
        /\ ppc' \in {"readTail", "link"} => ppc \in {"readTail", "link"} \/ head # 0
    BY <1>2 DEF PushTest, PushSetTailHead, PushReadTail, PushSetTail, SemPost, InPush, PushPCs
  <2>4. OverlapInv' BY <2>1, <2>3 DEF LossInv, OverlapInv, InPop
  <2> QED BY <1>f, <2>1, <2>2, <2>4 DEF LossInv, FullInv, CoverInv, UafInv
<1>3. CASE PushSetHead
  <2>1. /\ head = 0 /\ head' = new /\ Stored = new - 1 /\ Stored' = new /\ new > 0 /\ new \in Entries
        /\ UNCHANGED <<next, freed, new, workVars, histVars>> /\ ppc' = "setTailHead" /\ InPush
    BY <1>0, <1>3 DEF PushSetHead, Stored, TailInv, LinkInv, Entries, InPush, PushPCs
  <2>2. PoppedSet' = PoppedSet BY <2>1 DEF PoppedSet
  <2>3. \A w \in Workers : wpc[w] # "store" BY <1>0, <2>1 DEF HeadInv
  <2>4. OverlapInv' BY <2>1, <2>3 DEF LossInv, OverlapInv, InPop
  <2>5. FullInv' BY <2>1 DEF FullInv, Entries
  <2>6. CoverInv' BY <2>1, <2>2 DEF LossInv, CoverInv, Entries
  <2>7. UafInv' BY <2>1, <2>2 DEF LossInv, UafInv, Entries
  <2> QED BY <1>f, <2>1, <2>4, <2>5, <2>6, <2>7 DEF LossInv
<1>4. CASE PushLink
  <2>1. /\ Stored = new - 1 /\ Stored' = new /\ new > 0 /\ new \in Entries
        /\ UNCHANGED <<head, freed, new, workVars, popped, overlap>> /\ ppc' = "setTail" /\ InPush
        /\ ppc = "link" /\ ptail \in Entries /\ ptail + 1 = new
    BY <1>0, <1>4 DEF PushLink, Stored, TailInv, TypeOK, LinkInv, Entries, Pointers, InPush, PushPCs
  <2>2. PoppedSet' = PoppedSet BY <2>1 DEF PoppedSet
  <2>3. \A e \in Entries : next'[e] = IF e = ptail THEN new ELSE next[e]
    BY <1>0, <1>4, <2>1 DEF PushLink, TypeOK
  <2>4. FullInv' BY <2>1, <2>3 DEF LossInv, FullInv, Entries
  <2>5. OverlapInv'
    <3>1. ASSUME NEW w \in Workers, wpc[w] = "store", nxt[w] = 0, NEW e \in Entries, head < e, e <= new
          PROVE  e \in overlap
      <4>1. InPop(w) BY <3>1 DEF InPop, PopPCs
      <4>2. CASE e = new BY <2>1, <4>1, <4>2 DEF LossInv, OverlapInv
      <4>3. CASE e <= Stored BY <3>1, <4>3 DEF LossInv, OverlapInv
      <4> QED BY <2>1, <3>1, <4>2, <4>3 DEF Entries
    <3> QED BY <2>1, <3>1 DEF LossInv, OverlapInv, InPop
  <2>6. CoverInv'
    <3>1. head # 0 => head <= new BY <1>0, <2>1 DEF LinkInv
    <3>2. head = 0 => new \in overlap BY <2>1 DEF LossInv, OverlapInv
    <3> QED BY <2>1, <2>2, <3>1, <3>2 DEF LossInv, CoverInv, Entries
  <2>7. UafInv'
    <3>1. CASE uaf BY <2>1, <2>2, <3>1 DEF LossInv, UafInv, Entries
    <3>2. CASE ptail \in freed
      <4>1. ptail \in PoppedSet BY <3>2 DEF LossInv, FreeInv
      <4>2. head = 0 BY <1>0, <1>s, <2>1, <4>1 DEF LinkInv, Entries
      <4>3. new \notin PoppedSet
        <5>1. ~(new <= Stored) BY <2>1, <1>0
        <5> QED BY <1>s, <5>1
      <4>4. new <= Stored' BY <2>1, <1>0
      <4> QED BY <4>4,  <2>1, <2>2, <4>2, <4>3 DEF UafInv
    <3>3. uaf' => uaf \/ ptail \in freed BY <1>4 DEF PushLink
    <3> QED BY <3>1, <3>2, <3>3 DEF UafInv
  <2> QED BY <1>f, <2>1, <2>4, <2>5, <2>6, <2>7 DEF LossInv
<1> QED BY <1>1, <1>2, <1>3, <1>4 DEF Producer

\* The steps of a worker.
LEMMA WorkerLoss ==
  ASSUME IndInv, IndInv', LossInv, NEW w \in Workers, Worker(w)
  PROVE  LossInv'
<1> USE QueueAssumption DEF listVars, prodVars, workVars, histVars
<1>0. /\ TypeOK /\ MutexInv /\ LinkInv /\ HeadInv /\ new \in Nat /\ head \in Nat /\ Stored \in Nat
      /\ new <= Connections
  <2>1. TypeOK /\ MutexInv /\ LinkInv /\ HeadInv BY DEF IndInv
  <2>2. new \in Nat /\ head \in Nat /\ new <= Connections BY <2>1 DEF TypeOK, Pointers
  <2>3. Stored \in Nat BY <2>1, <2>2 DEF LinkInv, Stored
  <2> QED BY <2>1, <2>2, <2>3
<1>s. PoppedSet \subseteq Entries /\ \A e \in PoppedSet : e <= Stored /\ (head # 0 => e < head)
  BY PoppedBelow
<1>t. ASSUME UNCHANGED <<ppc, new>> PROVE Stored' = Stored BY <1>t DEF Stored
<1>p. ASSUME UNCHANGED popped PROVE PoppedSet' = PoppedSet BY <1>p DEF PoppedSet
<1>l. ASSUME UNCHANGED <<head, next, ppc, new, popped, uaf>>, overlap \subseteq overlap'
      PROVE  FullInv' /\ CoverInv' /\ UafInv'
  BY <1>l, <1>t, <1>p DEF LossInv, FullInv, CoverInv, UafInv
<1>1. CASE SemWait(w) \/ Serve(w)
  <2>1. /\ UNCHANGED <<head, next, freed, ppc, new, popped, overlap, uaf, entry, nxt>>
        /\ \A v \in Workers : v # w => wpc'[v] = wpc[v]
        /\ wpc[w] \in {"wait", "serve"} /\ wpc'[w] \in {"lock", "wait"}
    BY <1>0, <1>1 DEF SemWait, Serve, TypeOK
  <2>2. OverlapInv' BY <2>1, <1>t DEF LossInv, OverlapInv, InPush, InPop, PopPCs
  <2>3. FreeInv' BY <2>1, <1>p DEF LossInv, FreeInv, Freeing
  <2> QED BY <1>l, <2>1, <2>2, <2>3 DEF LossInv
<1>2. CASE PopLock(w)
  <2>1. /\ UNCHANGED <<head, next, freed, ppc, new, popped, uaf, entry, nxt>>
        /\ \A v \in Workers : v # w => wpc'[v] = wpc[v]
        /\ wpc[w] = "lock" /\ wpc'[w] = "test"
        /\ overlap \subseteq overlap' /\ (InPush => new \in overlap')
    BY <1>0, <1>2 DEF PopLock, TypeOK
  <2>2. OverlapInv' BY <2>1, <1>t DEF LossInv, OverlapInv, InPush, InPop, PopPCs
  <2>3. FreeInv' BY <2>1, <1>p DEF LossInv, FreeInv, Freeing
  <2> QED BY <1>l, <2>1, <2>2, <2>3 DEF LossInv
<1>3. CASE PopTest(w)
  <2>1. /\ UNCHANGED <<head, next, freed, ppc, new, popped, overlap, uaf, nxt>>
        /\ \A v \in Workers : v # w => wpc'[v] = wpc[v] /\ entry'[v] = entry[v]
        /\ wpc[w] = "test" /\ wpc'[w] \in {"unlock", "next"}
        /\ wpc'[w] = "unlock" => entry'[w] = 0
    BY <1>0, <1>3 DEF PopTest, TypeOK
  <2>2. OverlapInv' BY <2>1, <1>t DEF LossInv, OverlapInv, InPush, InPop, PopPCs
  <2>3. FreeInv' BY <2>1, <1>p DEF LossInv, FreeInv, Freeing
  <2> QED BY <1>l, <2>1, <2>2, <2>3 DEF LossInv
<1>4. CASE PopReadNext(w)
  <2>1. /\ UNCHANGED <<head, next, freed, ppc, new, popped, overlap, uaf, entry>>
        /\ \A v \in Workers : v # w => wpc'[v] = wpc[v] /\ nxt'[v] = nxt[v]
        /\ wpc[w] = "next" /\ wpc'[w] = "store" /\ nxt'[w] = next[head]
    BY <1>0, <1>4 DEF PopReadNext, TypeOK
  <2>2. head \in Entries
    BY <1>0, <2>1 DEF HeadInv, TypeOK, Entries, Pointers
  <2>3. next[head] = 0 => ~(head < Stored)
    BY <1>0, <2>2 DEF LossInv, FullInv, Entries
  <2>4. OverlapInv'
    <3>1. nxt'[w] = 0 => \A e \in Entries : ~(head < e /\ e <= Stored)
      BY <1>0, <2>1, <2>3 DEF Entries
    <3> QED BY <2>1, <1>t, <3>1 DEF LossInv, OverlapInv, InPush, InPop, PopPCs
  <2>5. FreeInv' BY <2>1, <1>p DEF LossInv, FreeInv, Freeing
  <2> QED BY <1>l, <2>1, <2>4, <2>5 DEF LossInv
<1>5. CASE PopStoreHead(w)
  <2>1. /\ UNCHANGED <<next, freed, ppc, new, overlap, uaf, entry, nxt>>
        /\ \A v \in Workers : v # w => wpc'[v] = wpc[v]
        /\ wpc[w] = "store" /\ wpc'[w] = "unlock" /\ head' = nxt[w]
        /\ popped' = Append(popped, entry[w]) /\ entry[w] = head /\ head \in Entries /\ head # 0
        /\ Stored' = Stored
    BY <1>0, <1>5, <1>t DEF PopStoreHead, TypeOK, HeadInv, Entries, Pointers
  <2>2. PoppedSet' = PoppedSet \cup {head} BY <1>0, <2>1, PoppedGrows
  <2>3. head' = 0 \/ head' = head + 1 BY <1>0, <2>1 DEF HeadInv
  <2>4. head \notin PoppedSet BY <1>0, <1>s, <2>1
  <2>5. FullInv' BY <1>0, <2>1, <2>3 DEF LossInv, FullInv, Entries
  <2>6. OverlapInv'
    <3>1. InPop(w) /\ (InPush' <=> InPush) BY <2>1 DEF InPop, InPush, PopPCs
    <3>2. InPush => new \in overlap BY <3>1 DEF LossInv, OverlapInv
    <3>3. \A v \in Workers : wpc'[v] # "store" BY <1>0, <2>1 DEF MutexInv
    <3>4. ppc \in {"readTail", "link"} => InPush BY DEF InPush, PushPCs
    <3> QED BY <2>1, <3>1, <3>2, <3>3, <3>4 DEF OverlapInv
  <2>7. CoverInv'
    <3>1. ASSUME head' = 0, NEW e \in Entries, head < e, e <= Stored PROVE e \in overlap
      BY <2>1, <3>1 DEF LossInv, OverlapInv
    <3>2. ASSUME NEW e \in Entries, e <= Stored
          PROVE  e \in PoppedSet' \/ (head' # 0 /\ head' <= e) \/ e \in overlap
      BY <1>0, <2>2, <2>3, <3>1, <3>2 DEF LossInv, CoverInv, Entries
    <3> QED BY <2>1, <3>2 DEF CoverInv
  <2>8. FreeInv'
    <3>1. \A v \in Workers : Freeing(v)' => v = w \/ Freeing(v) BY <2>1 DEF Freeing
    <3>2. \A v \in Workers : Freeing(v) => entry[v] \in PoppedSet \ freed /\ v # w
      BY <2>1 DEF LossInv, FreeInv, Freeing
    <3>3. freed \subseteq PoppedSet BY DEF LossInv, FreeInv
    <3>4. \A u, v \in Workers : u # v /\ Freeing(u) /\ Freeing(v) => entry[u] # entry[v]
      BY DEF LossInv, FreeInv
    <3> QED BY <2>1, <2>2, <2>4, <3>1, <3>2, <3>3, <3>4 DEF FreeInv
  <2>9. UafInv' BY <1>0, <2>1, <2>2, <2>3 DEF LossInv, UafInv, Entries
  <2> QED BY <2>5, <2>6, <2>7, <2>8, <2>9 DEF LossInv
<1>6. CASE PopUnlock(w)
  <2>1. /\ UNCHANGED <<head, next, freed, ppc, new, popped, overlap, uaf, entry, nxt>>
        /\ \A v \in Workers : v # w => wpc'[v] = wpc[v]
        /\ wpc[w] = "unlock" /\ wpc'[w] \in {"wait", "free"}
    BY <1>0, <1>6 DEF PopUnlock, TypeOK
  <2>2. OverlapInv' BY <2>1, <1>t DEF LossInv, OverlapInv, InPush, InPop, PopPCs
  <2>3. \A v \in Workers : Freeing(v)' => Freeing(v) BY <2>1 DEF Freeing
  <2>4. FreeInv' BY <2>1, <2>3, <1>p DEF LossInv, FreeInv
  <2> QED BY <1>l, <2>1, <2>2, <2>4 DEF LossInv
<1>7. CASE PopFree(w)
  <2>1. /\ UNCHANGED <<head, next, ppc, new, popped, overlap, uaf, entry, nxt>>
        /\ \A v \in Workers : v # w => wpc'[v] = wpc[v]
        /\ wpc[w] = "free" /\ wpc'[w] = "serve" /\ freed' = freed \cup {entry[w]} /\ entry[w] # 0
    BY <1>0, <1>7 DEF PopFree, TypeOK, HeadInv
  <2>2. OverlapInv' BY <2>1, <1>t DEF LossInv, OverlapInv, InPush, InPop, PopPCs
  <2>3. Freeing(w) /\ \A v \in Workers : Freeing(v)' => Freeing(v) /\ v # w BY <2>1 DEF Freeing
  <2>4. FreeInv' BY <2>1, <2>3, <1>p DEF LossInv, FreeInv
  <2> QED BY <1>l, <2>1, <2>2, <2>4 DEF LossInv
<1> QED BY <1>1, <1>2, <1>3, <1>4, <1>5, <1>6, <1>7 DEF Worker

\* What the list, the overlaps and the freed entries have to do with each other
\* holds in every state, however pushes and pops interleave.
THEOREM LossInvHolds == Spec => [](IndInv /\ LossInv)
<1>1. IndInv /\ IndInv' /\ LossInv /\ [Next]_vars => LossInv'
  <2> SUFFICES ASSUME IndInv, IndInv', LossInv, [Next]_vars PROVE LossInv'
    OBVIOUS
  <2>1. CASE UNCHANGED vars
    BY <2>1 DEF vars, LossInv, FullInv, OverlapInv, CoverInv, FreeInv, UafInv, Stored, PoppedSet, Freeing,
       InPush, InPop
  <2> QED BY <2>1, ProducerLoss, WorkerLoss DEF Next
<1> QED BY InitLoss, IndInvHolds, <1>1, PTL DEF Spec

-----------------------------------------------------------------------------
\* The list is what lies from the head to the last entry stored.
LEMMA ChainIs ==
  ASSUME IndInv, LossInv
  PROVE  /\ Inserted = 1..Stored
         /\ Chain = IF head = 0 THEN {} ELSE head..Stored
<1>0. /\ TypeOK /\ LinkInv /\ FullInv /\ new \in Nat /\ head \in Nat /\ Stored \in Nat /\ Stored <= new
      /\ new <= Connections
  <2>1. TypeOK /\ LinkInv /\ FullInv BY DEF IndInv, LossInv
  <2>2. new \in Nat /\ head \in Nat /\ new <= Connections
    BY <2>1, QueueAssumption DEF TypeOK, Pointers
  <2>3. Stored \in Nat /\ Stored <= new BY <2>1, <2>2 DEF LinkInv, Stored
  <2> QED BY <2>1, <2>2, <2>3
<1>1. Inserted = 1..Stored
  BY <1>0 DEF Inserted, Stored, LinkInv, TypeOK, PushPCs
<1>2. ASSUME head # 0 PROVE Chain = head..Stored
  <2>1. ASSUME NEW e \in head..new, \A f \in head..(e - 1) : next[f] = f + 1 PROVE e <= Stored
    <3>1. CASE e = head BY <1>0, <3>1 DEF LinkInv
    <3>2. CASE e # head
      <4>0. e \in Nat /\ head < e /\ e <= Connections /\ head \in Nat /\ head > 0 /\ Connections \in Nat
        BY <1>0, <1>2, <2>1, <3>2, QueueAssumption
      <4>1. e - 1 \in head..(e - 1) /\ e - 1 \in Entries BY ONLY <4>0 DEF Entries
      <4>2. next[e - 1] = (e - 1) + 1 BY <2>1, <4>1
      <4>3. next[e - 1] # 0 BY <1>0, <1>2, <2>1, <4>2
      <4>4. next[e - 1] <= Stored BY <1>0, <4>1, <4>3 DEF LinkInv
      <4> QED BY <1>0, <2>1, <4>2, <4>4
    <3> QED BY <3>1, <3>2
  <2>2. ASSUME NEW e \in head..Stored PROVE e \in head..new /\ \A f \in head..(e - 1) : next[f] = f + 1
    <3>1. \A f \in head..(e - 1) : f \in Entries /\ head <= f /\ f < Stored
      BY <1>0, <1>2, <2>2, QueueAssumption DEF Entries
    <3> QED BY <1>0, <1>2, <2>2, <3>1 DEF FullInv
  <2>3. Chain = {e \in head..new : \A f \in head..(e - 1) : next[f] = f + 1}
    BY <1>2 DEF Chain
  <2>4. \A e : e \in Chain <=> e \in head..Stored
    BY <1>0, <2>1, <2>2, <2>3
  <2> QED BY <2>4
<1> QED BY <1>1, <1>2 DEF Chain

\* A connection is lost only when its push overlapped a critical section of
\* queue_pop_connection: a push under access_mutex would lose none.
THEOREM LossOnlyByOverlap == Spec => []LossNeedsOverlap
<1>1. ASSUME IndInv, LossInv PROVE LossNeedsOverlap
  <2>1. CoverInv /\ Stored \in Nat /\ head \in Nat /\ (\A e \in 1..Stored : e \in Entries)
    <3>1. TypeOK /\ LinkInv BY <1>1 DEF IndInv
    <3> QED BY <1>1, <3>1, QueueAssumption DEF LossInv, TypeOK, Pointers, Entries, Stored, LinkInv
  <2>2. ASSUME NEW e \in Lost PROVE e \in overlap
    <3>1. e \in 1..Stored /\ e \notin Chain /\ e \notin PoppedSet
      BY <1>1, <2>2, ChainIs DEF Lost
    <3>2. ~(head # 0 /\ head <= e) BY <1>1, <2>1, <3>1, ChainIs
    <3> QED BY <2>1, <3>1, <3>2 DEF CoverInv
  <2> QED BY <2>2 DEF LossNeedsOverlap
<1> QED BY <1>1, LossInvHolds, PTL

\* The head entry is live memory, free() runs once per entry, and the unlocked
\* tail->next of queue_push_connection writes freed memory only in a push that
\* loses its connection.
THEOREM FreedWritesLose == Spec => []UafMeansLoss
<1>1. ASSUME IndInv, LossInv PROVE UafMeansLoss
  <2>0. TypeOK /\ LinkInv /\ HeadInv /\ FreeInv /\ UafInv BY <1>1 DEF IndInv, LossInv
  <2>1. head \notin freed
    <3>1. \A e \in PoppedSet : e # 0 /\ e \in Nat /\ (head # 0 => e < head)
      BY <1>1, PoppedBelow DEF Entries
    <3>2. head \in Nat BY <2>0 DEF TypeOK, Pointers
    <3> QED BY <2>0, <3>1, <3>2 DEF FreeInv
  <2>2. \A w \in Workers : wpc[w] = "free" => Freeing(w) BY <2>0 DEF HeadInv, Freeing
  <2>3. uaf => Lost # {}
    <3> SUFFICES ASSUME uaf PROVE Lost # {} OBVIOUS
    <3>1. PICK e \in Entries : e <= Stored /\ e \notin PoppedSet /\ (head = 0 \/ e < head)
      BY <2>0 DEF UafInv
    <3>2. head \in Nat /\ Stored \in Nat /\ e \in Nat /\ e > 0
      BY <2>0, QueueAssumption DEF TypeOK, Pointers, Entries, Stored, LinkInv
    <3>3. e \in 1..Stored /\ ~(e \in head..Stored /\ head # 0) BY <3>1, <3>2
    <3>4. e \in Inserted /\ e \notin Chain BY <1>1, <3>3, ChainIs
    <3> QED BY <3>1, <3>4 DEF Lost
  <2> QED BY <2>0, <2>1, <2>2, <2>3 DEF UafMeansLoss, FreeInv
<1> QED BY <1>1, LossInvHolds, PTL

-----------------------------------------------------------------------------
(* The refinement: the list, from its head to the last entry stored, is the   *)
(* queue of LossyQueue, and the entries stored are what was added.            *)

Span(h, s) == [i \in 1..(s - h + 1) |-> h + i - 1]

\* Whoever follows the list from its head meets the entries from head to the last one
\* stored.
LEMMA ChainSeqIs ==
  ASSUME IndInv, LossInv
  PROVE  /\ head = 0 => ChainSeq = <<>>
         /\ head # 0 => head <= Stored /\ ChainSeq = Span(head, Stored)
<1>0. TypeOK /\ LinkInv /\ head \in Nat /\ Stored \in Nat
  <2>1. TypeOK /\ LinkInv BY DEF IndInv
  <2>2. new \in Nat /\ head \in Nat BY <2>1 DEF TypeOK, Pointers
  <2> QED BY <2>1, <2>2 DEF LinkInv, Stored
<1>1. CASE head = 0
  <2>1. Chain = {} BY <1>1, ChainIs
  <2>2. Cardinality(Chain) = 0 BY <2>1, FS_EmptySet
  <2> QED BY <1>1, <2>2 DEF ChainSeq
<1>2. CASE head # 0
  <2>1. Chain = head..Stored /\ head <= Stored BY <1>0, <1>2, ChainIs DEF LinkInv
  <2>2. Cardinality(Chain) = Stored - head + 1
    BY <1>0, <2>1, FS_Interval
  <2> QED BY <1>2, <2>1, <2>2 DEF ChainSeq, Span
<1> QED BY <1>1, <1>2

\* Taking the head from a list of more than one, and adding to one, in terms of spans.
LEMMA SpanSteps ==
  ASSUME NEW h \in Nat, NEW s \in Nat, h <= s
  PROVE  /\ Span(h, s) # <<>> /\ Head(Span(h, s)) = h
         /\ Tail(Span(h, s)) = Span(h + 1, s)
         /\ Append(Span(h, s), s + 1) = Span(h, s + 1)
<1> DEFINE q == Span(h, s)
<1>1. q \in Seq(Nat) /\ Len(q) = s - h + 1 /\ s - h + 1 \in Nat /\ \A i \in 1..(s - h + 1) : q[i] = h + i - 1
  BY DEF Span
<1>2. Len(q) > 0 /\ q[1] = h BY <1>1
<1>3. q # <<>> /\ Head(q) = h BY <1>1, <1>2
<1>4. Tail(q) = Span(h + 1, s)
  <2> DEFINE t == Tail(q)
  <2>1. t \in Seq(Nat) /\ Len(t) = s - h /\ \A i \in 1..(s - h) : t[i] = q[i + 1]
    BY <1>1, <1>2
  <2> HIDE DEF t
  <2>2. \A i \in 1..(s - h) : t[i] = (h + 1) + i - 1 BY <1>1, <2>1
  <2>3. t = [i \in 1..(s - h) |-> (h + 1) + i - 1] BY <2>1, <2>2
  <2>4. s - (h + 1) + 1 = s - h OBVIOUS
  <2> QED BY <2>3, <2>4 DEF Span, t
<1>5. Append(q, s + 1) = Span(h, s + 1)
  <2>1. /\ Append(q, s + 1) \in Seq(Nat) /\ Len(Append(q, s + 1)) = s - h + 2
        /\ \A i \in 1..(s - h + 1) : Append(q, s + 1)[i] = q[i]
        /\ Append(q, s + 1)[s - h + 2] = s + 1
    BY <1>1
  <2>2. \A i \in 1..(s - h + 2) : Append(q, s + 1)[i] = h + i - 1 BY <1>1, <2>1
  <2>3. Append(q, s + 1) = [i \in 1..(s - h + 2) |-> h + i - 1] BY <2>1, <2>2
  <2>4. (s + 1) - h + 1 = s - h + 2 OBVIOUS
  <2> QED BY <2>3, <2>4 DEF Span
<1> QED BY <1>3, <1>4, <1>5

Added == IF InPush /\ ppc \notin {"setTailHead", "setTail"} THEN new - 1 ELSE new

\* An entry counts as added once it is stored.
LEMMA AddedIs == Added = Stored
BY DEF Added, Stored, InPush, PushPCs

\* Steps that store no entry and take none do not show.
LEMMA Stutters ==
  ASSUME IndInv, LossInv, IndInv', LossInv', UNCHANGED <<head, popped>>, Stored' = Stored
  PROVE  UNCHANGED <<ChainSeq, popped, Added>>
<1>1. ChainSeq' = ChainSeq
  <2>1. /\ head = 0 => ChainSeq = <<>>
        /\ head # 0 => ChainSeq = Span(head, Stored)
    BY ChainSeqIs
  <2>2. /\ head' = 0 => ChainSeq' = <<>>
        /\ head' # 0 => ChainSeq' = Span(head', Stored')
    <3>1. (IndInv /\ LossInv => /\ head = 0 => ChainSeq = <<>>
                                /\ head # 0 => ChainSeq = Span(head, Stored))'
      BY ChainSeqIs, PTL
    <3> QED BY <3>1 DEF Span
  <2> QED BY <2>1, <2>2
<1>2. Added' = Added BY AddedIs DEF Added, Stored, InPush, PushPCs
<1> QED BY <1>1, <1>2

\* The stores that put an entry into the list add it; if the list was emptied
\* since the push looked at it, they lose it.
LEMMA Adds ==
  ASSUME IndInv, LossInv, IndInv', LossInv', PushSetHead \/ PushLink
  PROVE  /\ Added < Connections /\ Added' = Added + 1
         /\ ChainSeq' \in {Append(ChainSeq, Added + 1), ChainSeq}
         /\ popped' = popped
<1>0. TypeOK /\ LinkInv /\ TailInv /\ new \in Nat /\ new > 0 /\ new <= Connections /\ head \in Nat
  <2>1. TypeOK /\ LinkInv /\ TailInv BY DEF IndInv
  <2> QED BY <2>1, QueueAssumption DEF PushSetHead, PushLink, TypeOK, Pointers, LinkInv
<1>1. Stored = new - 1 /\ Stored' = new /\ Stored \in Nat
  BY <1>0 DEF PushSetHead, PushLink, Stored
<1>2. Added = Stored /\ Added' = Stored'
  <2>1. (Added = Stored)' BY AddedIs, PTL
  <2> QED BY <2>1, AddedIs
<1>3. /\ head = 0 => ChainSeq = <<>>
      /\ head # 0 => head <= Stored /\ ChainSeq = Span(head, Stored)
  BY ChainSeqIs
<1>4. /\ head' = 0 => ChainSeq' = <<>>
      /\ head' # 0 => ChainSeq' = Span(head', Stored')
  <2>1. (IndInv /\ LossInv => /\ head = 0 => ChainSeq = <<>>
                              /\ head # 0 => ChainSeq = Span(head, Stored))'
    BY ChainSeqIs, PTL
  <2> QED BY <2>1 DEF Span
<1>a. Added < Connections /\ Added' = Added + 1 /\ Added + 1 = new /\ new # 0
  BY <1>0, <1>1, <1>2, QueueAssumption
<1>5. CASE PushSetHead
  <2>1. head = 0 /\ head' = new /\ popped' = popped BY <1>0, <1>5 DEF PushSetHead, TailInv, histVars
  <2>2. Span(new, new) = Append(<<>>, new) BY <1>0 DEF Span
  <2>3. ChainSeq' = Append(ChainSeq, Added + 1) BY <1>1, <1>3, <1>4, <1>a, <2>1, <2>2
  <2> QED BY <1>a, <2>1, <2>3
<1>6. CASE PushLink
  <2>1. head' = head /\ popped' = popped BY <1>6 DEF PushLink
  <2>2. CASE head = 0 BY <1>3, <1>4, <1>a, <2>1, <2>2
  <2>3. CASE head # 0
    <3>1. Append(Span(head, Stored), Stored + 1) = Span(head, Stored + 1) BY <1>0, <1>1, <1>3, <2>3, SpanSteps
    <3>2. Stored + 1 = Stored' BY <1>0, <1>1
    <3>3. ChainSeq' = Append(ChainSeq, Added + 1) BY <1>2, <1>3, <1>4, <2>1, <2>3, <3>1, <3>2
    <3> QED BY <1>a, <2>1, <3>3
  <2> QED BY <2>2, <2>3
<1> QED BY <1>5, <1>6

\* The store of the head takes the oldest entry; a copy of its next field that was
\* null and is not any more loses the entries behind it.
LEMMA Takes ==
  ASSUME IndInv, LossInv, IndInv', LossInv', NEW w \in Workers, PopStoreHead(w)
  PROVE  /\ ChainSeq # <<>> /\ popped' = Append(popped, Head(ChainSeq))
         /\ ChainSeq' \in {Tail(ChainSeq), <<>>}
         /\ Added' = Added
<1>0. TypeOK /\ HeadInv BY DEF IndInv
<1>1. /\ head \in Nat /\ head # 0 /\ entry[w] = head /\ Stored' = Stored /\ Added' = Added
      /\ head' = nxt[w] /\ popped' = Append(popped, entry[w])
  BY <1>0 DEF PopStoreHead, HeadInv, TypeOK, Pointers, Stored, Added, InPush, prodVars
<1>2. head <= Stored /\ ChainSeq = Span(head, Stored) BY <1>1, ChainSeqIs
<1>3. head' = 0 \/ head' = head + 1 BY <1>0, <1>1 DEF HeadInv, PopStoreHead
<1>4. /\ head' = 0 => ChainSeq' = <<>>
      /\ head' # 0 => ChainSeq' = Span(head', Stored')
  <2>1. (IndInv /\ LossInv => /\ head = 0 => ChainSeq = <<>>
                              /\ head # 0 => ChainSeq = Span(head, Stored))'
    BY ChainSeqIs, PTL
  <2> QED BY <2>1 DEF Span
<1>5. Stored \in Nat
  <2>1. LinkInv /\ new \in Nat BY DEF IndInv, TypeOK, Pointers
  <2> QED BY <2>1 DEF LinkInv, Stored
<1>6. ChainSeq # <<>> /\ Head(ChainSeq) = head /\ Tail(ChainSeq) = Span(head + 1, Stored)
  BY <1>1, <1>2, <1>5, SpanSteps
<1> QED BY <1>1, <1>3, <1>4, <1>6

\* The linked list of queue.c, a producer without the lock and any number of
\* workers, implements the FIFO of LossyQueue.tla: it never reorders and never
\* delivers twice; it loses the connection being added, or those behind the one
\* taken.
THEOREM RefinesLossyQueue == Spec => ImplementsLossyQueue
<1>1. Init => LQ!Init
  <2> SUFFICES ASSUME Init PROVE LQ!Init OBVIOUS
  <2>1. ChainSeq = <<>> BY InitInd, InitLoss, ChainSeqIs DEF Init
  <2> QED BY <2>1 DEF Init, LQ!Init, InPush, PushPCs
<1>2. IndInv /\ LossInv /\ (IndInv /\ LossInv)' /\ [Next]_vars => [LQ!Next]_(LQ!vars)
  <2> SUFFICES ASSUME IndInv, LossInv, IndInv', LossInv', [Next]_vars
               PROVE  [LQ!Next]_(LQ!vars)
    OBVIOUS
  <2>1. CASE PushSetHead \/ PushLink
    BY <2>1, Adds DEF LQ!Next, LQ!Add, Added
  <2>2. ASSUME NEW w \in Workers, PopStoreHead(w) PROVE LQ!Next
    BY <2>2, Takes DEF LQ!Next, LQ!Take, Added
  <2>3. CASE /\ UNCHANGED <<head, popped>> /\ Stored' = Stored
    BY <2>3, Stutters DEF LQ!vars, Added
  <2>4. CASE Producer /\ ~PushSetHead /\ ~PushLink
    <3>1. UNCHANGED <<head, popped>> /\ Stored' = Stored
      <4>1. new \in Nat BY DEF IndInv, TypeOK, Pointers
      <4> QED BY <2>4, <4>1 DEF Producer, Accept, PushTest, PushSetTailHead, PushReadTail, PushSetTail, SemPost,
                         Stored, listVars, histVars
    <3> QED BY <2>3, <3>1
  <2>5. ASSUME NEW w \in Workers, Worker(w), ~PopStoreHead(w) PROVE [LQ!Next]_(LQ!vars)
    <3>1. UNCHANGED <<head, popped>> /\ Stored' = Stored
      BY <2>5 DEF Worker, SemWait, PopLock, PopTest, PopReadNext, PopUnlock, PopFree, Serve,
                  Stored, listVars, prodVars, histVars
    <3> QED BY <2>3, <3>1
  <2>6. CASE UNCHANGED vars
    BY <2>3, <2>6 DEF vars, Stored
  <2> QED BY <2>1, <2>2, <2>4, <2>5, <2>6 DEF Next, Producer
<1> QED BY <1>1, <1>2, LossInvHolds, PTL DEF Spec, ImplementsLossyQueue, LQ!Spec
=============================================================================
