--------------------------- MODULE TemplateProofs ---------------------------
(***************************************************************************)
(* Proofs about the template hand-shake for every number of workers and    *)
(* submissions, with failing clones and failing allocations: a worker gets *)
(* the watcher that was cloned for its own submission, and no submission   *)
(* gets two, as long as no orphan stores its S into an exchange.  The      *)
(* invariant says which letters and data are possible at each point of it, *)
(* and so where the answer is: the whole implements WatcherServer.         *)
(***************************************************************************)
EXTENDS Template, TLAPS

Holding == {"waitS", "kill", "waitR", "waitPid", "unlock"}

\* The mutex is held by the one worker that is talking to the template.
MutexInv == \A w \in Workers : wpc[w] \in Holding <=> mutex = w

\* The answer p is right for worker w: a failed clone, or its own watcher.
Mine(w, p) == p # 0 => p \in 1..Len(spawned) /\ spawned[p] = req[w]

\* No worker is in the exchange: the handler has at most to finish.
QuietInv ==
  (\A w \in Workers : wpc[w] \notin {"kill", "waitR", "waitPid"}) =>
    /\ ~sig
    /\ hpc \in {"none", "waitAck", "again"}
    /\ hpc # "none" => shm = "K"
    /\ hpc = "none" => shm # "K"

\* The letter, the signal and the data at each point of the exchange.
ExchangeInv ==
  \A w \in Workers :
    /\ wpc[w] = "kill" => ~sig /\ hpc = "none" /\ shm = "S"
    /\ wpc[w] = "waitR" =>
         \/ sig /\ hpc = "none" /\ shm = "S"
         \/ ~sig /\ hpc \in {"ready", "stuck"} /\ shm = "S"
         \/ ~sig /\ hpc = "waitArgs" /\ shm = "R"
    /\ wpc[w] = "waitPid" => ~sig /\
         \/ hpc = "waitArgs" /\ shm = "K" /\ data = Arg(req[w])
         \/ hpc = "clone" /\ shm = "K" /\ harg = req[w]
         \/ hpc = "reply" /\ shm = "K" /\ Mine(w, hres)
         \/ hpc = "waitAck" /\ shm = "R" /\ data.kind = "pid" /\ Mine(w, data.id)
         \/ hpc = "none" /\ shm \in {"K", "S"}
    /\ wpc[w] = "unlock" => got[w].kind = "pid" /\ Mine(w, got[w].id)

\* The letter is S only once the template runs its loop.
StartInv == /\ tpc = "start" => shm = "INIT" /\ hpc = "none" /\ ~sig
            /\ tpc # "dead"

\* Requests in progress are distinct, and the template has not cloned yet for
\* one that it has not finished reading.
Pending(w) == \/ wpc[w] \in {"lock", "waitS", "kill", "waitR"}
              \/ wpc[w] = "waitPid" /\ hpc \in {"waitArgs", "clone"}

FreshInv ==
  /\ \A p \in 1..Len(spawned) : spawned[p] \in 1..asked
  /\ \A p, q \in 1..Len(spawned) : spawned[p] = spawned[q] => p = q
  /\ \A w \in Workers :
       /\ wpc[w] # "idle" => req[w] \in 1..asked
       /\ Pending(w) => \A p \in 1..Len(spawned) : spawned[p] # req[w]
       /\ \A v \in Workers : v # w /\ wpc[w] # "idle" /\ wpc[v] # "idle" => req[w] # req[v]

\* Everything is in phase.
PhaseInv == MutexInv /\ QuietInv /\ ExchangeInv /\ StartInv /\ FreshInv

\* The inductive invariant.
IndInv == TypeOK /\ (~stirred => PhaseInv)

\* The initial states satisfy the invariant.
LEMMA InitInd == Init => IndInv
<1> SUFFICES ASSUME Init PROVE IndInv
  OBVIOUS
<1> USE TemplateAssumption DEF Init
<1>1. TypeOK
  <2>1. spawned \in Seq(Nat) OBVIOUS
  <2>2. data \in Words /\ got \in [Workers -> Words] BY DEF Words, Pid
  <2>3. sig \in BOOLEAN /\ orphan \in BOOLEAN /\ stirred \in BOOLEAN OBVIOUS
  <2>4. wpc \in [Workers -> {"idle", "lock", "waitS", "kill", "waitR", "waitPid", "unlock"}]
    OBVIOUS
  <2> QED BY <2>1, <2>2, <2>3, <2>4 DEF TypeOK
<1>2. MutexInv BY DEF MutexInv, Holding
<1>3. QuietInv BY DEF QuietInv
<1>4. ExchangeInv BY DEF ExchangeInv
<1>5. StartInv BY DEF StartInv
<1>6. FreshInv BY DEF FreshInv, Pending
<1> QED BY <1>1, <1>2, <1>3, <1>4, <1>5, <1>6 DEF IndInv, PhaseInv

\* When the handler clones, it does so for the worker that waits for the pid.
LEMMA CloneFor ==
  ASSUME PhaseInv, hpc = "clone"
  PROVE  \E w \in Workers : wpc[w] = "waitPid" /\ harg = req[w]
BY DEF PhaseInv, QuietInv, ExchangeInv

\* Every step keeps the types.
LEMMA TypeStep == IndInv /\ [Next]_vars => TypeOK'
<1> SUFFICES ASSUME IndInv, [Next]_vars PROVE TypeOK'
  OBVIOUS
<1> USE TemplateAssumption DEF IndInv, TypeOK, Words, Arg, Pid, tplVars, workVars, orphVars
<1>1. CASE TemplateStart BY <1>1 DEF TemplateStart
<1>2. CASE TemplateLoop BY <1>2 DEF TemplateLoop
<1>3. CASE TemplateWake BY <1>3 DEF TemplateWake
<1>4. CASE SignalDelivered BY <1>4 DEF SignalDelivered
<1>5. CASE HandlerReady BY <1>5 DEF HandlerReady
<1>6. CASE HandlerReadArgs BY <1>6 DEF HandlerReadArgs
<1>7. CASE HandlerNoStack BY <1>7 DEF HandlerNoStack
<1>8. CASE HandlerClone
  <2>1. spawned' \in Seq(Nat) /\ hres' \in Nat
    <3>1. CASE spawned' = Append(spawned, harg) /\ hres' = Len(spawned) + 1
      BY ONLY <3>1, spawned \in Seq(Nat), harg \in Nat
    <3>2. CASE hres' = 0 /\ spawned' = spawned
      BY ONLY <3>2, spawned \in Seq(Nat)
    <3> QED BY <1>8, <3>1, <3>2 DEF HandlerClone
  <2> QED BY <1>8, <2>1 DEF HandlerClone
<1>9. CASE HandlerReply BY <1>9 DEF HandlerReply
<1>10. CASE HandlerAcked BY <1>10 DEF HandlerAcked
<1>11. CASE HandlerReturn BY <1>11 DEF HandlerReturn
<1>12. ASSUME NEW w \in Workers, WorkerStep(w) PROVE TypeOK'
  <2>1. CASE AskWatcher(w) BY <2>1 DEF AskWatcher
  <2>2. CASE Lock(w) BY <2>2 DEF Lock
  <2>3. CASE SeeStart(w) BY <2>3 DEF SeeStart
  <2>4. CASE Kill(w) BY <2>4 DEF Kill
  <2>5. CASE SendArgs(w) BY <2>5 DEF SendArgs
  <2>6. CASE ReadPid(w) BY <2>6 DEF ReadPid
  <2>7. CASE Unlock(w) BY <2>7 DEF Unlock
  <2> QED BY <1>12, <2>1, <2>2, <2>3, <2>4, <2>5, <2>6, <2>7 DEF WorkerStep
<1>13. CASE UNCHANGED vars BY <1>13 DEF vars
<1>14. CASE SignalTooEarly BY <1>14 DEF SignalTooEarly
<1>15. CASE TemplateLog BY <1>15 DEF TemplateLog
<1>16. CASE OrphanLoop
  <2>1. stirred' \in BOOLEAN BY ONLY <1>16, IndInv DEF OrphanLoop, Stirs, IndInv, TypeOK
  <2> QED BY <1>16, <2>1 DEF OrphanLoop
<1> QED BY <1>1, <1>2, <1>3, <1>4, <1>5, <1>6, <1>7, <1>8, <1>9, <1>10, <1>11, <1>12, <1>13, <1>14, <1>15, <1>16
        DEF Next, TemplateStep

\* A step of the template process keeps the exchange in phase.
LEMMA TemplateKeeps ==
  ASSUME TypeOK, PhaseInv, TemplateStep
  PROVE  PhaseInv'
<1> USE TemplateAssumption DEF TypeOK, PhaseInv, MutexInv, Holding, QuietInv, ExchangeInv,
        StartInv, FreshInv, Pending, Mine, workVars
<1>1. CASE TemplateStart BY <1>1 DEF TemplateStart
<1>2. CASE TemplateLoop BY <1>2 DEF TemplateLoop
<1>3. CASE TemplateWake BY <1>3 DEF TemplateWake
<1>4. CASE SignalDelivered BY <1>4 DEF SignalDelivered
<1>5. CASE HandlerReady BY <1>5 DEF HandlerReady
<1>6. CASE HandlerReadArgs BY <1>6 DEF HandlerReadArgs, Arg
<1>7. CASE HandlerNoStack BY <1>7 DEF HandlerNoStack
<1>8. CASE HandlerClone
  <2> USE <1>8 DEF HandlerClone
  <2>1. PICK w \in Workers : wpc[w] = "waitPid" /\ harg = req[w]
    BY CloneFor
  <2>2. \A v \in Workers : v # w => wpc[v] \in {"idle", "lock"}
    BY <2>1
  <2>3. MutexInv' /\ QuietInv' /\ StartInv'
    BY <2>1
  <2>4. CASE spawned' = Append(spawned, harg) /\ hres' = Len(spawned) + 1
    <3>1. Len(spawned') = Len(spawned) + 1 /\ Len(spawned) \in Nat
      BY <2>4
    <3>2. /\ \A p \in 1..Len(spawned) : spawned'[p] = spawned[p]
          /\ spawned'[Len(spawned) + 1] = req[w]
      BY <2>1, <2>4
    <3>3. \A p \in 1..Len(spawned) : spawned[p] # req[w]
      BY <2>1
    <3>4. ExchangeInv'
      BY <2>1, <2>2, <2>4, <3>1, <3>2
    <3>5. \A p, q \in 1..Len(spawned') : spawned'[p] = spawned'[q] => p = q
      BY ONLY PhaseInv, <3>1, <3>2, <3>3 DEF PhaseInv, FreshInv
    <3>6. \A v \in Workers : v # w => req[v] # req[w] \/ wpc[v] = "idle"
      BY <2>1
    <3>7. \A p \in 1..Len(spawned') : spawned'[p] \in 1..asked
      <4>1. req[w] \in 1..asked  BY ONLY PhaseInv, <2>1 DEF PhaseInv, FreshInv
      <4>2. \A p \in 1..Len(spawned) : spawned[p] \in 1..asked  BY ONLY PhaseInv DEF PhaseInv, FreshInv
      <4> QED BY ONLY <4>1, <4>2, <3>1, <3>2
    <3>8. \A v \in Workers : Pending(v)' => v # w /\ wpc[v] = "lock"
      BY <2>1, <2>2
    <3>9. \A v \in Workers : Pending(v)' => \A p \in 1..Len(spawned') : spawned'[p] # req[v]
      <4> SUFFICES ASSUME NEW v \in Workers, Pending(v)', NEW p \in 1..Len(spawned')
                   PROVE  spawned'[p] # req[v]
        OBVIOUS
      <4>1. v # w /\ wpc[v] = "lock" BY ONLY <3>8, Pending(v)'
      <4>2. \A q \in 1..Len(spawned) : spawned[q] # req[v] BY <4>1
      <4> QED BY ONLY <4>1, <4>2, <3>1, <3>2, <3>6
    <3>10. FreshInv'
      BY ONLY PhaseInv, <1>8, <3>5, <3>7, <3>9
         DEF PhaseInv, FreshInv, HandlerClone, workVars
    <3> QED BY <2>3, <3>4, <3>10
  <2>5. CASE hres' = 0 /\ UNCHANGED spawned
    BY <2>1, <2>2, <2>3, <2>5
  <2> QED BY <2>4, <2>5
<1>9. CASE HandlerReply BY <1>9 DEF HandlerReply, Pid
<1>10. CASE HandlerAcked BY <1>10 DEF HandlerAcked
<1>11. CASE HandlerReturn BY <1>11 DEF HandlerReturn
<1>12. CASE SignalTooEarly BY <1>12 DEF SignalTooEarly
<1>13. CASE TemplateLog BY <1>13 DEF TemplateLog
<1> QED BY <1>1, <1>2, <1>3, <1>4, <1>5, <1>6, <1>7, <1>8, <1>9, <1>10, <1>11, <1>12, <1>13 DEF TemplateStep

\* So does a step of a worker.
LEMMA WorkerKeeps ==
  ASSUME TypeOK, PhaseInv, NEW w \in Workers, WorkerStep(w)
  PROVE  PhaseInv'
<1> USE TemplateAssumption DEF TypeOK, PhaseInv, MutexInv, Holding, QuietInv, ExchangeInv,
        StartInv, FreshInv, Pending, Mine, tplVars
<1>1. CASE AskWatcher(w) BY <1>1 DEF AskWatcher
<1>2. CASE Lock(w) BY <1>2 DEF Lock
<1>3. CASE SeeStart(w) BY <1>3 DEF SeeStart
<1>4. CASE Kill(w) BY <1>4 DEF Kill
<1>5. CASE SendArgs(w) BY <1>5 DEF SendArgs, Arg
<1>6. CASE ReadPid(w) BY <1>6 DEF ReadPid
<1>7. CASE Unlock(w) BY <1>7 DEF Unlock
<1> QED BY <1>1, <1>2, <1>3, <1>4, <1>5, <1>6, <1>7 DEF WorkerStep

\* And an S of the orphan that does not stir: the letter is S already, or nobody
\* is about to read another one.
LEMMA OrphanKeeps ==
  ASSUME TypeOK, PhaseInv, OrphanLoop, ~Stirs
  PROVE  PhaseInv'
BY TemplateAssumption DEF TypeOK, PhaseInv, MutexInv, Holding, QuietInv, ExchangeInv, StartInv,
   FreshInv, Pending, Mine, OrphanLoop, Stirs, tplVars, workVars

\* The invariant is inductive.
THEOREM IndInvHolds == Spec => []IndInv
<1>1. IndInv /\ [Next]_vars => IndInv'
  <2> SUFFICES ASSUME IndInv, [Next]_vars PROVE IndInv'
    OBVIOUS
  <2>1. TypeOK' BY TypeStep
  <2>2. SUFFICES ASSUME ~stirred' PROVE PhaseInv'
    BY <2>1 DEF IndInv
  <2>3. CASE UNCHANGED vars
    BY <2>2, <2>3 DEF IndInv, PhaseInv, vars, MutexInv, QuietInv, ExchangeInv, StartInv,
       FreshInv, Pending, Mine
  <2>4. CASE TemplateStep
    <3>1. stirred' = stirred
      BY <2>4 DEF TemplateStep, TemplateStart, TemplateLog, TemplateLoop, TemplateWake, SignalDelivered,
         SignalTooEarly, HandlerReady, HandlerReadArgs, HandlerNoStack, HandlerClone, HandlerReply,
         HandlerAcked, HandlerReturn, orphVars
    <3> QED BY <2>2, <2>4, <3>1, TemplateKeeps DEF IndInv
  <2>5. CASE OrphanLoop
    <3>1. ~stirred /\ ~Stirs
      BY <2>2, <2>5 DEF OrphanLoop
    <3> QED BY <2>5, <3>1, OrphanKeeps DEF IndInv
  <2>6. ASSUME NEW w \in Workers, WorkerStep(w) PROVE PhaseInv'
    <3>1. stirred' = stirred
      BY <2>6 DEF WorkerStep, AskWatcher, Lock, SeeStart, Kill, SendArgs, ReadPid, Unlock, orphVars
    <3> QED BY <2>2, <2>6, <3>1, WorkerKeeps DEF IndInv
  <2> QED BY <2>3, <2>4, <2>5, <2>6 DEF Next
<1> QED BY InitInd, <1>1, PTL DEF Spec

\* Every variable of the hand-shake keeps its type.
THEOREM TypeCorrect == Spec => []TypeOK
BY IndInvHolds, PTL DEF IndInv

\* jug_runner_template_clone returns the watcher cloned for the caller's own
\* submission, or the answer of a failed clone, for any number of workers, unless
\* an orphan stored its S into an exchange.
THEOREM RepliesAreMine == Spec => []ReplyIsMine
<1>1. IndInv => ReplyIsMine BY DEF IndInv, PhaseInv, ExchangeInv, ReplyIsMine, Mine
<1> QED BY IndInvHolds, <1>1, PTL

\* The template never clones two watchers for one submission, nor one for
\* anything else, under the same condition.
THEOREM WatchersAreUnique == Spec => []OneWatcherPerRequest
<1>1. IndInv => OneWatcherPerRequest BY DEF IndInv, PhaseInv, FreshInv, OneWatcherPerRequest
<1> QED BY IndInvHolds, <1>1, PTL

\* SIGUSR1 is only pending for the exchange of the worker holding the mutex.
THEOREM SignalsHaveOwners == Spec => []SignalHasOwner
<1>1. IndInv => SignalHasOwner
  BY DEF IndInv, PhaseInv, QuietInv, ExchangeInv, MutexInv, Holding, SignalHasOwner
<1> QED BY IndInvHolds, <1>1, PTL

-----------------------------------------------------------------------------
(* The hand-shake implements WatcherServer.                                *)

\* A step that changes no stage and no answer is none of the server.
LEMMA Stutters ==
  ASSUME UNCHANGED <<req, spawned, asked, stirred>>,
         \A w \in Workers : Stage(w)' = Stage(w) /\ Answer(w)' = Answer(w)
  PROVE  UNCHANGED WS!vars
<1>1. [w \in Workers |-> Stage(w)]' = [w \in Workers |-> Stage(w)]  OBVIOUS
<1>2. [w \in Workers |-> Answer(w)]' = [w \in Workers |-> Answer(w)]  OBVIOUS
<1>. QED  BY <1>1, <1>2 DEF WS!vars

\* The loop of the template, and the handler but for the clone, are not seen.
LEMMA TemplateUnseen ==
  ASSUME IndInv, ~stirred, TemplateStep, ~HandlerClone
  PROVE  UNCHANGED WS!vars
<1>0. TypeOK /\ PhaseInv  BY DEF IndInv
<1>1. CASE /\ UNCHANGED <<data, hpc, hres, spawned, mutex, workVars, orphVars>>
  <2>1. \A w \in Workers : Stage(w)' = Stage(w) /\ Answer(w)' = Answer(w)
    BY <1>1 DEF Stage, Answer, workVars
  <2>. QED  BY <1>1, <2>1, Stutters DEF workVars, orphVars
<1>2. CASE /\ hpc \notin {"reply", "waitAck"} /\ hpc' \notin {"reply", "waitAck"}
           /\ UNCHANGED <<data, hres, spawned, workVars, orphVars>>
  <2>1. \A w \in Workers : Stage(w)' = Stage(w) /\ Answer(w)' = Answer(w)
    BY <1>2 DEF Stage, Answer, workVars
  <2>. QED  BY <1>2, <2>1, Stutters DEF workVars, orphVars
<1>3. CASE HandlerReply
  <2>1. ASSUME NEW w \in Workers PROVE Stage(w)' = Stage(w) /\ Answer(w)' = Answer(w)
    BY <1>3 DEF HandlerReply, Stage, Answer, Pid, workVars
  <2>. QED  BY <1>3, <2>1, Stutters DEF HandlerReply, workVars, orphVars
<1>4. CASE HandlerAcked
  <2>1. ASSUME NEW w \in Workers PROVE Stage(w)' = Stage(w) /\ Answer(w)' = Answer(w)
    <3>1. wpc[w] # "waitPid"  BY <1>0, <1>4 DEF HandlerAcked, PhaseInv, ExchangeInv
    <3>. QED  BY <1>4, <3>1 DEF HandlerAcked, Stage, Answer, workVars
  <2>. QED  BY <1>4, <2>1, Stutters DEF HandlerAcked, workVars, orphVars
<1>5. CASE TemplateStart \/ TemplateLog \/ TemplateLoop \/ TemplateWake \/ SignalTooEarly
  BY <1>1, <1>5 DEF TemplateStart, TemplateLog, TemplateLoop, TemplateWake, SignalTooEarly
<1>6. CASE SignalDelivered  BY <1>2, <1>6 DEF SignalDelivered
<1>7. CASE HandlerReady  BY <1>2, <1>7 DEF HandlerReady
<1>8. CASE HandlerReadArgs  BY <1>2, <1>8 DEF HandlerReadArgs
<1>9. CASE HandlerNoStack  BY <1>2, <1>9 DEF HandlerNoStack
<1>10. CASE HandlerReturn  BY <1>2, <1>10 DEF HandlerReturn
<1>. QED  BY <1>3, <1>4, <1>5, <1>6, <1>7, <1>8, <1>9, <1>10 DEF TemplateStep

\* Asking and returning are seen, the worker's other steps are not.
LEMMA WorkerSeen ==
  ASSUME IndInv, ~stirred, NEW w \in Workers, WorkerStep(w)
  PROVE  WS!Ask(w) \/ WS!Return(w) \/ UNCHANGED WS!vars
<1>0. TypeOK /\ PhaseInv  BY DEF IndInv
<1> DEFINE stage == [v \in Workers |-> Stage(v)]
           answer == [v \in Workers |-> Answer(v)]
<1>1. ASSUME NEW l, wpc' = [wpc EXCEPT ![w] = l], UNCHANGED <<data, hpc, hres, got>>, wpc[w] # "waitPid", l # "waitPid"
      PROVE  /\ answer' = answer
             /\ stage' = [stage EXCEPT ![w] = Stage(w)'] /\ stage[w] = Stage(w)
  <2>1. \A v \in Workers : wpc'[v] = IF v = w THEN l ELSE wpc[v]  BY <1>0, <1>1 DEF TypeOK
  <2>2. \A v \in Workers : Answer(v)' = Answer(v)  BY <1>1, <2>1 DEF Answer
  <2>3. \A v \in Workers : v # w => Stage(v)' = Stage(v)  BY <1>1, <2>1 DEF Stage
  <2>. QED  BY <2>2, <2>3
<1>2. CASE AskWatcher(w)
  <2>1. wpc[w] = "idle" /\ wpc' = [wpc EXCEPT ![w] = "lock"] /\ UNCHANGED <<data, hpc, hres, got>>
    BY <1>2 DEF AskWatcher, tplVars
  <2>2. Stage(w) = "idle" /\ Stage(w)' = "asking"  BY <1>0, <2>1 DEF Stage, TypeOK
  <2>3. answer' = answer /\ stage' = [stage EXCEPT ![w] = "asking"] /\ stage[w] = "idle"  BY <1>1, <2>1, <2>2
  <2>. QED  BY <1>2, <2>3 DEF AskWatcher, tplVars, orphVars, WS!Ask
<1>3. CASE Unlock(w)
  <2>1. wpc[w] = "unlock" /\ wpc' = [wpc EXCEPT ![w] = "idle"] /\ UNCHANGED <<data, hpc, hres, got>>
    BY <1>3 DEF Unlock, tplVars
  <2>2. Stage(w) = "served" /\ Stage(w)' = "idle"  BY <1>0, <2>1 DEF Stage, TypeOK
  <2>3. answer' = answer /\ stage' = [stage EXCEPT ![w] = "idle"] /\ stage[w] = "served"  BY <1>1, <2>1, <2>2
  <2>. QED  BY <1>3, <2>3 DEF Unlock, tplVars, orphVars, WS!Return
<1>4. CASE Lock(w) \/ SeeStart(w) \/ Kill(w)
  <2>1. PICK l \in {"waitS", "kill", "waitR"} :
          /\ wpc[w] \in {"lock", "waitS", "kill"} /\ wpc' = [wpc EXCEPT ![w] = l]
          /\ UNCHANGED <<data, hpc, hres, got, req, spawned, asked, stirred>>
    BY <1>4 DEF Lock, SeeStart, Kill, tplVars, orphVars
  <2>2. ASSUME NEW v \in Workers PROVE Stage(v)' = Stage(v) /\ Answer(v)' = Answer(v)
    <3>1. wpc'[v] = IF v = w THEN l ELSE wpc[v]  BY <1>0, <2>1 DEF TypeOK
    <3>. QED  BY <2>1, <3>1 DEF Stage, Answer
  <2>. QED  BY <2>1, <2>2, Stutters
<1>5. CASE SendArgs(w)
  <2>1. hpc = "waitArgs"  BY <1>0, <1>5 DEF SendArgs, PhaseInv, ExchangeInv
  <2>2. ASSUME NEW v \in Workers PROVE Stage(v)' = Stage(v) /\ Answer(v)' = Answer(v)
    <3>1. wpc'[v] = IF v = w THEN "waitPid" ELSE wpc[v]  BY <1>0, <1>5 DEF TypeOK, SendArgs
    <3>. QED  BY <1>5, <2>1, <3>1 DEF SendArgs, Stage, Answer, tplVars
  <2>. QED  BY <1>5, <2>2, Stutters DEF SendArgs, tplVars, orphVars
<1>6. CASE ReadPid(w)
  <2>1. hpc = "waitAck"  BY <1>0, <1>6 DEF ReadPid, PhaseInv, ExchangeInv
  <2>2. ASSUME NEW v \in Workers PROVE Stage(v)' = Stage(v) /\ Answer(v)' = Answer(v)
    <3>1. /\ wpc'[v] = IF v = w THEN "unlock" ELSE wpc[v]
          /\ got'[v] = IF v = w THEN data ELSE got[v]
      BY <1>0, <1>6 DEF TypeOK, ReadPid
    <3>. QED  BY <1>6, <2>1, <3>1 DEF ReadPid, Stage, Answer, tplVars
  <2>. QED  BY <1>6, <2>2, Stutters DEF ReadPid, tplVars, orphVars
<1>. QED  BY <1>2, <1>3, <1>4, <1>5, <1>6 DEF WorkerStep

\* The clone serves the worker that waits for the pid.
LEMMA CloneServes ==
  ASSUME IndInv, ~stirred, HandlerClone
  PROVE  \E w \in Workers : WS!Serve(w)
<1>0. TypeOK /\ PhaseInv /\ hpc = "clone" /\ hpc' = "reply"  BY DEF IndInv, HandlerClone
<1>1. PICK w \in Workers : wpc[w] = "waitPid" /\ harg = req[w]  BY <1>0, CloneFor
<1> DEFINE stage == [v \in Workers |-> Stage(v)]
           answer == [v \in Workers |-> Answer(v)]
<1>2. \A v \in Workers : v # w => wpc[v] \notin {"waitPid", "unlock"}
  BY <1>0, <1>1 DEF PhaseInv, MutexInv, Holding
<1>3. UNCHANGED <<wpc, req, got, data, asked, stirred>>  BY DEF HandlerClone, workVars, orphVars
<1>4. \A v \in Workers : /\ Stage(v) # "served"
                         /\ Stage(v)' = IF v = w THEN "served" ELSE Stage(v)
                         /\ Answer(v)' = IF v = w THEN hres' ELSE Answer(v)
  BY <1>0, <1>1, <1>2, <1>3 DEF Stage, Answer
<1>5. Stage(w) = "asking"  BY <1>0, <1>1 DEF Stage
<1>6. stage' = [stage EXCEPT ![w] = "served"] /\ answer' = [answer EXCEPT ![w] = hres']
  BY <1>4
<1>7. stage[w] = "asking" /\ \A v \in Workers : stage[v] # "served"  BY <1>4, <1>5
<1>8. \/ spawned' = Append(spawned, req[w]) /\ hres' = Len(spawned) + 1
      \/ hres' = 0 /\ spawned' = spawned
  BY <1>1 DEF HandlerClone
<1>9. WS!Serve(w)  BY <1>3, <1>6, <1>7, <1>8 DEF WS!Serve
<1>. QED  BY <1>9

\* Letters, signals and busy loops implement a server of watchers: requests are
\* served one at a time, and each watcher that is cloned is given to the worker that
\* asked for it, until an orphan stores its S into an exchange.
THEOREM RefinesWatcherServer == Spec => ImplementsWatcherServer
<1>1. Init => WS!Init
  <2> SUFFICES ASSUME Init PROVE WS!Init  OBVIOUS
  <2>1. \A w \in Workers : Stage(w) = "idle" /\ Answer(w) = 0  BY DEF Init, Stage, Answer, Pid
  <2>. QED  BY <2>1 DEF Init, WS!Init
<1>2. IndInv /\ IndInv' /\ [Next]_vars => [WS!Next]_(WS!vars)
  <2> SUFFICES ASSUME IndInv, IndInv', [Next]_vars PROVE WS!Next \/ UNCHANGED WS!vars  OBVIOUS
  <2>0. stirred' \in BOOLEAN /\ stirred \in BOOLEAN  BY DEF IndInv, TypeOK
  <2>1. CASE stirred'  BY <2>0, <2>1 DEF WS!Next, WS!Disturbed
  <2>2. CASE ~stirred' /\ TemplateStep
    <3>1. ~stirred
      BY <2>2 DEF TemplateStep, TemplateStart, TemplateLog, TemplateLoop, TemplateWake, SignalDelivered, SignalTooEarly,
                  HandlerReady, HandlerReadArgs, HandlerNoStack, HandlerClone, HandlerReply, HandlerAcked,
                  HandlerReturn, orphVars
    <3>. QED  BY <2>2, <3>1, TemplateUnseen, CloneServes DEF WS!Next
  <2>3. CASE ~stirred' /\ OrphanLoop
    <3>1. \A w \in Workers : Stage(w)' = Stage(w) /\ Answer(w)' = Answer(w)
      BY <2>3 DEF OrphanLoop, Stage, Answer, tplVars, workVars
    <3>2. stirred' = stirred  BY <2>0, <2>3 DEF OrphanLoop
    <3>. QED  BY <2>3, <3>1, <3>2, Stutters DEF OrphanLoop, tplVars, workVars
  <2>4. ASSUME ~stirred', NEW w \in Workers, WorkerStep(w) PROVE WS!Next \/ UNCHANGED WS!vars
    <3>1. ~stirred
      BY <2>4 DEF WorkerStep, AskWatcher, Lock, SeeStart, Kill, SendArgs, ReadPid, Unlock, orphVars
    <3>. QED  BY <2>4, <3>1, WorkerSeen DEF WS!Next
  <2>5. CASE UNCHANGED vars
    <3>1. \A w \in Workers : Stage(w)' = Stage(w) /\ Answer(w)' = Answer(w)  BY <2>5 DEF vars, Stage, Answer
    <3>. QED  BY <2>5, <3>1, Stutters DEF vars
  <2>. QED  BY <2>1, <2>2, <2>3, <2>4, <2>5 DEF Next
<1>. QED  BY <1>1, <1>2, IndInvHolds, PTL DEF Spec, ImplementsWatcherServer, WS!Spec
=============================================================================
