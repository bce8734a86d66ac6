------------------------------ MODULE Template ------------------------------
(***************************************************************************)
(* The template process of runner.c.  A worker that wants a watcher for    *)
(* its submission does not fork: it asks the template process to clone one *)
(* for it, over a shared memory segment whose first byte is a state letter *)
(* and whose rest carries the request one way and a pid the other way:     *)
(*                                                                         *)
(*     worker                         template (SIGUSR1 handler)           *)
(*     wait for S, kill SIGUSR1  -->  store R                              *)
(*     wait for R, request, K    -->  wait for K, clone the watcher        *)
(*     wait for R, read the pid  <--  pid, R                               *)
(*     store K                   -->  wait for K, R, and S from its loop   *)
(*                                                                         *)
(* Both sides busy-wait on the letter.  The data is written before the     *)
(* letter that announces it and read after it, so one step does both.      *)
(*                                                                         *)
(* The segment has a fixed key and outlives a daemon.  So does the template *)
(* of a daemon that ended without its handler (bind or accept failed, it   *)
(* was killed): such an orphan goes on storing S into the segment.         *)
(***************************************************************************)
EXTENDS Naturals, Sequences

CONSTANTS Workers,       \* the worker threads
          Requests,      \* bound: submissions that ask for a watcher
          NoWorker       \* the mutex is free

ASSUME TemplateAssumption == /\ Requests \in Nat
                             /\ NoWorker \notin Workers

VARIABLES
  shm,       \* template_shm[0]
  data,      \* the rest of the segment: a request or the pid of a watcher
  sig,       \* SIGUSR1 is pending for the template
  tpc,       \* the template's main loop
  hpc,       \* its signal handler; "none" when it is not running
  harg,      \* the request the handler read
  hres,      \* what the handler will answer: a pid, or 0 for "clone failed"
  spawned,   \* history: spawned[p] is the request watcher p was cloned for
  mutex,     \* holder of template_pipe_mutex
  wpc, req,  \* each worker: where it is, the number of its request
  got,       \* and the answer it read
  asked,     \* requests made so far
  orphan,    \* a template of an earlier daemon is alive
  stirred    \* history: it stored S into an exchange, or before the template's N

tplVars  == <<tpc, hpc, harg, hres, spawned>>
workVars == <<wpc, req, got, asked>>
orphVars == <<orphan, stirred>>
vars == <<shm, data, sig, tpc, hpc, harg, hres, spawned, mutex,
          wpc, req, got, asked, orphan, stirred>>

Arg(r) == [kind |-> "arg", id |-> r]
Pid(p) == [kind |-> "pid", id |-> p]   \* Pid(0) stands for the answer -2
Words  == [kind : {"arg", "pid"}, id : Nat]

TypeOK ==
  /\ shm \in {"INIT", "N", "S", "R", "K"}
  /\ data \in Words
  /\ sig \in BOOLEAN
  /\ tpc \in {"start", "log", "loop", "sleep", "dead"}
  /\ hpc \in {"none", "ready", "stuck", "waitArgs", "clone", "reply", "waitAck", "again"}
  /\ harg \in Nat /\ hres \in Nat
  /\ spawned \in Seq(Nat)
  /\ mutex \in Workers \cup {NoWorker}
  /\ wpc \in [Workers -> {"idle", "lock", "waitS", "kill", "waitR", "waitPid", "unlock"}]
  /\ req \in [Workers -> 0..Requests]
  /\ got \in [Workers -> Words]
  /\ asked \in 0..Requests
  /\ orphan \in BOOLEAN /\ stirred \in BOOLEAN

\* jug_runner_template_init: the segment says INIT and the template is cloned
\* before the accept loop can hand a submission to any worker.
Init ==
  /\ shm = "INIT" /\ data = Pid(0) /\ sig = FALSE
  /\ tpc = "start" /\ hpc = "none" /\ harg = 0 /\ hres = 0 /\ spawned = <<>>
  /\ mutex = NoWorker
  /\ wpc = [w \in Workers |-> "idle"]
  /\ req = [w \in Workers |-> 0]
  /\ got = [w \in Workers |-> Pid(0)]
  /\ asked = 0
  /\ orphan \in BOOLEAN /\ stirred = FALSE

-----------------------------------------------------------------------------
(* The template process: its loop, and the handler that interrupts it.     *)

\* The handler is installed, then the segment is attached.
TemplateStart ==
  /\ tpc = "start" /\ hpc = "none"
  /\ shm' = "N"
  /\ tpc' = "log"
  /\ UNCHANGED <<data, sig, hpc, harg, hres, spawned, mutex, workVars, orphVars>>

\* The loop logs first, and debugt allocates.  When sleep ended by itself the
\* letter is still the S of the round before.
TemplateLog ==
  /\ tpc = "log" /\ hpc = "none"
  /\ tpc' = "loop"
  /\ UNCHANGED <<shm, data, sig, hpc, harg, hres, spawned, mutex, workVars, orphVars>>

TemplateLoop ==
  /\ tpc = "loop" /\ hpc = "none"
  /\ shm' = "S"
  /\ tpc' = "sleep"
  /\ UNCHANGED <<data, sig, hpc, harg, hres, spawned, mutex, workVars, orphVars>>

\* sleep(8) ends, by itself or because a signal was handled.
TemplateWake ==
  /\ tpc = "sleep" /\ hpc = "none"
  /\ tpc' = "log"
  /\ UNCHANGED <<shm, data, sig, hpc, harg, hres, spawned, mutex, workVars, orphVars>>

\* SIGUSR1 is blocked while its handler runs.  The handler allocates first, and
\* malloc is not to be entered twice: when the signal meets debugt in it the
\* handler may wait for itself or abort, and in both cases answers nobody.
SignalDelivered ==
  /\ sig /\ hpc = "none" /\ tpc # "dead"
  /\ sig' = FALSE
  /\ \/ hpc' = "ready"
     \/ tpc \in {"start", "log"} /\ hpc' = "stuck"
  /\ UNCHANGED <<shm, data, tpc, harg, hres, spawned, mutex, workVars, orphVars>>

\* A signal that comes before the handler is installed ends the template.
SignalTooEarly ==
  /\ sig /\ hpc = "none" /\ tpc = "start"
  /\ sig' = FALSE
  /\ tpc' = "dead"
  /\ UNCHANGED <<shm, data, hpc, harg, hres, spawned, mutex, workVars, orphVars>>

HandlerReady ==
  /\ hpc = "ready"
  /\ shm' = "R"
  /\ hpc' = "waitArgs"
  /\ UNCHANGED <<data, sig, tpc, harg, hres, spawned, mutex, workVars, orphVars>>

\* Mutant of HandlerReadArgs: the request is read before the worker's K.
HandlerReadArgs_NoWait ==
  /\ hpc = "waitArgs"
  /\ harg' = data.id
  /\ hpc' = "clone"
  /\ UNCHANGED <<shm, data, sig, tpc, hres, spawned, mutex, workVars, orphVars>>

HandlerReadArgs ==
  /\ hpc = "waitArgs" /\ shm = "K"
  /\ harg' = data.id
  /\ hpc' = "clone"
  /\ UNCHANGED <<shm, data, sig, tpc, hres, spawned, mutex, workVars, orphVars>>

\* No memory for the stack: -1 goes to a pipe nobody reads and the handler
\* returns with the letter still K.
HandlerNoStack ==
  /\ hpc = "clone"
  /\ hpc' = "none"
  /\ UNCHANGED <<shm, data, sig, tpc, harg, hres, spawned, mutex, workVars, orphVars>>

\* Mutant of HandlerClone: the pid of a watcher that was cloned is forgotten.
HandlerClone_NoPid ==
  /\ hpc = "clone"
  /\ \/ spawned' = Append(spawned, harg)
     \/ UNCHANGED spawned
  /\ hres' = 0 /\ hpc' = "reply"
  /\ UNCHANGED <<shm, data, sig, tpc, harg, mutex, workVars, orphVars>>

\* clone() succeeds or fails.
HandlerClone ==
  /\ hpc = "clone"
  /\ \/ spawned' = Append(spawned, harg) /\ hres' = Len(spawned) + 1
     \/ hres' = 0 /\ UNCHANGED spawned
  /\ hpc' = "reply"
  /\ UNCHANGED <<shm, data, sig, tpc, harg, mutex, workVars, orphVars>>

HandlerReply ==
  /\ hpc = "reply"
  /\ data' = Pid(hres)
  /\ shm' = "R"
  /\ hpc' = "waitAck"
  /\ UNCHANGED <<sig, tpc, harg, hres, spawned, mutex, workVars, orphVars>>

HandlerAcked ==
  /\ hpc = "waitAck" /\ shm = "K"
  /\ hpc' = "again"
  /\ UNCHANGED <<shm, data, sig, tpc, harg, hres, spawned, mutex, workVars, orphVars>>

HandlerReturn ==
  /\ hpc = "again"
  /\ shm' = "R"
  /\ hpc' = "none"
  /\ UNCHANGED <<data, sig, tpc, harg, hres, spawned, mutex, workVars, orphVars>>

-----------------------------------------------------------------------------
(* A worker in jug_runner_template_clone. *)

AskWatcher(w) ==
  /\ wpc[w] = "idle" /\ asked < Requests
  /\ asked' = asked + 1
  /\ req' = [req EXCEPT ![w] = asked + 1]
  /\ wpc' = [wpc EXCEPT ![w] = "lock"]
  /\ UNCHANGED <<shm, data, sig, tplVars, mutex, got, orphVars>>

\* Mutant of Lock: two workers talk to the template at once.
Lock_NoMutex(w) ==
  /\ wpc[w] = "lock"
  /\ mutex' = w
  /\ wpc' = [wpc EXCEPT ![w] = "waitS"]
  /\ UNCHANGED <<shm, data, sig, tplVars, req, got, asked, orphVars>>

Lock(w) ==
  /\ wpc[w] = "lock" /\ mutex = NoWorker
  /\ mutex' = w
  /\ wpc' = [wpc EXCEPT ![w] = "waitS"]
  /\ UNCHANGED <<shm, data, sig, tplVars, req, got, asked, orphVars>>

SeeStart(w) ==
  /\ wpc[w] = "waitS" /\ shm = "S"
  /\ wpc' = [wpc EXCEPT ![w] = "kill"]
  /\ UNCHANGED <<shm, data, sig, tplVars, mutex, req, got, asked, orphVars>>

\* kill(template_pid, SIGUSR1), which fails only when there is no template.
Kill(w) ==
  /\ wpc[w] = "kill"
  /\ sig' = TRUE
  /\ wpc' = [wpc EXCEPT ![w] = "waitR"]
  /\ UNCHANGED <<shm, data, tplVars, mutex, req, got, asked, orphVars>>

SendArgs(w) ==
  /\ wpc[w] = "waitR" /\ shm = "R"
  /\ data' = Arg(req[w])
  /\ shm' = "K"
  /\ wpc' = [wpc EXCEPT ![w] = "waitPid"]
  /\ UNCHANGED <<sig, tplVars, mutex, req, got, asked, orphVars>>

ReadPid(w) ==
  /\ wpc[w] = "waitPid" /\ shm = "R"
  /\ got' = [got EXCEPT ![w] = data]
  /\ shm' = "K"
  /\ wpc' = [wpc EXCEPT ![w] = "unlock"]
  /\ UNCHANGED <<data, sig, tplVars, mutex, req, asked, orphVars>>

\* Mutant of Unlock: the function returns with the mutex locked.
Unlock_NoUnlock(w) ==
  /\ wpc[w] = "unlock"
  /\ wpc' = [wpc EXCEPT ![w] = "idle"]
  /\ UNCHANGED <<shm, data, sig, tplVars, mutex, req, got, asked, orphVars>>

Unlock(w) ==
  /\ wpc[w] = "unlock"
  /\ mutex' = NoWorker
  /\ wpc' = [wpc EXCEPT ![w] = "idle"]
  /\ UNCHANGED <<shm, data, sig, tplVars, req, got, asked, orphVars>>

-----------------------------------------------------------------------------
(* An orphan of an earlier daemon.                                         *)

\* Its S does harm when it overwrites the letter of an exchange, or stands for
\* the S of a template that is not there yet.
Stirs == tpc = "start" \/ hpc \notin {"none", "ready", "stuck"}

\* The orphan's loop; nobody signals it.
OrphanLoop ==
  /\ orphan
  /\ shm' = "S"
  /\ stirred' = (stirred \/ Stirs)
  /\ UNCHANGED <<data, sig, tplVars, mutex, workVars, orphan>>

-----------------------------------------------------------------------------
TemplateStep == TemplateStart \/ TemplateLog \/ TemplateLoop \/ TemplateWake \/ SignalDelivered
                \/ SignalTooEarly \/ HandlerReady \/ HandlerReadArgs \/ HandlerNoStack \/ HandlerClone
                \/ HandlerReply \/ HandlerAcked \/ HandlerReturn

WorkerStep(w) == AskWatcher(w) \/ Lock(w) \/ SeeStart(w) \/ Kill(w)
                 \/ SendArgs(w) \/ ReadPid(w) \/ Unlock(w)

Next == TemplateStep \/ OrphanLoop \/ \E w \in Workers : WorkerStep(w)

Spec == Init /\ [][Next]_vars

\* Fairness: both processes are scheduled, sleep ends, pending signals arrive.
\* A loop that is about to store S can be interrupted for ever only by
\* signals, and only a waiting worker sends them.
Fairness == /\ WF_vars(TemplateStart) /\ WF_vars(TemplateLog)
            /\ WF_vars(TemplateLoop) /\ WF_vars(TemplateWake)
            /\ WF_vars(SignalDelivered)
            /\ WF_vars(HandlerReady \/ HandlerReadArgs \/ HandlerClone \/ HandlerReply
                       \/ HandlerAcked \/ HandlerReturn)
            /\ \A w \in Workers : WF_vars(WorkerStep(w) /\ wpc[w] # "idle")

FairSpec == Spec /\ Fairness

-----------------------------------------------------------------------------
(* What the hand-shake must guarantee. *)

\* jug_runner_template_clone returns the pid of the watcher that was cloned for
\* this very submission, or the answer for a failed clone; also when an orphan
\* stores its S, as long as it misses the exchanges.
ReplyIsMine ==
  ~stirred =>
    \A w \in Workers : wpc[w] = "unlock" =>
      /\ got[w].kind = "pid"
      /\ got[w].id # 0 => got[w].id \in 1..Len(spawned) /\ spawned[got[w].id] = req[w]

\* No submission gets two watchers, and no watcher is cloned for what is not a
\* request, such as an answer left in the segment, under the same condition.
OneWatcherPerRequest ==
  ~stirred =>
    \A p \in 1..Len(spawned) :
      /\ spawned[p] \in 1..asked
      /\ \A q \in 1..Len(spawned) : spawned[p] = spawned[q] => p = q

\* A signal is only pending for the exchange of the worker that holds the
\* mutex, so no exchange starts with a leftover signal of an earlier one.
SignalHasOwner ==
  sig /\ ~stirred => \E w \in Workers : wpc[w] = "waitR" /\ mutex = w

\* How the hand-shake looks from outside: a worker is served from the clone on until
\* it returns, and its answer passes from the handler to the segment to the worker.
Stage(w) ==
  IF wpc[w] = "idle" THEN "idle"
  ELSE IF wpc[w] = "unlock" \/ (wpc[w] = "waitPid" /\ hpc \in {"reply", "waitAck"}) THEN "served"
  ELSE "asking"

Answer(w) ==
  IF wpc[w] = "waitPid" /\ hpc = "reply" THEN hres
  ELSE IF wpc[w] = "waitPid" /\ hpc = "waitAck" THEN data.id
  ELSE got[w].id

WS == INSTANCE WatcherServer WITH stage <- [w \in Workers |-> Stage(w)],
                                  answer <- [w \in Workers |-> Answer(w)],
                                  disturbed <- stirred

\* Letters, signals and busy loops together are a server of watchers: requests are
\* served one at a time, a watcher that is cloned is given to the worker that asked
\* for it, and to nobody else, until an orphan stores its S into an exchange.
ImplementsWatcherServer == WS!Spec

\* The template gave a request up: the handler has returned without an answer for
\* the worker that waits for one.
GivenUp == \E w \in Workers : wpc[w] = "waitPid" /\ hpc = "none"

\* The signal met the template in the allocator and its handler never went on.
Stuck == hpc = "stuck"

\* runner.h: jug_runner_template_clone returns a pid or a negative number; in
\* particular it returns, although both sides busy-wait and the template's loop
\* runs in between.  Two exceptions, after which the mutex stays with the worker
\* that asked and nobody gets a watcher again: without memory for the watcher's
\* stack the handler answers nobody, and neither does a handler that interrupted
\* the loop's debugt in malloc.  An orphan that misses the exchanges does not keep
\* a worker waiting.
EveryRequestReturns ==
  \A w \in Workers : wpc[w] = "lock" ~> (wpc[w] = "idle" \/ GivenUp \/ Stuck \/ stirred)
=============================================================================
