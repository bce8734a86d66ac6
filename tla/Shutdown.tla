------------------------------ MODULE Shutdown -------------------------------
(***************************************************************************)
(* The daemon goes down (kjd_sighandler in kudosd.c): SIGINT interrupts    *)
(* the accept loop wherever it is; the handler cancels and joins the       *)
(* workers one after the other (queue_stop_workers), kills the template    *)
(* (jug_runner_stop), removes the pid file and exits.  The workers are in  *)
(* the middle of their work.  A cancelled thread ends at its next          *)
(* cancellation point: sem_wait, recv, read, waitpid are such points,      *)
(* pthread_mutex_lock, the busy loops on the shared letter and the loop of *)
(* sendfile are not, and POSIX lets fprintf and fflush, which debugt       *)
(* calls, be one.                                                          *)
(*                                                                         *)
(* Names that Daemon defines too are prefixed here, so that one module can *)
(* extend both.                                                            *)
(***************************************************************************)
EXTENDS Naturals, FiniteSets

CONSTANTS NumWorkers,     \* g_num_worker_threads
          MaxJobs         \* bound on the connections served

ASSUME ShutdownAssumption == NumWorkers \in Nat /\ MaxJobs \in Nat

Workers == 1..NumWorkers
None == 0

VARIABLES
  wpc,        \* each worker: control
  cancelled,  \* workers with a pending pthread_cancel
  owner,      \* template_pipe_mutex: the worker that took it, or None
  template,   \* the template process is alive
  watchers,   \* workers whose watcher process runs
  main,       \* the main thread: control
  next,       \* the worker the loop of queue_stop_workers has come to
  jobs,       \* connections handed to workers so far
  sender,     \* the command that sent SIGINT, or "none"
  pidFile     \* /tmp/kudosd-pid exists

shutdownVars == <<wpc, cancelled, owner, template, watchers, main, next, jobs, sender, pidFile>>

TypeOK ==
  /\ wpc \in [Workers -> {"wait", "receive", "lock", "debug", "exchange", "mute", "run", "flush",
                       "spin", "gone"}]
  /\ cancelled \subseteq Workers /\ owner \in Workers \cup {None}
  /\ template \in BOOLEAN /\ watchers \subseteq Workers
  /\ main \in {"accept", "heap", "stuck", "cancel", "join", "runner", "unlink", "exit", "gone"}
  /\ next \in 1..(NumWorkers + 1) /\ jobs \in 0..MaxJobs
  /\ sender \in {"none", "stop", "restart"} /\ pidFile \in BOOLEAN

ShutdownInit ==
  /\ wpc = [w \in Workers |-> "wait"] /\ cancelled = {}
  /\ owner = None /\ template = TRUE /\ watchers = {}
  /\ main = "accept" /\ next = 1 /\ jobs = 0
  /\ sender = "none" /\ pidFile = TRUE

-----------------------------------------------------------------------------
(* A worker: queue_worker_main, queue_worker_serv, jug_runner_run.         *)

Up == main # "gone"
SendTo(w, l) == wpc' = [wpc EXCEPT ![w] = l]

\* sem_wait returns with a connection.
Take(w) ==
  /\ Up /\ wpc[w] = "wait" /\ jobs < MaxJobs
  /\ SendTo(w, "receive") /\ jobs' = jobs + 1
  /\ UNCHANGED <<cancelled, owner, template, watchers, main, next, sender, pidFile>>

\* The request is received, decoded and compiled.
Receive(w) ==
  /\ Up /\ wpc[w] = "receive"
  /\ \/ SendTo(w, "lock")
     \/ SendTo(w, "wait")   \* a bad request or a compile error is answered
  /\ UNCHANGED <<cancelled, owner, template, watchers, main, next, jobs, sender, pidFile>>

\* jug_runner_template_clone: the mutex, then the template's 'S'.
Lock(w) ==
  /\ Up /\ wpc[w] = "lock" /\ owner = None
  /\ SendTo(w, "debug") /\ owner' = w
  /\ UNCHANGED <<cancelled, template, watchers, main, next, jobs, sender, pidFile>>

\* debugt("SHM-T", ...) writes to stderr with the mutex held.
Debug(w) ==
  /\ Up /\ wpc[w] = "debug"
  /\ SendTo(w, "exchange")
  /\ UNCHANGED <<cancelled, owner, template, watchers, main, next, jobs, sender, pidFile>>

\* SIGUSR1, the arguments, the watcher's pid: busy loops that only the template
\* ends.  Its handler returns without an answer when it has no memory for the
\* watcher's stack, and may wait for itself in malloc: the worker spins for ever,
\* the mutex in its hands.
Exchange(w) ==
  /\ Up /\ wpc[w] = "exchange" /\ template
  /\ \/ SendTo(w, "run") /\ owner' = None /\ watchers' = watchers \cup {w}
     \/ SendTo(w, "mute") /\ UNCHANGED <<owner, watchers>>
  /\ UNCHANGED <<cancelled, template, main, next, jobs, sender, pidFile>>

\* The loop of jug_runner_run ends with the watcher, then out_pipe is emptied,
\* and what is left of the input goes to the pipe in a loop of sendfile.
Run(w) ==
  /\ Up /\ wpc[w] = "run" /\ w \notin watchers
  /\ SendTo(w, "flush")
  /\ UNCHANGED <<cancelled, owner, template, watchers, main, next, jobs, sender, pidFile>>

\* That loop goes on for ever when the rest does not fit into the pipe, which the
\* dead binary no longer empties.
Flush(w) ==
  /\ Up /\ wpc[w] = "flush"
  /\ SendTo(w, "wait") \/ SendTo(w, "spin")
  /\ UNCHANGED <<cancelled, owner, template, watchers, main, next, jobs, sender, pidFile>>

\* The watcher ends by itself, its alarm at the latest.
WatcherEnds(w) ==
  /\ w \in watchers
  /\ watchers' = watchers \ {w}
  /\ UNCHANGED <<wpc, cancelled, owner, template, main, next, jobs, sender, pidFile>>

\* Mutant of CancellationPoint: a worker that waits for a connection is not ended.
CancellationPoint_NotWaiting(w) == wpc[w] \in {"receive", "debug", "run"}

\* A pending cancellation is acted upon; no cleanup handler is installed.
CancellationPoint(w) ==
  wpc[w] \in {"wait", "receive", "debug", "run"}

Die(w) ==
  /\ Up /\ w \in cancelled /\ CancellationPoint(w)
  /\ SendTo(w, "gone")
  /\ UNCHANGED <<cancelled, owner, template, watchers, main, next, jobs, sender, pidFile>>

-----------------------------------------------------------------------------
(* The main thread.                                                        *)

\* The accept loop logs and allocates.
MainAllocates ==
  /\ main = "accept" /\ main' = "heap"
  /\ UNCHANGED <<wpc, cancelled, owner, template, watchers, next, jobs, sender, pidFile>>

MainFrees ==
  /\ main = "heap" /\ main' = "accept"
  /\ UNCHANGED <<wpc, cancelled, owner, template, watchers, next, jobs, sender, pidFile>>

\* A command sends SIGINT.  kjd_sighandler begins with kjd_log, which calls
\* malloc: in the middle of another malloc of this thread it may wait for itself.
Interrupt ==
  /\ main \in {"accept", "heap"}
  /\ main' \in IF main = "heap" THEN {"stuck", "cancel"} ELSE {"cancel"}
  /\ sender' \in {"stop", "restart"}
  /\ UNCHANGED <<wpc, cancelled, owner, template, watchers, next, jobs, pidFile>>

\* stop does not wait for the handler: it removes the pid file itself.
StopUnlinks ==
  /\ sender = "stop" /\ pidFile
  /\ pidFile' = FALSE
  /\ UNCHANGED <<wpc, cancelled, owner, template, watchers, main, next, jobs, sender>>

\* Mutant of Cancel: the workers are cancelled and not joined.
Cancel_NoJoin ==
  /\ main = "cancel"
  /\ \/ next \in Workers /\ cancelled' = cancelled \cup {next} /\ next' = next + 1 /\ main' = main
     \/ next \notin Workers /\ main' = "runner" /\ next' = next /\ UNCHANGED cancelled
  /\ UNCHANGED <<wpc, owner, template, watchers, jobs, sender, pidFile>>

\* queue_stop_workers: pthread_cancel and pthread_join for each worker in turn.
Cancel ==
  /\ main = "cancel"
  /\ \/ next \in Workers /\ cancelled' = cancelled \cup {next} /\ main' = "join"
     \/ next \notin Workers /\ main' = "runner" /\ UNCHANGED cancelled
  /\ UNCHANGED <<wpc, owner, template, watchers, next, jobs, sender, pidFile>>

Join ==
  /\ main = "join" /\ wpc[next] = "gone"
  /\ next' = next + 1 /\ main' = "cancel"
  /\ UNCHANGED <<wpc, cancelled, owner, template, watchers, jobs, sender, pidFile>>

\* Mutant of StopRunner: the template is not killed.
StopRunner_Leaves ==
  /\ main = "runner" /\ main' = "unlink"
  /\ UNCHANGED template
  /\ UNCHANGED <<wpc, cancelled, owner, watchers, next, jobs, sender, pidFile>>

\* jug_runner_stop: SIGKILL for the template.
StopRunner ==
  /\ main = "runner" /\ main' = "unlink"
  /\ template' = FALSE
  /\ UNCHANGED <<wpc, cancelled, owner, watchers, next, jobs, sender, pidFile>>

UnlinkPidFile ==
  /\ main = "unlink" /\ main' = "exit"
  /\ pidFile' = FALSE
  /\ UNCHANGED <<wpc, cancelled, owner, template, watchers, next, jobs, sender>>

\* exit() ends every thread of the process.
ExitProcess ==
  /\ main = "exit" /\ main' = "gone"
  /\ UNCHANGED <<wpc, cancelled, owner, template, watchers, next, jobs, sender, pidFile>>

-----------------------------------------------------------------------------
WorkerStep(w) == \/ Take(w) \/ Receive(w) \/ Lock(w) \/ Debug(w) \/ Exchange(w)
                 \/ Run(w) \/ Flush(w) \/ Die(w)
HandlerStep == Cancel \/ Join \/ StopRunner \/ UnlinkPidFile \/ ExitProcess

ShutdownNext ==
  \/ \E w \in Workers : WorkerStep(w) \/ WatcherEnds(w)
  \/ HandlerStep \/ MainAllocates \/ MainFrees \/ Interrupt \/ StopUnlinks

ShutdownSpec == ShutdownInit /\ [][ShutdownNext]_shutdownVars

\* Threads are scheduled and watchers end; nobody has to send SIGINT.  A
\* cancelled worker that stays at cancellation points ends at one of them.
FairShutdownSpec ==
  /\ ShutdownSpec /\ WF_shutdownVars(HandlerStep)
  /\ \A w \in Workers :
       /\ WF_shutdownVars(WorkerStep(w)) /\ WF_shutdownVars(WatcherEnds(w))
       /\ SF_shutdownVars(Die(w))

-----------------------------------------------------------------------------
\* The order of kjd_sighandler, workers first, runner second: no worker spins
\* for an answer of a template that was killed.
ExchangeHasTemplate == \A w \in Workers : wpc[w] \in {"exchange", "mute"} => template

\* restart forks the next daemon when the pid file is gone: by then no worker of
\* this one is left to touch the runner, and its template is dead.  A stop gives
\* no such promise, it removes the file at once.
CleanBeforeUnlink ==
  sender = "restart" /\ ~pidFile => ~template /\ \A w \in Workers : wpc[w] = "gone"

\* The mutex died with a worker.
MutexOrphaned == owner # None /\ wpc[owner] = "gone"

\* A worker that no cancellation reaches: its clone request is never answered, or
\* the rest of an input does not fit into the pipe.
Spinning(w) == wpc[w] \in {"mute", "spin"}

\* The comment of the signal in kjd_daemonize: "used to shutdown the daemon".
\* Wherever the threads are when the handler begins its work, the process ends,
\* unless a worker took the mutex with it or spins for ever.
ShutdownEnds ==
  (main = "cancel") ~> (main = "gone" \/ MutexOrphaned \/ \E w \in Workers : Spinning(w))
=============================================================================
