------------------------------- MODULE Daemon --------------------------------
(***************************************************************************)
(* The life of the daemon (kudosd.c): the commands start, stop, restart    *)
(* and state, run by operators one after the other or at the same time,    *)
(* the daemons that start and restart fork, and what they share: the file  *)
(* /tmp/kudosd-pid, the port, and the template each daemon clones.         *)
(***************************************************************************)
EXTENDS Naturals

CONSTANTS Operators,     \* people at a terminal
          CalmCommands,  \* bound on the commands given on a calm day
          RushCommands,  \* and on another day
          MaxDaemons     \* bound on the daemons forked

ASSUME DaemonAssumption ==
  MaxDaemons \in Nat /\ {CalmCommands + 1, RushCommands + 1} \subseteq 1..MaxDaemons

Daemons == 1..MaxDaemons
Actions == {"start", "stop", "restart", "state"}

VARIABLES
  calm,          \* commands are given one at a time, nothing fails and no daemon
                 \* takes longer than start and restart wait
  file,          \* the file at the path, named after the daemon that created it, or 0
  text,          \* the pid in each such file, 0 before it is written
  port,          \* the daemon that is bound to the port, or 0
  dpc, sigint,   \* each daemon: control, and SIGINT is pending
  dfd,           \* each daemon: the file it has open to write its pid
  tpl,           \* daemons whose template is alive
  forked, given, \* daemons forked and commands given so far
  fore,          \* daemons in the foreground: fork() failed, the command is the daemon
  opc, act,      \* each operator: control and command
  exists, running, seen, fd,  \* tmpfile_exists, daemon_running, daemon_pid, tmpfile_pid
  mine,          \* the daemon the command forked, or 0
  out            \* what the last command of the operator said

sysVars == <<calm, file, text, port>>
daeVars == <<dpc, dfd, sigint, tpl>>
cmdVars == <<act, exists, running, seen, fd, mine>>
opVars  == <<opc, cmdVars, out>>
vars == <<sysVars, daeVars, forked, fore, given, opVars>>

Alive(d) == d \in Daemons /\ dpc[d] \notin {"none", "dead"}

\* No daemon yet, or one that serves.
Init ==
  /\ calm \in BOOLEAN /\ forked \in {0, 1}
  /\ file = forked /\ text = [d \in Daemons |-> IF d = forked THEN d ELSE 0] /\ port = forked
  /\ dpc = [d \in Daemons |-> IF d = forked THEN "serve" ELSE "none"] /\ dfd = text
  /\ sigint = [d \in Daemons |-> FALSE] /\ tpl = {forked} \ {0}
  /\ given = 0 /\ fore = {}
  /\ opc = [o \in Operators |-> "idle"] /\ act = [o \in Operators |-> "state"]
  /\ exists = [o \in Operators |-> FALSE] /\ running = exists
  /\ seen = [o \in Operators |-> 0] /\ fd = seen /\ mine = seen
  /\ out = [o \in Operators |-> "none"]

-----------------------------------------------------------------------------
(* A command.                                                              *)

Goto(o, l) == opc' = [opc EXCEPT ![o] = l] /\ UNCHANGED out
Say(o, s) == opc' = [opc EXCEPT ![o] = "idle"] /\ out' = [out EXCEPT ![o] = s]

Give(o, a) ==
  /\ opc[o] = "idle" /\ given < IF calm THEN CalmCommands ELSE RushCommands
  /\ calm => \A p \in Operators : opc[p] = "idle"
  /\ given' = given + 1
  /\ opc' = [opc EXCEPT ![o] = "stat"] /\ out' = [out EXCEPT ![o] = "none"]
  /\ act' = [act EXCEPT ![o] = a] /\ running' = [running EXCEPT ![o] = FALSE]
  /\ seen' = [seen EXCEPT ![o] = 0] /\ mine' = [mine EXCEPT ![o] = 0]
  /\ UNCHANGED <<sysVars, daeVars, forked, fore, exists, fd>>

\* stat() of the pid file.
Stat(o) ==
  /\ opc[o] = "stat"
  /\ exists' = [exists EXCEPT ![o] = file # 0]
  /\ Goto(o, IF file # 0 THEN "open" ELSE "act")
  /\ UNCHANGED <<sysVars, daeVars, forked, fore, given, act, running, seen, fd, mine>>

\* fopen(): the file may be gone by now.
OpenFile(o) ==
  /\ opc[o] = "open"
  /\ \/ file = 0 /\ Say(o, "error") /\ UNCHANGED fd
     \/ file # 0 /\ fd' = [fd EXCEPT ![o] = file] /\ Goto(o, "read")
  /\ UNCHANGED <<sysVars, daeVars, forked, fore, given, act, exists, running, seen, mine>>

\* fread(): the file may not be written yet; atoi() then reads what the stack
\* holds, which spells no daemon's pid.
ReadFile(o) ==
  /\ opc[o] = "read"
  /\ seen' = [seen EXCEPT ![o] = text[fd[o]]]
  /\ Goto(o, "proc")
  /\ UNCHANGED <<sysVars, daeVars, forked, fore, given, act, exists, running, fd, mine>>

\* stat() of "/proc/<pid>"; "/proc/0" is never there.
Proc(o) ==
  /\ opc[o] = "proc"
  /\ running' = [running EXCEPT ![o] = Alive(seen[o])]
  /\ Goto(o, "act")
  /\ UNCHANGED <<sysVars, daeVars, forked, fore, given, act, exists, seen, fd, mine>>

State(o) ==
  /\ opc[o] = "act" /\ act[o] = "state"
  /\ Say(o, IF running[o] THEN "running" ELSE "not running")
  /\ UNCHANGED <<sysVars, daeVars, forked, fore, given, cmdVars>>

\* start removes a file whose daemon is gone, whoever created it since.
Start(o) ==
  /\ opc[o] = "act" /\ act[o] = "start"
  /\ \/ running[o] /\ Say(o, "running") /\ UNCHANGED file
     \/ ~running[o] /\ exists[o] /\ file = 0 /\ Say(o, "error") /\ UNCHANGED file
     \/ ~running[o] /\ exists[o] /\ file # 0 /\ file' = 0 /\ Goto(o, "fork")
     \/ ~running[o] /\ ~exists[o] /\ Goto(o, "fork") /\ UNCHANGED file
  /\ UNCHANGED <<calm, text, port, daeVars, forked, fore, given, cmdVars>>

\* stop and restart send SIGINT to the daemon they saw.
Stop(o) ==
  /\ opc[o] = "act" /\ act[o] \in {"stop", "restart"}
  /\ \/ /\ ~running[o] /\ UNCHANGED sigint
        /\ IF act[o] = "stop" THEN Say(o, "not running") ELSE Goto(o, "fork")
     \/ running[o] /\ ~Alive(seen[o]) /\ Say(o, "error") /\ UNCHANGED sigint
     \/ /\ running[o] /\ Alive(seen[o])
        /\ sigint' = [sigint EXCEPT ![seen[o]] = TRUE]
        /\ Goto(o, IF act[o] = "stop" THEN "unlink" ELSE "waitGone")
  /\ UNCHANGED <<sysVars, dpc, dfd, tpl, forked, fore, given, cmdVars>>

\* stop removes the pid file itself, and fails if the daemon was faster.
StopUnlink(o) ==
  /\ opc[o] = "unlink"
  /\ file' = 0 /\ Say(o, IF file # 0 THEN "stopped" ELSE "error")
  /\ UNCHANGED <<calm, text, port, daeVars, forked, fore, given, cmdVars>>

\* Mutant of WaitGone: restart forks at once.
WaitGone_NoWait(o) ==
  /\ opc[o] = "waitGone"
  /\ \/ Goto(o, "fork")
     \/ file # 0 /\ ~calm /\ Say(o, "timeout")
  /\ UNCHANGED <<sysVars, daeVars, forked, fore, given, cmdVars>>

\* restart waits up to 7 seconds for the daemon to remove it.
WaitGone(o) ==
  /\ opc[o] = "waitGone"
  /\ \/ file = 0 /\ Goto(o, "fork")
     \/ file # 0 /\ ~calm /\ Say(o, "timeout")
  /\ UNCHANGED <<sysVars, daeVars, forked, fore, given, cmdVars>>

\* kjd_daemonize.  When fork() fails it returns -1, main looks for 100 only, and
\* the command goes on as the daemon, without a signal handler.
Fork(o) ==
  /\ opc[o] = "fork" /\ forked < MaxDaemons
  /\ forked' = forked + 1 /\ mine' = [mine EXCEPT ![o] = forked + 1]
  /\ dpc' = [dpc EXCEPT ![forked + 1] = "init"]
  /\ \/ Goto(o, "waitFile") /\ UNCHANGED fore
     \/ ~calm /\ Goto(o, "foreground") /\ fore' = fore \cup {forked + 1}
  /\ UNCHANGED <<sysVars, dfd, sigint, tpl, given, act, exists, running, seen, fd>>

\* Such a command ends when it is dead.
Foreground(o) ==
  /\ opc[o] = "foreground" /\ ~Alive(mine[o])
  /\ Say(o, "error")
  /\ UNCHANGED <<sysVars, daeVars, forked, fore, given, cmdVars>>

\* The command waits up to 10 seconds for a pid file, whosever it is.
WaitFile(o) ==
  /\ opc[o] = "waitFile"
  /\ \/ file # 0 /\ Goto(o, "openNew")
     \/ file = 0 /\ (~calm \/ ~Alive(mine[o])) /\ Say(o, "timeout")
  /\ UNCHANGED <<sysVars, daeVars, forked, fore, given, cmdVars>>

\* fopen(): a stop may have removed the file again.
OpenNew(o) ==
  /\ opc[o] = "openNew"
  /\ \/ file = 0 /\ Say(o, "error") /\ UNCHANGED fd
     \/ file # 0 /\ fd' = [fd EXCEPT ![o] = file] /\ Goto(o, "waitPid")
  /\ UNCHANGED <<sysVars, daeVars, forked, fore, given, act, exists, running, seen, mine>>

\* It reads the file until it is not empty and says what it finds.  Once a
\* read met the end of the file, a C library whose end-of-file flag is sticky
\* (glibc from 2.28 on) returns 0 for ever.
WaitPid(o) ==
  /\ opc[o] = "waitPid"
  /\ \/ /\ text[fd[o]] # 0
        /\ seen' = [seen EXCEPT ![o] = text[fd[o]]]
        /\ Say(o, IF Alive(text[fd[o]]) THEN "started" ELSE "error")
     \/ text[fd[o]] = 0 /\ Goto(o, "spin") /\ UNCHANGED seen
  /\ UNCHANGED <<sysVars, daeVars, forked, fore, given, act, exists, running, fd, mine>>

-----------------------------------------------------------------------------
(* A daemon.                                                               *)

At(d, l) == dpc[d] = l /\ ~sigint[d]
Move(d, l) == dpc' = [dpc EXCEPT ![d] = l]

\* Mutant of DaemonInit: the pid file is written before the daemon is up.
DaemonInit_WritesFirst(d) ==
  /\ At(d, "init") /\ Move(d, "bind") /\ tpl' = tpl \cup {d}
  /\ file' = d /\ text' = [text EXCEPT ![d] = d]
  /\ UNCHANGED <<calm, port, dfd, sigint, forked, fore, given, opVars>>

\* The queue, then the runner with its template.
DaemonInit(d) ==
  /\ At(d, "init") /\ Move(d, "bind") /\ tpl' = tpl \cup {d}
  /\ UNCHANGED <<sysVars, dfd, sigint, forked, fore, given, opVars>>

\* A step of the start-up fails, bind because another daemon has the port: the
\* process returns from main, and the template stays if it was there.
DaemonFails(d) ==
  /\ \E l \in {"init", "bind", "create", "write"} : At(d, l)
  /\ ~calm \/ (dpc[d] = "bind" /\ port # 0)
  /\ Move(d, "dead") /\ port' = IF port = d THEN 0 ELSE port
  /\ UNCHANGED <<calm, file, text, dfd, sigint, tpl, forked, fore, given, opVars>>

DaemonBind(d) ==
  /\ At(d, "bind") /\ port = 0
  /\ Move(d, "create") /\ port' = d
  /\ UNCHANGED <<calm, file, text, dfd, sigint, tpl, forked, fore, given, opVars>>

\* fopen "w+" creates the file, or empties the one that is there.
CreateFile(d) ==
  /\ At(d, "create") /\ Move(d, "write")
  /\ file' = (IF file = 0 THEN d ELSE file) /\ dfd' = [dfd EXCEPT ![d] = file']
  /\ text' = [text EXCEPT ![file'] = 0]
  /\ UNCHANGED <<calm, port, sigint, tpl, forked, fore, given, opVars>>

\* The pid reaches the open file at fclose, whether or not it still has its name.
WriteFile(d) ==
  /\ At(d, "write") /\ Move(d, "serve")
  /\ text' = [text EXCEPT ![dfd[d]] = d]
  /\ UNCHANGED <<calm, file, port, dfd, sigint, tpl, forked, fore, given, opVars>>

\* accept() fails and main returns: no handler, no unlink.
AcceptFails(d) ==
  /\ At(d, "serve") /\ ~calm
  /\ Move(d, "dead") /\ port' = 0
  /\ UNCHANGED <<calm, file, text, dfd, sigint, tpl, forked, fore, given, opVars>>

\* kjd_sighandler: the workers, the template, the pid file, exit.
Handler(d) ==
  /\ sigint[d] /\ dpc[d] = "serve" /\ d \notin fore
  /\ Move(d, "stopping") /\ sigint' = [sigint EXCEPT ![d] = FALSE]
  /\ UNCHANGED <<sysVars, dfd, tpl, forked, fore, given, opVars>>

\* queue_stop_workers joins a worker that no cancellation ends, or the handler
\* waits for itself in malloc (Shutdown).
HandlerHangs(d) ==
  /\ dpc[d] = "stopping" /\ ~calm
  /\ Move(d, "hung")
  /\ UNCHANGED <<sysVars, dfd, sigint, tpl, forked, fore, given, opVars>>

\* A daemon in the foreground has no handler: SIGINT ends it, the pid file and the
\* template stay.
Killed(d) ==
  /\ sigint[d] /\ d \in fore /\ Alive(d)
  /\ Move(d, "dead") /\ port' = (IF port = d THEN 0 ELSE port)
  /\ UNCHANGED <<calm, file, text, dfd, sigint, tpl, forked, fore, given, opVars>>

\* Mutant of KillTemplate: the socket is closed before the pid file is removed.
KillTemplate_ClosesPort(d) ==
  /\ dpc[d] = "stopping" /\ Move(d, "unlink") /\ tpl' = tpl \ {d} /\ port' = 0
  /\ UNCHANGED <<calm, file, text, dfd, sigint, forked, fore, given, opVars>>

\* Mutant of KillTemplate: the runner is not stopped.
KillTemplate_Leaves(d) ==
  /\ dpc[d] = "stopping" /\ Move(d, "unlink") /\ UNCHANGED tpl
  /\ UNCHANGED <<sysVars, dfd, sigint, forked, fore, given, opVars>>

KillTemplate(d) ==
  /\ dpc[d] = "stopping" /\ Move(d, "unlink") /\ tpl' = tpl \ {d}
  /\ UNCHANGED <<sysVars, dfd, sigint, forked, fore, given, opVars>>

\* Mutant of DaemonUnlink: the handler leaves the pid file.
DaemonUnlink_Leaves(d) ==
  /\ dpc[d] = "unlink" /\ Move(d, "exit")
  /\ UNCHANGED <<calm, file, text, port, dfd, sigint, tpl, forked, fore, given, opVars>>

DaemonUnlink(d) ==
  /\ dpc[d] = "unlink" /\ Move(d, "exit")
  /\ file' = 0
  /\ UNCHANGED <<calm, text, port, dfd, sigint, tpl, forked, fore, given, opVars>>

Exit(d) ==
  /\ dpc[d] = "exit" /\ Move(d, "dead")
  /\ port' = 0
  /\ UNCHANGED <<calm, file, text, dfd, sigint, tpl, forked, fore, given, opVars>>

-----------------------------------------------------------------------------
Command(o) == \/ Stat(o) \/ OpenFile(o) \/ ReadFile(o) \/ Proc(o)
              \/ State(o) \/ Start(o) \/ Stop(o)
              \/ StopUnlink(o) \/ WaitGone(o) \/ Fork(o) \/ Foreground(o)
              \/ WaitFile(o) \/ OpenNew(o) \/ WaitPid(o)
DaemonStep(d) == \/ DaemonInit(d) \/ DaemonFails(d) \/ DaemonBind(d) \/ CreateFile(d)
                 \/ WriteFile(d) \/ AcceptFails(d) \/ Handler(d) \/ HandlerHangs(d) \/ Killed(d)
                 \/ KillTemplate(d) \/ DaemonUnlink(d) \/ Exit(d)

Next == \/ \E o \in Operators : Command(o) \/ \E a \in Actions : Give(o, a)
        \/ \E d \in Daemons : DaemonStep(d)

Spec == Init /\ [][Next]_vars

\* Every process that can go on does.
FairSpec == /\ Spec /\ \A o \in Operators : WF_vars(Command(o))
            /\ \A d \in Daemons : WF_vars(DaemonStep(d))

-----------------------------------------------------------------------------
Serving(d) == dpc[d] = "serve" /\ ~sigint[d]

\* On a calm day the daemon that serves is the one the pid file names, so that
\* stop and state find it, whatever commands came before in whatever stage of a
\* shutdown.
ServingIsKnown == calm => \A d \in Daemons : Serving(d) => file # 0 /\ text[file] = d

\* Whatever operators do at the same time and whatever fails or is late: no
\* SIGINT reaches a daemon whose workers, template, languages or socket are not
\* up, for which kjd_sighandler would join and kill what is not there.
InterruptedIsUp ==
  \A d \in Daemons : sigint[d] => dpc[d] \notin {"none", "init", "bind", "create", "write"}

\* A daemon that goes down never removes the pid file of the next one.
UnlinksOwnFile ==
  [][\A d \in Daemons : DaemonUnlink(d) /\ file # 0 => ~Alive(text[file]) \/ text[file] = d]_vars

\* On a calm day a command that says "started" forked the daemon that it names,
\* and that daemon holds the port.
StartedIsMine ==
  calm => \A o \in Operators : out[o] = "started" =>
    seen[o] = mine[o] /\ (dpc[mine[o]] = "dead" \/ port = mine[o])

\* A stop or a restart of a daemon ends with that daemon dead and its template
\* with it, unless the handler hangs in the joins; only the template of a daemon
\* in the foreground, which has no handler, is left.
StopStops ==
  \A d \in Daemons : sigint[d] ~>
    \/ dpc[d] = "hung"
    \/ dpc[d] = "dead" /\ (d \in tpl => d \in fore)

\* Every command comes back to the operator, although restart waits for a daemon
\* that waits for its workers; but for a start that opened the pid file before
\* the pid was in it, and one that is the daemon itself because fork() failed.
CommandEnds ==
  \A o \in Operators : (opc[o] = "stat") ~> (opc[o] \in {"idle", "spin", "foreground"})
=============================================================================
