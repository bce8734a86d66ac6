-------------------------------- MODULE Judge --------------------------------
(***************************************************************************)
(* The judging of submissions by one worker thread: jug_runner_run of      *)
(* runner.c in the daemon, the watcher (init of the submission's pid       *)
(* namespace) and the binary it traces (sandbox.c).  The runner feeds      *)
(* in_pipe from the input file and compares what arrives on out_pipe with  *)
(* the reference output; the watcher moves in_pipe to the binary's stdin   *)
(* and looks at the binary's stops and at its end.  The two pipes belong   *)
(* to the thread and are used again for its next submission, so a byte of  *)
(* input carries the number of its submission here.  A byte of output is   *)
(* only right or wrong: byte k of the output is right when k <= right.     *)
(***************************************************************************)
EXTENDS Naturals, Sequences

CONSTANTS Submissions,    \* the thread judges this many submissions
          InputSizes,     \* sizes of input files
          Expected,       \* size of the reference output
          PipeCap,        \* capacity of a pipe
          ReadMax,        \* the runner reads at most so much output at once
          OutLimit,       \* output_size_limit_mb
          MaxOut,         \* bound on what a binary writes
          KillOnCompout,  \* kill_on_compout of the configuration
          Alarms,         \* "off": walltime_limit_ms / 1000 > 0; "none": it is 0
          Manners,        \* of each submission; TRUE: reads all its input, answers, exits
          MayFail         \* clone() and the watcher may fail

ASSUME JudgeAssumption == /\ Submissions \in Nat /\ InputSizes \subseteq Nat
                          /\ Expected \in Nat /\ MaxOut \in Nat /\ OutLimit \in Nat
                          /\ PipeCap \in Nat \ {0} /\ ReadMax \in Nat \ {0}
                          /\ {KillOnCompout, MayFail} \subseteq BOOLEAN
                          /\ Alarms \subseteq {"off", "none"} /\ Manners \in [1..Submissions -> SUBSET BOOLEAN]

\* jug_sandbox_result; "garbage" is an uninitialized one.
Results == {"CORRECT", "WRONG", "TIMELIMIT", "WALL_TIMELIMIT", "MEMLIMIT",
            "OUTPUTLIMIT", "RUNTIME", "UNKNOWN", "garbage"}

VARIABLES
  rpc, sub, size,      \* runner: control, number of the submission, datasource_size
  polite,              \* its binary is a polite one
  lame,                \* history: a watcher of this thread failed
  sent,                \* ds_sent_acc, then + flush_acc
  alive, spawned,      \* watcher_alive, spawn_succeeded
  wres, comp,          \* watcher_result, comp_result
  compout,             \* compout_detected
  received,            \* bytes of output read
  result, verdict,     \* run_params.result and what jug_runner_judge returns
  inPipe, stdin,       \* contents of the pipes to the watcher and to the binary
  stdinOpen,           \* binary_input_pipe[PIPE_WRITETO] is open in the watcher
  written, right,      \* bytes the binary wrote, and how many of them are right
  wpc, code,           \* watcher: control and exit code
  splice, flush,       \* splice_size_acc, flush_acc
  xcpu, segv, memlimit, killed,  \* the watcher's four flags
  state,               \* binary_state
  usr2, alarm,         \* signals: SIGUSR2 is pending; the alarm clock
  bpc, event, big,     \* binary: control, the event it is stopped for, memory
  sigkill, cpu, fault, \* it is being killed; CPU limits passed; what it did wrong
  eof, input           \* it saw the end of stdin; what it read

subVars  == <<sub, size, polite, lame>>
runVars  == <<subVars, sent, alive, spawned, wres, comp, compout, received, result, verdict>>
inVars   == <<inPipe, stdin, stdinOpen>>
outVars  == <<written, right>>
watchVars == <<wpc, code, splice, flush, xcpu, segv, memlimit, killed>>
sigVars  == <<state, usr2, alarm>>
binVars  == <<bpc, event, big, sigkill, cpu, fault, eof, input>>
vars == <<rpc, runVars, inVars, outVars, watchVars, sigVars, binVars>>

Events == {"exit", "fork", "xcpu", "segv", "fpe"}

Smaller(a, b) == IF a <= b THEN a ELSE b
Copies(k) == [i \in 1..k |-> sub]   \* the next k bytes of the input file

Init ==
  /\ rpc = "idle" /\ sub = 0 /\ size = 0 /\ polite = FALSE /\ lame = FALSE
  /\ sent = 0 /\ alive = FALSE /\ spawned = FALSE
  /\ wres = "garbage" /\ comp = "garbage" /\ compout = FALSE /\ received = 0
  /\ result = "garbage" /\ verdict = "none"
  /\ inPipe = <<>> /\ stdin = <<>> /\ stdinOpen = FALSE /\ written = 0 /\ right = 0
  /\ wpc = "none" /\ code = "garbage" /\ splice = 0 /\ flush = 0
  /\ xcpu = FALSE /\ segv = FALSE /\ memlimit = FALSE /\ killed = FALSE
  /\ state = "RUNNING" /\ usr2 = FALSE /\ alarm \in Alarms
  /\ bpc = "none" /\ event = "exit" /\ big = FALSE /\ sigkill = FALSE
  /\ cpu = "ok" /\ fault = "none" /\ eof = FALSE /\ input = <<>>

-----------------------------------------------------------------------------
(* The runner: a thread of the daemon.                                     *)

\* The locals of a run; watcher_result and comp_result are not initialized.
FreshRun(n) ==
  /\ sub < Submissions /\ sub' = sub + 1 /\ size' = n /\ sent' = 0
  /\ polite' \in Manners[sub + 1] /\ UNCHANGED lame
  /\ alive' = TRUE /\ spawned' = TRUE
  /\ wres' = "garbage" /\ comp' = "garbage" /\ result' = "garbage"
  /\ compout' = FALSE /\ received' = 0
  /\ stdin' = <<>> /\ stdinOpen' = FALSE /\ written' = 0 /\ right' = 0
  /\ code' = "garbage" /\ splice' = 0 /\ flush' = 0
  /\ xcpu' = FALSE /\ segv' = FALSE /\ memlimit' = FALSE /\ killed' = FALSE
  /\ state' = "RUNNING" /\ usr2' = FALSE
  /\ alarm' = IF alarm = "none" THEN "none" ELSE "off"
  /\ bpc' = "none" /\ event' = "exit" /\ big' = FALSE /\ sigkill' = FALSE
  /\ cpu' = "ok" /\ fault' = "none" /\ eof' = FALSE /\ input' = <<>>
  /\ UNCHANGED <<inPipe, wpc>>

JudgeStart(n) ==
  /\ rpc = "idle" /\ FreshRun(n)
  /\ rpc' = "clone" /\ verdict' = "none"

\* The input or the reference output cannot be opened.
JudgeOpenFails ==
  /\ rpc = "idle" /\ FreshRun(0)
  /\ rpc' = "idle" /\ verdict' = "INTERNAL"

CloneWatcher ==
  /\ rpc = "clone"
  /\ rpc' = "wait" /\ wpc' = "setup"
  /\ UNCHANGED <<runVars, inVars, outVars, code, splice, flush, xcpu, segv, memlimit,
                 killed, sigVars, binVars>>

\* The template cannot be asked: jug_runner_run returns and so does the judge.
CloneRefused ==
  /\ rpc = "clone" /\ MayFail
  /\ rpc' = "idle" /\ verdict' = "INTERNAL"
  /\ UNCHANGED <<subVars, sent, alive, spawned, wres, comp, compout, received, result,
                 inVars, outVars, watchVars, sigVars, binVars>>

\* The template replies -2, and only -1 is tested: the run goes on with no watcher.
CloneFails ==
  /\ rpc = "clone" /\ MayFail
  /\ rpc' = "wait" /\ lame' = TRUE
  /\ UNCHANGED <<sub, size, polite, sent, alive, spawned, wres, comp, compout, received,
                 result, verdict, inVars, outVars, watchVars, sigVars, binVars>>

\* waitpid(watcher_pid, WNOHANG); it fails when there is no such child, and
\* watcher_result is then whatever was on the stack.
RunWait ==
  /\ rpc = "wait" /\ rpc' = "send"
  /\ \/ /\ alive /\ wpc \in {"exited", "none"}
        /\ alive' = FALSE /\ wpc' = "none"
        /\ spawned' = (spawned /\ code # "failed")
        /\ \/ wpc = "exited" /\ wres' = IF code = "failed" THEN wres ELSE code
           \/ wpc = "none" /\ wres' \in Results \ {"garbage"}
     \/ /\ ~alive \/ wpc \notin {"exited", "none"}
        /\ UNCHANGED <<alive, wpc, spawned, wres>>
  /\ UNCHANGED <<subVars, sent, comp, compout, received, result, verdict, inVars, outVars,
                 code, splice, flush, xcpu, segv, memlimit, killed, sigVars, binVars>>

\* What sendfile moves to in_pipe: as much as there is room for, or EAGAIN.
Transfer ==
  IF sent < size /\ Len(inPipe) < PipeCap
  THEN \E k \in 1..Smaller(size - sent, PipeCap - Len(inPipe)) :
         sent' = sent + k /\ inPipe' = inPipe \o Copies(k)
  ELSE UNCHANGED <<sent, inPipe>>

Settle(c) == IF ~spawned THEN "UNKNOWN" ELSE IF wres = "CORRECT" THEN c ELSE wres

RunSend ==
  /\ rpc = "send" /\ Transfer
  /\ \/ ~compout /\ rpc' = "read" /\ UNCHANGED result
     \/ compout /\ alive /\ rpc' = "wait" /\ UNCHANGED result
     \/ compout /\ ~alive /\ rpc' = "flush" /\ result' = Settle(comp)
  /\ UNCHANGED <<subVars, alive, spawned, wres, comp, compout, received, verdict,
                 stdin, stdinOpen, outVars, watchVars, sigVars, binVars>>

\* kill(watcher_pid, SIGUSR2): init of a pid namespace ignores a signal it has
\* no handler for, and an exited watcher does nothing any more.
SendUsr2(cond) == usr2' = (usr2 \/ (cond /\ wpc \in {"splice", "poll", "drain"}))

\* A chunk of output arrived and is compared.
RunRead ==
  LET k == Smaller(written - received, ReadMax)
      differs == received + k > right
      over == received + k > OutLimit
  IN  /\ rpc = "read" /\ written > received
      /\ rpc' = "wait"
      /\ received' = received + k
      /\ compout' = differs
      /\ comp' = IF over THEN "OUTPUTLIMIT" ELSE IF differs THEN "WRONG" ELSE "CORRECT"
      /\ SendUsr2(over \/ (differs /\ KillOnCompout))
      /\ UNCHANGED <<subVars, sent, alive, spawned, wres, result, verdict, inVars,
                     outVars, watchVars, state, alarm, binVars>>

\* Mutant of RunReadEmpty: the rest of the reference output is not looked at.
RunReadEmpty_NoLastCompare ==
  /\ rpc = "read" /\ written = received
  /\ \/ /\ alive /\ rpc' = "wait" /\ UNCHANGED <<comp, result>>
     \/ /\ ~alive /\ rpc' = "flush"
        /\ comp' = "CORRECT"
        /\ result' = Settle(comp')
  /\ UNCHANGED <<subVars, sent, alive, spawned, wres, compout, received, verdict, inVars,
                 outVars, watchVars, sigVars, binVars>>

\* Nothing to read: go on, or compare for the last time when the watcher is dead.
RunReadEmpty ==
  /\ rpc = "read" /\ written = received
  /\ \/ /\ alive /\ rpc' = "wait" /\ UNCHANGED <<comp, result>>
     \/ /\ ~alive /\ rpc' = "flush"
        /\ comp' = IF received = Expected THEN "CORRECT" ELSE "WRONG"
        /\ result' = Settle(comp')
  /\ UNCHANGED <<subVars, sent, alive, spawned, wres, compout, received, verdict, inVars,
                 outVars, watchVars, sigVars, binVars>>

\* Every writer but the template is dead: what is left in out_pipe is thrown away.
RunFlush ==
  /\ rpc = "flush" /\ rpc' = "fill"
  /\ received' = written
  /\ UNCHANGED <<subVars, sent, alive, spawned, wres, comp, compout, result, verdict,
                 inVars, outVars, watchVars, sigVars, binVars>>

\* The switch at the end of jug_runner_judge: any other result is an internal error.
VerdictOf(r) ==
  CASE r = "CORRECT" -> "ACCEPTED"
    [] r \in {"TIMELIMIT", "WALL_TIMELIMIT"} -> "TIMELIMIT"
    [] r \in {"WRONG", "OUTPUTLIMIT", "RUNTIME"} -> r
    [] OTHER -> "INTERNAL"

\* The rest of the input file is written to in_pipe, however long that takes.
RunFill ==
  /\ rpc = "fill" /\ Transfer
  /\ \/ sent' < size /\ UNCHANGED <<rpc, verdict>>
     \/ sent' = size /\ rpc' = "idle" /\ verdict' = VerdictOf(result)
  /\ UNCHANGED <<subVars, alive, spawned, wres, comp, compout, received, result, stdin,
                 stdinOpen, outVars, watchVars, sigVars, binVars>>

-----------------------------------------------------------------------------
(* The watcher.                                                            *)

\* Mounts, pipes, handlers, alarm, fork and exec of the binary.
WatcherSetup ==
  /\ wpc = "setup" /\ wpc' = "splice"
  /\ stdinOpen' = TRUE /\ alarm' = IF alarm = "none" THEN "none" ELSE "armed"
  /\ bpc' = "run"
  /\ UNCHANGED <<rpc, runVars, inPipe, stdin, outVars, code, splice, flush, xcpu, segv,
                 memlimit, killed, state, usr2, event, big, sigkill, cpu, fault, eof, input>>

\* An exit with a negative code: nothing of in_pipe is read.
WatcherSetupFails ==
  /\ wpc = "setup" /\ MayFail
  /\ wpc' = "exited" /\ code' = "failed" /\ lame' = TRUE
  /\ UNCHANGED <<rpc, sub, size, polite, sent, alive, spawned, wres, comp, compout, received,
                 result, verdict, inVars, outVars, splice, flush, xcpu, segv, memlimit,
                 killed, sigVars, binVars>>

\* The watcher is killed by a signal, with no memory left for it: everything in
\* its pid namespace dies with it, and in_pipe keeps what it holds.
WatcherKilled ==
  /\ wpc \in {"setup", "splice", "poll", "drain"} /\ MayFail
  /\ wpc' = "exited" /\ code' = "UNKNOWN" /\ lame' = TRUE
  /\ bpc' = IF bpc = "none" THEN "none" ELSE "reaped"
  /\ sigkill' = (sigkill \/ bpc \in {"run", "stop"})
  /\ UNCHANGED <<rpc, sub, size, polite, sent, alive, spawned, wres, comp, compout, received,
                 result, verdict, inVars, outVars, splice, flush, xcpu, segv, memlimit,
                 killed, sigVars, event, big, cpu, fault, eof, input>>

\* Mutant of Splice: an empty in_pipe is taken for the end of the input.
Splice_ClosesEarly ==
  /\ wpc = "splice" /\ wpc' = "poll"
  /\ \/ /\ splice < size
        /\ \E k \in 0..Smaller(Len(inPipe), PipeCap - Len(stdin)) :
             /\ k = 0 => (Len(inPipe) = 0 \/ Len(stdin) = PipeCap)
             /\ splice' = splice + k
             /\ stdin' = stdin \o SubSeq(inPipe, 1, k)
             /\ inPipe' = SubSeq(inPipe, k + 1, Len(inPipe))
        /\ stdinOpen' = (splice' < size /\ splice' # splice)
     \/ /\ splice >= size /\ UNCHANGED <<splice, inVars>>
  /\ UNCHANGED <<rpc, runVars, outVars, code, flush, xcpu, segv, memlimit, killed, sigVars,
                 binVars>>

\* Mutant of Splice: off by one in the test that closes stdin.
Splice_NeverCloses ==
  /\ wpc = "splice" /\ wpc' = "poll"
  /\ \/ /\ splice < size
        /\ \E k \in 0..Smaller(Len(inPipe), PipeCap - Len(stdin)) :
             /\ k = 0 => (Len(inPipe) = 0 \/ Len(stdin) = PipeCap)
             /\ splice' = splice + k
             /\ stdin' = stdin \o SubSeq(inPipe, 1, k)
             /\ inPipe' = SubSeq(inPipe, k + 1, Len(inPipe))
        /\ stdinOpen' = (splice' <= size)
     \/ /\ splice >= size /\ UNCHANGED <<splice, inVars>>
  /\ UNCHANGED <<rpc, runVars, outVars, code, flush, xcpu, segv, memlimit, killed, sigVars,
                 binVars>>

Splice ==
  /\ wpc = "splice" /\ wpc' = "poll"
  /\ \/ /\ splice < size
        /\ \E k \in 0..Smaller(Len(inPipe), PipeCap - Len(stdin)) :
             /\ k = 0 => (Len(inPipe) = 0 \/ Len(stdin) = PipeCap)
             /\ splice' = splice + k
             /\ stdin' = stdin \o SubSeq(inPipe, 1, k)
             /\ inPipe' = SubSeq(inPipe, k + 1, Len(inPipe))
        /\ stdinOpen' = (splice' < size)
     \/ /\ splice >= size /\ UNCHANGED <<splice, inVars>>
  /\ UNCHANGED <<rpc, runVars, outVars, code, flush, xcpu, segv, memlimit, killed, sigVars,
                 binVars>>

\* waitpid says that nothing happened.
PollNothing ==
  /\ wpc = "poll" /\ bpc = "run" /\ wpc' = "splice"
  /\ UNCHANGED <<rpc, runVars, inVars, outVars, code, splice, flush, xcpu, segv, memlimit,
                 killed, sigVars, binVars>>

\* The binary is stopped: note why, kill it if need be, and let it continue
\* without the signal it was stopped for.
PollStop ==
  /\ wpc = "poll" /\ bpc = "stop" /\ wpc' = "splice"
  /\ memlimit' = (memlimit \/ (event \in {"exit", "fork", "segv"} /\ big))
  /\ killed' = (killed \/ event = "fork")
  /\ xcpu' = (xcpu \/ event = "xcpu")
  /\ segv' = (segv \/ event = "segv")
  /\ sigkill' = (sigkill \/ event \in {"fork", "segv"})
  /\ bpc' = IF event # "exit" THEN "run" ELSE IF sigkill THEN "signaled" ELSE "exited"
  /\ event' = "exit" /\ big' = FALSE
  /\ UNCHANGED <<rpc, runVars, inVars, outVars, code, splice, flush, sigVars, cpu, fault, eof,
                 input>>

PollEnd ==
  /\ wpc = "poll" /\ bpc \in {"exited", "signaled"}
  /\ wpc' = "drain" /\ bpc' = "reaped"
  /\ killed' = (killed \/ bpc = "signaled")
  /\ UNCHANGED <<rpc, runVars, inVars, outVars, code, splice, flush, xcpu, segv, memlimit,
                 sigVars, event, big, sigkill, cpu, fault, eof, input>>

\* Mutant of ExitCode: a binary killed for its output is a runtime error.
ExitCode_NoCompout ==
  CASE xcpu -> "TIMELIMIT"
    [] ~xcpu /\ memlimit -> "MEMLIMIT"
    [] ~xcpu /\ ~memlimit /\ state = "WALLTIMEOUT" -> "WALL_TIMELIMIT"
    [] OTHER -> IF segv \/ killed THEN "RUNTIME" ELSE "CORRECT"

ExitCode ==
  CASE xcpu -> "TIMELIMIT"
    [] ~xcpu /\ memlimit -> "MEMLIMIT"
    [] ~xcpu /\ ~memlimit /\ state = "WALLTIMEOUT" -> "WALL_TIMELIMIT"
    [] ~xcpu /\ ~memlimit /\ state = "COMPOUT" -> "CORRECT"
    [] OTHER -> IF segv \/ killed THEN "RUNTIME" ELSE "CORRECT"

\* Mutant of Drain: the watcher exits without emptying in_pipe.
Drain_NoFlush ==
  /\ wpc = "drain"
  /\ wpc' = "exited" /\ code' = ExitCode
  /\ UNCHANGED <<rpc, runVars, inVars, outVars, splice, flush, xcpu, segv, memlimit,
                 killed, sigVars, binVars>>

\* What is left of the input is read and thrown away before the watcher exits.
Drain ==
  /\ wpc = "drain"
  /\ \E k \in 0..Len(inPipe) :
       /\ k = 0 => Len(inPipe) = 0
       /\ inPipe' = SubSeq(inPipe, k + 1, Len(inPipe))
       /\ flush' = flush + k
  /\ \/ splice + flush' < size /\ UNCHANGED <<wpc, code>>
     \/ splice + flush' >= size /\ wpc' = "exited" /\ code' = ExitCode
  /\ UNCHANGED <<rpc, runVars, stdin, stdinOpen, outVars, splice, xcpu, segv, memlimit,
                 killed, sigVars, binVars>>

\* watcher_sig_handler, run between two steps of the watcher.  The kill succeeds
\* unless the binary has been waited for, a zombie included.
Handle(newState) ==
  /\ wpc \in {"splice", "poll", "drain"}
  /\ \/ bpc # "reaped" /\ state' = newState /\ sigkill' = (sigkill \/ bpc \in {"run", "stop"})
     \/ bpc = "reaped" /\ UNCHANGED <<state, sigkill>>
  /\ UNCHANGED <<rpc, runVars, inVars, outVars, watchVars, bpc, event, big, cpu, fault, eof, input>>

HandleUsr2 == usr2 /\ usr2' = FALSE /\ UNCHANGED alarm /\ Handle("COMPOUT")


HandleAlarm == alarm = "armed" /\ alarm' = "rung" /\ UNCHANGED usr2 /\ Handle("WALLTIMEOUT")

-----------------------------------------------------------------------------
(* The binary: any program, or a polite one.  A binary that divided by zero *)
(* meets the same instruction again whenever it is continued.               *)

Free == bpc = "run" /\ fault # "fpe" /\ ~sigkill

BinRead ==
  /\ Free /\ stdin # <<>>
  /\ input' = Append(input, Head(stdin)) /\ stdin' = Tail(stdin)
  /\ UNCHANGED <<rpc, runVars, inPipe, stdinOpen, outVars, watchVars, sigVars, bpc, event,
                 big, sigkill, cpu, fault, eof>>

BinEof ==
  /\ Free /\ stdin = <<>> /\ ~stdinOpen /\ ~eof
  /\ eof' = TRUE
  /\ UNCHANGED <<rpc, runVars, inVars, outVars, watchVars, sigVars, bpc, event, big, sigkill,
                 cpu, fault, input>>

\* A byte of output, the right one or not; a signal may land after the write.
BinWrite(ok) ==
  /\ bpc = "run" /\ fault # "fpe"
  /\ written < MaxOut /\ written - received < PipeCap
  /\ ok => right = written /\ right < Expected
  /\ polite => ok /\ eof
  /\ written' = written + 1 /\ right' = IF ok THEN right + 1 ELSE right
  /\ UNCHANGED <<rpc, runVars, inVars, watchVars, sigVars, binVars>>

\* A stop that the watcher will see; m: it uses more memory than allowed.
BinStop(e, m) ==
  /\ bpc = "run" /\ ~sigkill /\ (fault = "fpe" => e \in {"fpe", "xcpu"})
  /\ polite => e = "exit" /\ ~m /\ eof /\ right = Expected
  /\ e = "xcpu" => cpu = "ok"
  /\ bpc' = "stop" /\ event' = e /\ big' = m
  /\ cpu' = IF e = "xcpu" THEN "soft" ELSE cpu
  /\ fault' = IF e \in {"segv", "fork", "fpe"} THEN e ELSE fault
  /\ UNCHANGED <<rpc, runVars, inVars, outVars, watchVars, sigVars, sigkill, eof, input>>

\* The hard limit on CPU time, two seconds after the soft one.
HardLimit ==
  /\ bpc = "run" /\ cpu = "soft"
  /\ cpu' = "hard" /\ sigkill' = TRUE
  /\ UNCHANGED <<rpc, runVars, inVars, outVars, watchVars, sigVars, bpc, event, big, fault,
                 eof, input>>

\* The binary kills itself.
BinKills ==
  /\ bpc = "run" /\ fault # "fpe" /\ ~sigkill /\ ~polite
  /\ sigkill' = TRUE /\ fault' = "kill"
  /\ UNCHANGED <<rpc, runVars, inVars, outVars, watchVars, sigVars, bpc, event, big, cpu,
                 eof, input>>

\* SIGKILL takes effect, with or without a last stop.
BinDies ==
  /\ sigkill
  /\ \/ bpc \in {"run", "stop"} /\ bpc' = "signaled" /\ event' = "exit" /\ big' = FALSE
     \/ bpc = "run" /\ bpc' = "stop" /\ event' = "exit" /\ big' \in BOOLEAN
  /\ UNCHANGED <<rpc, runVars, inVars, outVars, watchVars, sigVars, sigkill, cpu, fault, eof,
                 input>>

-----------------------------------------------------------------------------
Runner == \/ CloneWatcher \/ CloneRefused \/ CloneFails \/ RunWait \/ RunSend
          \/ RunRead \/ RunReadEmpty \/ RunFlush \/ RunFill
Watcher == \/ WatcherSetup \/ WatcherSetupFails \/ Splice \/ PollNothing \/ PollStop
           \/ PollEnd \/ Drain
Binary == \/ BinRead \/ BinEof \/ \E ok \in BOOLEAN : BinWrite(ok)
          \/ \E e \in Events, m \in BOOLEAN : BinStop(e, m)

Next == \/ \E n \in InputSizes : JudgeStart(n)
        \/ JudgeOpenFails
        \/ Runner \/ Watcher \/ HandleUsr2 \/ HandleAlarm
        \/ WatcherKilled \/ Binary \/ HardLimit \/ BinKills \/ BinDies

Spec == Init /\ [][Next]_vars

\* The runner and the watcher poll without ever blocking, signals are delivered
\* and the alarm clock runs; a polite binary goes on, and nothing is promised for
\* any other.
FairSpec == /\ Spec /\ WF_vars(Runner) /\ WF_vars(Watcher) /\ WF_vars(HandleUsr2)
            /\ WF_vars(HandleAlarm) /\ WF_vars(BinDies) /\ WF_vars(polite /\ Binary)

-----------------------------------------------------------------------------
Judged == rpc = "idle" /\ sub > 0

\* Only a binary that ended by itself, whose whole output is the reference
\* output and that broke no limit is ACCEPTED, however its last bytes, its end
\* and the signals of the runner are interleaved.
AcceptedMeansCorrect ==
  Judged /\ verdict = "ACCEPTED" =>
    /\ right = Expected /\ written = Expected
    /\ bpc = "reaped" /\ ~sigkill /\ ~memlimit /\ cpu = "ok"

\* No other verdict without its cause: WRONG for output that is not the
\* reference output, never because the runner stopped reading too early, RUNTIME
\* never for a binary that only the runner's signal killed, and INTERNAL only
\* when the watcher was killed or the program was not run; a program that was not
\* run gets nothing else, but for the clone whose -2 is not noticed.  Nothing is
\* said here of programs that divide by zero or take too much memory, which do
\* not get the verdicts the repository has for them: FaultHasVerdict says so.
VerdictJustified ==
  Judged /\ fault # "fpe" /\ ~memlimit =>
    CASE bpc = "none" -> verdict = "INTERNAL" \/ (lame /\ code = "garbage")
      [] bpc # "none" /\ verdict = "WRONG" -> written # Expected \/ right # Expected
      [] bpc # "none" /\ verdict = "TIMELIMIT" -> cpu # "ok" \/ alarm = "rung"
      [] bpc # "none" /\ verdict = "OUTPUTLIMIT" -> written > OutLimit
      [] bpc # "none" /\ verdict = "RUNTIME" -> fault # "none"
      [] bpc # "none" /\ verdict = "INTERNAL" -> code = "UNKNOWN"
      [] OTHER -> verdict = "ACCEPTED"

\* A program that broke one rule and did nothing else wrong gets the verdict that
\* the repository has for it.  sandbox.c: "bin_killed can detect by-zero-division
\* exception for example", and the result is then a runtime error; def.h has
\* VERDICT_MEMLIMIT, and VERDICT_INTERNAL is the "internal error (judge's mistake)".
\* (The alarm kills the program when it rings, so a division comes before it.)
FaultHasVerdict ==
  Judged /\ written = right /\ cpu = "ok" /\ code # "UNKNOWN" =>
    /\ fault = "fpe" /\ ~memlimit => verdict = "RUNTIME"
    /\ memlimit /\ fault = "none" => verdict # "INTERNAL"

\* Between two submissions nothing of the last one is left alive and its output
\* is read; its input is too, as long as none of the thread's watchers failed.
CleanBetween == Judged => /\ written = received
                          /\ wpc = "none" /\ bpc \in {"none", "reaped"}
                          /\ ~lame => inPipe = <<>>

\* A binary reads a prefix of its own input, and sees the end of it only after
\* the last byte, although the thread's pipes are used for every submission in
\* turn.  A watcher that failed leaves its input to the next binary.
InputIsMine ==
  ~lame => /\ \A k \in 1..Len(input) : input[k] = sub
           /\ Len(input) <= size
           /\ eof => Len(input) = size

\* A judgement without bound.  No alarm is set, and the binary goes on for ever or
\* waits for the end of an empty input, which the watcher never closes; or the
\* watcher failed, now or earlier, and the rest of the input finds in_pipe full,
\* from which nobody reads any more.
Unbounded == \/ alarm = "none" /\ (polite => size = 0)
             \/ lame /\ rpc = "fill" /\ sent < size /\ Len(inPipe) = PipeCap


\* A polite program with an input is accepted if the alarm does not come first,
\* whatever was judged before on the same pipes, as long as the template can be
\* asked for a watcher and no watcher of the thread failed.
PoliteAccepted ==
  \A n \in 1..Submissions :
    (rpc = "clone" /\ sub = n /\ polite /\ size > 0)
      ~> \/ rpc = "idle" /\ sub = n /\ (verdict = "ACCEPTED" \/ alarm = "rung" \/ bpc = "none")
         \/ lame
=============================================================================
