----------------------------- MODULE JudgeProofs -----------------------------
(***************************************************************************)
(* Proofs about Judge, for every size of the pipes, inputs and outputs and *)
(* with every failure of the model, in three parts.                        *)
(*  - A submission is ACCEPTED only if its binary ended by itself within   *)
(*    its limits and wrote the reference output.  Two facts carry it:      *)
(*    SIGUSR2 is only ever sent after a difference was seen, so that the   *)
(*    watcher's JS_CORRECT for a binary killed by it never meets a         *)
(*    comparison that found none; and the runner compares for the last     *)
(*    time after it knew the watcher dead, when nobody is left to write.   *)
(*  - The input is the binary's own and nothing of a submission is left    *)
(*    in the thread's pipes: the bytes are counted on their way.           *)
(*  - Every other verdict has its cause, kept on its way from the          *)
(*    watcher's flags to the verdict.                                      *)
(***************************************************************************)
EXTENDS Judge, TLAPS

\* The reference output is not empty (a clone that failed would be accepted
\* otherwise) and within output_size_limit_mb (an overflow would be forgotten).
Sane == Expected > 0 /\ Expected <= OutLimit

Scalars ==
  /\ rpc \in {"idle", "clone", "wait", "send", "read", "flush", "fill"}
  /\ sub \in Nat
  /\ alive \in BOOLEAN /\ spawned \in BOOLEAN /\ compout \in BOOLEAN
  /\ written \in Nat /\ right \in 0..Expected /\ right <= written
  /\ received \in 0..written
  /\ wpc \in {"none", "setup", "splice", "poll", "drain", "exited"}
  /\ xcpu \in BOOLEAN /\ segv \in BOOLEAN /\ memlimit \in BOOLEAN /\ killed \in BOOLEAN
  /\ usr2 \in BOOLEAN /\ sigkill \in BOOLEAN
  /\ state \in {"RUNNING", "WALLTIMEOUT", "COMPOUT"}
  /\ bpc \in {"none", "run", "stop", "exited", "signaled", "reaped"}
  /\ cpu \in {"ok", "soft", "hard"}

Running == {"wait", "send", "read"}

\* Where the watcher and the binary are.
Places ==
  /\ rpc \in {"idle", "clone", "flush", "fill"} \/ ~alive => wpc = "none"
  /\ rpc = "clone" => bpc = "none" /\ spawned /\ alive
  /\ wpc = "none" => bpc \in {"none", "reaped"}
  /\ rpc \in Running /\ alive /\ wpc = "none" => bpc = "none"
  /\ wpc = "setup" => bpc = "none"
  /\ wpc \in {"splice", "poll"} => bpc \in {"run", "stop", "exited", "signaled"}
  /\ wpc = "drain" => bpc = "reaped"
  /\ wpc = "exited" => /\ bpc \in {"none", "reaped"}
                       /\ code = "failed" => bpc = "none"
                       /\ bpc = "none" => code \in {"failed", "UNKNOWN"}
  /\ wpc \in {"setup", "splice", "poll", "drain"} => spawned
  /\ bpc = "none" => written = 0

\* Without a difference everything read was right, and SIGUSR2 needs one.
Compared ==
  /\ rpc \in Running /\ ~compout => received <= right
  /\ rpc = "clone" => ~compout /\ received = 0
  /\ rpc = "read" => ~compout
  /\ compout => comp # "CORRECT"
  /\ usr2 \/ state = "COMPOUT" => compout

\* The ways to die leave their mark.
Marked ==
  /\ bpc = "exited" => ~sigkill
  /\ wpc = "drain" /\ ~killed => ~sigkill
  /\ cpu = "ok" \/ xcpu \/ sigkill \/ (bpc = "stop" /\ event = "xcpu")

Ended == bpc = "reaped" /\ ~sigkill /\ ~memlimit /\ cpu = "ok"

\* What JS_CORRECT means on its way to the verdict.
Correct ==
  /\ wpc = "exited" /\ code = "CORRECT" /\ ~compout => Ended
  /\ rpc \in Running /\ ~alive /\ spawned /\ wres = "CORRECT" /\ ~compout => Ended \/ bpc = "none"
  /\ rpc \in {"flush", "fill"} /\ result = "CORRECT" => Ended /\ right = Expected /\ written = Expected
  /\ rpc = "idle" /\ verdict = "ACCEPTED" => Ended /\ right = Expected /\ written = Expected

BaseInv == Scalars /\ Places

IndInv == BaseInv /\ Compared /\ Marked /\ Correct

-----------------------------------------------------------------------------
\* What the proof needs of the constants.
LEMMA ExpectedNat == Expected \in Nat /\ OutLimit \in Nat /\ ReadMax \in Nat \ {0}
  BY JudgeAssumption

\* The initial states satisfy the inductive invariant.
LEMMA InitInv == Init => IndInv
<1> SUFFICES ASSUME Init PROVE IndInv  OBVIOUS
<1>1. Scalars
  <2>1. /\ alive \in BOOLEAN /\ spawned \in BOOLEAN /\ compout \in BOOLEAN
        /\ xcpu \in BOOLEAN /\ segv \in BOOLEAN /\ memlimit \in BOOLEAN
        /\ killed \in BOOLEAN /\ usr2 \in BOOLEAN /\ sigkill \in BOOLEAN
    BY Zenon DEF Init
  <2>. QED  BY <2>1, ExpectedNat DEF Init, Scalars
<1>2. Places  BY DEF Init, Places, Running
<1>3. Compared  BY DEF Init, Compared, Running
<1>4. Marked  BY DEF Init, Marked
<1>5. Correct  BY DEF Init, Correct, Running
<1>. QED  BY <1>1, <1>2, <1>3, <1>4, <1>5 DEF IndInv, BaseInv

\* The steps of the runner preserve the base.
LEMMA BaseRunner ==
  ASSUME BaseInv, Runner
  PROVE  BaseInv'
<1> USE ExpectedNat DEF BaseInv, Scalars, Running,
        subVars, runVars, inVars, outVars, watchVars, sigVars, binVars
<1>1. CASE CloneWatcher
  <2>1. Scalars'
    BY <1>1 DEF CloneWatcher
  <2>2. Places'
    BY <1>1 DEF CloneWatcher, Places
  <2>. QED  BY <2>1, <2>2 DEF BaseInv
<1>2. CASE CloneRefused
  <2>1. Scalars'
    BY <1>2 DEF CloneRefused
  <2>2. Places'
    BY <1>2 DEF CloneRefused, Places
  <2>. QED  BY <2>1, <2>2 DEF BaseInv
<1>3. CASE CloneFails
  <2>1. Scalars'
    BY <1>3 DEF CloneFails
  <2>2. Places'
    BY <1>3 DEF CloneFails, Places
  <2>. QED  BY <2>1, <2>2 DEF BaseInv
<1>4. CASE RunWait
  <2>1. Scalars'
    <3>1. spawned' \in BOOLEAN /\ alive' \in BOOLEAN  BY <1>4 DEF RunWait
    <3>. QED  BY <1>4, <3>1 DEF RunWait
  <2>2. Places'
    BY <1>4 DEF RunWait, Places
  <2>. QED  BY <2>1, <2>2 DEF BaseInv
<1>5. CASE RunSend
  <2>1. Scalars'
    BY <1>5 DEF RunSend, Settle, Transfer
  <2>2. Places'
    BY <1>5 DEF RunSend, Settle, Transfer, Places
  <2>. QED  BY <2>1, <2>2 DEF BaseInv
<1>6. CASE RunRead
  <2>1. Scalars'
    BY <1>6 DEF RunRead, SendUsr2, Smaller
  <2>2. Places'
    BY <1>6 DEF RunRead, SendUsr2, Smaller, Places
  <2>. QED  BY <2>1, <2>2 DEF BaseInv
<1>7. CASE RunReadEmpty
  <2>1. Scalars'
    BY <1>7 DEF RunReadEmpty, Settle
  <2>2. Places'
    BY <1>7 DEF RunReadEmpty, Settle, Places
  <2>. QED  BY <2>1, <2>2 DEF BaseInv
<1>8. CASE RunFlush
  <2>1. Scalars'
    BY <1>8 DEF RunFlush
  <2>2. Places'
    BY <1>8 DEF RunFlush, Places
  <2>. QED  BY <2>1, <2>2 DEF BaseInv
<1>9. CASE RunFill
  <2>1. Scalars'
    BY <1>9 DEF RunFill, VerdictOf, Transfer
  <2>2. Places'
    BY <1>9 DEF RunFill, VerdictOf, Transfer, Places
  <2>. QED  BY <2>1, <2>2 DEF BaseInv
<1>. QED  BY <1>1, <1>2, <1>3, <1>4, <1>5, <1>6, <1>7, <1>8, <1>9 DEF Runner

\* The steps of the watcher preserve the base.
LEMMA BaseWatcher ==
  ASSUME BaseInv, Watcher
  PROVE  BaseInv'
<1> USE ExpectedNat DEF BaseInv, Scalars, Running,
        subVars, runVars, inVars, outVars, watchVars, sigVars, binVars
<1>1. CASE WatcherSetup
  <2>1. Scalars'
    BY <1>1 DEF WatcherSetup
  <2>2. Places'
    BY <1>1 DEF WatcherSetup, Places
  <2>. QED  BY <2>1, <2>2 DEF BaseInv
<1>2. CASE WatcherSetupFails
  <2>1. Scalars'
    BY <1>2 DEF WatcherSetupFails
  <2>2. Places'
    BY <1>2 DEF WatcherSetupFails, Places
  <2>. QED  BY <2>1, <2>2 DEF BaseInv
<1>3. CASE Splice
  <2>1. Scalars'
    BY <1>3 DEF Splice
  <2>2. Places'
    BY <1>3 DEF Splice, Places
  <2>. QED  BY <2>1, <2>2 DEF BaseInv
<1>4. CASE PollNothing
  <2>1. Scalars'
    BY <1>4 DEF PollNothing
  <2>2. Places'
    BY <1>4 DEF PollNothing, Places
  <2>. QED  BY <2>1, <2>2 DEF BaseInv
<1>5. CASE PollStop
  <2>1. Scalars'
    BY <1>5 DEF PollStop
  <2>2. Places'
    BY <1>5 DEF PollStop, Places
  <2>. QED  BY <2>1, <2>2 DEF BaseInv
<1>6. CASE PollEnd
  <2>1. Scalars'
    BY <1>6 DEF PollEnd
  <2>2. Places'
    BY <1>6 DEF PollEnd, Places
  <2>. QED  BY <2>1, <2>2 DEF BaseInv
<1>7. CASE Drain
  <2>1. Scalars'
    BY <1>7 DEF Drain, ExitCode
  <2>2. Places'
    BY <1>7 DEF Drain, ExitCode, Places
  <2>. QED  BY <2>1, <2>2 DEF BaseInv
<1>. QED  BY <1>1, <1>2, <1>3, <1>4, <1>5, <1>6, <1>7 DEF Watcher

\* So do the start of a judgement, the signal handler and the binary.
LEMMA BaseRest ==
  ASSUME BaseInv,
         \/ \E n \in InputSizes : JudgeStart(n)
         \/ JudgeOpenFails \/ HandleUsr2 \/ HandleAlarm \/ WatcherKilled
         \/ Binary \/ HardLimit \/ BinKills \/ BinDies
  PROVE  BaseInv'
<1> USE ExpectedNat DEF BaseInv, Scalars, Running,
        subVars, runVars, inVars, outVars, watchVars, sigVars, binVars
<1>1. ASSUME NEW n \in InputSizes, JudgeStart(n) PROVE BaseInv'
  <2>1. Scalars'
    <3>1. /\ alive' \in BOOLEAN /\ spawned' \in BOOLEAN /\ compout' \in BOOLEAN
          /\ xcpu' \in BOOLEAN /\ segv' \in BOOLEAN /\ memlimit' \in BOOLEAN
          /\ killed' \in BOOLEAN /\ usr2' \in BOOLEAN /\ sigkill' \in BOOLEAN
      BY <1>1, Zenon DEF JudgeStart, FreshRun
    <3>. QED  BY <1>1, <3>1 DEF JudgeStart, FreshRun
  <2>2. Places'
    BY <1>1 DEF JudgeStart, FreshRun, Places
  <2>. QED  BY <2>1, <2>2 DEF BaseInv
<1>2. CASE JudgeOpenFails
  <2>1. Scalars'
    <3>1. /\ alive' \in BOOLEAN /\ spawned' \in BOOLEAN /\ compout' \in BOOLEAN
          /\ xcpu' \in BOOLEAN /\ segv' \in BOOLEAN /\ memlimit' \in BOOLEAN
          /\ killed' \in BOOLEAN /\ usr2' \in BOOLEAN /\ sigkill' \in BOOLEAN
      BY <1>2, Zenon DEF JudgeOpenFails, FreshRun
    <3>. QED  BY <1>2, <3>1 DEF JudgeOpenFails, FreshRun
  <2>2. Places'
    BY <1>2 DEF JudgeOpenFails, FreshRun, Places
  <2>. QED  BY <2>1, <2>2 DEF BaseInv
<1>3. CASE HandleUsr2
  <2>1. Scalars'
    <3>1. sigkill' \in BOOLEAN /\ usr2' \in BOOLEAN
      BY <1>3, Zenon DEF HandleUsr2, Handle
    <3>. QED  BY <1>3, <3>1 DEF HandleUsr2, Handle
  <2>2. Places'
    BY <1>3 DEF HandleUsr2, Handle, Places
  <2>. QED  BY <2>1, <2>2 DEF BaseInv
<1>4. CASE HandleAlarm
  <2>1. Scalars'
    <3>1. sigkill' \in BOOLEAN /\ usr2' \in BOOLEAN
      BY <1>4, Zenon DEF HandleAlarm, Handle
    <3>. QED  BY <1>4, <3>1 DEF HandleAlarm, Handle
  <2>2. Places'
    BY <1>4 DEF HandleAlarm, Handle, Places
  <2>. QED  BY <2>1, <2>2 DEF BaseInv
<1>5. CASE BinRead
  <2>1. Scalars'
    BY <1>5 DEF BinRead, Free
  <2>2. Places'
    BY <1>5 DEF BinRead, Free, Places
  <2>. QED  BY <2>1, <2>2 DEF BaseInv
<1>6. CASE BinEof
  <2>1. Scalars'
    BY <1>6 DEF BinEof, Free
  <2>2. Places'
    BY <1>6 DEF BinEof, Free, Places
  <2>. QED  BY <2>1, <2>2 DEF BaseInv
<1>7. ASSUME NEW ok \in BOOLEAN, BinWrite(ok) PROVE BaseInv'
  <2>1. Scalars'
    BY <1>7 DEF BinWrite
  <2>2. Places'
    BY <1>7 DEF BinWrite, Places
  <2>. QED  BY <2>1, <2>2 DEF BaseInv
<1>8. ASSUME NEW e \in Events, NEW m \in BOOLEAN, BinStop(e, m) PROVE BaseInv'
  <2>1. Scalars'
    BY <1>8 DEF BinStop, Events
  <2>2. Places'
    BY <1>8 DEF BinStop, Events, Places
  <2>. QED  BY <2>1, <2>2 DEF BaseInv
<1>9. CASE HardLimit
  <2>1. Scalars'
    BY <1>9 DEF HardLimit
  <2>2. Places'
    BY <1>9 DEF HardLimit, Places
  <2>. QED  BY <2>1, <2>2 DEF BaseInv
<1>10. CASE BinDies
  <2>1. Scalars'
    BY <1>10 DEF BinDies
  <2>2. Places'
    BY <1>10 DEF BinDies, Places
  <2>. QED  BY <2>1, <2>2 DEF BaseInv
<1>11. CASE WatcherKilled
  <2>1. Scalars'
    <3>1. sigkill' \in BOOLEAN  BY <1>11, Zenon DEF WatcherKilled
    <3>. QED  BY <1>11, <3>1 DEF WatcherKilled
  <2>2. Places'
    BY <1>11 DEF WatcherKilled, Places
  <2>. QED  BY <2>1, <2>2 DEF BaseInv
<1>12. CASE BinKills
  <2>1. Scalars'
    BY <1>12 DEF BinKills
  <2>2. Places'
    BY <1>12 DEF BinKills, Places
  <2>. QED  BY <2>1, <2>2 DEF BaseInv
<1>. QED  BY <1>1, <1>2, <1>3, <1>4, <1>5, <1>6, <1>7, <1>8, <1>9, <1>10, <1>11, <1>12 DEF Binary

\* Where everybody is and what has been counted, in every state.
THEOREM BaseHolds == Spec => []BaseInv
<1>1. Init => BaseInv  BY InitInv DEF IndInv
<1>2. BaseInv /\ [Next]_vars => BaseInv'
  <2> SUFFICES ASSUME BaseInv, [Next]_vars PROVE BaseInv'  OBVIOUS
  <2>1. CASE Next  BY <2>1, BaseRunner, BaseWatcher, BaseRest DEF Next
  <2>2. CASE UNCHANGED vars
    BY <2>2 DEF vars, subVars, runVars, inVars, outVars, watchVars, sigVars, binVars,
                BaseInv, Scalars,
                Places, Running
  <2>. QED  BY <2>1, <2>2
<1>. QED  BY <1>1, <1>2, PTL DEF Spec

-----------------------------------------------------------------------------
(* What JS_CORRECT and ACCEPTED mean.                                      *)

\* The steps of the runner preserve the invariant.
LEMMA RunnerInv ==
  ASSUME Sane, IndInv, BaseInv', Runner
  PROVE  IndInv'
<1> USE ExpectedNat DEF Sane, IndInv, BaseInv, Scalars, Running, Ended,
        subVars, runVars, inVars, outVars, watchVars, sigVars, binVars
<1>1. CASE CloneWatcher
  <2>1. Compared'
    BY <1>1 DEF CloneWatcher, Places, Compared
  <2>2. Marked'
    BY <1>1 DEF CloneWatcher, Places, Marked
  <2>3. Correct'
    BY <1>1 DEF CloneWatcher, Places, Compared, Marked, Correct
  <2>. QED  BY <2>1, <2>2, <2>3 DEF IndInv
<1>2. CASE CloneRefused
  <2>1. Compared'
    BY <1>2 DEF CloneRefused, Places, Compared
  <2>2. Marked'
    BY <1>2 DEF CloneRefused, Places, Marked
  <2>3. Correct'
    BY <1>2 DEF CloneRefused, Places, Compared, Marked, Correct
  <2>. QED  BY <2>1, <2>2, <2>3 DEF IndInv
<1>3. CASE CloneFails
  <2>1. Compared'
    BY <1>3 DEF CloneFails, Places, Compared
  <2>2. Marked'
    BY <1>3 DEF CloneFails, Places, Marked
  <2>3. Correct'
    BY <1>3 DEF CloneFails, Places, Compared, Marked, Correct
  <2>. QED  BY <2>1, <2>2, <2>3 DEF IndInv
<1>4. CASE RunWait
  <2>1. Compared'
    BY <1>4 DEF RunWait, Places, Compared
  <2>2. Marked'
    BY <1>4 DEF RunWait, Places, Marked
  <2>3. Correct'
    BY <1>4 DEF RunWait, Places, Compared, Marked, Correct
  <2>. QED  BY <2>1, <2>2, <2>3 DEF IndInv
<1>5. CASE RunSend
  <2>1. Compared'
    BY <1>5 DEF RunSend, Settle, Transfer, Places, Compared
  <2>2. Marked'
    BY <1>5 DEF RunSend, Settle, Transfer, Places, Marked
  <2>3. Correct'
    BY <1>5 DEF RunSend, Settle, Transfer, Places, Compared, Marked, Correct
  <2>. QED  BY <2>1, <2>2, <2>3 DEF IndInv
<1>6. CASE RunRead
  <2>1. Compared'
    <3>1. compout' <=> received' > right
      BY <1>6 DEF RunRead
    <3>2. usr2' => usr2 \/ compout'
      BY <1>6, <3>1 DEF RunRead, SendUsr2, Smaller
    <3>3. ~usr2 /\ state' # "COMPOUT" /\ rpc' = "wait" /\ right' = right
      BY <1>6 DEF RunRead, Compared, outVars
    <3>4. compout' => comp' # "CORRECT"
      BY <1>6 DEF RunRead
    <3>5. received' \in Nat /\ right \in Nat
      BY <1>6 DEF RunRead, Smaller
    <3>. QED  BY <3>1, <3>2, <3>3, <3>4, <3>5 DEF Compared
  <2>2. Marked'
    BY <1>6 DEF RunRead, SendUsr2, Smaller, Places, Marked
  <2>3. Correct'
    BY <1>6 DEF RunRead, SendUsr2, Smaller, Places, Compared, Marked, Correct
  <2>. QED  BY <2>1, <2>2, <2>3 DEF IndInv
<1>7. CASE RunReadEmpty
  <2>1. Compared'
    BY <1>7 DEF RunReadEmpty, Settle, Places, Compared
  <2>2. Marked'
    BY <1>7 DEF RunReadEmpty, Settle, Places, Marked
  <2>3. Correct'
    BY <1>7 DEF RunReadEmpty, Settle, Places, Compared, Marked, Correct
  <2>. QED  BY <2>1, <2>2, <2>3 DEF IndInv
<1>8. CASE RunFlush
  <2>1. Compared'
    BY <1>8 DEF RunFlush, Places, Compared
  <2>2. Marked'
    BY <1>8 DEF RunFlush, Places, Marked
  <2>3. Correct'
    BY <1>8 DEF RunFlush, Places, Compared, Marked, Correct
  <2>. QED  BY <2>1, <2>2, <2>3 DEF IndInv
<1>9. CASE RunFill
  <2>1. Compared'
    BY <1>9 DEF RunFill, VerdictOf, Transfer, Places, Compared
  <2>2. Marked'
    BY <1>9 DEF RunFill, VerdictOf, Transfer, Places, Marked
  <2>3. Correct'
    BY <1>9 DEF RunFill, VerdictOf, Transfer, Places, Compared, Marked, Correct
  <2>. QED  BY <2>1, <2>2, <2>3 DEF IndInv
<1>. QED  BY <1>1, <1>2, <1>3, <1>4, <1>5, <1>6, <1>7, <1>8, <1>9 DEF Runner

\* The steps of the watcher preserve it.
LEMMA WatcherInv ==
  ASSUME Sane, IndInv, BaseInv', Watcher
  PROVE  IndInv'
<1> USE ExpectedNat DEF Sane, IndInv, BaseInv, Scalars, Running, Ended,
        subVars, runVars, inVars, outVars, watchVars, sigVars, binVars
<1>1. CASE WatcherSetup
  <2>1. Compared'
    BY <1>1 DEF WatcherSetup, Places, Compared
  <2>2. Marked'
    BY <1>1 DEF WatcherSetup, Places, Marked
  <2>3. Correct'
    BY <1>1 DEF WatcherSetup, Places, Compared, Marked, Correct
  <2>. QED  BY <2>1, <2>2, <2>3 DEF IndInv
<1>2. CASE WatcherSetupFails
  <2>1. Compared'
    BY <1>2 DEF WatcherSetupFails, Places, Compared
  <2>2. Marked'
    BY <1>2 DEF WatcherSetupFails, Places, Marked
  <2>3. Correct'
    BY <1>2 DEF WatcherSetupFails, Places, Compared, Marked, Correct
  <2>. QED  BY <2>1, <2>2, <2>3 DEF IndInv
<1>3. CASE Splice
  <2>1. Compared'
    BY <1>3 DEF Splice, Places, Compared
  <2>2. Marked'
    BY <1>3 DEF Splice, Places, Marked
  <2>3. Correct'
    BY <1>3 DEF Splice, Places, Compared, Marked, Correct
  <2>. QED  BY <2>1, <2>2, <2>3 DEF IndInv
<1>4. CASE PollNothing
  <2>1. Compared'
    BY <1>4 DEF PollNothing, Places, Compared
  <2>2. Marked'
    BY <1>4 DEF PollNothing, Places, Marked
  <2>3. Correct'
    BY <1>4 DEF PollNothing, Places, Compared, Marked, Correct
  <2>. QED  BY <2>1, <2>2, <2>3 DEF IndInv
<1>5. CASE PollStop
  <2>1. Compared'
    BY <1>5 DEF PollStop, Places, Compared
  <2>2. Marked'
    BY <1>5 DEF PollStop, Places, Marked
  <2>3. Correct'
    BY <1>5 DEF PollStop, Places, Compared, Marked, Correct
  <2>. QED  BY <2>1, <2>2, <2>3 DEF IndInv
<1>6. CASE PollEnd
  <2>1. Compared'
    BY <1>6 DEF PollEnd, Places, Compared
  <2>2. Marked'
    BY <1>6 DEF PollEnd, Places, Marked
  <2>3. Correct'
    BY <1>6 DEF PollEnd, Places, Compared, Marked, Correct
  <2>. QED  BY <2>1, <2>2, <2>3 DEF IndInv
<1>7. CASE Drain
  <2>1. Compared'
    BY <1>7 DEF Drain, ExitCode, Places, Compared
  <2>2. Marked'
    BY <1>7 DEF Drain, ExitCode, Places, Marked
  <2>3. Correct'
    BY <1>7 DEF Drain, ExitCode, Places, Compared, Marked, Correct
  <2>. QED  BY <2>1, <2>2, <2>3 DEF IndInv
<1>. QED  BY <1>1, <1>2, <1>3, <1>4, <1>5, <1>6, <1>7 DEF Watcher

\* So do the start of a judgement, the signal handler and the binary.
LEMMA RestInv ==
  ASSUME Sane, IndInv, BaseInv',
         \/ \E n \in InputSizes : JudgeStart(n)
         \/ JudgeOpenFails \/ HandleUsr2 \/ HandleAlarm \/ WatcherKilled
         \/ Binary \/ HardLimit \/ BinKills \/ BinDies
  PROVE  IndInv'
<1> USE ExpectedNat DEF Sane, IndInv, BaseInv, Scalars, Running, Ended,
        subVars, runVars, inVars, outVars, watchVars, sigVars, binVars
<1>1. ASSUME NEW n \in InputSizes, JudgeStart(n) PROVE IndInv'
  <2>1. Compared'
    BY <1>1 DEF JudgeStart, FreshRun, Places, Compared
  <2>2. Marked'
    BY <1>1 DEF JudgeStart, FreshRun, Places, Marked
  <2>3. Correct'
    BY <1>1 DEF JudgeStart, FreshRun, Places, Compared, Marked, Correct
  <2>. QED  BY <2>1, <2>2, <2>3 DEF IndInv
<1>2. CASE JudgeOpenFails
  <2>1. Compared'
    BY <1>2 DEF JudgeOpenFails, FreshRun, Places, Compared
  <2>2. Marked'
    BY <1>2 DEF JudgeOpenFails, FreshRun, Places, Marked
  <2>3. Correct'
    BY <1>2 DEF JudgeOpenFails, FreshRun, Places, Compared, Marked, Correct
  <2>. QED  BY <2>1, <2>2, <2>3 DEF IndInv
<1>3. CASE HandleUsr2
  <2>1. Compared'
    BY <1>3 DEF HandleUsr2, Handle, Places, Compared
  <2>2. Marked'
    BY <1>3 DEF HandleUsr2, Handle, Places, Marked
  <2>3. Correct'
    BY <1>3 DEF HandleUsr2, Handle, Places, Compared, Marked, Correct
  <2>. QED  BY <2>1, <2>2, <2>3 DEF IndInv
<1>4. CASE HandleAlarm
  <2>1. Compared'
    BY <1>4 DEF HandleAlarm, Handle, Places, Compared
  <2>2. Marked'
    BY <1>4 DEF HandleAlarm, Handle, Places, Marked
  <2>3. Correct'
    BY <1>4 DEF HandleAlarm, Handle, Places, Compared, Marked, Correct
  <2>. QED  BY <2>1, <2>2, <2>3 DEF IndInv
<1>5. CASE BinRead
  <2>1. Compared'
    BY <1>5 DEF BinRead, Free, Places, Compared
  <2>2. Marked'
    BY <1>5 DEF BinRead, Free, Places, Marked
  <2>3. Correct'
    BY <1>5 DEF BinRead, Free, Places, Compared, Marked, Correct
  <2>. QED  BY <2>1, <2>2, <2>3 DEF IndInv
<1>6. CASE BinEof
  <2>1. Compared'
    BY <1>6 DEF BinEof, Free, Places, Compared
  <2>2. Marked'
    BY <1>6 DEF BinEof, Free, Places, Marked
  <2>3. Correct'
    BY <1>6 DEF BinEof, Free, Places, Compared, Marked, Correct
  <2>. QED  BY <2>1, <2>2, <2>3 DEF IndInv
<1>7. ASSUME NEW ok \in BOOLEAN, BinWrite(ok) PROVE IndInv'
  <2>1. Compared'
    BY <1>7 DEF BinWrite, Places, Compared
  <2>2. Marked'
    BY <1>7 DEF BinWrite, Places, Marked
  <2>3. Correct'
    BY <1>7 DEF BinWrite, Places, Compared, Marked, Correct
  <2>. QED  BY <2>1, <2>2, <2>3 DEF IndInv
<1>8. ASSUME NEW e \in Events, NEW m \in BOOLEAN, BinStop(e, m) PROVE IndInv'
  <2>1. Compared'
    BY <1>8 DEF BinStop, Events, Places, Compared
  <2>2. Marked'
    BY <1>8 DEF BinStop, Events, Places, Marked
  <2>3. Correct'
    BY <1>8 DEF BinStop, Events, Places, Compared, Marked, Correct
  <2>. QED  BY <2>1, <2>2, <2>3 DEF IndInv
<1>9. CASE HardLimit
  <2>1. Compared'
    BY <1>9 DEF HardLimit, Places, Compared
  <2>2. Marked'
    BY <1>9 DEF HardLimit, Places, Marked
  <2>3. Correct'
    BY <1>9 DEF HardLimit, Places, Compared, Marked, Correct
  <2>. QED  BY <2>1, <2>2, <2>3 DEF IndInv
<1>10. CASE BinDies
  <2>1. Compared'
    BY <1>10 DEF BinDies, Places, Compared
  <2>2. Marked'
    BY <1>10 DEF BinDies, Places, Marked
  <2>3. Correct'
    BY <1>10 DEF BinDies, Places, Compared, Marked, Correct
  <2>. QED  BY <2>1, <2>2, <2>3 DEF IndInv
<1>11. CASE WatcherKilled
  <2>1. Compared'
    BY <1>11 DEF WatcherKilled, Places, Compared
  <2>2. Marked'
    BY <1>11 DEF WatcherKilled, Places, Marked
  <2>3. Correct'
    BY <1>11 DEF WatcherKilled, Places, Compared, Marked, Correct
  <2>. QED  BY <2>1, <2>2, <2>3 DEF IndInv
<1>12. CASE BinKills
  <2>1. Compared'
    BY <1>12 DEF BinKills, Places, Compared
  <2>2. Marked'
    BY <1>12 DEF BinKills, Places, Marked
  <2>3. Correct'
    BY <1>12 DEF BinKills, Places, Compared, Marked, Correct
  <2>. QED  BY <2>1, <2>2, <2>3 DEF IndInv
<1>. QED  BY <1>1, <1>2, <1>3, <1>4, <1>5, <1>6, <1>7, <1>8, <1>9, <1>10, <1>11, <1>12 DEF Binary

\* The inductive invariant holds in every reachable state of jug_runner_run,
\* the watcher and the binary.
THEOREM IndInvHolds == ASSUME Sane PROVE Spec => []IndInv
<1>1. Init => IndInv  BY InitInv
<1>2. IndInv /\ BaseInv' /\ [Next]_vars => IndInv'
  <2> SUFFICES ASSUME IndInv, BaseInv', [Next]_vars PROVE IndInv'  OBVIOUS
  <2>1. CASE Next  BY <2>1, RunnerInv, WatcherInv, RestInv DEF Next
  <2>2. CASE UNCHANGED vars
    BY <2>2 DEF vars, subVars, runVars, inVars, outVars, watchVars, sigVars, binVars,
                IndInv, BaseInv,
                Scalars, Places, Compared, Marked, Correct, Running, Ended
  <2>. QED  BY <2>1, <2>2
<1>. QED  BY <1>1, <1>2, BaseHolds, PTL DEF Spec

\* jug_runner_judge accepts only a binary that ended by itself within its
\* limits after writing the reference output, with every size of inputs and
\* pipes, every interleaving and every failure of clone() or of the setup.
THEOREM OnlyCorrectAccepted == ASSUME Sane PROVE Spec => []AcceptedMeansCorrect
<1>1. IndInv => AcceptedMeansCorrect
  BY DEF IndInv, Correct, Ended, AcceptedMeansCorrect, Judged
<1>. QED  BY <1>1, IndInvHolds, PTL

-----------------------------------------------------------------------------
(* The bytes of the input.  They are counted from the file to the binary:    *)
(* what sendfile moved is in in_pipe, was spliced or was thrown away, and    *)
(* what was spliced is in the binary's stdin or was read.                    *)

OfOne(s, n) == \A k \in 1..Len(s) : s[k] = n

Counted ==
  /\ inPipe \in Seq(Nat) /\ stdin \in Seq(Nat) /\ input \in Seq(Nat)
  /\ size \in Nat /\ splice \in Nat /\ flush \in Nat /\ sent \in 0..size

\* As long as no watcher failed: every run had one, which exited.
Started ==
  /\ rpc \in Running /\ alive => wpc # "none"
  /\ rpc \in {"flush", "fill"} \/ (rpc \in Running /\ ~alive) => bpc = "reaped"
  /\ wpc = "exited" => code \notin {"failed", "UNKNOWN"}

Flow ==
  /\ sent = Len(inPipe) + splice + flush
  /\ splice = Len(stdin) + Len(input)
  /\ OfOne(inPipe, sub) /\ OfOne(stdin, sub) /\ OfOne(input, sub)

\* A watcher exits only when the whole input went through its hands, and closes
\* the binary's stdin only after the last byte.
Drained ==
  /\ rpc \in {"idle", "clone"} => inPipe = <<>>
  /\ rpc = "clone" => sent = 0 /\ splice = 0 /\ flush = 0
  /\ bpc = "reaped" /\ wpc # "drain" => splice + flush >= size
  /\ bpc # "none" /\ ~stdinOpen => splice >= size
  /\ eof => Len(input) = size

InputInv == Counted /\ (~lame => Started /\ Flow /\ Drained)

\* sendfile appends bytes of the submission.
LEMMA Sends ==
  ASSUME NEW s \in Seq(Nat), NEW n \in Nat, NEW k \in Nat
  PROVE  LET t == s \o [i \in 1..k |-> n]
         IN  t \in Seq(Nat) /\ Len(t) = Len(s) + k /\ (OfOne(s, n) => OfOne(t, n))
<1> DEFINE c == [i \in 1..k |-> n]
<1>1. c \in Seq(Nat) /\ Len(c) = k /\ \A i \in 1..k : c[i] = n  OBVIOUS
<1> HIDE DEF c
<1> DEFINE t == s \o c
<1>2. t \in Seq(Nat) /\ Len(t) = Len(s) + k /\ Len(s) \in Nat  BY <1>1
<1>3. \A i \in 1..Len(s) : t[i] = s[i]  BY <1>1
<1>4. \A i \in 1..(Len(s) + k) : i > Len(s) => t[i] = c[i - Len(s)]  BY <1>1, <1>2
<1> HIDE DEF t
<1>5. ASSUME OfOne(s, n) PROVE OfOne(t, n)
  <2>1. ASSUME NEW i \in 1..Len(t) PROVE t[i] = n
    <3>1. CASE i <= Len(s)  BY <1>2, <1>3, <1>5, <3>1, SMTT(30) DEF OfOne
    <3>2. CASE i > Len(s)
      <4>1. i - Len(s) \in 1..k  BY <1>2, <3>2
      <4>. QED  BY <1>1, <1>2, <1>4, <3>2, <4>1
    <3>. QED  BY <1>2, <3>1, <3>2
  <2>. QED  BY <2>1 DEF OfOne
<1>. QED  BY <1>2, <1>5 DEF t, c

\* splice and read take them from the front.
LEMMA TakesFront ==
  ASSUME NEW s \in Seq(Nat), NEW n \in Nat, NEW k \in 0..Len(s)
  PROVE  LET t == SubSeq(s, 1, k)
             u == SubSeq(s, k + 1, Len(s))
         IN  /\ t \in Seq(Nat) /\ Len(t) = k /\ (OfOne(s, n) => OfOne(t, n))
             /\ u \in Seq(Nat) /\ Len(u) = Len(s) - k /\ (OfOne(s, n) => OfOne(u, n))
<1> DEFINE t == SubSeq(s, 1, k)
           u == SubSeq(s, k + 1, Len(s))
<1>1. t \in Seq(Nat) /\ Len(t) = k /\ \A i \in 1..k : t[i] = s[i]  OBVIOUS
<1>2. u \in Seq(Nat) /\ Len(u) = Len(s) - k /\ \A i \in 1..(Len(s) - k) : u[i] = s[i + k]  OBVIOUS
<1> HIDE DEF t, u
<1>3. OfOne(s, n) => OfOne(t, n)
  <2>1. \A i \in 1..k : i \in 1..Len(s)  OBVIOUS
  <2>. QED  BY <1>1, <2>1 DEF OfOne
<1>4. OfOne(s, n) => OfOne(u, n)  BY <1>2 DEF OfOne
<1>. QED  BY <1>1, <1>2, <1>3, <1>4 DEF t, u

\* Two runs of bytes of one submission make one.
LEMMA Joins ==
  ASSUME NEW s \in Seq(Nat), NEW t \in Seq(Nat), NEW n \in Nat
  PROVE  /\ s \o t \in Seq(Nat) /\ Len(s \o t) = Len(s) + Len(t)
         /\ OfOne(s, n) /\ OfOne(t, n) => OfOne(s \o t, n)
<1> DEFINE u == s \o t
<1>1. /\ u \in Seq(Nat) /\ Len(u) = Len(s) + Len(t) /\ Len(s) \in Nat /\ Len(t) \in Nat
      /\ \A i \in 1..Len(s) : u[i] = s[i]
      /\ \A i \in 1..(Len(s) + Len(t)) : i > Len(s) => u[i] = t[i - Len(s)]
  OBVIOUS
<1> HIDE DEF u
<1>2. ASSUME OfOne(s, n), OfOne(t, n), NEW i \in 1..Len(u) PROVE u[i] = n
  <2>1. CASE i <= Len(s)  BY <1>1, <1>2, <2>1 DEF OfOne
  <2>2. CASE i > Len(s)
    <3>1. i - Len(s) \in 1..Len(t)  BY <1>1, <1>2, <2>2
    <3>. QED  BY <1>1, <1>2, <2>2, <3>1 DEF OfOne
  <2>. QED  BY <1>1, <1>2, <2>1, <2>2
<1>. QED  BY <1>1, <1>2 DEF u, OfOne

\* The binary moves a byte from its stdin to what it read.
LEMMA Reads ==
  ASSUME NEW s \in Seq(Nat), s # <<>>, NEW t \in Seq(Nat), NEW n \in Nat
  PROVE  /\ Tail(s) \in Seq(Nat) /\ Len(Tail(s)) = Len(s) - 1 /\ Len(s) > 0
         /\ Append(t, Head(s)) \in Seq(Nat) /\ Len(Append(t, Head(s))) = Len(t) + 1
         /\ OfOne(s, n) /\ OfOne(t, n) => OfOne(Tail(s), n) /\ OfOne(Append(t, Head(s)), n)
<1> DEFINE u == Tail(s)
           v == Append(t, Head(s))
<1>1. Len(s) \in Nat /\ Len(s) > 0 /\ Head(s) = s[1] /\ Head(s) \in Nat  OBVIOUS
<1>2. u \in Seq(Nat) /\ Len(u) = Len(s) - 1 /\ \A i \in 1..(Len(s) - 1) : u[i] = s[i + 1]
  BY <1>1
<1>3. /\ v \in Seq(Nat) /\ Len(v) = Len(t) + 1 /\ Len(t) \in Nat
      /\ \A i \in 1..Len(t) : v[i] = t[i]
      /\ v[Len(t) + 1] = s[1]
  BY <1>1
<1> HIDE DEF u, v
<1>4. OfOne(s, n) => OfOne(u, n)  BY <1>1, <1>2 DEF OfOne
<1>5. OfOne(s, n) /\ OfOne(t, n) => OfOne(v, n)
  <2> SUFFICES ASSUME OfOne(s, n), OfOne(t, n), NEW i \in 1..Len(v) PROVE v[i] = n  BY DEF OfOne
  <2>1. s[1] = n  BY <1>1 DEF OfOne
  <2>2. CASE i \in 1..Len(t)  BY <1>3, <2>2 DEF OfOne
  <2>3. CASE i = Len(t) + 1  BY <1>3, <2>1, <2>3
  <2>. QED  BY <1>3, <2>2, <2>3
<1>. QED  BY <1>1, <1>2, <1>3, <1>4, <1>5 DEF u, v

byteVars == <<sent, size, splice, flush, inPipe, stdin, input, sub>>

\* A piece fits into what is left of both pipes.
LEMMA SmallerBounds ==
  ASSUME NEW a \in Nat, NEW b \in Nat, NEW c \in Nat, NEW d \in Nat,
         NEW k \in 0..Smaller(a - b, c - d)
  PROVE  k \in Nat /\ k <= a - b /\ k <= c - d
BY DEF Smaller

\* Each way of moving bytes keeps the count.
LEMMA TransferKeeps ==
  ASSUME BaseInv, Counted, Transfer, UNCHANGED <<size, splice, flush, stdin, input, sub>>
  PROVE  Counted' /\ (Flow => Flow')
<1>0. sub \in Nat /\ PipeCap \in Nat  BY JudgeAssumption DEF BaseInv, Scalars
<1>1. CASE UNCHANGED <<sent, inPipe>>  BY <1>1 DEF Counted, Flow
<1>2. CASE sent < size /\ Len(inPipe) < PipeCap
  <2>1. size - sent \in Nat /\ PipeCap - Len(inPipe) \in Nat  BY <1>0, <1>2 DEF Counted
  <2>2. PICK k \in 1..Smaller(size - sent, PipeCap - Len(inPipe)) :
          sent' = sent + k /\ inPipe' = inPipe \o Copies(k)
    BY <1>2 DEF Transfer
  <2>3. k \in Nat /\ k <= size - sent
    <3>1. sent \in Nat /\ size \in Nat /\ Len(inPipe) \in Nat  BY DEF Counted
    <3>2. k \in 0..Smaller(size - sent, PipeCap - Len(inPipe))  BY <2>2, <2>1 DEF Smaller
    <3>. QED  BY <1>0, <3>1, <3>2, SmallerBounds
  <2>4. inPipe' = inPipe \o [i \in 1..k |-> sub]  BY <2>2 DEF Copies
  <2>5. inPipe' \in Seq(Nat) /\ Len(inPipe') = Len(inPipe) + k /\ (OfOne(inPipe, sub) => OfOne(inPipe', sub))
    BY <1>0, <2>3, <2>4, Sends DEF Counted
  <2>6. sent' \in 0..size  BY <2>1, <2>2, <2>3 DEF Counted
  <2>7. Flow => sent' = Len(inPipe') + splice + flush
    <3>1. Len(inPipe) \in Nat  BY DEF Counted
    <3>. QED  BY <2>2, <2>3, <2>5, <3>1 DEF Counted, Flow
  <2>. QED  BY <2>5, <2>6, <2>7 DEF Counted, Flow
<1>. QED  BY <1>1, <1>2 DEF Transfer

\* The watcher's splice moves bytes and loses none.
LEMMA SpliceKeeps ==
  ASSUME BaseInv, Counted, Splice
  PROVE  Counted' /\ (Flow => Flow')
<1> USE DEF runVars, subVars, inVars, binVars
<1>0. sub \in Nat /\ PipeCap \in Nat /\ UNCHANGED <<sent, size, flush, input, sub>>
  BY JudgeAssumption DEF BaseInv, Scalars, Splice
<1>1. CASE UNCHANGED <<splice, inVars>>  BY <1>0, <1>1 DEF Counted, Flow
<1>2. ASSUME NEW k \in 0..Smaller(Len(inPipe), PipeCap - Len(stdin)), splice' = splice + k,
             stdin' = stdin \o SubSeq(inPipe, 1, k), inPipe' = SubSeq(inPipe, k + 1, Len(inPipe))
      PROVE  Counted' /\ (Flow => Flow')
  <2>0. Len(inPipe) \in Nat /\ Len(stdin) \in Nat /\ Len(input) \in Nat  BY DEF Counted
  <2>1. k \in 0..Len(inPipe)
    <3>1. k \in 0..Smaller(Len(inPipe) - 0, PipeCap - Len(stdin))
      <4>1. Len(inPipe) - 0 = Len(inPipe)  BY <2>0
      <4>. QED  BY <1>2, <4>1
    <3>2. k \in Nat /\ k <= Len(inPipe) - 0  BY <1>0, <2>0, <3>1, SmallerBounds
    <3>. QED  BY <2>0, <3>2
  <2>2. /\ SubSeq(inPipe, 1, k) \in Seq(Nat) /\ Len(SubSeq(inPipe, 1, k)) = k
        /\ inPipe' \in Seq(Nat) /\ Len(inPipe') = Len(inPipe) - k
        /\ OfOne(inPipe, sub) => OfOne(SubSeq(inPipe, 1, k), sub) /\ OfOne(inPipe', sub)
    BY <1>0, <1>2, <2>1, TakesFront DEF Counted
  <2>3. /\ stdin' \in Seq(Nat) /\ Len(stdin') = Len(stdin) + k
        /\ OfOne(inPipe, sub) /\ OfOne(stdin, sub) => OfOne(stdin', sub)
    BY <1>0, <1>2, <2>2, Joins DEF Counted
  <2>4. Counted'  BY <1>0, <1>2, <2>1, <2>2, <2>3 DEF Counted
  <2>5. ASSUME Flow
        PROVE  sent' = Len(inPipe') + splice' + flush' /\ splice' = Len(stdin') + Len(input')
    <3>1. sent = Len(inPipe) + splice + flush /\ splice = Len(stdin) + Len(input)  BY <2>5 DEF Flow
    <3>2. splice \in Nat /\ flush \in Nat /\ Len(input') = Len(input)  BY <1>0 DEF Counted
    <3>3. splice' = splice + k /\ flush' = flush /\ sent' = sent /\ k \in Nat  BY <1>0, <1>2, <2>1
    <3>4. Len(inPipe') = Len(inPipe) - k /\ Len(stdin') = Len(stdin) + k  BY <2>2, <2>3
    <3>. QED  BY <2>0, <3>1, <3>2, <3>3, <3>4
  <2>. QED  BY <1>0, <2>2, <2>3, <2>4, <2>5 DEF Flow
<1>. QED  BY <1>1, <1>2 DEF Splice

\* What the watcher throws away is counted.
LEMMA DrainKeeps ==
  ASSUME BaseInv, Counted, Drain
  PROVE  Counted' /\ (Flow => Flow')
<1> USE DEF runVars, subVars, binVars
<1>0. sub \in Nat /\ UNCHANGED <<sent, size, splice, stdin, input, sub>>
  BY DEF BaseInv, Scalars, Drain
<1>1. PICK k \in 0..Len(inPipe) : inPipe' = SubSeq(inPipe, k + 1, Len(inPipe)) /\ flush' = flush + k
  BY DEF Drain
<1>2. Len(inPipe) \in Nat  BY DEF Counted
<1>3. inPipe' \in Seq(Nat) /\ Len(inPipe') = Len(inPipe) - k /\ (OfOne(inPipe, sub) => OfOne(inPipe', sub))
  BY <1>0, <1>1, TakesFront DEF Counted
<1>4. Counted'  BY <1>0, <1>1, <1>2, <1>3 DEF Counted
<1>5. ASSUME Flow PROVE sent' = Len(inPipe') + splice' + flush'
  <2>1. sent = Len(inPipe) + splice + flush /\ splice \in Nat /\ flush \in Nat  BY <1>5 DEF Flow, Counted
  <2>2. flush' = flush + k /\ splice' = splice /\ sent' = sent /\ k \in Nat  BY <1>0, <1>1
  <2>. QED  BY <1>2, <1>3, <2>1, <2>2
<1>. QED  BY <1>0, <1>3, <1>4, <1>5 DEF Flow

\* So is what the binary reads.
LEMMA ReadKeeps ==
  ASSUME BaseInv, Counted, BinRead
  PROVE  Counted' /\ (Flow => Flow')
<1> USE DEF runVars, subVars, watchVars
<1>0. sub \in Nat /\ UNCHANGED <<sent, size, splice, flush, inPipe, sub>>
  BY DEF BaseInv, Scalars, BinRead
<1>1. stdin # <<>> /\ stdin' = Tail(stdin) /\ input' = Append(input, Head(stdin))  BY DEF BinRead
<1>2. Len(stdin) \in Nat /\ Len(input) \in Nat  BY DEF Counted
<1>3. /\ stdin' \in Seq(Nat) /\ Len(stdin') = Len(stdin) - 1
      /\ input' \in Seq(Nat) /\ Len(input') = Len(input) + 1
      /\ OfOne(stdin, sub) /\ OfOne(input, sub) => OfOne(stdin', sub) /\ OfOne(input', sub)
  BY <1>0, <1>1, Reads DEF Counted
<1>4. Counted'  BY <1>0, <1>3 DEF Counted
<1>5. Flow => splice' = Len(stdin') + Len(input')  BY <1>0, <1>2, <1>3 DEF Flow
<1>. QED  BY <1>0, <1>3, <1>4, <1>5 DEF Flow

\* A new run finds in_pipe empty.
LEMMA FreshKeeps ==
  ASSUME BaseInv, InputInv, rpc = "idle", NEW n \in Nat, FreshRun(n)
  PROVE  Counted' /\ (~lame => Flow')
<1>1. Counted'  BY DEF InputInv, Counted, FreshRun
<1>2. ASSUME ~lame PROVE Flow'
  <2>1. inPipe' = <<>>  BY <1>2 DEF InputInv, Drained, FreshRun
  <2>. QED  BY <2>1 DEF Flow, OfOne, FreshRun
<1>. QED  BY <1>1, <1>2

\* No step loses count, as long as no watcher fails.
LEMMA FlowKeeps ==
  ASSUME BaseInv, InputInv, Next
  PROVE  Counted' /\ (~lame' => ~lame /\ Flow')
<1> USE DEF byteVars, subVars, runVars, inVars, watchVars, binVars
<1>0. Counted /\ (~lame => Flow)  BY DEF InputInv
<1>u. ASSUME UNCHANGED byteVars PROVE Counted' /\ (~lame => Flow')
  BY <1>0, <1>u DEF Counted, Flow, OfOne
<1>1. ASSUME NEW n \in InputSizes, JudgeStart(n) PROVE Counted' /\ (~lame' => ~lame /\ Flow')
  <2>1. lame' = lame /\ n \in Nat  BY <1>1, JudgeAssumption DEF JudgeStart, FreshRun
  <2>. QED  BY <1>1, <2>1, FreshKeeps DEF JudgeStart
<1>2. CASE JudgeOpenFails
  <2>1. lame' = lame  BY <1>2 DEF JudgeOpenFails, FreshRun
  <2>. QED  BY <1>2, <2>1, FreshKeeps DEF JudgeOpenFails
<1>3. CASE CloneWatcher \/ CloneRefused \/ CloneFails \/ RunWait \/ RunRead \/ RunReadEmpty \/ RunFlush
  BY <1>3, <1>u DEF CloneWatcher, CloneRefused, CloneFails, RunWait, RunRead, RunReadEmpty, RunFlush
<1>4. CASE RunSend \/ RunFill
  BY <1>0, <1>4, TransferKeeps DEF RunSend, RunFill
<1>5. CASE WatcherSetup \/ WatcherSetupFails \/ PollNothing \/ PollStop \/ PollEnd
  BY <1>5, <1>u DEF WatcherSetup, WatcherSetupFails, PollNothing, PollStop, PollEnd
<1>6. CASE Splice
  <2>1. lame' = lame  BY <1>6 DEF Splice
  <2>. QED  BY <1>0, <1>6, <2>1, SpliceKeeps
<1>7. CASE Drain
  <2>1. lame' = lame  BY <1>7 DEF Drain
  <2>. QED  BY <1>0, <1>7, <2>1, DrainKeeps
<1>8. CASE HandleUsr2 \/ HandleAlarm
  BY <1>8, <1>u DEF HandleUsr2, HandleAlarm, Handle
<1>9. CASE BinRead
  <2>1. lame' = lame  BY <1>9 DEF BinRead
  <2>. QED  BY <1>0, <1>9, <2>1, ReadKeeps
<1>10. CASE BinEof \/ HardLimit \/ BinKills \/ BinDies \/ WatcherKilled
  BY <1>10, <1>u DEF BinEof, HardLimit, BinKills, BinDies, WatcherKilled
<1>11. ASSUME NEW ok \in BOOLEAN, BinWrite(ok) PROVE Counted' /\ (~lame' => ~lame /\ Flow')
  BY <1>11, <1>u DEF BinWrite
<1>12. ASSUME NEW e \in Events, NEW m \in BOOLEAN, BinStop(e, m) PROVE Counted' /\ (~lame' => ~lame /\ Flow')
  BY <1>12, <1>u DEF BinStop
<1>. QED  BY <1>1, <1>2, <1>3, <1>4, <1>5, <1>6, <1>7, <1>8, <1>9, <1>10, <1>11, <1>12
          DEF Next, Runner, Watcher, Binary

\* Every run has a watcher that exits, if none failed.
LEMMA StartedKeeps ==
  ASSUME BaseInv, Started, ~lame', Next
  PROVE  Started'
<1> USE DEF Started, Running, subVars, runVars, inVars, watchVars, binVars, outVars
<1>0. Places  BY DEF BaseInv
<1>1. ASSUME NEW n \in InputSizes, JudgeStart(n) PROVE Started'
  BY <1>0, <1>1 DEF JudgeStart, FreshRun, Places
<1>2. CASE JudgeOpenFails  BY <1>0, <1>2 DEF JudgeOpenFails, FreshRun, Places
<1>3. CASE CloneWatcher \/ CloneRefused \/ CloneFails
  BY <1>0, <1>3 DEF CloneWatcher, CloneRefused, CloneFails, Places
<1>4. CASE RunWait  BY <1>0, <1>4 DEF RunWait, Places
<1>5. CASE RunSend \/ RunRead \/ RunReadEmpty \/ RunFlush \/ RunFill
  BY <1>0, <1>5 DEF RunSend, RunRead, RunReadEmpty, RunFlush, RunFill, Places
<1>6. CASE WatcherSetup \/ WatcherSetupFails \/ PollNothing \/ PollStop \/ PollEnd \/ Splice
  BY <1>0, <1>6 DEF WatcherSetup, WatcherSetupFails, PollNothing, PollStop, PollEnd, Splice, Places
<1>7. CASE Drain  BY <1>0, <1>7 DEF Drain, ExitCode, Places
<1>8. CASE HandleUsr2 \/ HandleAlarm  BY <1>8 DEF HandleUsr2, HandleAlarm, Handle
<1>9. CASE BinRead \/ BinEof \/ HardLimit \/ BinKills \/ BinDies \/ WatcherKilled
  BY <1>0, <1>9 DEF BinRead, BinEof, HardLimit, BinKills, BinDies, WatcherKilled, Places, Free
<1>10. ASSUME NEW ok \in BOOLEAN, BinWrite(ok) PROVE Started'  BY <1>10 DEF BinWrite
<1>11. ASSUME NEW e \in Events, NEW m \in BOOLEAN, BinStop(e, m) PROVE Started'
  BY <1>0, <1>11 DEF BinStop, Places
<1>. QED  BY <1>1, <1>2, <1>3, <1>4, <1>5, <1>6, <1>7, <1>8, <1>9, <1>10, <1>11
          DEF Next, Runner, Watcher, Binary

\* A watcher exits only after all of its input came through in_pipe, and stdin is
\* closed no sooner.
LEMMA DrainedKeeps ==
  ASSUME BaseInv, Counted, Counted', Started, Flow, Flow', Drained, ~lame', Next
  PROVE  Drained'
<1> USE DEF Drained, subVars, runVars, inVars, watchVars, binVars, outVars
<1>0. Places  BY DEF BaseInv
<1>l. /\ Len(inPipe) \in Nat /\ Len(stdin) \in Nat /\ Len(input) \in Nat
      /\ splice \in Nat /\ flush \in Nat /\ size \in Nat /\ sent \in Nat /\ sent <= size
      /\ sent = Len(inPipe) + splice + flush /\ splice = Len(stdin) + Len(input)
  <2>1. Len(inPipe) \in Nat /\ Len(stdin) \in Nat /\ Len(input) \in Nat  BY DEF Counted
  <2>2. splice \in Nat /\ flush \in Nat /\ size \in Nat /\ sent \in 0..size  BY DEF Counted
  <2>3. sent = Len(inPipe) + splice + flush /\ splice = Len(stdin) + Len(input)  BY DEF Flow
  <2>4. sent \in Nat /\ sent <= size  BY <2>2
  <2>. QED  BY <2>1, <2>2, <2>3, <2>4
<1>1. ASSUME NEW n \in InputSizes, JudgeStart(n) PROVE Drained'
  BY <1>1 DEF JudgeStart, FreshRun
<1>2. CASE JudgeOpenFails  BY <1>2 DEF JudgeOpenFails, FreshRun
<1>3. CASE CloneWatcher \/ CloneRefused \/ CloneFails
  BY <1>0, <1>3 DEF CloneWatcher, CloneRefused, CloneFails, Places
<1>4. CASE RunWait  BY <1>0, <1>4 DEF RunWait, Places
<1>5. CASE RunSend
  <2>1. /\ rpc' \in {"read", "wait", "flush"}
        /\ UNCHANGED <<bpc, wpc, splice, flush, size, stdinOpen, eof, input>>
    BY <1>5 DEF RunSend
  <2>. QED  BY <2>1
<1>6. CASE RunRead \/ RunReadEmpty \/ RunFlush
  BY <1>6 DEF RunRead, RunReadEmpty, RunFlush
<1>7. CASE RunFill
  <2>1. bpc = "reaped" /\ wpc = "none"  BY <1>0, <1>7 DEF RunFill, Started, Places
  <2>2. splice + flush >= size  BY <2>1
  <2>3. /\ UNCHANGED <<bpc, wpc, splice, flush, size, stdinOpen, eof, input>>
        /\ rpc' # "clone"
    BY <1>7 DEF RunFill
  <2>4. Len(inPipe') \in Nat /\ sent' \in Nat /\ sent' <= size /\ sent' = Len(inPipe') + splice + flush
    <3>1. Len(inPipe') \in Nat  BY DEF Counted
    <3>2. sent' \in 0..size'  BY DEF Counted
    <3>3. sent' = Len(inPipe') + splice' + flush'  BY DEF Flow
    <3>. QED  BY <1>l, <2>3, <3>1, <3>2, <3>3
  <2>5. Len(inPipe') = 0  BY <1>l, <2>2, <2>4
  <2>6. inPipe' = <<>>  BY <2>5 DEF Counted
  <2>. QED  BY <2>1, <2>2, <2>3, <2>6
<1>8. CASE WatcherSetup \/ WatcherSetupFails \/ PollNothing \/ PollStop \/ PollEnd
  BY <1>0, <1>8 DEF WatcherSetup, WatcherSetupFails, PollNothing, PollStop, PollEnd, Places
<1>9. CASE Splice
  <2>1. rpc' = rpc /\ rpc \notin {"idle", "clone"} /\ bpc' = bpc /\ bpc # "reaped" /\ UNCHANGED <<eof, input, size>>
    BY <1>0, <1>9 DEF Splice, Places
  <2>2. ~stdinOpen' => splice' >= size \/ (splice' = splice /\ stdinOpen' = stdinOpen)
    <3>1. CASE UNCHANGED <<splice, inVars>>  BY <3>1
    <3>2. CASE stdinOpen' = (splice' < size)
      <4>1. splice' \in Nat  BY DEF Counted
      <4>2. ~stdinOpen' => ~(splice' < size)  BY <3>2
      <4>3. ~(splice' < size) => splice' >= size  BY <1>l, <4>1
      <4>. QED  BY <4>2, <4>3
    <3>. QED  BY <1>9, <3>1, <3>2 DEF Splice
  <2>. QED  BY <2>1, <2>2
<1>10. CASE Drain
  <2>1. /\ rpc' = rpc /\ rpc \notin {"idle", "clone"} /\ UNCHANGED <<bpc, eof, input, size, splice, stdinOpen>>
        /\ wpc' = "drain" \/ splice + flush' >= size
    BY <1>0, <1>10 DEF Drain, Places
  <2>. QED  BY <2>1
<1>11. CASE HandleUsr2 \/ HandleAlarm  BY <1>11 DEF HandleUsr2, HandleAlarm, Handle
<1>12. CASE BinRead
  <2>1. /\ UNCHANGED <<rpc, inPipe, sent, splice, flush, size, bpc, wpc, stdinOpen, eof>>
        /\ stdin # <<>>
    BY <1>12 DEF BinRead
  <2>2. Len(stdin) > 0  BY <2>1 DEF Counted
  <2>3. ~eof  BY <1>l, <2>2
  <2>. QED  BY <2>1, <2>3
<1>13. CASE BinEof
  <2>1. /\ UNCHANGED <<rpc, inPipe, sent, splice, flush, size, bpc, wpc, stdinOpen, input>>
        /\ stdin = <<>> /\ ~stdinOpen /\ bpc = "run"
    BY <1>13 DEF BinEof, Free
  <2>2. splice >= size /\ Len(stdin) = 0  BY <2>1
  <2>3. Len(input) = size  BY <1>l, <2>2
  <2>. QED  BY <2>1, <2>3
<1>14. CASE HardLimit \/ BinKills \/ BinDies \/ WatcherKilled
  BY <1>0, <1>14 DEF HardLimit, BinKills, BinDies, WatcherKilled, Places
<1>15. ASSUME NEW ok \in BOOLEAN, BinWrite(ok) PROVE Drained'  BY <1>15 DEF BinWrite
<1>16. ASSUME NEW e \in Events, NEW m \in BOOLEAN, BinStop(e, m) PROVE Drained'
  BY <1>0, <1>16 DEF BinStop, Places
<1>. QED  BY <1>1, <1>2, <1>3, <1>4, <1>5, <1>6, <1>7, <1>8, <1>9, <1>10, <1>11, <1>12, <1>13, <1>14,
             <1>15, <1>16 DEF Next, Runner, Watcher, Binary

\* What the runner did not compare it threw away.
ReadInv == rpc \in {"fill", "idle"} => received = written

\* The runner ends a run with an empty out_pipe.
LEMMA ReadInvKeeps ==
  ASSUME BaseInv, ReadInv, Next
  PROVE  ReadInv'
<1> USE DEF ReadInv, subVars, runVars, inVars, watchVars, binVars, outVars, sigVars
<1>0. Places /\ Scalars  BY DEF BaseInv
<1>1. ASSUME NEW n \in InputSizes, JudgeStart(n) PROVE ReadInv'  BY <1>1 DEF JudgeStart
<1>2. CASE JudgeOpenFails  BY <1>2 DEF JudgeOpenFails, FreshRun
<1>3. CASE CloneRefused
  <2>1. written = 0 /\ received \in 0..written  BY <1>0, <1>3 DEF CloneRefused, Places, Scalars
  <2>2. received = 0  BY <2>1
  <2>. QED  BY <1>3, <2>1, <2>2 DEF CloneRefused
<1>4. CASE CloneWatcher \/ CloneFails \/ RunWait \/ RunSend \/ RunRead \/ RunReadEmpty
  BY <1>4 DEF CloneWatcher, CloneFails, RunWait, RunSend, RunRead, RunReadEmpty
<1>5. CASE RunFlush \/ RunFill  BY <1>5 DEF RunFlush, RunFill
<1>6. CASE Watcher
  BY <1>6 DEF Watcher, WatcherSetup, WatcherSetupFails, PollNothing, PollStop, PollEnd, Splice, Drain
<1>7. CASE HandleUsr2 \/ HandleAlarm  BY <1>7 DEF HandleUsr2, HandleAlarm, Handle
<1>8. CASE BinRead \/ BinEof \/ HardLimit \/ BinKills \/ BinDies \/ WatcherKilled
  BY <1>8 DEF BinRead, BinEof, HardLimit, BinKills, BinDies, WatcherKilled
<1>9. ASSUME NEW ok \in BOOLEAN, BinWrite(ok) PROVE ReadInv'
  BY <1>0, <1>9 DEF BinWrite, Places
<1>10. ASSUME NEW e \in Events, NEW m \in BOOLEAN, BinStop(e, m) PROVE ReadInv'  BY <1>10 DEF BinStop
<1>. QED  BY <1>1, <1>2, <1>3, <1>4, <1>5, <1>6, <1>7, <1>8, <1>9, <1>10 DEF Next, Runner, Binary

\* The count of the bytes holds in every state, whatever runner, watcher and binary
\* do in which order, as long as no watcher failed.
THEOREM InputInvHolds == Spec => [](BaseInv /\ InputInv /\ ReadInv)
<1>1. Init => InputInv /\ ReadInv
  BY DEF Init, InputInv, ReadInv, Counted, Started, Flow, Drained, OfOne, Running
<1>2. BaseInv /\ BaseInv' /\ InputInv /\ ReadInv /\ [Next]_vars => InputInv' /\ ReadInv'
  <2> SUFFICES ASSUME BaseInv, InputInv, ReadInv, [Next]_vars PROVE InputInv' /\ ReadInv'  OBVIOUS
  <2>1. CASE Next
    <3>1. Counted' /\ (~lame' => ~lame /\ Flow')  BY <2>1, FlowKeeps
    <3>2. ~lame' => Started' /\ Drained'
      BY <2>1, <3>1, StartedKeeps, DrainedKeeps DEF InputInv
    <3>. QED  BY <2>1, <3>1, <3>2, ReadInvKeeps DEF InputInv
  <2>2. CASE UNCHANGED vars
    BY <2>2 DEF vars, subVars, runVars, inVars, outVars, watchVars, sigVars, binVars, InputInv, ReadInv,
                Counted, Started, Flow, Drained, OfOne, Running
  <2>. QED  BY <2>1, <2>2
<1>. QED  BY <1>1, <1>2, BaseHolds, PTL DEF Spec

\* Between two submissions of the thread no process and no byte of the last one is
\* left in jug_runner_run's pipes, with every size of pipes, inputs and outputs.
THEOREM NothingLeftBetween == Spec => []CleanBetween
<1>1. BaseInv /\ InputInv /\ ReadInv => CleanBetween
  BY DEF BaseInv, Places, InputInv, Drained, ReadInv, CleanBetween, Judged
<1>. QED  BY <1>1, InputInvHolds, PTL

\* A binary reads a prefix of its own input and sees its end only after the last
\* byte, however the watcher's splice is cut into pieces.
THEOREM InputAlwaysMine == Spec => []InputIsMine
<1>1. InputInv => InputIsMine
  <2> SUFFICES ASSUME InputInv, ~lame PROVE /\ \A k \in 1..Len(input) : input[k] = sub
                                            /\ Len(input) <= size
                                            /\ eof => Len(input) = size
    BY DEF InputIsMine
  <2>1. Counted /\ Flow /\ Drained  BY DEF InputInv
  <2>2. Len(inPipe) \in Nat /\ Len(stdin) \in Nat /\ Len(input) \in Nat /\ flush \in Nat /\ size \in Nat
        /\ sent \in 0..size /\ sent = Len(inPipe) + splice + flush /\ splice = Len(stdin) + Len(input)
    BY <2>1 DEF Counted, Flow
  <2>3. Len(input) <= size  BY <2>2
  <2>. QED  BY <2>1, <2>3 DEF Flow, OfOne, Drained
<1>. QED  BY <1>1, InputInvHolds, PTL

-----------------------------------------------------------------------------
(* The causes of a verdict.  A binary is killed only for what it did, because *)
(* its time is over or because the runner saw a difference, and the watcher's  *)
(* flags tell which.                                                           *)

Killing ==
  /\ sigkill => xcpu \/ state # "RUNNING" \/ fault \in {"segv", "fork", "kill"} \/ code = "UNKNOWN"
  /\ bpc = "signaled" \/ killed => sigkill
  /\ segv => sigkill /\ fault = "segv"
  /\ fault \in {"segv", "fork"} => sigkill \/ (bpc = "stop" /\ event = fault)
  /\ bpc = "stop" /\ event \in {"segv", "fork"} => fault = event
  /\ cpu # "ok" /\ bpc \in {"run", "stop"} => xcpu \/ (bpc = "stop" /\ event = "xcpu")
  /\ xcpu \/ (bpc = "stop" /\ event = "xcpu") => cpu # "ok"
  /\ state = "WALLTIMEOUT" => alarm = "rung"
  /\ bpc = "none" => cpu = "ok" /\ state = "RUNNING"
  /\ rpc = "clone" \/ wpc \in {"setup", "splice", "poll", "drain"} => code = "garbage"

\* What the runner saw before it gave up reading.
Differs ==
  /\ compout => right < received /\ comp \in {"WRONG", "OUTPUTLIMIT"}
  /\ comp = "OUTPUTLIMIT" => received > OutLimit
  /\ rpc = "read" => ~compout

\* What an exit code of the watcher is owed to.
OfWatcher(r) ==
  /\ r \in {"CORRECT", "TIMELIMIT", "WALL_TIMELIMIT", "MEMLIMIT", "RUNTIME", "UNKNOWN"}
  /\ r = "TIMELIMIT" => cpu # "ok"
  /\ r = "WALL_TIMELIMIT" => alarm = "rung"
  /\ r = "MEMLIMIT" => memlimit
  /\ r = "RUNTIME" => fault \in {"segv", "fork", "kill"}
  /\ r = "UNKNOWN" => code = "UNKNOWN"

\* What a result of jug_runner_run is owed to.
Justified(r) ==
  \/ OfWatcher(r)
  \/ r = "WRONG" /\ (written # Expected \/ right # Expected)
  \/ r = "OUTPUTLIMIT" /\ written > OutLimit

\* The clone whose -2 the runner takes for a pid.
Unnoticed == lame /\ code = "garbage"

\* The cause on its way from the watcher's exit code to the verdict.
Causes ==
  /\ rpc \in Running /\ alive /\ wpc = "none" => Unnoticed
  /\ rpc \in Running /\ ~alive /\ bpc = "none" => ~spawned \/ wres = "UNKNOWN" \/ Unnoticed
  /\ rpc \in {"flush", "fill"} /\ bpc = "none" => result = "UNKNOWN" \/ Unnoticed
  /\ rpc = "idle" /\ bpc = "none" /\ sub > 0 => verdict = "INTERNAL" \/ Unnoticed
  /\ wpc = "exited" /\ code # "failed" => spawned /\ OfWatcher(code)
  /\ rpc \in Running /\ ~alive /\ bpc = "reaped" => spawned /\ OfWatcher(wres)
  /\ rpc \in {"flush", "fill"} /\ bpc = "reaped" => Justified(result)
  /\ rpc = "idle" /\ bpc = "reaped" => \E r \in Results : verdict = VerdictOf(r) /\ Justified(r)

\* No step kills without a cause or loses the mark of one.
LEMMA KillingKeeps ==
  ASSUME BaseInv, Killing, Next
  PROVE  Killing'
<1> USE DEF Killing, subVars, runVars, inVars, outVars, watchVars, sigVars, binVars
<1>0. Scalars /\ Places  BY DEF BaseInv
<1>1. CASE CloneWatcher  BY <1>0, <1>1 DEF CloneWatcher, Places, Scalars
<1>2. CASE CloneRefused  BY <1>0, <1>2 DEF CloneRefused, Places, Scalars
<1>3. CASE CloneFails  BY <1>0, <1>3 DEF CloneFails, Places, Scalars
<1>4. CASE RunWait  BY <1>0, <1>4 DEF RunWait, Places, Scalars
<1>5. CASE RunSend  BY <1>0, <1>5 DEF RunSend, Settle, Places, Scalars
<1>6. CASE RunRead  BY <1>0, <1>6 DEF RunRead, SendUsr2, Places, Scalars
<1>7. CASE RunReadEmpty  BY <1>0, <1>7 DEF RunReadEmpty, Settle, Places, Scalars
<1>8. CASE RunFlush  BY <1>0, <1>8 DEF RunFlush, Places, Scalars
<1>9. CASE RunFill  BY <1>0, <1>9 DEF RunFill, Places, Scalars
<1>10. CASE WatcherSetup  BY <1>0, <1>10 DEF WatcherSetup, Places, Scalars
<1>11. CASE WatcherSetupFails  BY <1>0, <1>11 DEF WatcherSetupFails, Places, Scalars
<1>12. CASE Splice  BY <1>0, <1>12 DEF Splice, Places, Scalars
<1>13. CASE PollNothing  BY <1>0, <1>13 DEF PollNothing, Places, Scalars
<1>14. CASE PollStop  BY <1>0, <1>14 DEF PollStop, Places, Scalars
<1>15. CASE PollEnd  BY <1>0, <1>15 DEF PollEnd, Places, Scalars
<1>16. CASE Drain  BY <1>0, <1>16 DEF Drain, ExitCode, Places, Scalars
<1>17. CASE HandleUsr2  BY <1>0, <1>17 DEF HandleUsr2, Handle, Places, Scalars
<1>18. CASE HandleAlarm  BY <1>0, <1>18 DEF HandleAlarm, Handle, Places, Scalars
<1>19. CASE BinRead  BY <1>0, <1>19 DEF BinRead, Free, Places, Scalars
<1>20. CASE BinEof  BY <1>0, <1>20 DEF BinEof, Free, Places, Scalars
<1>21. CASE HardLimit  BY <1>0, <1>21 DEF HardLimit, Places, Scalars
<1>22. CASE BinDies  BY <1>0, <1>22 DEF BinDies, Places, Scalars
<1>23. CASE JudgeOpenFails  BY <1>0, <1>23 DEF JudgeOpenFails, FreshRun, Places, Scalars
<1>24. ASSUME NEW n \in InputSizes, JudgeStart(n) PROVE Killing'  BY <1>0, <1>24 DEF JudgeStart, FreshRun, Places, Scalars
<1>25. ASSUME NEW ok \in BOOLEAN, BinWrite(ok) PROVE Killing'  BY <1>0, <1>25 DEF BinWrite, Places, Scalars
<1>26. ASSUME NEW e \in Events, NEW m \in BOOLEAN, BinStop(e, m) PROVE Killing'  BY <1>0, <1>26 DEF BinStop, Events, Places, Scalars
<1>27. CASE WatcherKilled  BY <1>0, <1>27 DEF WatcherKilled, Places, Scalars
<1>28. CASE BinKills  BY <1>0, <1>28 DEF BinKills, Places, Scalars
<1>. QED  BY <1>1, <1>2, <1>3, <1>4, <1>5, <1>6, <1>7, <1>8, <1>9, <1>10, <1>11, <1>12, <1>13, <1>14,
             <1>15, <1>16, <1>17, <1>18, <1>19, <1>20, <1>21, <1>22, <1>23, <1>24, <1>25, <1>26,
             <1>27, <1>28
          DEF Next, Runner, Watcher, Binary

\* A difference stays one, whatever is written afterwards.
LEMMA DiffersKeeps ==
  ASSUME BaseInv, Differs, Next
  PROVE  Differs'
<1> USE DEF Differs, subVars, runVars, inVars, outVars, watchVars, sigVars, binVars
<1>0. Scalars /\ Places  BY DEF BaseInv
<1>1. CASE CloneWatcher  BY <1>0, <1>1 DEF CloneWatcher, Places, Scalars
<1>2. CASE CloneRefused  BY <1>0, <1>2 DEF CloneRefused, Places, Scalars
<1>3. CASE CloneFails  BY <1>0, <1>3 DEF CloneFails, Places, Scalars
<1>4. CASE RunWait  BY <1>0, <1>4 DEF RunWait, Places, Scalars
<1>5. CASE RunSend  BY <1>0, <1>5 DEF RunSend, Settle, Places, Scalars
<1>6. CASE RunRead  BY <1>0, <1>6 DEF RunRead, SendUsr2, Places, Scalars
<1>7. CASE RunReadEmpty  BY <1>0, <1>7 DEF RunReadEmpty, Settle, Places, Scalars
<1>8. CASE RunFlush
  <2>1. /\ UNCHANGED <<compout, right, comp, written>> /\ rpc' # "read" /\ received' = written
    BY <1>8 DEF RunFlush
  <2>2. received <= written /\ received \in Nat /\ written \in Nat /\ right \in Nat /\ OutLimit \in Nat
    BY <1>0, ExpectedNat DEF Scalars
  <2>3. (right < received => right < written) /\ (received > OutLimit => written > OutLimit)
    BY <2>2
  <2>. QED  BY <2>1, <2>3
<1>9. CASE RunFill  BY <1>0, <1>9 DEF RunFill, Places, Scalars
<1>10. CASE WatcherSetup  BY <1>0, <1>10 DEF WatcherSetup, Places, Scalars
<1>11. CASE WatcherSetupFails  BY <1>0, <1>11 DEF WatcherSetupFails, Places, Scalars
<1>12. CASE Splice  BY <1>0, <1>12 DEF Splice, Places, Scalars
<1>13. CASE PollNothing  BY <1>0, <1>13 DEF PollNothing, Places, Scalars
<1>14. CASE PollStop  BY <1>0, <1>14 DEF PollStop, Places, Scalars
<1>15. CASE PollEnd  BY <1>0, <1>15 DEF PollEnd, Places, Scalars
<1>16. CASE Drain  BY <1>0, <1>16 DEF Drain, ExitCode, Places, Scalars
<1>17. CASE HandleUsr2  BY <1>0, <1>17 DEF HandleUsr2, Handle, Places, Scalars
<1>18. CASE HandleAlarm  BY <1>0, <1>18 DEF HandleAlarm, Handle, Places, Scalars
<1>19. CASE BinRead  BY <1>0, <1>19 DEF BinRead, Free, Places, Scalars
<1>20. CASE BinEof  BY <1>0, <1>20 DEF BinEof, Free, Places, Scalars
<1>21. CASE HardLimit  BY <1>0, <1>21 DEF HardLimit, Places, Scalars
<1>22. CASE BinDies  BY <1>0, <1>22 DEF BinDies, Places, Scalars
<1>23. CASE JudgeOpenFails  BY <1>0, <1>23 DEF JudgeOpenFails, FreshRun, Places, Scalars
<1>24. ASSUME NEW n \in InputSizes, JudgeStart(n) PROVE Differs'  BY <1>0, <1>24 DEF JudgeStart, FreshRun, Places, Scalars
<1>25. ASSUME NEW ok \in BOOLEAN, BinWrite(ok) PROVE Differs'  BY <1>0, <1>25 DEF BinWrite, Places, Scalars
<1>26. ASSUME NEW e \in Events, NEW m \in BOOLEAN, BinStop(e, m) PROVE Differs'  BY <1>0, <1>26 DEF BinStop, Events, Places, Scalars
<1>27. CASE WatcherKilled  BY <1>0, <1>27 DEF WatcherKilled, Places, Scalars
<1>28. CASE BinKills  BY <1>0, <1>28 DEF BinKills, Places, Scalars
<1>. QED  BY <1>1, <1>2, <1>3, <1>4, <1>5, <1>6, <1>7, <1>8, <1>9, <1>10, <1>11, <1>12, <1>13, <1>14,
             <1>15, <1>16, <1>17, <1>18, <1>19, <1>20, <1>21, <1>22, <1>23, <1>24, <1>25, <1>26,
             <1>27, <1>28
          DEF Next, Runner, Watcher, Binary

\* A difference that was seen justifies what it is reported as.
LEMMA SeenJustified ==
  ASSUME BaseInv, Differs, compout
  PROVE  Justified(comp)
<1>1. right < received /\ comp \in {"WRONG", "OUTPUTLIMIT"} /\ (comp = "OUTPUTLIMIT" => received > OutLimit)
  BY DEF Differs
<1>2. /\ received \in Nat /\ received <= written /\ written \in Nat /\ right \in Nat
      /\ OutLimit \in Nat /\ Expected \in Nat
  BY ExpectedNat DEF BaseInv, Scalars
<1>3. right < written /\ (received > OutLimit => written > OutLimit)  BY <1>1, <1>2
<1>4. written # Expected \/ right # Expected  BY <1>2, <1>3
<1>. QED  BY <1>1, <1>3, <1>4 DEF Justified

\* No step of runner, watcher or binary loses the cause.
LEMMA CausesKeep ==
  ASSUME BaseInv, Killing, Differs, Causes, Next
  PROVE  Causes'
<1> USE DEF Causes, OfWatcher, Unnoticed, Running, subVars, runVars, inVars, outVars, watchVars, sigVars, binVars
<1>0. Scalars /\ Places  BY DEF BaseInv
<1>1. CASE CloneWatcher  BY <1>0, <1>1 DEF CloneWatcher, Places, Scalars, Killing, Differs
<1>2. CASE CloneRefused  BY <1>0, <1>2 DEF CloneRefused, Places, Scalars, Killing, Differs
<1>3. CASE CloneFails  BY <1>0, <1>3 DEF CloneFails, Places, Scalars, Killing, Differs
<1>4. CASE RunWait  BY <1>0, <1>4 DEF RunWait, Places, Scalars, Killing, Differs
<1>5. CASE RunSend
  <2> USE DEF RunSend, Places
  <2>1. CASE ~compout  BY <1>0, <1>5, <2>1
  <2>2. CASE compout /\ alive  BY <1>0, <1>5, <2>2
  <2>3. CASE compout /\ ~alive
    <3>1. rpc' = "flush" /\ result' = Settle(comp) /\ rpc = "send" /\ UNCHANGED <<sub, lame>>
          /\ UNCHANGED <<bpc, wpc, code, written, right, cpu, alarm, memlimit, fault>>
      BY <1>5, <2>3
    <3>2. bpc \in {"none", "reaped"}  BY <1>0, <2>3
    <3>3. bpc = "none" => result' = "UNKNOWN" \/ Unnoticed  BY <2>3, <3>1 DEF Settle
    <3>4. ASSUME bpc = "reaped" PROVE Justified(result')
      <4>1. spawned /\ OfWatcher(wres)  BY <2>3, <3>1, <3>4
      <4>2. result' = IF wres = "CORRECT" THEN comp ELSE wres  BY <3>1, <4>1 DEF Settle
      <4>3. Justified(comp)  BY <2>3, SeenJustified
      <4>. QED  BY <4>1, <4>2, <4>3 DEF Justified
    <3>. QED  BY <1>0, <2>3, <3>1, <3>2, <3>3, <3>4 DEF Justified
  <2>. QED  BY <2>1, <2>2, <2>3
<1>6. CASE RunRead  BY <1>0, <1>6 DEF RunRead, SendUsr2, Places, Scalars, Killing, Differs
<1>7. CASE RunReadEmpty
  <2> USE DEF RunReadEmpty, Places
  <2>1. CASE alive  BY <1>0, <1>7, <2>1
  <2>2. CASE ~alive
    <3>1. /\ rpc' = "flush" /\ result' = Settle(comp') /\ rpc = "read" /\ written = received
          /\ comp' = IF received = Expected THEN "CORRECT" ELSE "WRONG"
          /\ UNCHANGED <<sub, lame, bpc, wpc, code, written, right, cpu, alarm, memlimit, fault>>
      BY <1>7, <2>2
    <3>2. bpc \in {"none", "reaped"}  BY <1>0, <2>2
    <3>3. bpc = "none" => result' = "UNKNOWN" \/ Unnoticed  BY <2>2, <3>1 DEF Settle
    <3>4. ASSUME bpc = "reaped" PROVE Justified(result')
      <4>1. spawned /\ OfWatcher(wres)  BY <2>2, <3>1, <3>4
      <4>2. result' = IF wres = "CORRECT" THEN comp' ELSE wres  BY <3>1, <4>1 DEF Settle
      <4>3. Justified(comp')  BY <3>1 DEF Justified
      <4>. QED  BY <4>1, <4>2, <4>3 DEF Justified
    <3>. QED  BY <1>0, <2>2, <3>1, <3>2, <3>3, <3>4 DEF Justified
  <2>. QED  BY <2>1, <2>2
<1>8. CASE RunFlush  BY <1>0, <1>8 DEF RunFlush, Places, Justified
<1>9. CASE RunFill
  <2>1. /\ rpc = "fill"
        /\ UNCHANGED <<sub, lame, result, bpc, wpc, code, written, right, cpu, alarm, memlimit, fault>>
        /\ rpc' = "fill" \/ (rpc' = "idle" /\ verdict' = VerdictOf(result))
    BY <1>9 DEF RunFill
  <2>2. wpc = "none"  BY <1>0, <2>1 DEF Places
  <2>3. CASE rpc' = "fill"  BY <2>1, <2>2, <2>3 DEF Justified
  <2>4. CASE rpc' = "idle" /\ verdict' = VerdictOf(result)
    <3>1. bpc = "none" => verdict' = "INTERNAL" \/ Unnoticed  BY <2>1, <2>4 DEF VerdictOf
    <3>2. bpc = "reaped" => Justified(result) /\ result \in Results
      BY <2>1 DEF Justified, Results
    <3>3. bpc = "reaped" => \E r \in Results : verdict' = VerdictOf(r) /\ Justified(r)
      BY <2>4, <3>2
    <3>. QED  BY <2>1, <2>2, <2>4, <3>1, <3>3 DEF Justified
  <2>. QED  BY <2>1, <2>3, <2>4
<1>10. CASE WatcherSetup  BY <1>0, <1>10 DEF WatcherSetup, Places, Scalars, Killing, Differs
<1>11. CASE WatcherSetupFails  BY <1>0, <1>11 DEF WatcherSetupFails, Places, Scalars, Killing, Differs
<1>12. CASE Splice  BY <1>0, <1>12 DEF Splice, Places, Scalars, Killing, Differs
<1>13. CASE PollNothing  BY <1>0, <1>13 DEF PollNothing, Places, Scalars, Killing, Differs
<1>14. CASE PollStop  BY <1>0, <1>14 DEF PollStop, Places, Scalars, Killing, Differs
<1>15. CASE PollEnd  BY <1>0, <1>15 DEF PollEnd, Places, Scalars, Killing, Differs
<1>16. CASE Drain  BY <1>0, <1>16 DEF Drain, ExitCode, Places, Scalars, Killing, Differs
<1>17. CASE HandleUsr2  BY <1>0, <1>17 DEF HandleUsr2, Handle, Places, Scalars, Killing, Differs
<1>18. CASE HandleAlarm  BY <1>0, <1>18 DEF HandleAlarm, Handle, Places, Scalars, Killing, Differs
<1>19. CASE BinRead  BY <1>0, <1>19 DEF BinRead, Free, Places, Scalars, Killing, Differs
<1>20. CASE BinEof  BY <1>0, <1>20 DEF BinEof, Free, Places, Scalars, Killing, Differs
<1>21. CASE HardLimit  BY <1>0, <1>21 DEF HardLimit, Places, Scalars, Killing, Differs
<1>22. CASE BinDies  BY <1>0, <1>22 DEF BinDies, Places, Scalars, Killing, Differs
<1>23. CASE JudgeOpenFails  BY <1>0, <1>23 DEF JudgeOpenFails, FreshRun, Places, Scalars, Killing, Differs
<1>24. ASSUME NEW n \in InputSizes, JudgeStart(n) PROVE Causes'  BY <1>0, <1>24 DEF JudgeStart, FreshRun, Places, Scalars, Killing, Differs
<1>25. ASSUME NEW ok \in BOOLEAN, BinWrite(ok) PROVE Causes'  BY <1>0, <1>25 DEF BinWrite, Places, Scalars, Killing, Differs
<1>26. ASSUME NEW e \in Events, NEW m \in BOOLEAN, BinStop(e, m) PROVE Causes'  BY <1>0, <1>26 DEF BinStop, Events, Places, Scalars, Killing, Differs
<1>27. CASE WatcherKilled  BY <1>0, <1>27 DEF WatcherKilled, Places, Scalars, Killing, Differs
<1>28. CASE BinKills  BY <1>0, <1>28 DEF BinKills, Places, Scalars, Killing, Differs
<1>. QED  BY <1>1, <1>2, <1>3, <1>4, <1>5, <1>6, <1>7, <1>8, <1>9, <1>10, <1>11, <1>12, <1>13, <1>14,
             <1>15, <1>16, <1>17, <1>18, <1>19, <1>20, <1>21, <1>22, <1>23, <1>24, <1>25, <1>26,
             <1>27, <1>28
          DEF Next, Runner, Watcher, Binary

\* The causes are known in every state of jug_runner_run, the watcher and the binary.
THEOREM CausesHold == Spec => [](BaseInv /\ Killing /\ Differs /\ Causes)
<1>1. Init => Killing /\ Differs /\ Causes
  <2>1. Init => Killing  BY DEF Init, Killing
  <2>2. Init => Differs  BY DEF Init, Differs
  <2>3. Init => Causes  BY DEF Init, Causes, Running
  <2>. QED  BY <2>1, <2>2, <2>3
<1>2. BaseInv /\ Killing /\ Differs /\ Causes /\ [Next]_vars => Killing' /\ Differs' /\ Causes'
  <2> SUFFICES ASSUME BaseInv, Killing, Differs, Causes, [Next]_vars
               PROVE  Killing' /\ Differs' /\ Causes'
    OBVIOUS
  <2>1. CASE Next  BY <2>1, KillingKeeps, DiffersKeeps, CausesKeep
  <2>2. CASE UNCHANGED vars
    BY <2>2 DEF vars, subVars, runVars, inVars, outVars, watchVars, sigVars, binVars, Killing, Differs,
                Causes, Running, Unnoticed, OfWatcher, Justified
  <2>. QED  BY <2>1, <2>2
<1>. QED  BY <1>1, <1>2, BaseHolds, PTL DEF Spec

\* Every verdict of jug_runner_judge has its cause in what the binary did or wrote
\* or in a limit it passed, whatever the reference output and the limits are.
THEOREM VerdictsJustified == Spec => []VerdictJustified
<1>1. BaseInv /\ Causes => VerdictJustified
  <2> SUFFICES ASSUME BaseInv, Causes, Judged PROVE VerdictJustified  BY DEF VerdictJustified
  <2>1. rpc = "idle" /\ sub > 0 /\ bpc \in {"none", "reaped"}
    BY DEF BaseInv, Places, Judged
  <2>2. CASE bpc = "none"  BY <2>1, <2>2 DEF Causes, Unnoticed, VerdictJustified
  <2>3. CASE bpc = "reaped"
    <3>1. PICK r \in Results : verdict = VerdictOf(r) /\ Justified(r)  BY <2>1, <2>3 DEF Causes
    <3>. QED  BY <2>3, <3>1 DEF VerdictJustified, VerdictOf, Justified, OfWatcher
  <2>. QED  BY <2>1, <2>2, <2>3
<1>. QED  BY <1>1, CausesHold, PTL
=============================================================================
