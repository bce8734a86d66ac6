---------------------------- MODULE DaemonProofs -----------------------------
(***************************************************************************)
(* Proofs about Daemon, for every number of operators and of daemons.      *)
(* Whatever is done at the same time and whatever fails, the port orders   *)
(* the daemons: from bind to exit there is one that holds it, its pid is   *)
(* in a file only after that, so that a pid somebody read is that of a     *)
(* daemon that is up, and it removes the pid file while it still holds the *)
(* port.  On a calm day the file is moreover that of the daemon that holds *)
(* the port, and a daemon comes up only while the command that forked it   *)
(* waits for it.  Then proofs about Shutdown, the end of one daemon.       *)
(***************************************************************************)
EXTENDS Daemon, Shutdown, TLAPS

Ids == Daemons \cup {0}
Starting == {"init", "bind", "create", "write"}
Down == Starting \cup {"none"}
Holding == {"create", "write", "serve", "stopping", "hung", "unlink", "exit"}
Waiting == {"waitFile", "openNew", "waitPid", "spin"}

\* The pid file of such a daemon has not been created.
Early == {"none", "init", "bind", "create"}

Types ==
  /\ calm \in BOOLEAN /\ file \in Ids /\ text \in [Daemons -> Ids] /\ port \in Ids
  /\ dpc \in [Daemons -> Down \cup Holding \cup {"dead"}]
  /\ sigint \in [Daemons -> BOOLEAN] /\ dfd \in [Daemons -> Ids] /\ forked \in 0..MaxDaemons
  /\ opc \in [Operators -> Waiting \cup {"idle", "stat", "open", "read", "proc", "act", "unlink",
                                         "waitGone", "fork", "foreground"}]
  /\ act \in [Operators -> Actions]
  /\ exists \in [Operators -> BOOLEAN] /\ running \in [Operators -> BOOLEAN]
  /\ seen \in [Operators -> Ids] /\ fd \in [Operators -> Ids] /\ mine \in [Operators -> Ids]
  /\ out \in [Operators -> {"none", "running", "not running", "stopped", "started", "timeout", "error"}]

\* Who has a file open, and what a command has said while it runs.
Handles ==
  /\ \A o \in Operators : opc[o] \in {"read", "waitPid"} => fd[o] # 0
  /\ \A o \in Operators : opc[o] # "idle" => out[o] = "none"
  /\ \A d \in Daemons : dpc[d] = "write" => dfd[d] # 0

\* A daemon that is not forked yet does nothing, on a calm day fork() does not fail,
\* and the port has one owner.
Ports ==
  /\ calm => fore = {}
  /\ \A d \in Daemons : forked < d => dpc[d] = "none"
  /\ \A d \in Daemons : dpc[d] \in Holding => port = d

\* A pid that is in a file, was read or was signalled is that of a daemon that is up.
Names ==
  /\ \A f \in Daemons : text[f] # 0 => dpc[text[f]] \notin Down
  /\ \A o \in Operators : seen[o] # 0 => dpc[seen[o]] \notin Down
  /\ \A d \in Daemons : sigint[d] => dpc[d] \notin Down

BaseInv == Types /\ Handles /\ Ports /\ Names

\* On a calm day: one command runs at a time, and a daemon comes up only while its
\* command waits.
Turns ==
  /\ \A o, p \in Operators : opc[o] # "idle" /\ opc[p] # "idle" => o = p
  /\ \A d \in Daemons : dpc[d] \in Starting => \E o \in Operators : mine[o] = d /\ opc[o] \in Waiting

\* The file is that of the daemon that holds the port, from its creation to its removal.
Owner ==
  /\ file # 0 => dpc[file] \in {"write", "serve", "stopping", "unlink"}
  /\ \A d \in Daemons : Serving(d) => file = d
  /\ \A d \in Daemons : dpc[d] = "write" => file = d /\ dfd[d] = d
  /\ \A d \in Daemons : text[d] \in {0, d} /\ (dpc[d] \in {"serve", "stopping", "unlink"} => text[d] = d)

\* What the command that runs knows about it.
Knows(o) ==
  /\ opc[o] = "read" => file \in {0, fd[o]} /\ text[fd[o]] = fd[o]
  /\ opc[o] = "proc" => seen[o] # 0 /\ file \in {0, seen[o]}
  /\ opc[o] = "act" => file = 0 \/ (running[o] /\ file = seen[o])
  /\ opc[o] = "unlink" => \A d \in Daemons : ~Serving(d)
  /\ opc[o] = "fork" => file = 0
  /\ opc[o] = "waitFile" => mine[o] # 0 /\ file \in {0, mine[o]}
  /\ opc[o] = "openNew" => mine[o] # 0 /\ file \in {0, mine[o]} /\ dpc[mine[o]] \notin Early
  /\ opc[o] = "waitPid" => mine[o] # 0 /\ fd[o] = mine[o]
  /\ out[o] = "started" => mine[o] # 0 /\ seen[o] = mine[o]

CalmInv == Turns /\ Owner /\ \A o \in Operators : Knows(o)

IndInv == BaseInv /\ (calm => CalmInv)

-----------------------------------------------------------------------------
\* Zero stands for no daemon.
LEMMA NoDaemon == 0 \notin Daemons  BY DEF Daemons

\* The daemon that kjd_daemonize forks.
LEMMA ForkedDaemon ==
  ASSUME Types, forked < MaxDaemons
  PROVE  /\ forked + 1 \in Daemons /\ forked + 1 \in 0..MaxDaemons
         /\ forked < forked + 1 /\ \A d \in Daemons : forked + 1 < d => forked < d
<1>1. MaxDaemons \in Nat /\ forked \in 0..MaxDaemons  BY DaemonAssumption DEF Types
<1>. QED  BY <1>1 DEF Daemons

\* A daemon that is up stays so until it is dead.
LEMMA Rises ==
  ASSUME Types, NEW d \in Daemons, NEW l, dpc' = [dpc EXCEPT ![d] = l], l \notin Down \/ dpc[d] \in Down
  PROVE  \A e \in Daemons : dpc[e] \notin Down => dpc'[e] \notin Down
  BY DEF Types

\* A pid stays that of a daemon that is up, and only such pids are added.
LEMMA NamesKeep ==
  ASSUME Types, Names,
         \A e \in Daemons : dpc[e] \notin Down => dpc'[e] \notin Down,
         \A f \in Daemons : text'[f] \in {0, text[f]} \/ dpc'[text'[f]] \notin Down,
         \A o \in Operators : seen'[o] \in {0, seen[o]} \/ dpc'[seen'[o]] \notin Down,
         \A e \in Daemons : sigint'[e] => sigint[e] \/ dpc'[e] \notin Down
  PROVE  Names'
<1>1. ASSUME NEW f \in Daemons, text'[f] # 0 PROVE dpc'[text'[f]] \notin Down
  <2>1. CASE text'[f] = text[f]
    <3>1. text[f] \in Daemons /\ dpc[text[f]] \notin Down  BY <1>1, <2>1 DEF Types, Names, Ids
    <3>. QED  BY <2>1, <3>1
  <2>. QED  BY <1>1, <2>1
<1>2. ASSUME NEW o \in Operators, seen'[o] # 0 PROVE dpc'[seen'[o]] \notin Down
  <2>1. CASE seen'[o] = seen[o]
    <3>1. seen[o] \in Daemons /\ dpc[seen[o]] \notin Down  BY <1>2, <2>1 DEF Types, Names, Ids
    <3>. QED  BY <2>1, <3>1
  <2>. QED  BY <1>2, <2>1
<1>3. ASSUME NEW e \in Daemons, sigint'[e] PROVE dpc'[e] \notin Down
  BY <1>3 DEF Names
<1>. QED  BY <1>1, <1>2, <1>3 DEF Names

\* The steps of a command preserve the base.
LEMMA BaseCommand ==
  ASSUME BaseInv, NEW o \in Operators, Command(o)
  PROVE  BaseInv'
<1> USE NoDaemon DEF BaseInv, sysVars, daeVars, cmdVars, opVars
<1>1. CASE Stat(o)
  <2>1. Types'  BY <1>1 DEF Stat, Goto, Types, Waiting, Ids
  <2>2. Handles'  BY <1>1 DEF Stat, Goto, Types, Handles, Waiting
  <2>3. Ports'  BY <1>1 DEF Stat, Ports
  <2>4. Names'  BY <1>1 DEF Stat, Names
  <2>. QED  BY <2>1, <2>2, <2>3, <2>4
<1>2. CASE OpenFile(o)
  <2>1. Types'  BY <1>2, ZenonT(40) DEF OpenFile, Goto, Say, Types, Waiting, Ids
  <2>2. Handles'  BY <1>2, ZenonT(40) DEF OpenFile, Goto, Say, Types, Handles, Waiting
  <2>3. Ports'  BY <1>2 DEF OpenFile, Ports
  <2>4. Names'  BY <1>2 DEF OpenFile, Names
  <2>. QED  BY <2>1, <2>2, <2>3, <2>4
<1>3. CASE ReadFile(o)
  <2>f. fd[o] \in Daemons /\ text[fd[o]] \in Ids /\ (text[fd[o]] # 0 => dpc[text[fd[o]]] \notin Down)
    <3>1. opc[o] = "read"  BY <1>3 DEF ReadFile
    <3>2. fd[o] \in Daemons
      <4>1. fd[o] # 0  BY <3>1 DEF Handles
      <4>. QED  BY <4>1 DEF Types, Ids
    <3>3. text[fd[o]] \in Ids  BY <3>2 DEF Types
    <3>. QED  BY <3>2, <3>3 DEF Names
  <2>1. Types'
    <3>1. seen' \in [Operators -> Ids]  BY <1>3, <2>f DEF ReadFile, Types
    <3>. QED  BY <1>3, <3>1 DEF ReadFile, Goto, Types, Waiting
  <2>2. Handles'  BY <1>3 DEF ReadFile, Goto, Types, Handles, Waiting
  <2>3. Ports'  BY <1>3 DEF ReadFile, Ports
  <2>4. Names'
    <3>1. \A p \in Operators : seen'[p] \in {0, seen[p]} \/ dpc'[seen'[p]] \notin Down
      BY <1>3, <2>f DEF ReadFile, Types
    <3>2. UNCHANGED <<text, dpc, sigint>>  BY <1>3 DEF ReadFile
    <3>. QED  BY <3>1, <3>2, NamesKeep
  <2>. QED  BY <2>1, <2>2, <2>3, <2>4
<1>4. CASE Proc(o)
  <2>1. Types'
    <3>1. Alive(seen[o]) \in BOOLEAN  BY DEF Alive
    <3>. QED  BY <1>4, <3>1 DEF Proc, Goto, Types, Waiting
  <2>2. Handles'  BY <1>4 DEF Proc, Goto, Types, Handles, Waiting
  <2>3. Ports'  BY <1>4 DEF Proc, Ports
  <2>4. Names'  BY <1>4 DEF Proc, Names
  <2>. QED  BY <2>1, <2>2, <2>3, <2>4
<1>5. CASE State(o)
  <2>1. Types'  BY <1>5 DEF State, Say, Types, Waiting, Ids
  <2>2. Handles'  BY <1>5 DEF State, Say, Types, Handles, Waiting
  <2>3. Ports'  BY <1>5 DEF State, Ports
  <2>4. Names'  BY <1>5 DEF State, Names
  <2>. QED  BY <2>1, <2>2, <2>3, <2>4
<1>6. CASE Start(o)
  <2>1. Types'  BY <1>6 DEF Start, Goto, Say, Types, Waiting, Ids
  <2>2. Handles'  BY <1>6 DEF Start, Goto, Say, Types, Handles, Waiting
  <2>3. Ports'  BY <1>6 DEF Start, Ports
  <2>4. Names'  BY <1>6 DEF Start, Names
  <2>. QED  BY <2>1, <2>2, <2>3, <2>4
<1>7. CASE Stop(o)
  <2>1. Types'  BY <1>7 DEF Stop, Goto, Say, Alive, Types, Waiting
  <2>2. Handles'
    <3>1. \/ opc' = [opc EXCEPT ![o] = "idle"] /\ \E s : out' = [out EXCEPT ![o] = s]
          \/ out' = out /\ \E l \in {"fork", "unlink", "waitGone"} : opc' = [opc EXCEPT ![o] = l]
      BY <1>7 DEF Stop, Goto, Say
    <3>2. UNCHANGED <<fd, dpc, dfd>> /\ opc[o] = "act"  BY <1>7 DEF Stop
    <3>. QED  BY <3>1, <3>2 DEF Handles, Types
  <2>3. Ports'  BY <1>7 DEF Stop, Ports
  <2>4. Names'
    <3>1. \A e \in Daemons : sigint'[e] => sigint[e] \/ dpc'[e] \notin Down
      <4>1. CASE sigint' = sigint  BY <4>1
      <4>2. CASE Alive(seen[o]) /\ sigint' = [sigint EXCEPT ![seen[o]] = TRUE]
        <5>1. seen[o] \in Daemons /\ dpc[seen[o]] \notin Down /\ dpc' = dpc
          BY <1>7, <4>2 DEF Alive, Stop, Names
        <5>. QED  BY <4>2, <5>1 DEF Types
      <4>. QED  BY <1>7, <4>1, <4>2 DEF Stop
    <3>2. UNCHANGED <<text, dpc, seen>>  BY <1>7 DEF Stop
    <3>. QED  BY <3>1, <3>2, NamesKeep
  <2>. QED  BY <2>1, <2>2, <2>3, <2>4
<1>8. CASE StopUnlink(o)
  <2>1. Types'  BY <1>8 DEF StopUnlink, Say, Types, Waiting, Ids
  <2>2. Handles'  BY <1>8 DEF StopUnlink, Say, Types, Handles, Waiting
  <2>3. Ports'  BY <1>8 DEF StopUnlink, Ports
  <2>4. Names'  BY <1>8 DEF StopUnlink, Names
  <2>. QED  BY <2>1, <2>2, <2>3, <2>4
<1>9. CASE WaitGone(o)
  <2>1. Types'  BY <1>9 DEF WaitGone, Goto, Say, Types, Waiting, Ids
  <2>2. Handles'  BY <1>9 DEF WaitGone, Goto, Say, Types, Handles, Waiting
  <2>3. Ports'  BY <1>9 DEF WaitGone, Ports
  <2>4. Names'  BY <1>9 DEF WaitGone, Names
  <2>. QED  BY <2>1, <2>2, <2>3, <2>4
<1>10. CASE Fork(o)
  <2>f. forked + 1 \in Daemons /\ dpc[forked + 1] = "none" /\ forked + 1 \in 0..MaxDaemons
        /\ \A d \in Daemons : forked + 1 < d => forked < d
    BY <1>10, ForkedDaemon DEF Fork, Ports
  <2> DEFINE n == forked + 1
  <2>g. /\ n \in Daemons /\ dpc[n] = "none" /\ n \in 0..MaxDaemons /\ \A d \in Daemons : n < d => forked < d
        /\ forked' = n /\ mine' = [mine EXCEPT ![o] = n] /\ dpc' = [dpc EXCEPT ![n] = "init"]
        /\ opc[o] = "fork"
        /\ UNCHANGED <<sysVars, dfd, sigint, tpl, given, act, exists, running, seen, fd, out>>
    BY <1>10, <2>f DEF Fork, Goto
  <2>i. calm => fore' = fore  BY <1>10 DEF Fork
  <2>h. PICK l \in {"waitFile", "foreground"} : opc' = [opc EXCEPT ![o] = l]  BY <1>10 DEF Fork, Goto
  <2> HIDE DEF n
  <2>1. Types'  BY <2>g, <2>h DEF Types, Waiting, Ids, Down, Starting
  <2>2. Handles'  BY <2>g, <2>h DEF Types, Handles
  <2>3. Ports'
    <3>1. \A d \in Daemons : n < d => d # n  BY DEF Daemons
    <3>. QED  BY <2>g, <2>i, <3>1 DEF Types, Ports, Holding
  <2>4. Names'
    <3>1. \A e \in Daemons : dpc[e] \notin Down => dpc'[e] \notin Down  BY <2>g, Rises DEF Down
    <3>. QED  BY <2>g, <3>1, NamesKeep
  <2>. QED  BY <2>1, <2>2, <2>3, <2>4
<1>11. CASE WaitFile(o)
  <2>1. Types'  BY <1>11 DEF WaitFile, Goto, Say, Types, Waiting, Ids
  <2>2. Handles'  BY <1>11 DEF WaitFile, Goto, Say, Types, Handles, Waiting
  <2>3. Ports'  BY <1>11 DEF WaitFile, Ports
  <2>4. Names'  BY <1>11 DEF WaitFile, Names
  <2>. QED  BY <2>1, <2>2, <2>3, <2>4
<1>12. CASE WaitPid(o)
  <2>f. fd[o] \in Daemons /\ text[fd[o]] \in Ids /\ (text[fd[o]] # 0 => dpc[text[fd[o]]] \notin Down)
    <3>1. opc[o] = "waitPid"  BY <1>12 DEF WaitPid
    <3>2. fd[o] \in Daemons
      <4>1. fd[o] # 0  BY <3>1 DEF Handles
      <4>. QED  BY <4>1 DEF Types, Ids
    <3>3. text[fd[o]] \in Ids  BY <3>2 DEF Types
    <3>. QED  BY <3>2, <3>3 DEF Names
  <2>1. Types'
    <3>1. seen' \in [Operators -> Ids]  BY <1>12, <2>f DEF WaitPid, Types
    <3>. QED  BY <1>12, <3>1 DEF WaitPid, Goto, Say, Types, Waiting
  <2>2. Handles'  BY <1>12, ZenonT(40) DEF WaitPid, Goto, Say, Types, Handles, Waiting
  <2>3. Ports'  BY <1>12 DEF WaitPid, Ports
  <2>4. Names'
    <3>1. \A p \in Operators : seen'[p] \in {0, seen[p]} \/ dpc'[seen'[p]] \notin Down
      BY <1>12, <2>f DEF WaitPid, Types
    <3>2. UNCHANGED <<text, dpc, sigint>>  BY <1>12 DEF WaitPid
    <3>. QED  BY <3>1, <3>2, NamesKeep
  <2>. QED  BY <2>1, <2>2, <2>3, <2>4
<1>13. CASE Foreground(o)
  <2>1. Types'  BY <1>13 DEF Foreground, Say, Types, Waiting, Ids
  <2>2. Handles'  BY <1>13 DEF Foreground, Say, Types, Handles, Waiting
  <2>3. Ports'  BY <1>13 DEF Foreground, Ports
  <2>4. Names'  BY <1>13 DEF Foreground, Names
  <2>. QED  BY <2>1, <2>2, <2>3, <2>4
<1>14. CASE OpenNew(o)
  <2>1. Types'  BY <1>14 DEF OpenNew, Goto, Say, Types, Waiting, Ids
  <2>2. Handles'  BY <1>14 DEF OpenNew, Goto, Say, Types, Handles, Waiting
  <2>3. Ports'  BY <1>14 DEF OpenNew, Ports
  <2>4. Names'  BY <1>14 DEF OpenNew, Names
  <2>. QED  BY <2>1, <2>2, <2>3, <2>4
<1>. QED  BY <1>1, <1>2, <1>3, <1>4, <1>5, <1>6, <1>7, <1>8, <1>9, <1>10, <1>11, <1>12, <1>13, <1>14 DEF Command

\* So do the steps of a daemon.
LEMMA BaseDaemon ==
  ASSUME BaseInv, NEW d \in Daemons, DaemonStep(d)
  PROVE  BaseInv'
<1> USE NoDaemon DEF BaseInv, sysVars, daeVars, cmdVars, opVars
<1> USE DEF Starting
<1>1. CASE DaemonInit(d)
  <2>1. Types'  BY <1>1 DEF DaemonInit, At, Move, Types, Ids, Down, Holding
  <2>2. Handles'  BY <1>1 DEF DaemonInit, At, Move, Types, Handles
  <2>3. Ports'  BY <1>1 DEF DaemonInit, At, Move, Types, Ports, Holding
  <2>4. Names'
    <3>1. dpc' = [dpc EXCEPT ![d] = "bind"] /\ ("bind" \notin Down \/ dpc[d] \in Down)
      BY <1>1 DEF DaemonInit, At, Move, Down
    <3>2. \A e \in Daemons : dpc[e] \notin Down => dpc'[e] \notin Down  BY <3>1, Rises
    <3>3. UNCHANGED <<seen, text, sigint>>  BY <1>1 DEF DaemonInit
    <3>. QED  BY <3>2, <3>3, NamesKeep
  <2>. QED  BY <2>1, <2>2, <2>3, <2>4
<1>2. CASE DaemonFails(d)
  <2>1. Types'  BY <1>2 DEF DaemonFails, At, Move, Types, Ids, Down, Holding
  <2>2. Handles'  BY <1>2 DEF DaemonFails, At, Move, Types, Handles
  <2>3. Ports'  BY <1>2 DEF DaemonFails, At, Move, Types, Ports, Holding
  <2>4. Names'
    <3>1. dpc' = [dpc EXCEPT ![d] = "dead"] /\ ("dead" \notin Down \/ dpc[d] \in Down)
      BY <1>2 DEF DaemonFails, At, Move, Down
    <3>2. \A e \in Daemons : dpc[e] \notin Down => dpc'[e] \notin Down  BY <3>1, Rises
    <3>3. UNCHANGED <<seen, text, sigint>>  BY <1>2 DEF DaemonFails
    <3>. QED  BY <3>2, <3>3, NamesKeep
  <2>. QED  BY <2>1, <2>2, <2>3, <2>4
<1>3. CASE DaemonBind(d)
  <2>1. Types'  BY <1>3 DEF DaemonBind, At, Move, Types, Ids, Down, Holding
  <2>2. Handles'  BY <1>3 DEF DaemonBind, At, Move, Types, Handles
  <2>3. Ports'  BY <1>3 DEF DaemonBind, At, Move, Types, Ports, Holding
  <2>4. Names'
    <3>1. dpc' = [dpc EXCEPT ![d] = "create"] /\ ("create" \notin Down \/ dpc[d] \in Down)
      BY <1>3 DEF DaemonBind, At, Move, Down
    <3>2. \A e \in Daemons : dpc[e] \notin Down => dpc'[e] \notin Down  BY <3>1, Rises
    <3>3. UNCHANGED <<seen, text, sigint>>  BY <1>3 DEF DaemonBind
    <3>. QED  BY <3>2, <3>3, NamesKeep
  <2>. QED  BY <2>1, <2>2, <2>3, <2>4
<1>4. CASE CreateFile(d)
  <2>1. Types'  BY <1>4 DEF CreateFile, At, Move, Types, Ids, Down, Holding
  <2>2. Handles'  BY <1>4 DEF CreateFile, At, Move, Types, Handles
  <2>3. Ports'  BY <1>4 DEF CreateFile, At, Move, Types, Ports, Holding
  <2>4. Names'
    <3>1. dpc' = [dpc EXCEPT ![d] = "write"] /\ ("write" \notin Down \/ dpc[d] \in Down)
      BY <1>4 DEF CreateFile, At, Move, Down
    <3>2. \A e \in Daemons : dpc[e] \notin Down => dpc'[e] \notin Down  BY <3>1, Rises
    <3>3. \A f \in Daemons : text'[f] \in {0, text[f]} \/ dpc'[text'[f]] \notin Down
      BY <1>4, <3>1 DEF CreateFile, At, Types, Ids, Down
    <3>4. UNCHANGED <<seen, sigint>>  BY <1>4 DEF CreateFile
    <3>. QED  BY <3>2, <3>3, <3>4, NamesKeep
  <2>. QED  BY <2>1, <2>2, <2>3, <2>4
<1>5. CASE WriteFile(d)
  <2>1. Types'  BY <1>5 DEF WriteFile, At, Move, Types, Ids, Down, Holding
  <2>2. Handles'  BY <1>5 DEF WriteFile, At, Move, Types, Handles
  <2>3. Ports'  BY <1>5 DEF WriteFile, At, Move, Types, Ports, Holding
  <2>4. Names'
    <3>1. dpc' = [dpc EXCEPT ![d] = "serve"] /\ ("serve" \notin Down \/ dpc[d] \in Down)
      BY <1>5 DEF WriteFile, At, Move, Down
    <3>2. \A e \in Daemons : dpc[e] \notin Down => dpc'[e] \notin Down  BY <3>1, Rises
    <3>3. \A f \in Daemons : text'[f] \in {0, text[f]} \/ dpc'[text'[f]] \notin Down
      BY <1>5, <3>1 DEF WriteFile, At, Types, Ids, Down, Handles
    <3>4. UNCHANGED <<seen, sigint>>  BY <1>5 DEF WriteFile
    <3>. QED  BY <3>2, <3>3, <3>4, NamesKeep
  <2>. QED  BY <2>1, <2>2, <2>3, <2>4
<1>6. CASE AcceptFails(d)
  <2>1. Types'  BY <1>6 DEF AcceptFails, At, Move, Types, Ids, Down, Holding
  <2>2. Handles'  BY <1>6 DEF AcceptFails, At, Move, Types, Handles
  <2>3. Ports'  BY <1>6 DEF AcceptFails, At, Move, Types, Ports, Holding
  <2>4. Names'
    <3>1. dpc' = [dpc EXCEPT ![d] = "dead"] /\ ("dead" \notin Down \/ dpc[d] \in Down)
      BY <1>6 DEF AcceptFails, At, Move, Down
    <3>2. \A e \in Daemons : dpc[e] \notin Down => dpc'[e] \notin Down  BY <3>1, Rises
    <3>3. UNCHANGED <<seen, text, sigint>>  BY <1>6 DEF AcceptFails
    <3>. QED  BY <3>2, <3>3, NamesKeep
  <2>. QED  BY <2>1, <2>2, <2>3, <2>4
<1>7. CASE Handler(d)
  <2>1. Types'  BY <1>7 DEF Handler, Move, Types, Ids, Down, Holding
  <2>2. Handles'  BY <1>7 DEF Handler, Move, Types, Handles
  <2>3. Ports'  BY <1>7 DEF Handler, Move, Types, Ports, Holding
  <2>4. Names'
    <3>1. dpc' = [dpc EXCEPT ![d] = "stopping"] /\ ("stopping" \notin Down \/ dpc[d] \in Down)
      BY <1>7 DEF Handler, Move, Down
    <3>2. \A e \in Daemons : dpc[e] \notin Down => dpc'[e] \notin Down  BY <3>1, Rises
    <3>3. \A e \in Daemons : sigint'[e] => sigint[e]  BY <1>7 DEF Handler, Types
    <3>4. UNCHANGED <<seen, text>>  BY <1>7 DEF Handler
    <3>. QED  BY <3>2, <3>3, <3>4, NamesKeep
  <2>. QED  BY <2>1, <2>2, <2>3, <2>4
<1>8. CASE KillTemplate(d)
  <2>1. Types'  BY <1>8 DEF KillTemplate, Move, Types, Ids, Down, Holding
  <2>2. Handles'  BY <1>8 DEF KillTemplate, Move, Types, Handles
  <2>3. Ports'  BY <1>8 DEF KillTemplate, Move, Types, Ports, Holding
  <2>4. Names'
    <3>1. dpc' = [dpc EXCEPT ![d] = "unlink"] /\ ("unlink" \notin Down \/ dpc[d] \in Down)
      BY <1>8 DEF KillTemplate, Move, Down
    <3>2. \A e \in Daemons : dpc[e] \notin Down => dpc'[e] \notin Down  BY <3>1, Rises
    <3>3. UNCHANGED <<seen, text, sigint>>  BY <1>8 DEF KillTemplate
    <3>. QED  BY <3>2, <3>3, NamesKeep
  <2>. QED  BY <2>1, <2>2, <2>3, <2>4
<1>9. CASE DaemonUnlink(d)
  <2>1. Types'  BY <1>9 DEF DaemonUnlink, Move, Types, Ids, Down, Holding
  <2>2. Handles'  BY <1>9 DEF DaemonUnlink, Move, Types, Handles
  <2>3. Ports'  BY <1>9 DEF DaemonUnlink, Move, Types, Ports, Holding
  <2>4. Names'
    <3>1. dpc' = [dpc EXCEPT ![d] = "exit"] /\ ("exit" \notin Down \/ dpc[d] \in Down)
      BY <1>9 DEF DaemonUnlink, Move, Down
    <3>2. \A e \in Daemons : dpc[e] \notin Down => dpc'[e] \notin Down  BY <3>1, Rises
    <3>3. UNCHANGED <<seen, text, sigint>>  BY <1>9 DEF DaemonUnlink
    <3>. QED  BY <3>2, <3>3, NamesKeep
  <2>. QED  BY <2>1, <2>2, <2>3, <2>4
<1>10. CASE Exit(d)
  <2>1. Types'  BY <1>10 DEF Exit, Move, Types, Ids, Down, Holding
  <2>2. Handles'  BY <1>10 DEF Exit, Move, Types, Handles
  <2>3. Ports'  BY <1>10 DEF Exit, Move, Types, Ports, Holding
  <2>4. Names'
    <3>1. dpc' = [dpc EXCEPT ![d] = "dead"] /\ ("dead" \notin Down \/ dpc[d] \in Down)
      BY <1>10 DEF Exit, Move, Down
    <3>2. \A e \in Daemons : dpc[e] \notin Down => dpc'[e] \notin Down  BY <3>1, Rises
    <3>3. UNCHANGED <<seen, text, sigint>>  BY <1>10 DEF Exit
    <3>. QED  BY <3>2, <3>3, NamesKeep
  <2>. QED  BY <2>1, <2>2, <2>3, <2>4
<1>11. CASE HandlerHangs(d)
  <2>1. Types'  BY <1>11 DEF HandlerHangs, Move, Types, Ids, Down, Holding
  <2>2. Handles'  BY <1>11 DEF HandlerHangs, Move, Types, Handles
  <2>3. Ports'  BY <1>11 DEF HandlerHangs, Move, Types, Ports, Holding
  <2>4. Names'
    <3>1. dpc' = [dpc EXCEPT ![d] = "hung"] /\ ("hung" \notin Down \/ dpc[d] \in Down)
      BY <1>11 DEF HandlerHangs, Move, Down
    <3>2. \A e \in Daemons : dpc[e] \notin Down => dpc'[e] \notin Down  BY <3>1, Rises
    <3>3. UNCHANGED <<seen, text, sigint>>  BY <1>11 DEF HandlerHangs
    <3>. QED  BY <3>2, <3>3, NamesKeep
  <2>. QED  BY <2>1, <2>2, <2>3, <2>4
<1>12. CASE Killed(d)
  <2>1. Types'  BY <1>12 DEF Killed, Alive, Move, Types, Ids, Down, Holding
  <2>2. Handles'  BY <1>12 DEF Killed, Alive, Move, Types, Handles
  <2>3. Ports'  BY <1>12 DEF Killed, Alive, Move, Types, Ports, Holding
  <2>4. Names'
    <3>1. dpc' = [dpc EXCEPT ![d] = "dead"] /\ ("dead" \notin Down \/ dpc[d] \in Down)
      BY <1>12 DEF Killed, Move, Down
    <3>2. \A e \in Daemons : dpc[e] \notin Down => dpc'[e] \notin Down  BY <3>1, Rises
    <3>3. UNCHANGED <<seen, text, sigint>>  BY <1>12 DEF Killed
    <3>. QED  BY <3>2, <3>3, NamesKeep
  <2>. QED  BY <2>1, <2>2, <2>3, <2>4
<1>. QED  BY <1>1, <1>2, <1>3, <1>4, <1>5, <1>6, <1>7, <1>8, <1>9, <1>10, <1>11, <1>12 DEF DaemonStep

\* What holds at all times, of the commands and the daemons alike.
THEOREM BaseHolds == Spec => []BaseInv
<1>1. Init => BaseInv
  <2> SUFFICES ASSUME Init PROVE BaseInv  OBVIOUS
  <2>1. forked \in Ids /\ forked \in 0..MaxDaemons /\ (forked \in Daemons => port = forked)
    BY DaemonAssumption DEF Init, Ids, Daemons
  <2>2. Types  BY <2>1, NoDaemon DEF Init, Types, Ids, Down, Starting, Holding, Waiting, Actions
  <2>3. Handles  BY DEF Init, Handles
  <2>4. Ports
    <3>1. \A d \in Daemons : forked < d => d # forked  BY DEF Daemons
    <3>. QED  BY <3>1 DEF Init, Ports, Holding
  <2>5. Names  BY DEF Init, Names, Down, Starting
  <2>. QED  BY <2>2, <2>3, <2>4, <2>5 DEF BaseInv
<1>2. BaseInv /\ [Next]_vars => BaseInv'
  <2> SUFFICES ASSUME BaseInv, [Next]_vars PROVE BaseInv'  OBVIOUS
  <2>1. ASSUME NEW o \in Operators, NEW a \in Actions, Give(o, a) PROVE BaseInv'
    <3> USE DEF BaseInv, sysVars, daeVars
    <3>1. Types'  BY <2>1 DEF Give, Types, Waiting, Ids
    <3>2. Handles'  BY <2>1 DEF Give, Types, Handles
    <3>3. Ports'  BY <2>1 DEF Give, Ports
    <3>4. \A p \in Operators : seen'[p] \in {0, seen[p]}  BY <2>1 DEF Give, Types
    <3>5. UNCHANGED <<text, dpc, sigint>>  BY <2>1 DEF Give
    <3>6. Names'  BY <3>4, <3>5, NamesKeep
    <3>. QED  BY <3>1, <3>2, <3>3, <3>6
  <2>2. CASE UNCHANGED vars
    BY <2>2 DEF vars, sysVars, daeVars, opVars, cmdVars, BaseInv, Types, Handles, Ports, Names
  <2>. QED  BY <2>1, <2>2, BaseCommand, BaseDaemon DEF Next
<1>. QED  BY <1>1, <1>2, PTL DEF Spec

\* Whatever operators do at the same time and whatever fails or is late, stop and
\* restart send SIGINT only to a daemon that is up: its pid is in the file no sooner.
THEOREM InterruptedAlwaysUp == Spec => []InterruptedIsUp
<1>1. BaseInv => InterruptedIsUp  BY DEF BaseInv, Names, InterruptedIsUp, Down, Starting
<1>. QED  BY <1>1, BaseHolds, PTL

\* kjd_sighandler never removes the pid file of the next daemon: the socket is closed
\* after the file is removed, and the next one cannot write its pid before it is bound.
THEOREM UnlinksOnlyOwn == Spec => UnlinksOwnFile
<1> DEFINE Own == \A d \in Daemons : DaemonUnlink(d) /\ file # 0 => ~Alive(text[file]) \/ text[file] = d
<1>1. BaseInv => Own
  <2> SUFFICES ASSUME BaseInv, NEW d \in Daemons, DaemonUnlink(d), file # 0, Alive(text[file])
               PROVE  text[file] = d
    OBVIOUS
  <2>1. port = d  BY DEF DaemonUnlink, BaseInv, Ports, Holding
  <2>2. text[file] \in Daemons /\ dpc[text[file]] \notin {"none", "dead"}  BY DEF Alive
  <2>3. text[file] # 0 /\ file \in Daemons  BY <2>2, NoDaemon DEF BaseInv, Types, Ids
  <2>4. dpc[text[file]] \notin Down  BY <2>3 DEF BaseInv, Names
  <2>5. dpc[text[file]] \in Holding  BY <2>2, <2>4 DEF BaseInv, Types, Down, Holding
  <2>. QED  BY <2>1, <2>2, <2>5 DEF BaseInv, Ports
<1>2. BaseInv /\ [Next]_vars => [Own]_vars  BY <1>1
<1>. QED  BY <1>2, BaseHolds, PTL DEF Spec, UnlinksOwnFile

-----------------------------------------------------------------------------
(* The calm day.                                                             *)

\* While a command that does not wait for its daemon runs, nobody else does and
\* no daemon comes up.
LEMMA Alone ==
  ASSUME Types, Turns, NEW o \in Operators, opc[o] # "idle"
  PROVE  /\ \A p \in Operators : p # o => opc[p] = "idle"
         /\ \A d \in Daemons : dpc[d] \in Starting => mine[o] = d /\ opc[o] \in Waiting
<1>1. \A p \in Operators : p # o => opc[p] = "idle"  BY DEF Turns
<1>2. ASSUME NEW d \in Daemons, dpc[d] \in Starting PROVE mine[o] = d /\ opc[o] \in Waiting
  <2>1. PICK p \in Operators : mine[p] = d /\ opc[p] \in Waiting  BY <1>2 DEF Turns
  <2>2. opc[p] # "idle"  BY <2>1 DEF Waiting
  <2>3. p = o  BY <1>1, <2>2
  <2>. QED  BY <2>1, <2>3
<1>. QED  BY <1>1, <1>2

\* What an operator who waits for nothing knows is what was said.
LEMMA IdleKnows ==
  ASSUME NEW o \in Operators, Knows(o), opc'[o] = "idle",
         mine'[o] = mine[o], seen'[o] = seen[o], out'[o] = out[o]
  PROVE  Knows(o)'
  BY DEF Knows

\* A daemon that goes down takes nothing away of what a command knows.
LEMMA KnowsStay ==
  ASSUME NEW o \in Operators, Knows(o), file' \in {0, file},
         UNCHANGED <<text, fd, seen, running, mine, out, opc>>,
         \A d \in Daemons : dpc[d] \notin Early => dpc'[d] \notin Early,
         \A d \in Daemons : Serving(d)' => Serving(d), mine[o] \in Ids
  PROVE  Knows(o)'
  BY DEF Knows, Ids

\* The operators take turns as long as one moves at a time.
LEMMA TurnsKeep ==
  ASSUME Types, Turns, NEW o \in Operators, NEW l, opc[o] # "idle", opc' = [opc EXCEPT ![o] = l],
         \A d \in Daemons : dpc'[d] \in Starting => mine'[o] = d /\ l \in Waiting
  PROVE  Turns'
<1>1. \A p \in Operators : p # o => opc'[p] = "idle"  BY Alone DEF Types
<1>2. opc'[o] = l  BY DEF Types
<1>. QED  BY <1>1, <1>2 DEF Turns

\* A command that moves leaves the other operators what they know.
LEMMA OthersKnow ==
  ASSUME Types, Turns, NEW o \in Operators, NEW l, opc[o] # "idle", opc' = [opc EXCEPT ![o] = l],
         \A p \in Operators : Knows(p),
         \A p \in Operators : p # o => mine'[p] = mine[p] /\ seen'[p] = seen[p] /\ out'[p] = out[p]
  PROVE  \A p \in Operators : p # o => Knows(p)'
<1> SUFFICES ASSUME NEW p \in Operators, p # o PROVE Knows(p)'  OBVIOUS
<1>1. opc'[p] = "idle"  BY Alone DEF Types
<1>. QED  BY <1>1, IdleKnows

\* A command that only looks: everything but what it knows is kept.
LEMMA Looks ==
  ASSUME BaseInv, calm, CalmInv, NEW o \in Operators, NEW l, opc[o] # "idle", opc[o] \notin Waiting,
         opc' = [opc EXCEPT ![o] = l], UNCHANGED <<file, text, dpc, dfd, mine>>,
         \A d \in Daemons : Serving(d)' => Serving(d),
         \A p \in Operators : p # o => seen'[p] = seen[p] /\ out'[p] = out[p],
         Knows(o)'
  PROVE  CalmInv'
<1>1. Types /\ Turns  BY DEF BaseInv, CalmInv
<1>2. Turns'  BY <1>1, Alone, TurnsKeep
<1>3. Owner'  BY DEF CalmInv, Owner
<1>4. \A p \in Operators : p # o => Knows(p)'  BY <1>1, OthersKnow DEF CalmInv
<1>. QED  BY <1>2, <1>3, <1>4 DEF CalmInv

\* The steps of the command that runs preserve what holds on a calm day.
LEMMA CalmCommand ==
  ASSUME BaseInv, BaseInv', calm, CalmInv, NEW o \in Operators, Command(o)
  PROVE  CalmInv'
<1> USE NoDaemon DEF sysVars, daeVars, cmdVars, opVars
<1>0. Types /\ Handles /\ Turns /\ Owner /\ Knows(o)  BY DEF BaseInv, CalmInv
<1>w. {"stat", "open", "read", "proc", "act", "unlink", "waitGone", "fork", "foreground"} \cap Waiting = {}  BY DEF Waiting
<1>u. UNCHANGED <<dpc, sigint>> => \A d \in Daemons : Serving(d)' => Serving(d)  BY DEF Serving
<1>1. CASE Stat(o)
  <2>1. /\ opc[o] = "stat" /\ opc' = [opc EXCEPT ![o] = IF file # 0 THEN "open" ELSE "act"]
        /\ UNCHANGED <<file, text, dpc, sigint, dfd, mine, seen, out, running>>
    BY <1>1 DEF Stat, Goto
  <2>2. Knows(o)'  BY <1>0, <2>1 DEF Knows, Types, Handles
  <2>. QED  BY <1>w, <1>u, <2>1, <2>2, Looks
<1>2. CASE OpenFile(o)
  <2>1. opc[o] = "open" /\ UNCHANGED <<file, text, dpc, sigint, dfd, mine, seen, running>>
    BY <1>2 DEF OpenFile
  <2>2. CASE file = 0 /\ Say(o, "error")
    <3>1. Knows(o)'  BY <1>0, <2>1, <2>2 DEF Knows, Types, Say
    <3>2. \A p \in Operators : p # o => out'[p] = out[p]  BY <1>0, <2>2 DEF Say, Types
    <3>. QED  BY <1>w, <1>u, <2>1, <2>2, <3>1, <3>2, Looks DEF Say
  <2>3. CASE file # 0 /\ fd' = [fd EXCEPT ![o] = file] /\ Goto(o, "read")
    <3>1. file \in Daemons /\ dpc[file] \notin Starting
      BY <1>0, <1>w, <2>1, <2>3, Alone DEF Types, Ids
    <3>2. text[file] = file  BY <1>0, <2>3, <3>1 DEF Owner, Starting
    <3>3. Knows(o)'  BY <1>0, <2>1, <2>3, <3>2 DEF Knows, Types, Goto, Handles
    <3>. QED  BY <1>w, <1>u, <2>1, <2>3, <3>3, Looks DEF Goto
  <2>. QED  BY <1>2, <2>2, <2>3 DEF OpenFile
<1>3. CASE ReadFile(o)
  <2>1. /\ opc[o] = "read" /\ opc' = [opc EXCEPT ![o] = "proc"] /\ seen' = [seen EXCEPT ![o] = text[fd[o]]]
        /\ UNCHANGED <<file, text, dpc, sigint, dfd, mine, out>>
    BY <1>3 DEF ReadFile, Goto
  <2>2. fd[o] # 0 /\ text[fd[o]] = fd[o] /\ file \in {0, fd[o]} /\ out[o] # "started"
    BY <1>0, <2>1 DEF Handles, Knows
  <2>3. Knows(o)'  BY <1>0, <2>1, <2>2 DEF Knows, Types
  <2>4. \A p \in Operators : p # o => seen'[p] = seen[p]  BY <1>0, <2>1 DEF Types
  <2>. QED  BY <1>w, <1>u, <2>1, <2>3, <2>4, Looks
<1>4. CASE Proc(o)
  <2>1. /\ opc[o] = "proc" /\ opc' = [opc EXCEPT ![o] = "act"]
        /\ running' = [running EXCEPT ![o] = Alive(seen[o])]
        /\ UNCHANGED <<file, text, dpc, sigint, dfd, mine, out, seen>>
    BY <1>4 DEF Proc, Goto
  <2>2. file \in {0, seen[o]} /\ out[o] # "started"  BY <1>0, <2>1 DEF Handles, Knows
  <2>3. file # 0 => Alive(file)  BY <1>0 DEF Owner, Alive, Types, Ids
  <2>4. running'[o] = Alive(seen[o])  BY <1>0, <2>1 DEF Types
  <2>5. Knows(o)'  BY <1>0, <2>1, <2>2, <2>3, <2>4 DEF Knows, Types
  <2>. QED  BY <1>w, <1>u, <2>1, <2>5, Looks
<1>5. CASE State(o)
  <2>1. /\ opc[o] = "act" /\ opc' = [opc EXCEPT ![o] = "idle"] /\ out'[o] # "started"
        /\ UNCHANGED <<file, text, dpc, sigint, dfd, mine, seen>>
        /\ \A p \in Operators : p # o => out'[p] = out[p]
    BY <1>0, <1>5 DEF State, Say, Types
  <2>2. Knows(o)'  BY <1>0, <2>1 DEF Knows, Types
  <2>. QED  BY <1>w, <1>u, <2>1, <2>2, Looks
<1>6. CASE Start(o)
  <2>1. opc[o] = "act" /\ UNCHANGED <<text, dpc, sigint, dfd, mine, seen, running>>  BY <1>6 DEF Start
  <2>2. CASE \E s \in {"running", "error"} : Say(o, s) /\ UNCHANGED file
    <3>1. /\ opc' = [opc EXCEPT ![o] = "idle"] /\ out'[o] # "started" /\ file' = file
          /\ \A p \in Operators : p # o => out'[p] = out[p]
      BY <1>0, <2>2 DEF Say, Types
    <3>2. Knows(o)'  BY <1>0, <2>1, <3>1 DEF Knows, Types
    <3>. QED  BY <1>w, <1>u, <2>1, <3>1, <3>2, Looks
  <2>3. CASE ~running[o] /\ file' \in {0, file} /\ Goto(o, "fork")
    <3>1. file = 0 /\ out[o] # "started"  BY <1>0, <2>1, <2>3 DEF Knows, Handles
    <3>2. opc' = [opc EXCEPT ![o] = "fork"] /\ file' = file /\ out' = out  BY <2>3, <3>1 DEF Goto
    <3>3. Knows(o)'  BY <1>0, <2>1, <3>1, <3>2 DEF Knows, Types
    <3>. QED  BY <1>w, <1>u, <2>1, <3>2, <3>3, Looks
  <2>. QED  BY <1>6, <2>2, <2>3 DEF Start
<1>7. CASE Stop(o)
  <2>1. opc[o] = "act" /\ UNCHANGED <<file, text, dpc, dfd, mine, seen, running>>  BY <1>7 DEF Stop
  <2>2. CASE \E s \in {"not running", "error"} : Say(o, s) /\ UNCHANGED sigint
    <3>1. /\ opc' = [opc EXCEPT ![o] = "idle"] /\ out'[o] # "started"
          /\ \A p \in Operators : p # o => out'[p] = out[p]
      BY <1>0, <2>2 DEF Say, Types
    <3>2. Knows(o)'  BY <1>0, <2>1, <3>1 DEF Knows, Types
    <3>. QED  BY <1>w, <1>u, <2>1, <2>2, <3>1, <3>2, Looks
  <2>3. CASE ~running[o] /\ Goto(o, "fork") /\ UNCHANGED sigint
    <3>1. file = 0 /\ out[o] # "started"  BY <1>0, <2>1, <2>3 DEF Knows, Handles
    <3>2. opc' = [opc EXCEPT ![o] = "fork"] /\ out' = out  BY <2>3 DEF Goto
    <3>3. Knows(o)'  BY <1>0, <2>1, <3>1, <3>2 DEF Knows, Types
    <3>. QED  BY <1>w, <1>u, <2>1, <2>3, <3>2, <3>3, Looks
  <2>4. CASE /\ running[o] /\ Alive(seen[o]) /\ sigint' = [sigint EXCEPT ![seen[o]] = TRUE]
             /\ \E l \in {"unlink", "waitGone"} : Goto(o, l)
    <3>1. PICK l \in {"unlink", "waitGone"} : opc' = [opc EXCEPT ![o] = l] /\ out' = out  BY <2>4 DEF Goto
    <3>2. seen[o] \in Daemons /\ file \in {0, seen[o]} /\ out[o] # "started"
      BY <1>0, <2>1, <2>4 DEF Knows, Handles, Alive
    <3>3. \A d \in Daemons : Serving(d) => d = seen[o]  BY <1>0, <3>2 DEF Owner
    <3>4. \A d \in Daemons : ~Serving(d)'
      <4>1. sigint'[seen[o]] /\ \A d \in Daemons : d # seen[o] => sigint'[d] = sigint[d]
        BY <1>0, <2>4, <3>2 DEF Types
      <4>. QED  BY <2>1, <3>3, <4>1 DEF Serving
    <3>5. Knows(o)'  BY <1>0, <2>1, <3>1, <3>2, <3>4 DEF Knows, Types
    <3>. QED  BY <1>w, <2>1, <3>1, <3>4, <3>5, Looks
  <2>. QED  BY <1>7, <2>2, <2>3, <2>4 DEF Stop
<1>8. CASE StopUnlink(o)
  <2>1. /\ opc[o] = "unlink" /\ opc' = [opc EXCEPT ![o] = "idle"] /\ file' = 0 /\ out'[o] # "started"
        /\ UNCHANGED <<text, dpc, sigint, dfd, mine, seen>>
        /\ \A p \in Operators : p # o => out'[p] = out[p]
    BY <1>0, <1>8 DEF StopUnlink, Say, Types
  <2>2. \A d \in Daemons : ~Serving(d) /\ dpc[d] \notin Starting
    BY <1>0, <1>w, <2>1, Alone DEF Knows
  <2>3. \A d \in Daemons : dpc[d] # "write" /\ ~Serving(d)'  BY <2>1, <2>2 DEF Starting, Serving
  <2>4. Turns'  BY <1>0, <2>1, <2>2, TurnsKeep
  <2>5. Owner'  BY <1>0, <2>1, <2>3 DEF Owner
  <2>6. Knows(o)'  BY <1>0, <2>1 DEF Knows, Types
  <2>7. \A p \in Operators : p # o => Knows(p)'  BY <1>0, <2>1, OthersKnow DEF CalmInv
  <2>. QED  BY <2>4, <2>5, <2>6, <2>7 DEF CalmInv
<1>9. CASE WaitGone(o)
  <2>1. /\ opc[o] = "waitGone" /\ file = 0 /\ opc' = [opc EXCEPT ![o] = "fork"]
        /\ UNCHANGED <<file, text, dpc, sigint, dfd, mine, seen, out>>
    BY <1>9 DEF WaitGone, Goto
  <2>2. Knows(o)'  BY <1>0, <2>1 DEF Knows, Types, Handles
  <2>. QED  BY <1>w, <1>u, <2>1, <2>2, Looks
<1>10. CASE Fork(o)
  <2> DEFINE n == forked + 1
  <2>0. Goto(o, "waitFile")  BY <1>10 DEF Fork
  <2>1. /\ n \in Daemons /\ opc[o] = "fork" /\ opc' = [opc EXCEPT ![o] = "waitFile"]
        /\ mine' = [mine EXCEPT ![o] = n] /\ dpc' = [dpc EXCEPT ![n] = "init"] /\ dpc[n] = "none"
        /\ UNCHANGED <<file, text, sigint, dfd, seen, out>>
    BY <1>10, <2>0, ForkedDaemon DEF Fork, Goto, BaseInv, Ports
  <2> HIDE DEF n
  <2>2. /\ file = 0 /\ out[o] # "started" /\ \A d \in Daemons : dpc[d] \notin Starting
    BY <1>0, <1>w, <2>1, Alone DEF Knows, Handles
  <2>3. \A d \in Daemons : dpc'[d] = IF d = n THEN "init" ELSE dpc[d]  BY <1>0, <2>1 DEF Types
  <2>4. mine'[o] = n /\ \A p \in Operators : p # o => mine'[p] = mine[p]  BY <1>0, <2>1 DEF Types
  <2>5. Turns'
    <3>1. \A d \in Daemons : dpc'[d] \in Starting => mine'[o] = d /\ "waitFile" \in Waiting
      BY <2>2, <2>3, <2>4 DEF Waiting
    <3>. QED  BY <1>0, <2>1, <3>1, TurnsKeep
  <2>6. Owner'  BY <1>0, <2>1, <2>2, <2>3 DEF Owner, Serving
  <2>7. Knows(o)'  BY <1>0, <2>1, <2>2, <2>4 DEF Knows, Types
  <2>8. \A p \in Operators : p # o => Knows(p)'  BY <1>0, <2>1, <2>4, OthersKnow DEF CalmInv
  <2>. QED  BY <2>5, <2>6, <2>7, <2>8 DEF CalmInv
<1>11. CASE WaitFile(o)
  <2>1. opc[o] = "waitFile" /\ UNCHANGED <<file, text, dpc, sigint, dfd, mine, seen>>  BY <1>11 DEF WaitFile
  <2>2. Owner'  BY <1>0, <2>1 DEF Owner, Serving
  <2>3. CASE file # 0 /\ Goto(o, "openNew")
    <3>1. opc' = [opc EXCEPT ![o] = "openNew"] /\ out' = out  BY <2>3 DEF Goto
    <3>2. Turns'  BY <1>0, <2>1, <3>1, Alone, TurnsKeep DEF Waiting
    <3>3. Knows(o)'
      <4>1. file = mine[o] /\ out[o] # "started"  BY <1>0, <2>1, <2>3 DEF Knows, Handles
      <4>2. dpc[mine[o]] \notin Early  BY <1>0, <2>3, <4>1 DEF Owner, Early
      <4>3. opc'[o] = "openNew"  BY <1>0, <3>1 DEF Types
      <4>. QED  BY <2>1, <2>3, <3>1, <4>1, <4>2, <4>3 DEF Knows
    <3>4. \A p \in Operators : p # o => Knows(p)'  BY <1>0, <2>1, <3>1, OthersKnow DEF CalmInv
    <3>. QED  BY <2>2, <3>2, <3>3, <3>4 DEF CalmInv
  <2>4. CASE ~Alive(mine[o]) /\ Say(o, "timeout")
    <3>1. /\ opc' = [opc EXCEPT ![o] = "idle"] /\ out'[o] # "started"
          /\ \A p \in Operators : p # o => out'[p] = out[p]
      BY <1>0, <2>4 DEF Say, Types
    <3>2. \A d \in Daemons : dpc[d] \notin Starting
      <4>1. \A d \in Daemons : dpc[d] \in Starting => mine[o] = d  BY <1>0, <2>1, Alone
      <4>2. \A d \in Daemons : dpc[d] \in Starting => Alive(d)  BY DEF Alive, Starting
      <4>. QED  BY <2>4, <4>1, <4>2
    <3>3. Turns'  BY <1>0, <2>1, <3>1, <3>2, TurnsKeep
    <3>4. Knows(o)'  BY <1>0, <2>1, <3>1 DEF Knows, Types
    <3>5. \A p \in Operators : p # o => Knows(p)'  BY <1>0, <2>1, <3>1, OthersKnow DEF CalmInv
    <3>. QED  BY <2>2, <3>3, <3>4, <3>5 DEF CalmInv
  <2>. QED  BY <1>11, <2>3, <2>4 DEF WaitFile
<1>12. CASE WaitPid(o)
  <2>1. opc[o] = "waitPid" /\ UNCHANGED <<file, text, dpc, sigint, dfd, mine, fd>>  BY <1>12 DEF WaitPid
  <2>2. Owner'  BY <1>0, <2>1 DEF Owner, Serving
  <2>3. fd[o] = mine[o] /\ mine[o] \in Daemons /\ out[o] # "started"
    BY <1>0, <2>1 DEF Knows, Types, Ids, Handles
  <2>4. CASE \E s : text[fd[o]] # 0 /\ seen' = [seen EXCEPT ![o] = text[fd[o]]] /\ Say(o, s)
    <3>1. /\ opc' = [opc EXCEPT ![o] = "idle"] /\ seen'[o] = text[fd[o]]
          /\ \A p \in Operators : p # o => out'[p] = out[p] /\ seen'[p] = seen[p]
      BY <1>0, <2>4 DEF Say, Types
    <3>2. text[mine[o]] = mine[o]  BY <1>0, <2>3, <2>4 DEF Owner
    <3>3. dpc[mine[o]] \notin Down  BY <2>3, <2>4, <3>2 DEF BaseInv, Names
    <3>4. \A d \in Daemons : dpc[d] \notin Starting
      BY <1>0, <2>1, <3>3, Alone DEF Down
    <3>5. Turns'  BY <1>0, <2>1, <3>1, <3>4, TurnsKeep
    <3>6. Knows(o)'  BY <1>0, <2>1, <2>3, <3>1, <3>2 DEF Knows, Types
    <3>7. \A p \in Operators : p # o => Knows(p)'  BY <1>0, <2>1, <3>1, OthersKnow DEF CalmInv
    <3>. QED  BY <2>2, <3>5, <3>6, <3>7 DEF CalmInv
  <2>5. CASE Goto(o, "spin") /\ UNCHANGED seen
    <3>1. opc' = [opc EXCEPT ![o] = "spin"] /\ out' = out  BY <2>5 DEF Goto
    <3>2. Turns'  BY <1>0, <2>1, <3>1, Alone, TurnsKeep DEF Waiting
    <3>3. Knows(o)'  BY <1>0, <2>1, <2>3, <2>5, <3>1 DEF Knows, Types
    <3>4. \A p \in Operators : p # o => Knows(p)'  BY <1>0, <2>1, <2>5, <3>1, OthersKnow DEF CalmInv
    <3>. QED  BY <2>2, <3>2, <3>3, <3>4 DEF CalmInv
  <2>. QED  BY <1>12, <2>4, <2>5 DEF WaitPid
<1>13. CASE Foreground(o)
  <2>1. /\ opc[o] = "foreground" /\ opc' = [opc EXCEPT ![o] = "idle"] /\ out'[o] # "started"
        /\ UNCHANGED <<file, text, dpc, sigint, dfd, mine, seen>>
        /\ \A p \in Operators : p # o => out'[p] = out[p]
    BY <1>0, <1>13 DEF Foreground, Say, Types
  <2>2. Knows(o)'  BY <1>0, <2>1 DEF Knows, Types
  <2>. QED  BY <1>w, <1>u, <2>1, <2>2, Looks
<1>14. CASE OpenNew(o)
  <2>1. opc[o] = "openNew" /\ UNCHANGED <<file, text, dpc, sigint, dfd, mine, seen>>  BY <1>14 DEF OpenNew
  <2>2. Owner'  BY <1>0, <2>1 DEF Owner, Serving
  <2>3. CASE file # 0 /\ fd' = [fd EXCEPT ![o] = file] /\ Goto(o, "waitPid")
    <3>1. opc' = [opc EXCEPT ![o] = "waitPid"] /\ out' = out  BY <2>3 DEF Goto
    <3>2. Turns'  BY <1>0, <2>1, <3>1, Alone, TurnsKeep DEF Waiting
    <3>3. Knows(o)'  BY <1>0, <2>1, <2>3, <3>1 DEF Knows, Types, Handles
    <3>4. \A p \in Operators : p # o => Knows(p)'  BY <1>0, <2>1, <3>1, OthersKnow DEF CalmInv
    <3>. QED  BY <2>2, <3>2, <3>3, <3>4 DEF CalmInv
  <2>4. CASE file = 0 /\ Say(o, "error")
    <3>1. /\ opc' = [opc EXCEPT ![o] = "idle"] /\ out'[o] # "started"
          /\ \A p \in Operators : p # o => out'[p] = out[p]
      BY <1>0, <2>4 DEF Say, Types
    <3>2. \A d \in Daemons : dpc[d] \notin Starting
      <4>1. \A d \in Daemons : dpc[d] \in Starting => mine[o] = d  BY <1>0, <2>1, Alone
      <4>2. dpc[mine[o]] \notin Early  BY <1>0, <2>1 DEF Knows
      <4>3. \A d \in Daemons : dpc[d] # "write"  BY <1>0, <2>4 DEF Owner
      <4>. QED  BY <4>1, <4>2, <4>3 DEF Starting, Early
    <3>3. Turns'  BY <1>0, <2>1, <3>1, <3>2, TurnsKeep
    <3>4. Knows(o)'  BY <1>0, <2>1, <3>1 DEF Knows, Types
    <3>5. \A p \in Operators : p # o => Knows(p)'  BY <1>0, <2>1, <3>1, OthersKnow DEF CalmInv
    <3>. QED  BY <2>2, <3>3, <3>4, <3>5 DEF CalmInv
  <2>. QED  BY <1>14, <2>3, <2>4 DEF OpenNew
<1>. QED  BY <1>1, <1>2, <1>3, <1>4, <1>5, <1>6, <1>7, <1>8, <1>9, <1>10, <1>11, <1>12, <1>13, <1>14 DEF Command

\* A daemon goes down, or comes up and has not created the file yet: the file stays or
\* goes, and nobody serves who did not.
LEMMA Falls ==
  ASSUME BaseInv, CalmInv, NEW d \in Daemons, NEW l, dpc' = [dpc EXCEPT ![d] = l],
         dpc[d] \in Starting \/ l \notin Starting, dpc[d] \in Early \/ l \notin Early, file' \in {0, file},
         \A e \in Daemons : Serving(e)' => Serving(e),
         UNCHANGED <<text, dfd, opVars>>, Owner'
  PROVE  CalmInv'
<1> USE DEF opVars, cmdVars
<1>1. Turns'
  <2>1. \A e \in Daemons : dpc'[e] \in Starting => dpc[e] \in Starting  BY DEF BaseInv, Types
  <2>. QED  BY <2>1 DEF CalmInv, Turns
<1>2. \A o \in Operators : Knows(o)'
  <2>1. \A e \in Daemons : dpc[e] \notin Early => dpc'[e] \notin Early  BY DEF BaseInv, Types
  <2>2. \A o \in Operators : mine[o] \in Ids  BY DEF BaseInv, Types
  <2>. QED  BY <2>1, <2>2, KnowsStay DEF CalmInv
<1>. QED  BY <1>1, <1>2 DEF CalmInv

\* The file stays that of its owner when another daemon moves, or the owner goes down.
LEMMA OwnerStays ==
  ASSUME Types, Owner, NEW d \in Daemons, NEW l \in {"bind", "create", "stopping", "unlink", "dead"},
         \A e \in Daemons : dpc'[e] = IF e = d THEN l ELSE dpc[e],
         l \in {"stopping", "unlink"} => dpc[d] \in {"serve", "stopping"},
         l \notin {"stopping", "unlink"} => dpc[d] \in {"init", "bind", "exit"},
         \A e \in Daemons : e # d => sigint'[e] = sigint[e],
         UNCHANGED <<file, text, dfd>>
  PROVE  Owner'
<1>1. file # 0 => dpc'[file] \in {"write", "serve", "stopping", "unlink"}
  <2>1. file # 0 => file \in Daemons  BY DEF Types, Ids
  <2>2. CASE file = d  BY <2>1, <2>2 DEF Owner
  <2>3. CASE file # d  BY <2>1, <2>3 DEF Owner
  <2>. QED  BY <2>2, <2>3
<1>2. \A e \in Daemons : Serving(e)' => file = e  BY DEF Owner, Serving
<1>3. \A e \in Daemons : dpc'[e] = "write" => file = e /\ dfd[e] = e  BY DEF Owner
<1>4. \A e \in Daemons : text[e] \in {0, e} /\ (dpc'[e] \in {"serve", "stopping", "unlink"} => text[e] = e)
  BY DEF Owner
<1>. QED  BY <1>1, <1>2, <1>3, <1>4 DEF Owner

\* So do the steps of the daemons.
LEMMA CalmDaemon ==
  ASSUME BaseInv, BaseInv', calm, CalmInv, NEW d \in Daemons, DaemonStep(d)
  PROVE  CalmInv'
<1> USE NoDaemon DEF sysVars, daeVars
<1>0. Types /\ Ports /\ Turns /\ Owner  BY DEF BaseInv, CalmInv
<1>m. ASSUME NEW l, Move(d, l) PROVE \A e \in Daemons : dpc'[e] = IF e = d THEN l ELSE dpc[e]
  BY <1>0, <1>m DEF Types, Move
<1>1. CASE DaemonInit(d)
  <2>1. dpc[d] = "init" /\ Move(d, "bind") /\ UNCHANGED <<file, text, dfd, sigint, opVars>>
    BY <1>1 DEF DaemonInit, At
  <2>2. \A e \in Daemons : dpc'[e] = IF e = d THEN "bind" ELSE dpc[e]  BY <1>m, <2>1
  <2>3. Owner'  BY <1>0, <2>1, <2>2, OwnerStays
  <2>4. \A e \in Daemons : Serving(e)' => Serving(e)  BY <2>1, <2>2 DEF Serving
  <2>. QED  BY <2>1, <2>3, <2>4, Falls DEF Move, Starting, Early
<1>2. CASE DaemonFails(d)
  <2>1. dpc[d] = "bind" /\ Move(d, "dead") /\ UNCHANGED <<file, text, dfd, sigint, opVars>>
    BY <1>2 DEF DaemonFails
  <2>2. \A e \in Daemons : dpc'[e] = IF e = d THEN "dead" ELSE dpc[e]  BY <1>m, <2>1
  <2>3. Owner'  BY <1>0, <2>1, <2>2, OwnerStays
  <2>4. \A e \in Daemons : Serving(e)' => Serving(e)  BY <2>1, <2>2 DEF Serving
  <2>. QED  BY <2>1, <2>3, <2>4, Falls DEF Move, Starting, Early
<1>3. CASE DaemonBind(d)
  <2>1. dpc[d] = "bind" /\ Move(d, "create") /\ UNCHANGED <<file, text, dfd, sigint, opVars>>
    BY <1>3 DEF DaemonBind, At
  <2>2. \A e \in Daemons : dpc'[e] = IF e = d THEN "create" ELSE dpc[e]  BY <1>m, <2>1
  <2>3. Owner'  BY <1>0, <2>1, <2>2, OwnerStays
  <2>4. \A e \in Daemons : Serving(e)' => Serving(e)  BY <2>1, <2>2 DEF Serving
  <2>. QED  BY <2>1, <2>3, <2>4, Falls DEF Move, Starting, Early
<1>4. CASE CreateFile(d) \/ WriteFile(d)
  <2>1. dpc[d] \in {"create", "write"} /\ UNCHANGED <<sigint, opVars>>
    BY <1>4 DEF CreateFile, WriteFile, At
  <2>2. port = d /\ \A e \in Daemons : e # d => dpc[e] \notin Holding
    BY <1>0, <2>1 DEF Ports, Holding
  <2>3. PICK o \in Operators : mine[o] = d /\ opc[o] \in Waiting  BY <1>0, <2>1 DEF Turns, Starting
  <2>4. opc[o] # "idle" /\ \A p \in Operators : p # o => opc[p] = "idle"  BY <1>0, <2>3, Alone DEF Waiting
  <2>5. \A p \in Operators : p # o => Knows(p)'  BY <2>1, <2>4, IdleKnows DEF opVars, cmdVars, CalmInv
  <2>6. CASE CreateFile(d)
    <3>1. dpc[d] = "create" /\ Move(d, "write")  BY <2>6 DEF CreateFile, At
    <3>2. file = 0  BY <1>0, <2>2, <3>1 DEF Owner, Types, Ids, Holding
    <3>3. file' = d /\ dfd' = [dfd EXCEPT ![d] = d] /\ text' = [text EXCEPT ![d] = 0]
      BY <2>6, <3>2 DEF CreateFile
    <3>4. \A e \in Daemons : dpc'[e] = IF e = d THEN "write" ELSE dpc[e]  BY <1>m, <3>1
    <3>5. \A e \in Daemons : text'[e] = IF e = d THEN 0 ELSE text[e]  BY <1>0, <3>3 DEF Types
    <3>6. dfd'[d] = d  BY <1>0, <3>3 DEF Types
    <3>7. Owner'  BY <1>0, <2>1, <2>2, <3>3, <3>4, <3>5, <3>6 DEF Owner, Serving, Holding
    <3>8. Turns'
      <4>1. \A e \in Daemons : dpc'[e] \in Starting => dpc[e] \in Starting  BY <3>1, <3>4 DEF Starting
      <4>. QED  BY <1>0, <2>1, <4>1 DEF Turns, opVars, cmdVars
    <3>9. Knows(o)'
      <4>1. dpc'[mine'[o]] \notin Early  BY <2>1, <2>3, <3>4 DEF Early, opVars, cmdVars
      <4>. QED  BY <2>1, <2>3, <3>3, <4>1 DEF Knows, Waiting, opVars, cmdVars, CalmInv
    <3>. QED  BY <2>5, <3>7, <3>8, <3>9 DEF CalmInv
  <2>7. CASE WriteFile(d)
    <3>1. dpc[d] = "write" /\ Move(d, "serve") /\ UNCHANGED <<file, dfd>>  BY <2>7 DEF WriteFile, At
    <3>2. file = d /\ dfd[d] = d  BY <1>0, <3>1 DEF Owner
    <3>3. text' = [text EXCEPT ![d] = d]  BY <2>7, <3>2 DEF WriteFile
    <3>4. \A e \in Daemons : dpc'[e] = IF e = d THEN "serve" ELSE dpc[e]  BY <1>m, <3>1
    <3>5. \A e \in Daemons : text'[e] = IF e = d THEN d ELSE text[e]  BY <1>0, <3>3 DEF Types
    <3>6. Owner'  BY <1>0, <2>1, <2>2, <3>1, <3>2, <3>4, <3>5 DEF Owner, Serving, Holding
    <3>7. Turns'
      <4>1. \A e \in Daemons : dpc'[e] \in Starting => dpc[e] \in Starting  BY <3>4 DEF Starting
      <4>. QED  BY <1>0, <2>1, <4>1 DEF Turns, opVars, cmdVars
    <3>8. Knows(o)'
      <4>1. dpc'[mine'[o]] \notin Early  BY <2>1, <2>3, <3>4 DEF Early, opVars, cmdVars
      <4>. QED  BY <2>1, <2>3, <3>1, <4>1 DEF Knows, Waiting, opVars, cmdVars, CalmInv
    <3>. QED  BY <2>5, <3>6, <3>7, <3>8 DEF CalmInv
  <2>. QED  BY <1>4, <2>6, <2>7
<1>5. CASE AcceptFails(d)  BY <1>5 DEF AcceptFails
<1>6. CASE Handler(d)
  <2>1. /\ dpc[d] = "serve" /\ sigint[d] /\ Move(d, "stopping") /\ UNCHANGED <<file, text, dfd, opVars>>
        /\ \A e \in Daemons : sigint'[e] = IF e = d THEN FALSE ELSE sigint[e]
    BY <1>0, <1>6 DEF Handler, Types
  <2>2. \A e \in Daemons : dpc'[e] = IF e = d THEN "stopping" ELSE dpc[e]  BY <1>m, <2>1
  <2>3. Owner'  BY <1>0, <2>1, <2>2, OwnerStays, ZenonT(40)
  <2>4. \A e \in Daemons : Serving(e)' => Serving(e)  BY <2>1, <2>2 DEF Serving
  <2>. QED  BY <2>1, <2>3, <2>4, Falls DEF Move, Starting, Early
<1>7. CASE KillTemplate(d)
  <2>1. dpc[d] = "stopping" /\ Move(d, "unlink") /\ UNCHANGED <<file, text, dfd, sigint, opVars>>
    BY <1>7 DEF KillTemplate
  <2>2. \A e \in Daemons : dpc'[e] = IF e = d THEN "unlink" ELSE dpc[e]  BY <1>m, <2>1
  <2>3. Owner'  BY <1>0, <2>1, <2>2, OwnerStays
  <2>4. \A e \in Daemons : Serving(e)' => Serving(e)  BY <2>1, <2>2 DEF Serving
  <2>. QED  BY <2>1, <2>3, <2>4, Falls DEF Move, Starting, Early
<1>8. CASE DaemonUnlink(d)
  <2>1. dpc[d] = "unlink" /\ Move(d, "exit") /\ file' = 0 /\ UNCHANGED <<text, dfd, sigint, opVars>>
    BY <1>8 DEF DaemonUnlink
  <2>2. \A e \in Daemons : dpc'[e] = IF e = d THEN "exit" ELSE dpc[e]  BY <1>m, <2>1
  <2>3. \A e \in Daemons : dpc'[e] \notin {"write", "serve"}  BY <1>0, <2>1, <2>2 DEF Ports, Holding
  <2>4. Owner'  BY <1>0, <2>1, <2>2, <2>3 DEF Owner, Serving, Types, Ids
  <2>5. \A e \in Daemons : Serving(e)' => Serving(e)  BY <2>3 DEF Serving
  <2>. QED  BY <2>1, <2>4, <2>5, Falls DEF Move, Starting, Early
<1>9. CASE Exit(d)
  <2>1. dpc[d] = "exit" /\ Move(d, "dead") /\ UNCHANGED <<file, text, dfd, sigint, opVars>>
    BY <1>9 DEF Exit
  <2>2. \A e \in Daemons : dpc'[e] = IF e = d THEN "dead" ELSE dpc[e]  BY <1>m, <2>1
  <2>3. Owner'  BY <1>0, <2>1, <2>2, OwnerStays
  <2>4. \A e \in Daemons : Serving(e)' => Serving(e)  BY <2>1, <2>2 DEF Serving
  <2>. QED  BY <2>1, <2>3, <2>4, Falls DEF Move, Starting, Early
<1>10. CASE HandlerHangs(d)  BY <1>10 DEF HandlerHangs
<1>11. CASE Killed(d)  BY <1>0, <1>11 DEF Killed, Ports
<1>. QED  BY <1>1, <1>2, <1>3, <1>4, <1>5, <1>6, <1>7, <1>8, <1>9, <1>10, <1>11 DEF DaemonStep

\* The file, the port and the commands agree on a calm day, for every number of
\* operators, commands and daemons.
THEOREM IndInvHolds == Spec => []IndInv
<1>1. Init => (calm => CalmInv)
  <2> SUFFICES ASSUME Init PROVE CalmInv  OBVIOUS
  <2>1. Turns  BY DEF Init, Turns, Starting
  <2>2. Owner
    <3>1. forked # 0 => forked \in Daemons  BY DaemonAssumption DEF Init, Daemons
    <3>2. /\ file = forked /\ \A d \in Daemons : /\ dpc[d] = IF d = forked THEN "serve" ELSE "none"
                                                 /\ text[d] = IF d = forked THEN d ELSE 0
      BY DEF Init
    <3>. QED  BY <3>1, <3>2 DEF Owner, Serving
  <2>3. \A o \in Operators : Knows(o)  BY DEF Init, Knows
  <2>. QED  BY <2>1, <2>2, <2>3 DEF CalmInv
<1>2. BaseInv /\ BaseInv' /\ (calm => CalmInv) /\ [Next]_vars => (calm => CalmInv)'
  <2> SUFFICES ASSUME BaseInv, BaseInv', calm => CalmInv, [Next]_vars, calm' PROVE CalmInv'  OBVIOUS
  <2>0. calm /\ CalmInv
    BY DEF Next, vars, Command, DaemonStep, Give, sysVars, Stat, OpenFile, ReadFile, Proc, State, Start,
           Stop, StopUnlink, WaitGone, Fork, Foreground, WaitFile, OpenNew, WaitPid, DaemonInit, DaemonFails, DaemonBind,
           CreateFile, WriteFile, AcceptFails, Handler, HandlerHangs, Killed, KillTemplate, DaemonUnlink, Exit
  <2>1. ASSUME NEW o \in Operators, NEW a \in Actions, Give(o, a) PROVE CalmInv'
    <3>1. /\ \A p \in Operators : opc[p] = "idle"
          /\ UNCHANGED <<file, text, dpc, dfd, sigint>>
      BY <2>0, <2>1 DEF Give, sysVars, daeVars
    <3>2. \A d \in Daemons : dpc[d] \notin Starting  BY <2>0, <3>1 DEF CalmInv, Turns, Waiting
    <3>3. /\ opc'[o] = "stat" /\ out'[o] = "none"
          /\ \A p \in Operators : p # o => /\ opc'[p] = "idle" /\ mine'[p] = mine[p]
                                           /\ seen'[p] = seen[p] /\ out'[p] = out[p]
      <4>1. /\ opc' = [opc EXCEPT ![o] = "stat"] /\ out' = [out EXCEPT ![o] = "none"]
            /\ seen' = [seen EXCEPT ![o] = 0] /\ mine' = [mine EXCEPT ![o] = 0]
        BY <2>1 DEF Give
      <4>2. /\ opc = [p \in Operators |-> opc[p]] /\ out = [p \in Operators |-> out[p]]
            /\ seen = [p \in Operators |-> seen[p]] /\ mine = [p \in Operators |-> mine[p]]
        BY DEF BaseInv, Types
      <4>3. opc'[o] = "stat" /\ out'[o] = "none"  BY <4>1, <4>2
      <4>4. \A p \in Operators : p # o => opc'[p] = "idle"  BY <3>1, <4>1, <4>2
      <4>5. \A p \in Operators : p # o => mine'[p] = mine[p]  BY <4>1, <4>2
      <4>6. \A p \in Operators : p # o => seen'[p] = seen[p] /\ out'[p] = out[p]  BY <4>1, <4>2
      <4>. QED  BY <4>3, <4>4, <4>5, <4>6
    <3>4. Turns'  BY <3>1, <3>2, <3>3 DEF Turns
    <3>5. Owner'  BY <2>0, <3>1 DEF CalmInv, Owner, Serving
    <3>6. Knows(o)'  BY <3>3 DEF Knows
    <3>7. \A p \in Operators : p # o => Knows(p)'  BY <2>0, <3>3, IdleKnows DEF CalmInv
    <3>. QED  BY <3>4, <3>5, <3>6, <3>7 DEF CalmInv
  <2>2. CASE UNCHANGED vars
    BY <2>0, <2>2 DEF vars, sysVars, daeVars, opVars, cmdVars, CalmInv, Turns, Owner, Knows, Serving
  <2>. QED  BY <2>0, <2>1, <2>2, CalmCommand, CalmDaemon DEF Next
<1>. QED  BY <1>1, <1>2, BaseHolds, PTL DEF Spec, IndInv

\* On a calm day the daemon that serves is the one /tmp/kudosd-pid names.
THEOREM ServingAlwaysKnown == Spec => []ServingIsKnown
<1>1. IndInv => ServingIsKnown
  <2> SUFFICES ASSUME IndInv, calm, NEW d \in Daemons, Serving(d) PROVE file # 0 /\ text[file] = d
    BY DEF ServingIsKnown
  <2>1. file = d /\ text[d] = d  BY DEF IndInv, CalmInv, Owner, Serving
  <2>. QED  BY <2>1, NoDaemon
<1>. QED  BY <1>1, IndInvHolds, PTL

\* On a calm day a start or restart that says "started" names the daemon it forked,
\* which holds the port until it is dead.
THEOREM StartedAlwaysMine == Spec => []StartedIsMine
<1>1. IndInv => StartedIsMine
  <2> SUFFICES ASSUME IndInv, calm, NEW o \in Operators, out[o] = "started"
               PROVE  seen[o] = mine[o] /\ (dpc[mine[o]] = "dead" \/ port = mine[o])
    BY DEF StartedIsMine
  <2>1. mine[o] # 0 /\ seen[o] = mine[o]  BY DEF IndInv, CalmInv, Knows
  <2>2. mine[o] \in Daemons  BY <2>1 DEF IndInv, BaseInv, Types, Ids
  <2>3. dpc[mine[o]] \notin Down  BY <2>1 DEF IndInv, BaseInv, Names
  <2>4. dpc[mine[o]] \in Holding \cup {"dead"}  BY <2>2, <2>3 DEF IndInv, BaseInv, Types
  <2>. QED  BY <2>1, <2>2, <2>4 DEF IndInv, BaseInv, Ports
<1>. QED  BY <1>1, IndInvHolds, PTL

-----------------------------------------------------------------------------
(* The shutdown of one daemon (Shutdown), for every number of workers and  *)
(* whatever the C library's cancellation points and heap locks: the        *)
(* handler of SIGINT never leaves a worker spinning for a dead template,   *)
(* and the pid file that a restart waits for is the last thing to go.      *)

\* The handler has passed the loop of queue_stop_workers.
Joined == main \in {"runner", "unlink", "exit", "gone"}

\* The workers that the loop has passed are gone; it has passed all of them when
\* the runner is stopped; and the template and the pid file go after that, in
\* this order, but for a stop that removes the file itself.
StopInv ==
  /\ TypeOK
  /\ \A w \in Workers : w < next => wpc[w] = "gone"
  /\ main = "join" => next \in Workers
  /\ Joined => next = NumWorkers + 1
  /\ ~template => main \in {"unlink", "exit", "gone"}
  /\ main \in {"unlink", "exit", "gone"} => ~template
  /\ main \in {"accept", "heap"} => sender = "none"
  /\ ~pidFile => sender = "stop" \/ main \in {"exit", "gone"}

\* A worker's step leaves the main thread alone, and no step revives a worker.
LEMMA WorkerKeeps ==
  ASSUME StopInv, NEW w \in Workers, WorkerStep(w)
  PROVE  /\ TypeOK'
         /\ UNCHANGED <<main, next, template, sender, pidFile>>
         /\ \A v \in Workers : wpc[v] = "gone" => wpc'[v] = "gone"
<1> USE ShutdownAssumption DEF StopInv, TypeOK, Workers, None, SendTo
<1>1. CASE Take(w)
  BY <1>1 DEF Take
<1>2. CASE Receive(w)
  BY <1>2 DEF Receive
<1>3. CASE Lock(w)
  BY <1>3 DEF Lock
<1>4. CASE Debug(w)
  BY <1>4 DEF Debug
<1>5. CASE Exchange(w)
  BY <1>5 DEF Exchange
<1>6. CASE Run(w)
  BY <1>6 DEF Run
<1>7. CASE Flush(w)
  BY <1>7 DEF Flush
<1>8. CASE Die(w)
  BY <1>8 DEF Die
<1> QED
  BY <1>1, <1>2, <1>3, <1>4, <1>5, <1>6, <1>7, <1>8 DEF WorkerStep

\* The inductive invariant holds initially and no step breaks it.
THEOREM StopInvHolds == ShutdownSpec => []StopInv
<1> USE ShutdownAssumption
<1>1. ShutdownInit => StopInv
  BY DEF ShutdownInit, StopInv, TypeOK, Joined, Workers, None
<1>2. StopInv /\ [ShutdownNext]_shutdownVars => StopInv'
  <2> SUFFICES ASSUME StopInv, [ShutdownNext]_shutdownVars PROVE StopInv'
    OBVIOUS
  <2>1. ASSUME NEW w \in Workers, WorkerStep(w) PROVE StopInv'
    <3>1. UNCHANGED <<main, next, template, sender, pidFile>> /\ TypeOK'
      BY <2>1, WorkerKeeps
    <3>2. \A v \in Workers : wpc[v] = "gone" => wpc'[v] = "gone"
      BY <2>1, WorkerKeeps
    <3> QED
      BY <3>1, <3>2 DEF StopInv, Joined
  <2>2. ASSUME NEW w \in Workers, WatcherEnds(w) PROVE StopInv'
    BY <2>2 DEF StopInv, TypeOK, Joined, WatcherEnds
  <2>3. CASE Cancel
    <3>1. /\ main = "cancel" /\ UNCHANGED <<wpc, owner, template, watchers, next, jobs, sender, pidFile>>
          /\ template = TRUE
      BY <2>3 DEF StopInv, TypeOK, Cancel
    <3>2. CASE next \in Workers /\ cancelled' = cancelled \cup {next} /\ main' = "join"
      BY <3>1, <3>2 DEF StopInv, TypeOK, Joined
    <3>3. CASE next \notin Workers /\ main' = "runner" /\ UNCHANGED cancelled
      <4>1. next = NumWorkers + 1
        BY <3>3 DEF StopInv, TypeOK, Workers
      <4> QED
        BY <3>1, <3>3, <4>1 DEF StopInv, TypeOK, Joined
    <3> QED
      BY <2>3, <3>2, <3>3 DEF Cancel
  <2>4. CASE Join
    BY <2>4 DEF StopInv, TypeOK, Joined, Workers, Join
  <2>5. CASE StopRunner
    BY <2>5 DEF StopInv, TypeOK, Joined, StopRunner
  <2>6. CASE UnlinkPidFile
    BY <2>6 DEF StopInv, TypeOK, Joined, UnlinkPidFile
  <2>7. CASE ExitProcess
    BY <2>7 DEF StopInv, TypeOK, Joined, ExitProcess
  <2>8. CASE MainAllocates \/ MainFrees
    BY <2>8 DEF StopInv, TypeOK, Joined, MainAllocates, MainFrees
  <2>9. CASE Interrupt
    <3>1. pidFile = TRUE
      BY <2>9 DEF StopInv, TypeOK, Interrupt
    <3>2. TypeOK'
      BY <2>9 DEF StopInv, TypeOK, Interrupt
    <3> QED
      BY <2>9, <3>1, <3>2 DEF StopInv, Joined, Interrupt
  <2>10. CASE StopUnlinks
    BY <2>10 DEF StopInv, TypeOK, Joined, StopUnlinks
  <2>11. CASE UNCHANGED shutdownVars
    BY <2>11 DEF StopInv, TypeOK, Joined, shutdownVars
  <2> QED
    BY <2>1, <2>2, <2>3, <2>4, <2>5, <2>6, <2>7, <2>8, <2>9, <2>10, <2>11 DEF ShutdownNext, HandlerStep
<1> QED
  BY <1>1, <1>2, PTL DEF ShutdownSpec

\* kjd_sighandler joins the workers before it kills the template: none of them
\* spins in jug_runner_template_clone for an answer that cannot come.
THEOREM NoWorkerWaitsForDeadTemplate == ShutdownSpec => []ExchangeHasTemplate
<1>1. StopInv => ExchangeHasTemplate
  BY ShutdownAssumption DEF StopInv, TypeOK, Joined, ExchangeHasTemplate, Workers
<1> QED
  BY <1>1, StopInvHolds, PTL

\* When kjd_sighandler has removed the pid file, which lets restart fork the next
\* daemon, the template is dead and no worker is left: restart waits for the
\* handler, and only stop removes the file itself.
THEOREM PidFileGoesLast == ShutdownSpec => []CleanBeforeUnlink
<1>1. StopInv => CleanBeforeUnlink
  BY ShutdownAssumption DEF StopInv, TypeOK, Joined, CleanBeforeUnlink, Workers
<1> QED
  BY <1>1, StopInvHolds, PTL
=============================================================================
