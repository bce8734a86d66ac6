-------------------------------- MODULE Files --------------------------------
(***************************************************************************)
(* The files of the submissions.  The daemon mounts a RAM file system once *)
(* (ramfs.c) and makes two directories in it; each worker that serves a    *)
(* submission creates there, compiles, has judged and removes the files of *)
(* that submission (queue_worker_serv, feed.c, lang.c).  Two things are    *)
(* shared: the file creation mask, which belongs to the process, and what  *)
(* earlier submissions and earlier daemons left behind.                    *)
(*                                                                         *)
(* A file is known by its tag, its worker and, for a feed file, the second *)
(* in its name; the content of a file is the number of a submission.       *)
(***************************************************************************)
EXTENDS Naturals

CONSTANTS Workers,
          Submissions,   \* bound on the requests served
          Seconds,       \* bound on the clock: time() is in 1..Seconds
          Faults         \* bound on what goes wrong: a call on a file or the mount
                         \* fails, a request has feeds of type REFERENCE, the
                         \* daemon ends, the machine is started again

ASSUME FilesAssumption == /\ Submissions \in Nat /\ Seconds \in Nat \ {0}
                          /\ Faults \in Nat

Feeds == {"input", "output"}
Tags == Feeds \cup {"source", "binary"}

\* A mask: 0, 022 or S_IWGRP|S_IRGRP|S_IWOTH|S_IROTH.  A file is created with
\* 0666 less the mask, a directory with 0777 less the mask.
Masks == {"0", "022", "066"}

\* lang_type.  LANG_VM is compiled by the same steps as LANG_COMPILED.
Types == {"compiled", "interpreted", "none"}

VARIABLES
  dir, mounted,  \* the directory ramfs exists; a RAM file system is mounted on it
  spaces,        \* the workspaces in it, "lang" and "feed"
  wdir,          \* each worker's directory: "absent", or the mask it was made under
  files,         \* by name: of what submission, made for which one, under which mask
  dpc, mask,     \* the daemon: control and file creation mask
  inited,        \* lang_workspace_inited
  ctype,         \* the type of the language "c" in g_languages; "none": it has no entry
  clock,         \* what time() was when it was read last
  given, faults,
  wpc, sub,      \* each worker: control and submission
  ref,           \* the feeds of type REFERENCE: their names are never set
  inAt, outAt,   \* the seconds in input_filename and output_filename; 0: NULL
  old,           \* oldWorkerMask
  reads,         \* submissions whose files the judgement of the worker read
  status,        \* what became of each submission
  overlap,       \* history: submissions that made a file while another worker
                 \* was making its directory
  kept,          \* history: submissions of which an unlink failed
  bare,          \* history: a submission came with two references
  ramLost        \* history: a mount failed, a daemon ended just before it, or the
                 \* machine was started again

ramVars  == <<dir, mounted, spaces, ramLost>>
procVars == <<ctype, dpc, inited, clock>>
servVars == <<sub, ref, inAt, outAt, old, reads>>
histVars == <<overlap, kept, bare>>
vars == <<ramVars, wdir, files, procVars, mask, given, faults, wpc, servVars, status, histVars>>

Subs == 0..Submissions
Names == Tags \X Workers \X (0..Seconds)
NoFile == [of |-> 0, by |-> 0, mask |-> "0"]

Pcs == {"idle", "inMask", "inOpen", "outMask", "outOpen", "lang", "mkdir", "restore",
        "srcMask", "srcOpen", "compile", "check", "judge", "rmBin", "rmIn", "rmOut"}

TypeOK ==
  /\ dir \in BOOLEAN /\ mounted \in BOOLEAN /\ ramLost \in BOOLEAN /\ spaces \subseteq {"lang", "feed"}
  /\ wdir \in [Workers -> Masks \cup {"absent"}]
  /\ files \in [Names -> [of : Subs, by : Subs, mask : Masks]]
  /\ dpc \in {"down", "ramfs", "mount", "lang", "feed", "up"} /\ mask \in Masks
  /\ ctype \in Types /\ inited \in [Workers -> BOOLEAN]
  /\ clock \in 1..Seconds /\ given \in Subs /\ faults \in 0..Faults
  /\ wpc \in [Workers -> Pcs] /\ sub \in [Workers -> Subs]
  /\ ref \in [Workers -> SUBSET Feeds]
  /\ inAt \in [Workers -> 0..Seconds] /\ outAt \in [Workers -> 0..Seconds]
  /\ old \in [Workers -> Masks]
  /\ reads \in [Workers -> SUBSET Subs]
  /\ status \in [Subs -> {"new", "serving", "judged", "compile", "internal", "cut"}]
  /\ overlap \subseteq Subs /\ kept \subseteq Subs /\ bare \in BOOLEAN

Init ==
  /\ dir = FALSE /\ mounted = FALSE /\ ramLost = FALSE /\ spaces = {}
  /\ wdir = [w \in Workers |-> "absent"]
  /\ files = [n \in Names |-> NoFile]
  /\ ctype \in Types /\ dpc = "down" /\ mask = "0" /\ inited = [w \in Workers |-> FALSE]
  /\ clock = 1 /\ given = 0 /\ faults = 0
  /\ wpc = [w \in Workers |-> "idle"] /\ sub = [w \in Workers |-> 0]
  /\ ref = [w \in Workers |-> {}]
  /\ inAt = [w \in Workers |-> 0] /\ outAt = [w \in Workers |-> 0]
  /\ old = [w \in Workers |-> "0"] /\ reads = [w \in Workers |-> {}]
  /\ status = [s \in Subs |-> "new"] /\ overlap = {} /\ kept = {} /\ bare = FALSE

Fault == faults < Faults /\ faults' = faults + 1

-----------------------------------------------------------------------------
(* The daemon starts.                                                      *)

\* kjd_daemonize: a new process, with the mask 0 and its memory cleared.
Daemonize ==
  /\ dpc = "down" /\ dpc' = "ramfs" /\ mask' = "0"
  /\ inited' = [w \in Workers |-> FALSE]
  /\ UNCHANGED <<ramVars, wdir, files, ctype, clock, given, faults, wpc, servVars, status, histVars>>

\* Mutant of MakeRamfsDir: the directory is made and nothing is mounted on it.
MakeRamfsDir_NoMount ==
  /\ dpc = "ramfs"
  /\ dir' = TRUE /\ dpc' = "lang" /\ UNCHANGED faults
  /\ UNCHANGED <<mounted, ramLost, spaces, wdir, files, ctype, inited, clock, mask, given, wpc, servVars,
                 status, histVars>>

\* create_ramfs, stat and mkdir: a directory that is there is taken for a mounted
\* one ("already exists, good").
MakeRamfsDir ==
  /\ dpc = "ramfs"
  /\ \/ dir /\ dpc' = "lang" /\ UNCHANGED <<dir, faults>>
     \/ ~dir /\ dir' = TRUE /\ dpc' = "mount" /\ UNCHANGED faults
     \/ ~dir /\ Fault /\ dpc' = "down" /\ UNCHANGED dir
  /\ UNCHANGED <<mounted, ramLost, spaces, wdir, files, ctype, inited, clock, mask, given, wpc, servVars,
                 status, histVars>>

\* create_ramfs, mount: when it fails the directory stays.
MountRamfs ==
  /\ dpc = "mount"
  /\ \/ mounted' = TRUE /\ dpc' = "lang" /\ UNCHANGED <<ramLost, faults>>
     \/ Fault /\ dpc' = "down" /\ ramLost' = TRUE /\ UNCHANGED mounted
  /\ UNCHANGED <<dir, spaces, wdir, files, ctype, inited, clock, mask, given, wpc, servVars, status,
                 histVars>>

\* lang_init and jug_feed_init: a workspace each.  No worker has work yet, so the
\* mask they set and restore is seen by nobody.
Workspace(x) ==
  /\ dpc = x
  /\ \/ /\ spaces' = spaces \cup {x} /\ dpc' = (IF x = "lang" THEN "feed" ELSE "up")
        /\ UNCHANGED faults
     \/ x \notin spaces /\ Fault /\ dpc' = "down" /\ UNCHANGED spaces
  /\ UNCHANGED <<dir, mounted, ramLost, wdir, files, ctype, inited, clock, mask, given, wpc, servVars,
                 status, histVars>>

-----------------------------------------------------------------------------
(* A worker serves a submission.                                           *)

Goto(w, l) == wpc' = [wpc EXCEPT ![w] = l]
Put(n, f) == files' = [files EXCEPT ![n] = f]

\* fopen "w+" and fputs: an existing file keeps its mode.
Written(n, s) ==
  IF files[n] = NoFile THEN [of |-> s, by |-> s, mask |-> mask]
                       ELSE [of |-> s, by |-> files[n].by, mask |-> files[n].mask]

Binary(w) == <<"binary", w, 0>>
Source(w) == <<"source", w, 0>>

\* Mutant of FeedName: the name does not say whose file it is.
FeedName_NoWorker(tag, w, t) == <<tag, CHOOSE v \in Workers : TRUE, t>>

FeedName(tag, w, t) == <<tag, w, t>>
InName(w) == FeedName("input", w, inAt[w])
OutName(w) == FeedName("output", w, outAt[w])

\* Others who are between the two calls of umask in lang_process, or between the
\* umask for a file and its fopen.
MakingDir(w) == \E v \in Workers \ {w} : wpc[v] \in {"mkdir", "restore"}
Opening(w) == {v \in Workers \ {w} : wpc[v] \in {"inOpen", "outOpen", "srcOpen"}}

\* umask before a file is created; it is never put back.
Umask(w) ==
  /\ mask' = "066"
  /\ overlap' = IF MakingDir(w) THEN overlap \cup {sub[w]} ELSE overlap
  /\ UNCHANGED <<kept, bare>>

\* The worker answers and is free.
Answer(w, st) ==
  /\ Goto(w, "idle") /\ status' = [status EXCEPT ![sub[w]] = st]
  /\ sub' = [sub EXCEPT ![w] = 0] /\ ref' = [ref EXCEPT ![w] = {}] /\ reads' = [reads EXCEPT ![w] = {}]
  /\ inAt' = [inAt EXCEPT ![w] = 0] /\ outAt' = [outAt EXCEPT ![w] = 0]
  /\ old' = [old EXCEPT ![w] = "0"]

\* Where the worker goes when the input is dealt with.
AfterInput(r) == IF "output" \in r THEN "lang" ELSE "outMask"

\* A request of type JUDGE was decoded.  Of a feed of type REFERENCE no file is
\* made ("not implemented yet") and its name is not set.
Begin(w) ==
  /\ dpc = "up" /\ wpc[w] = "idle" /\ given < Submissions
  /\ given' = given + 1 /\ sub' = [sub EXCEPT ![w] = given + 1]
  /\ status' = [status EXCEPT ![given + 1] = "serving"]
  /\ \E r \in SUBSET Feeds :
       /\ (r = {} /\ UNCHANGED faults) \/ (r # {} /\ Fault)
       /\ ref' = [ref EXCEPT ![w] = r] /\ bare' = (bare \/ r = Feeds)
       /\ Goto(w, IF "input" \in r THEN AfterInput(r) ELSE "inMask")
  /\ UNCHANGED <<ramVars, wdir, files, procVars, mask, inAt, outAt, old, reads, overlap, kept>>

\* jug_feed_new_file makes a name from the second and the tag.  Any time may have
\* passed since time() was read last.
NameFeed(w) ==
  /\ clock' \in clock..Seconds
  /\ \/ /\ wpc[w] = "inMask" /\ Goto(w, "inOpen")
        /\ inAt' = [inAt EXCEPT ![w] = clock'] /\ UNCHANGED outAt
     \/ /\ wpc[w] = "outMask" /\ Goto(w, "outOpen")
        /\ outAt' = [outAt EXCEPT ![w] = clock'] /\ UNCHANGED inAt

\* Mutant of FeedMask: the mask is left as it is.
FeedMask_NoMask(w) ==
  /\ NameFeed(w)
  /\ UNCHANGED <<ramVars, wdir, files, ctype, dpc, inited, mask, given, faults, sub, ref, old, reads, status,
                 histVars>>

FeedMask(w) ==
  /\ NameFeed(w) /\ Umask(w)
  /\ UNCHANGED <<ramVars, wdir, files, ctype, dpc, inited, given, faults, sub, ref, old, reads, status>>

\* The file is created and written, or it is not and NULL is returned, with or
\* without a file left behind.  The caller does not look.
FeedInput(w) ==
  /\ wpc[w] = "inOpen" /\ Goto(w, AfterInput(ref[w]))
  /\ \/ Put(InName(w), Written(InName(w), sub[w])) /\ UNCHANGED <<inAt, faults>>
     \/ /\ Fault /\ inAt' = [inAt EXCEPT ![w] = 0]
        /\ Put(InName(w), Written(InName(w), sub[w])) \/ UNCHANGED files
  /\ UNCHANGED <<ramVars, wdir, procVars, mask, given, sub, ref, outAt, old, reads, status, histVars>>

FeedOutput(w) ==
  /\ wpc[w] = "outOpen" /\ Goto(w, "lang")
  /\ \/ Put(OutName(w), Written(OutName(w), sub[w])) /\ UNCHANGED <<outAt, faults>>
     \/ /\ Fault /\ outAt' = [outAt EXCEPT ![w] = 0]
        /\ Put(OutName(w), Written(OutName(w), sub[w])) \/ UNCHANGED files
  /\ UNCHANGED <<ramVars, wdir, procVars, mask, given, sub, ref, inAt, old, reads, status, histVars>>

\* lang_process makes the worker's directory at its first submission.
MaskDir(w) ==
  /\ wpc[w] = "lang" /\ ~inited[w] /\ Goto(w, "mkdir")
  /\ old' = [old EXCEPT ![w] = mask] /\ mask' = "022"
  /\ overlap' = overlap \cup {sub[v] : v \in Opening(w)}
  /\ UNCHANGED <<ramVars, wdir, files, procVars, given, faults, sub, ref, inAt, outAt, reads, status, kept,
                 bare>>

MkDir(w) ==
  /\ wpc[w] = "mkdir" /\ Goto(w, "restore")
  /\ wdir' = [wdir EXCEPT ![w] = IF @ = "absent" THEN mask ELSE @]
  /\ UNCHANGED <<ramVars, files, procVars, mask, given, faults, servVars, status, histVars>>

\* -2; the caller then frees two pointers that were never set, which the C
\* library may or may not survive (see Die).
MkDirFails(w) ==
  /\ wpc[w] = "mkdir" /\ wdir[w] = "absent" /\ Fault /\ Answer(w, "internal")
  /\ mask' = old[w]
  /\ UNCHANGED <<ramVars, wdir, files, procVars, given, histVars>>

Restore(w) ==
  /\ wpc[w] = "restore" /\ Goto(w, "srcMask")
  /\ mask' = old[w] /\ inited' = [inited EXCEPT ![w] = TRUE] /\ old' = [old EXCEPT ![w] = "0"]
  /\ UNCHANGED <<ramVars, wdir, files, ctype, dpc, clock, given, faults, sub, ref, inAt, outAt, reads, status,
                 histVars>>

\* lang_get: "c" is the only language queue_worker_serv asks for.
LangGet(w, t) == ctype = t /\ (wpc[w] = "srcMask" \/ (wpc[w] = "lang" /\ inited[w]))

\* -1; as with -2, pointers that were never set are freed.
UnknownLanguage(w) ==
  /\ LangGet(w, "none") /\ Answer(w, "internal")
  /\ UNCHANGED <<ramVars, wdir, files, procVars, mask, given, faults, histVars>>

\* Of an interpreted program no file is written.
Interpreted(w) ==
  /\ LangGet(w, "interpreted") /\ Goto(w, "judge")
  /\ UNCHANGED <<ramVars, wdir, files, procVars, mask, given, faults, servVars, status, histVars>>

SourceMask(w) ==
  /\ LangGet(w, "compiled")
  /\ Goto(w, "srcOpen") /\ Umask(w)
  /\ UNCHANGED <<ramVars, wdir, files, procVars, given, faults, servVars, status>>

SourceOpen(w) ==
  /\ wpc[w] = "srcOpen"
  /\ \/ /\ Put(Source(w), Written(Source(w), sub[w])) /\ Goto(w, "compile")
        /\ UNCHANGED <<status, servVars, faults>>
     \/ /\ Fault /\ Answer(w, "internal")
        /\ Put(Source(w), Written(Source(w), sub[w])) \/ UNCHANGED files
  /\ UNCHANGED <<ramVars, wdir, procVars, mask, given, histVars>>

\* What the compiler writes.
Compiled(w) == [of |-> files[Source(w)].of, by |-> sub[w], mask |-> mask]

\* unlink(): the file goes, or the call fails and it stays.
Unlink(n) ==
  \/ Put(n, NoFile) /\ UNCHANGED <<faults, kept>>
  \/ /\ files[n] # NoFile /\ Fault /\ UNCHANGED files
     /\ kept' = kept \cup {files[n].of}

\* Mutant of Compile: the output of an earlier compilation is not removed.
Compile_NoUnlink(w, ok) ==
  /\ wpc[w] = "compile" /\ Goto(w, "check")
  /\ Put(Binary(w), IF ok THEN Compiled(w) ELSE files[Binary(w)])
  /\ UNCHANGED <<ramVars, wdir, procVars, mask, given, faults, servVars, status, histVars>>

\* unlink of the output and system(): the compiler writes a binary or none.
Compile(w, ok) ==
  /\ wpc[w] = "compile" /\ Goto(w, "check")
  /\ \/ ok /\ Put(Binary(w), Compiled(w)) /\ UNCHANGED <<faults, kept>>
     \/ ~ok /\ Unlink(Binary(w))
  /\ UNCHANGED <<ramVars, wdir, procVars, mask, given, servVars, status, overlap, bare>>

\* stat() of the output.  No file: a compile error, and the worker returns with
\* its source and its feed files where they are.
Check(w) ==
  /\ wpc[w] = "check"
  /\ \/ files[Binary(w)] = NoFile /\ Answer(w, "compile") /\ UNCHANGED <<files, faults, kept>>
     \/ /\ files[Binary(w)] # NoFile /\ Unlink(Source(w)) /\ Goto(w, "judge")
        /\ UNCHANGED <<status, servVars>>
  /\ UNCHANGED <<ramVars, wdir, procVars, mask, given, overlap, bare>>

\* The files a feed's name may lead to.  A name that was never set is a pointer
\* that an earlier submission left on the stack and freed since: it may lead to
\* any feed file, or to none.
Led(w, tag) ==
  IF tag \in ref[w] THEN {n \in Names : n[1] \in Feeds}
                    ELSE {IF tag = "input" THEN InName(w) ELSE OutName(w)}

\* jug_runner_judge: nothing is run when a file cannot be opened.
Judge(w) ==
  LET there(n) == n[3] # 0 /\ files[n] # NoFile
  IN  /\ wpc[w] = "judge" /\ Goto(w, "rmBin")
      /\ \E in \in Led(w, "input"), out \in Led(w, "output") :
           reads' = [reads EXCEPT ![w] =
                       IF there(in) /\ there(out)
                       THEN {files[n].of : n \in {m \in {Binary(w), in, out} : files[m] # NoFile}}
                       ELSE {}]
      /\ UNCHANGED <<ramVars, wdir, files, procVars, mask, given, faults, sub, ref, inAt, outAt, old,
                     status, histVars>>

RemoveBinary(w) ==
  /\ wpc[w] = "rmBin" /\ Goto(w, "rmIn") /\ Unlink(Binary(w))
  /\ UNCHANGED <<ramVars, wdir, procVars, mask, given, servVars, status, overlap, bare>>

\* jug_feed_remove_by_name; unlink(NULL) does nothing.
RemoveByName(n) == IF n[3] = 0 THEN UNCHANGED <<files, faults, kept>> ELSE Unlink(n)

RemoveInput(w) ==
  /\ wpc[w] = "rmIn" /\ Goto(w, "rmOut")
  /\ \E n \in Led(w, "input") : RemoveByName(n)
  /\ UNCHANGED <<ramVars, wdir, procVars, mask, given, servVars, status, overlap, bare>>

\* Mutant of RemoveOutput: the input's name is used twice.
RemoveOutput_Input(w) ==
  /\ wpc[w] = "rmOut"
  /\ \E n \in Led(w, "input") : RemoveByName(n)
  /\ Answer(w, IF reads[w] = {} THEN "internal" ELSE "judged")
  /\ UNCHANGED <<ramVars, wdir, procVars, mask, given, overlap, bare>>

\* The verdict is sent when the files are gone.
RemoveOutput(w) ==
  /\ wpc[w] = "rmOut"
  /\ \E n \in Led(w, "output") : RemoveByName(n)
  /\ Answer(w, IF reads[w] = {} THEN "internal" ELSE "judged")
  /\ UNCHANGED <<ramVars, wdir, procVars, mask, given, overlap, bare>>

-----------------------------------------------------------------------------
(* The world.                                                              *)

\* Nobody serves any more; the files are where they were.
End ==
  /\ Fault /\ dpc' = "down"
  /\ wpc' = [w \in Workers |-> "idle"] /\ sub' = [w \in Workers |-> 0]
  /\ ref' = [w \in Workers |-> {}]
  /\ inAt' = [w \in Workers |-> 0] /\ outAt' = [w \in Workers |-> 0]
  /\ old' = [w \in Workers |-> "0"] /\ reads' = [w \in Workers |-> {}]
  /\ status' = [s \in Subs |-> IF status[s] = "serving" THEN "cut" ELSE status[s]]
  /\ UNCHANGED <<ctype, inited, clock, mask, given, histVars>>

\* The daemon ends with its workers anywhere in their work: it is stopped and
\* they are cancelled, accept() fails, or it crashes.
Die ==
  /\ dpc # "down" /\ End
  /\ ramLost' = (ramLost \/ dpc = "mount")
  /\ UNCHANGED <<dir, mounted, spaces, wdir, files>>

\* The machine is started again: the mount and what was in it are gone, the
\* directory is not.
Reboot ==
  /\ dir /\ End
  /\ ramLost' = TRUE /\ mounted' = FALSE
  /\ IF mounted THEN /\ files' = [n \in Names |-> NoFile] /\ spaces' = {}
                     /\ wdir' = [w \in Workers |-> "absent"]
                ELSE UNCHANGED <<files, spaces, wdir>>
  /\ UNCHANGED dir

-----------------------------------------------------------------------------
Serve(w) == \/ FeedMask(w) \/ FeedInput(w) \/ FeedOutput(w)
            \/ MaskDir(w) \/ MkDir(w) \/ MkDirFails(w) \/ Restore(w)
            \/ UnknownLanguage(w) \/ Interpreted(w) \/ SourceMask(w) \/ SourceOpen(w) \/ \E ok \in BOOLEAN : Compile(w, ok)
            \/ Check(w) \/ Judge(w) \/ RemoveBinary(w) \/ RemoveInput(w) \/ RemoveOutput(w)

Next == \/ Daemonize \/ MakeRamfsDir \/ MountRamfs \/ Workspace("lang") \/ Workspace("feed")
        \/ \E w \in Workers : Begin(w) \/ Serve(w)
        \/ Die \/ Reboot

Spec == Init /\ [][Next]_vars

-----------------------------------------------------------------------------
\* A judgement reads the binary, the input and the expected output of its own
\* submission, whatever the other workers write at the same time, in the same
\* second, and whatever earlier submissions and daemons left under the same names.
\* Two cases are excepted: feeds of type REFERENCE, the names of which are not
\* set, and a file that could not be removed.
JudgedIsMine == \A w \in Workers : ref[w] = {} => reads[w] \subseteq {sub[w]} \cup kept

\* Every worker changes the one mask of the process.  Still the feed and source
\* files are for their owner only (0600): one made while no other worker was
\* making its directory was made under the mask set for it.  And no directory is
\* made under the mask 0 that the daemon starts with, but when a submission that
\* makes no feed file comes before the first that does.
ExposureNeedsOverlap ==
  /\ \A n \in Names : n[1] # "binary" /\ files[n] # NoFile /\ files[n].mask # "066"
                       => files[n].by \in overlap
  /\ \A w \in Workers : wdir[w] = "0" => bare

\* Of a submission that was judged nothing is left that could be removed; what
\* fills the RAM file system is left by sources that do not compile, by failing
\* calls and by daemons that ended.
NothingLeftOfJudged ==
  \A n \in Names : files[n] # NoFile => status[files[n].of] # "judged" \/ files[n].of \in kept

\* The daemon works in RAM, unless a mount failed once, a daemon ended between
\* mkdir and mount, or the machine was started again since: then the directory is
\* found and taken for mounted.
InRam == dpc = "up" /\ ~mounted => ramLost
=============================================================================
