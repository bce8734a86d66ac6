---------------------------- MODULE FilesProofs ------------------------------
(***************************************************************************)
(* Proofs about the files of the submissions, for every number of workers, *)
(* submissions, seconds and faults.                                        *)
(***************************************************************************)
EXTENDS Files, TLAPS

FileRecords == [of : Subs, by : Subs, mask : Masks]

\* Names of files are triples.
LEMMA NameTriple ==
  ASSUME NEW tag \in Tags, NEW w \in Workers, NEW t \in 0..Seconds
  PROVE  <<tag, w, t>> \in Names
BY DEF Names

\* A name is its three parts.
LEMMA TripleName ==
  ASSUME NEW n \in Names
  PROVE  /\ n = <<n[1], n[2], n[3]>>
         /\ n[1] \in Tags /\ n[2] \in Workers /\ n[3] \in 0..Seconds
BY DEF Names

\* The names a worker uses.
LEMMA WorkerNames ==
  ASSUME TypeOK, NEW w \in Workers
  PROVE  {Binary(w), Source(w), InName(w), OutName(w)} \subseteq Names
<1>1. 0 \in 0..Seconds /\ inAt[w] \in 0..Seconds /\ outAt[w] \in 0..Seconds
  BY FilesAssumption DEF TypeOK
<1> QED BY <1>1, NameTriple DEF Binary, Source, InName, OutName, FeedName, Tags, Feeds

\* What the workers write is a record of the right type.
LEMMA RecordTypes ==
  ASSUME TypeOK, NEW w \in Workers, NEW n \in Names
  PROVE  /\ Written(n, sub[w]) \in FileRecords
         /\ Compiled(w) \in FileRecords
         /\ NoFile \in FileRecords
<1>1. files[n] \in FileRecords /\ files[Source(w)] \in FileRecords
  BY WorkerNames DEF TypeOK, FileRecords
<1>2. sub[w] \in Subs /\ mask \in Masks /\ 0 \in Subs
  BY FilesAssumption DEF TypeOK, Subs
<1> QED BY <1>1, <1>2 DEF FileRecords, Written, Compiled, NoFile, Masks

-----------------------------------------------------------------------------
(* The inductive invariant, in parts.                                      *)

Making  == {"mkdir", "restore"}
Openers == {"inOpen", "outOpen", "srcOpen"}
Starting == {"idle", "inMask", "outMask"}

\* A directory that is there and on which nothing is mounted lost its mount, or
\* the daemon is about to mount it; a daemon beyond mkdir has the directory.
DirInv ==
  /\ dir /\ ~mounted => ramLost \/ dpc = "mount"
  /\ dpc \in {"mount", "lang", "feed", "up"} => dir

\* Busy workers serve different submissions of those given, in a daemon that is up.
ServeInv ==
  /\ dpc # "up" => \A w \in Workers : wpc[w] = "idle"
  /\ \A s \in Subs : s = 0 \/ s > given => status[s] = "new"
  /\ \A w \in Workers :
       /\ wpc[w] = "idle" <=> sub[w] = 0
       /\ sub[w] <= given
       /\ sub[w] # 0 => status[sub[w]] = "serving"
       /\ \A v \in Workers : v # w /\ sub[w] = sub[v] => sub[w] = 0

\* A file is of a submission that was given, and made for one.
KnownInv ==
  \A n \in Names : files[n] # NoFile => files[n].of \in 1..given /\ files[n].by \in 1..given

\* What is there under the names of the worker is what it has written; a feed file
\* may be removed by a worker whose feed is a reference, and a binary may be one
\* that could not be removed.
Holds(w) ==
  /\ wpc[w] # "inOpen" /\ inAt[w] # 0 /\ files[InName(w)] # NoFile
       => files[InName(w)].of = sub[w]
  /\ wpc[w] # "outOpen" /\ outAt[w] # 0 /\ files[OutName(w)] # NoFile
       => files[OutName(w)].of = sub[w]
  /\ wpc[w] \in {"compile", "check"} => files[Source(w)].of = sub[w]
  /\ wpc[w] \in {"check", "judge", "rmBin"} /\ files[Binary(w)] # NoFile
       => files[Binary(w)].of \in {sub[w]} \cup kept

\* A feed has a name when the worker has dealt with it, and no reference is
\* dealt with.
Named(w) ==
  /\ wpc[w] \in {"idle", "inMask"} => inAt[w] = 0
  /\ wpc[w] \in {"idle", "inMask", "inOpen", "outMask"} => outAt[w] = 0
  /\ wpc[w] \in {"inMask", "inOpen"} => "input" \notin ref[w]
  /\ wpc[w] \in {"outMask", "outOpen"} => "output" \notin ref[w]

HoldInv == \A w \in Workers : Holds(w) /\ Named(w)

\* The places of a worker at which a file of its submission may be there, by tag.
May(tag, l) ==
  /\ tag = "input" => l \notin {"idle", "inMask", "inOpen"}
  /\ tag = "output" => l \notin {"idle", "inMask", "inOpen", "outMask", "outOpen"}
  /\ tag = "source" => l \in {"compile", "check"}
  /\ tag = "binary" => l \in {"check", "judge", "rmBin"}

\* All files with the content of a submission being served, of which no unlink
\* failed, are under the names of its worker; a feed file is not of a reference,
\* and one of which the worker knows the name is under that name, and not any more
\* when it was removed.
Owns(w, n) ==
  sub[w] # 0 /\ files[n].of = sub[w] /\ sub[w] \notin kept =>
    /\ n[2] = w /\ May(n[1], wpc[w]) /\ n[1] \notin ref[w]
    /\ n[1] = "input" /\ inAt[w] # 0 => n = InName(w) /\ wpc[w] # "rmOut"
    /\ n[1] = "output" /\ outAt[w] # 0 => n = OutName(w)
    /\ n[1] = "source" => n = Source(w)
    /\ n[1] = "binary" => n = Binary(w)

OwnInv == \A w \in Workers, n \in Names : Owns(w, n)

\* A binary is there only for a compiled language.
Language(w) ==
  /\ ctype # "compiled" => files[Binary(w)] = NoFile
  /\ wpc[w] \in {"srcOpen", "compile", "check"} => ctype = "compiled"

TypeInv == \A w \in Workers : Language(w)

\* A judgement without references reads its own files, and any judgement only if
\* no name of a feed is NULL.
ReadsOwn(w) ==
  /\ ref[w] = {} => reads[w] \subseteq {sub[w]} \cup kept
  /\ reads[w] # {} => /\ inAt[w] # 0 \/ "input" \in ref[w]
                      /\ outAt[w] # 0 \/ "output" \in ref[w]
                      /\ wpc[w] \in {"rmBin", "rmIn", "rmOut"}

ReadInv == \A w \in Workers : ReadsOwn(w)

\* A worker about to create a file does so under 066, or was overlapped; one that
\* dealt with its feeds set the mask, unless both may have been references.
MaskInv ==
  \A w \in Workers :
    /\ wpc[w] \in Openers => mask = "066" \/ sub[w] \in overlap
    /\ wpc[w] \in Openers => \A v \in Workers \ {w} : wpc[v] \in Making => sub[w] \in overlap
    /\ wpc[w] \notin Starting => mask # "0" \/ bare
    /\ wpc[w] \in Making => old[w] # "0" \/ bare

IndInv == /\ TypeOK /\ DirInv /\ ServeInv /\ KnownInv /\ HoldInv /\ OwnInv /\ TypeInv /\ ReadInv
          /\ MaskInv /\ ExposureNeedsOverlap /\ NothingLeftOfJudged

-----------------------------------------------------------------------------
\* The initial states satisfy the invariant.
LEMMA InitInd == Init => IndInv
<1> SUFFICES ASSUME Init PROVE IndInv
  OBVIOUS
<1> USE FilesAssumption DEF Init
<1>1. TypeOK
  <2>1. dir \in BOOLEAN /\ mounted \in BOOLEAN /\ ramLost \in BOOLEAN /\ spaces \subseteq {"lang", "feed"}
    OBVIOUS
  <2>2. files \in [Names -> [of : Subs, by : Subs, mask : Masks]]
    BY DEF NoFile, Subs, Masks
  <2>3. inited \in [Workers -> BOOLEAN] /\ reads \in [Workers -> SUBSET Subs] /\ overlap \subseteq Subs
        /\ kept \subseteq Subs /\ bare \in BOOLEAN /\ ref \in [Workers -> SUBSET Feeds]
    OBVIOUS
  <2>4. /\ wdir \in [Workers -> Masks \cup {"absent"}] /\ old \in [Workers -> Masks] /\ mask \in Masks
        /\ wpc \in [Workers -> Pcs]
    BY DEF Masks, Pcs
  <2>5. /\ clock \in 1..Seconds /\ given \in Subs /\ faults \in 0..Faults /\ sub \in [Workers -> Subs]
        /\ inAt \in [Workers -> 0..Seconds] /\ outAt \in [Workers -> 0..Seconds]
    BY DEF Subs
  <2> QED BY <2>1, <2>2, <2>3, <2>4, <2>5 DEF TypeOK
<1>2. DirInv /\ ServeInv /\ TypeInv /\ ReadInv /\ MaskInv /\ NothingLeftOfJudged
  BY WorkerNames, <1>1 DEF DirInv, ServeInv, TypeInv, Language, ReadInv, ReadsOwn, MaskInv, NothingLeftOfJudged, Openers, Making, Starting
<1>3. KnownInv /\ HoldInv /\ OwnInv /\ ExposureNeedsOverlap
  BY DEF KnownInv, HoldInv, Holds, Named, OwnInv, Owns, ExposureNeedsOverlap
<1> QED BY <1>1, <1>2, <1>3 DEF IndInv

-----------------------------------------------------------------------------
(* Types.                                                                  *)

\* A file that is written is a file.
LEMMA PutType ==
  ASSUME TypeOK, NEW n \in Names, NEW f \in FileRecords, Put(n, f)
  PROVE  files' \in [Names -> FileRecords]
BY DEF TypeOK, Put, FileRecords

\* So are what a worker keeps of its submission and what it answers.
LEMMA AnswerType ==
  ASSUME TypeOK, NEW w \in Workers, NEW st \in {"judged", "compile", "internal"}, Answer(w, st)
  PROVE  /\ wpc' \in [Workers -> Pcs] /\ sub' \in [Workers -> Subs]
         /\ inAt' \in [Workers -> 0..Seconds] /\ outAt' \in [Workers -> 0..Seconds]
         /\ old' \in [Workers -> Masks] /\ reads' \in [Workers -> SUBSET Subs]
         /\ ref' \in [Workers -> SUBSET Feeds]
         /\ status' \in [Subs -> {"new", "serving", "judged", "compile", "internal", "cut"}]
BY FilesAssumption DEF TypeOK, Answer, Goto, Subs, Masks, Pcs

\* The faults stay within their bound.
LEMMA FaultType ==
  ASSUME TypeOK, Fault
  PROVE  faults' \in 0..Faults
BY FilesAssumption DEF TypeOK, Fault

\* What unlink leaves: the one file is gone, or all are there and the submission
\* of that one is marked.
LEMMA UnlinkFacts ==
  ASSUME TypeOK, NEW n \in Names, Unlink(n)
  PROVE  /\ files' \in [Names -> FileRecords] /\ kept' \subseteq Subs /\ faults' \in 0..Faults
         /\ kept \subseteq kept'
         /\ \A m \in Names : files'[m] = files[m] \/ (m = n /\ files'[m] = NoFile)
         /\ files'[n] = NoFile \/ (files' = files /\ files[n].of \in kept')
<1>1. NoFile \in FileRecords BY FilesAssumption DEF NoFile, FileRecords, Subs, Masks
<1>2. CASE Put(n, NoFile) /\ UNCHANGED <<faults, kept>>
  BY <1>1, <1>2, PutType DEF Put, TypeOK, FileRecords
<1>3. CASE Fault /\ UNCHANGED files /\ kept' = kept \cup {files[n].of}
  BY <1>3, FaultType DEF TypeOK, FileRecords
<1> QED BY <1>2, <1>3 DEF Unlink

\* jug_feed_remove_by_name does that to a name that is not NULL.
LEMMA RemoveFacts ==
  ASSUME TypeOK, NEW n \in Names, RemoveByName(n)
  PROVE  /\ files' \in [Names -> FileRecords] /\ kept' \subseteq Subs /\ faults' \in 0..Faults
         /\ kept \subseteq kept'
         /\ \A m \in Names : files'[m] = files[m] \/ (m = n /\ files'[m] = NoFile)
         /\ n[3] # 0 => files'[n] = NoFile \/ (files' = files /\ files[n].of \in kept')
<1>1. CASE n[3] = 0 BY <1>1 DEF RemoveByName, TypeOK, FileRecords
<1>2. CASE n[3] # 0 BY <1>2, UnlinkFacts DEF RemoveByName
<1> QED BY <1>1, <1>2

\* The names a feed may lead to are names of feeds, and without a reference the
\* worker's own.
LEMMA LedNames ==
  ASSUME TypeOK, NEW w \in Workers, NEW tag \in Feeds, NEW n \in Led(w, tag)
  PROVE  /\ n \in Names /\ n[1] \in Feeds
         /\ tag \notin ref[w] => n = (IF tag = "input" THEN InName(w) ELSE OutName(w))
<1>1. InName(w)[1] = "input" /\ OutName(w)[1] = "output" BY DEF InName, OutName, FeedName
<1> QED BY <1>1, WorkerNames DEF Led, Feeds

\* The daemon's start and its end keep the types.
LEMMA TypeWorld ==
  ASSUME TypeOK, Daemonize \/ MakeRamfsDir \/ MountRamfs \/ Workspace("lang") \/ Workspace("feed") \/ Die \/ Reboot
  PROVE  TypeOK'
<1> USE FilesAssumption DEF TypeOK, ramVars, procVars, servVars, histVars
<1>1. CASE Daemonize BY <1>1 DEF Daemonize, Masks
<1>2. CASE MakeRamfsDir
  <2>1. dir' \in BOOLEAN /\ mounted' \in BOOLEAN /\ ramLost' \in BOOLEAN
    BY <1>2, Zenon DEF MakeRamfsDir
  <2>2. faults' \in 0..Faults /\ dpc' \in {"down", "mount", "lang"}
    BY <1>2, FaultType DEF MakeRamfsDir
  <2> QED BY <1>2, <2>1, <2>2 DEF MakeRamfsDir
<1>4. CASE MountRamfs
  <2>1. dir' \in BOOLEAN /\ mounted' \in BOOLEAN /\ ramLost' \in BOOLEAN
    BY <1>4, Zenon DEF MountRamfs
  <2>2. faults' \in 0..Faults /\ dpc' \in {"down", "lang"}
    BY <1>4, FaultType DEF MountRamfs
  <2> QED BY <1>4, <2>1, <2>2 DEF MountRamfs
<1>3. ASSUME NEW x \in {"lang", "feed"}, Workspace(x) PROVE TypeOK'
  <2>1. faults' \in 0..Faults /\ dpc' \in {"down", "feed", "up"} /\ spaces' \subseteq {"lang", "feed"}
    BY <1>3, FaultType DEF Workspace
  <2> QED BY <1>3, <2>1 DEF Workspace
<1>6. CASE Die
  <2>1. ramLost' \in BOOLEAN BY <1>6, Zenon DEF Die
  <2> QED BY <1>6, <2>1, FaultType DEF Die, End, Subs, Pcs, Masks
<1>7. CASE Reboot
  <2>1. files' \in [Names -> [of : Subs, by : Subs, mask : Masks]]
    BY <1>7 DEF Reboot, NoFile, Subs, Masks
  <2>2. wdir' \in [Workers -> Masks \cup {"absent"}] /\ spaces' \subseteq {"lang", "feed"}
    BY <1>7 DEF Reboot
  <2>3. dir' \in BOOLEAN /\ mounted' \in BOOLEAN /\ ramLost' \in BOOLEAN
    BY <1>7 DEF Reboot
  <2>4. End BY <1>7 DEF Reboot
  <2> QED BY <2>1, <2>2, <2>3, <2>4, FaultType DEF End, Subs, Pcs, Masks
<1> QED BY <1>1, <1>2, <1>3, <1>4, <1>6, <1>7

\* So does every step of a worker.
LEMMA TypeWorker ==
  ASSUME TypeOK, NEW w \in Workers, Begin(w) \/ Serve(w)
  PROVE  TypeOK'
<1> USE FilesAssumption DEF ramVars, procVars, servVars, histVars
<1>0. TypeOK OBVIOUS
<1>1. CASE Begin(w)
  <2>1. PICK r \in SUBSET Feeds :
          /\ (r = {} /\ UNCHANGED faults) \/ (r # {} /\ Fault)
          /\ ref' = [ref EXCEPT ![w] = r] /\ bare' = (bare \/ r = Feeds)
          /\ Goto(w, IF "input" \in r THEN AfterInput(r) ELSE "inMask")
    BY <1>1 DEF Begin
  <2>2. bare' \in BOOLEAN /\ ref' \in [Workers -> SUBSET Feeds]
    BY <2>1, Zenon DEF TypeOK
  <2>3. faults' \in 0..Faults BY <2>1, FaultType DEF TypeOK
  <2>4. wpc' \in [Workers -> Pcs] BY <2>1 DEF TypeOK, Goto, Pcs, AfterInput
  <2> QED BY <1>1, <2>2, <2>3, <2>4, SMTT(30) DEF Begin, TypeOK, Subs
<1>2. CASE FeedMask(w) BY <1>2 DEF FeedMask, NameFeed, Umask, TypeOK, Goto, Pcs, Masks
<1>3. CASE FeedInput(w)
  <2>1. files' \in [Names -> FileRecords]
    BY <1>3, PutType, RecordTypes, WorkerNames DEF FeedInput, TypeOK, FileRecords
  <2>2. wpc' \in [Workers -> Pcs] BY <1>3 DEF FeedInput, AfterInput, TypeOK, Goto, Pcs
  <2> QED BY <1>3, <2>1, <2>2 DEF FeedInput, TypeOK, Fault, FileRecords
<1>4. CASE FeedOutput(w)
  <2>1. files' \in [Names -> FileRecords]
    BY <1>4, PutType, RecordTypes, WorkerNames DEF FeedOutput, TypeOK, FileRecords
  <2> QED BY <1>4, <2>1 DEF FeedOutput, TypeOK, Goto, Pcs, Fault, FileRecords
<1>5. CASE MaskDir(w) BY <1>5 DEF MaskDir, TypeOK, Goto, Pcs, Masks, Opening
<1>6. CASE MkDir(w) BY <1>6 DEF MkDir, TypeOK, Goto, Pcs
<1>7. CASE MkDirFails(w)
  BY <1>7, AnswerType DEF MkDirFails, TypeOK, Fault
<1>8. CASE Restore(w) BY <1>8 DEF Restore, TypeOK, Goto, Pcs, Masks
<1>9. CASE UnknownLanguage(w) BY <1>9, AnswerType DEF UnknownLanguage, TypeOK
<1>10. CASE Interpreted(w) BY <1>10 DEF Interpreted, TypeOK, Goto, Pcs
<1>11. CASE SourceMask(w) BY <1>11 DEF SourceMask, Umask, TypeOK, Goto, Pcs, Masks
<1>12. CASE SourceOpen(w)
  <2>1. files' \in [Names -> FileRecords]
    BY <1>12, PutType, RecordTypes, WorkerNames DEF SourceOpen, TypeOK, FileRecords
  <2>2. CASE Goto(w, "compile") /\ UNCHANGED <<status, servVars, faults>>
    BY <1>12, <2>1, <2>2 DEF SourceOpen, TypeOK, Goto, Pcs, FileRecords
  <2>3. CASE Fault /\ Answer(w, "internal")
    BY <1>12, <2>1, <2>3, AnswerType DEF SourceOpen, TypeOK, Fault, FileRecords
  <2> QED BY <1>12, <2>2, <2>3 DEF SourceOpen
<1>13. ASSUME NEW ok \in BOOLEAN, Compile(w, ok) PROVE TypeOK'
  <2>1. files' \in [Names -> FileRecords]
    BY <1>13, PutType, RecordTypes, WorkerNames, UnlinkFacts DEF Compile
  <2>2. kept' \subseteq Subs /\ faults' \in 0..Faults
    BY <1>13, WorkerNames, UnlinkFacts DEF Compile, TypeOK
  <2> QED BY <1>13, <2>1, <2>2 DEF Compile, TypeOK, Goto, Pcs, FileRecords
<1>14. CASE Check(w)
  <2>1. files' \in [Names -> FileRecords] /\ kept' \subseteq Subs /\ faults' \in 0..Faults
    BY <1>14, UnlinkFacts, WorkerNames DEF Check, TypeOK, FileRecords
  <2>2. CASE Answer(w, "compile")
    BY <1>14, <2>1, <2>2, AnswerType DEF Check, TypeOK, FileRecords
  <2>3. CASE Goto(w, "judge") /\ UNCHANGED <<status, servVars>>
    BY <1>14, <2>1, <2>3 DEF Check, TypeOK, Goto, Pcs, FileRecords
  <2> QED BY <1>14, <2>2, <2>3 DEF Check
<1>15. CASE Judge(w)
  <2>1. Binary(w) \in Names /\ \A n \in Names : files[n].of \in Subs
    BY WorkerNames DEF TypeOK
  <2>2. reads' \in [Workers -> SUBSET Subs]
    <3>1. PICK in \in Led(w, "input"), out \in Led(w, "output") :
            \/ reads' = [reads EXCEPT ![w] = {}]
            \/ reads' = [reads EXCEPT ![w] = {files[n].of : n \in {m \in {Binary(w), in, out} : files[m] # NoFile}}]
      BY <1>15 DEF Judge
    <3>2. in \in Names /\ out \in Names BY LedNames DEF Feeds
    <3>3. {files[n].of : n \in {m \in {Binary(w), in, out} : files[m] # NoFile}} \subseteq Subs
      BY <2>1, <3>2
    <3> QED BY <3>1, <3>3 DEF TypeOK
  <2> QED BY <1>15, <2>2 DEF Judge, TypeOK, Goto, Pcs
<1>16. CASE RemoveBinary(w)
  <2>1. files' \in [Names -> FileRecords] /\ kept' \subseteq Subs /\ faults' \in 0..Faults
    BY <1>16, UnlinkFacts, WorkerNames DEF RemoveBinary
  <2> QED BY <1>16, <2>1 DEF RemoveBinary, TypeOK, Goto, Pcs, FileRecords
<1>17. CASE RemoveInput(w)
  <2>1. files' \in [Names -> FileRecords] /\ kept' \subseteq Subs /\ faults' \in 0..Faults
    BY <1>17, RemoveFacts, LedNames DEF RemoveInput, Feeds
  <2> QED BY <1>17, <2>1 DEF RemoveInput, TypeOK, Goto, Pcs, FileRecords
<1>18. CASE RemoveOutput(w)
  <2>1. files' \in [Names -> FileRecords] /\ kept' \subseteq Subs /\ faults' \in 0..Faults
    BY <1>18, RemoveFacts, LedNames DEF RemoveOutput, Feeds
  <2> QED BY <1>18, <2>1, AnswerType DEF RemoveOutput, TypeOK, FileRecords
<1> QED BY <1>1, <1>2, <1>3, <1>4, <1>5, <1>6, <1>7, <1>8, <1>9, <1>10, <1>11, <1>12, <1>13, <1>14,
           <1>15, <1>16, <1>17, <1>18 DEF Serve

-----------------------------------------------------------------------------
(* What a step of worker w leaves alone: the daemon, the other workers, and  *)
(* every file but its own, in which it writes its submission, and a feed     *)
(* file, which it may remove.                                                *)

OthersSame(w) ==
  \A v \in Workers \ {w} :
    /\ wpc'[v] = wpc[v] /\ sub'[v] = sub[v] /\ inAt'[v] = inAt[v] /\ outAt'[v] = outAt[v]
    /\ old'[v] = old[v] /\ reads'[v] = reads[v] /\ ref'[v] = ref[v]

OwnFile(w, n) ==
  \/ files'[n] = NoFile /\ (n[2] = w \/ n[1] \in Feeds)
  \/ /\ n[2] = w /\ files'[n].of = sub[w] /\ wpc[w] # "idle"
     /\ \/ files'[n].by = sub[w]
        \/ files[n] # NoFile /\ files'[n].by = files[n].by /\ files'[n].mask = files[n].mask

FilesSame(w) == \A n \in Names : files'[n] = files[n] \/ OwnFile(w, n)

\* A file that is put is the worker's.
LEMMA PutOwn ==
  ASSUME TypeOK, NEW w \in Workers, NEW n \in Names, n[2] = w, wpc[w] # "idle",
         NEW f \in FileRecords, f = NoFile \/ f = Written(n, sub[w]) \/ (f.of = sub[w] /\ f.by = sub[w]),
         Put(n, f)
  PROVE  FilesSame(w)
BY DEF TypeOK, Put, FilesSame, OwnFile, Written, FileRecords

\* The files of a worker carry its name.
LEMMA Owner ==
  ASSUME NEW w \in Workers
  PROVE  Binary(w)[2] = w /\ Source(w)[2] = w /\ InName(w)[2] = w /\ OutName(w)[2] = w
BY DEF Binary, Source, InName, OutName, FeedName

\* A worker touches its own files and its own variables only.
LEMMA Frame ==
  ASSUME IndInv, NEW w \in Workers, Begin(w) \/ Serve(w)
  PROVE  /\ OthersSame(w) /\ FilesSame(w)
         /\ UNCHANGED <<ramVars, ctype, dpc>>
         /\ overlap \subseteq overlap' /\ kept \subseteq kept' /\ (bare => bare')
<1> USE DEF OthersSame, ramVars, procVars, servVars, histVars
<1>0. TypeOK BY DEF IndInv
<1>u. ASSUME UNCHANGED files PROVE FilesSame(w) BY <1>u DEF FilesSame
<1>w. \A n \in {InName(w), OutName(w), Source(w), Binary(w)} :
        n \in Names /\ n[2] = w /\ Written(n, sub[w]) \in FileRecords /\ NoFile \in FileRecords
  BY <1>0, WorkerNames, RecordTypes, Owner
<1>p. ASSUME NEW n \in {InName(w), OutName(w), Source(w), Binary(w)}, wpc[w] # "idle",
             Put(n, Written(n, sub[w]))
      PROVE  FilesSame(w)
  BY <1>0, <1>w, <1>p, PutOwn
<1>l. ASSUME NEW n \in {Source(w), Binary(w)}, Unlink(n)
      PROVE  FilesSame(w) /\ kept \subseteq kept'
  BY <1>0, <1>w, <1>l, UnlinkFacts DEF FilesSame, OwnFile
<1>r. ASSUME NEW tag \in Feeds, NEW n \in Led(w, tag), RemoveByName(n)
      PROVE  FilesSame(w) /\ kept \subseteq kept'
  <2>1. n \in Names /\ n[1] \in Feeds BY <1>0, <1>r, LedNames
  <2> QED BY <1>0, <1>r, <2>1, RemoveFacts DEF FilesSame, OwnFile
<1>a. ASSUME NEW st, Answer(w, st)
      PROVE  \A v \in Workers \ {w} :
               /\ wpc'[v] = wpc[v] /\ sub'[v] = sub[v] /\ inAt'[v] = inAt[v] /\ outAt'[v] = outAt[v]
               /\ old'[v] = old[v] /\ reads'[v] = reads[v] /\ ref'[v] = ref[v]
  BY <1>0, <1>a DEF Answer, Goto, TypeOK
<1>1. CASE Begin(w) BY <1>0, <1>1, <1>u DEF Begin, TypeOK, Goto
<1>2. CASE FeedMask(w) BY <1>0, <1>2, <1>u DEF FeedMask, NameFeed, Umask, TypeOK, Goto
<1>3. CASE FeedInput(w)
  <2>1. FilesSame(w) BY <1>3, <1>u, <1>p DEF FeedInput
  <2> QED BY <1>0, <1>3, <2>1 DEF FeedInput, TypeOK, Goto
<1>4. CASE FeedOutput(w)
  <2>1. FilesSame(w) BY <1>4, <1>u, <1>p DEF FeedOutput
  <2> QED BY <1>0, <1>4, <2>1 DEF FeedOutput, TypeOK, Goto
<1>5. CASE MaskDir(w) BY <1>0, <1>5, <1>u DEF MaskDir, TypeOK, Goto
<1>6. CASE MkDir(w) BY <1>0, <1>6, <1>u DEF MkDir, TypeOK, Goto
<1>7. CASE MkDirFails(w) BY <1>0, <1>7, <1>u, <1>a DEF MkDirFails
<1>8. CASE Restore(w) BY <1>0, <1>8, <1>u DEF Restore, TypeOK, Goto
<1>9. CASE UnknownLanguage(w) BY <1>0, <1>9, <1>u, <1>a DEF UnknownLanguage
<1>10. CASE Interpreted(w) BY <1>0, <1>10, <1>u DEF Interpreted, TypeOK, Goto
<1>11. CASE SourceMask(w) BY <1>0, <1>11, <1>u DEF SourceMask, Umask, TypeOK, Goto
<1>12. CASE SourceOpen(w)
  <2>1. FilesSame(w) BY <1>12, <1>u, <1>p DEF SourceOpen
  <2>2. OthersSame(w)
    <3>1. CASE Goto(w, "compile") /\ UNCHANGED servVars BY <1>0, <3>1 DEF TypeOK, Goto
    <3> QED BY <1>12, <1>a, <3>1 DEF SourceOpen
  <2> QED BY <1>12, <2>1, <2>2 DEF SourceOpen
<1>13. ASSUME NEW ok \in BOOLEAN, Compile(w, ok)
       PROVE  /\ OthersSame(w) /\ FilesSame(w) /\ UNCHANGED <<ramVars, ctype, dpc>>
              /\ overlap \subseteq overlap' /\ kept \subseteq kept' /\ (bare => bare')
  <2>1. Compiled(w).of = sub[w] /\ Compiled(w).by = sub[w] /\ Compiled(w) \in FileRecords
    <3>1. files[Source(w)].of = sub[w] BY <1>13 DEF Compile, IndInv, HoldInv, Holds
    <3> QED BY <1>0, <1>w, <3>1, RecordTypes DEF Compiled
  <2>2. FilesSame(w) /\ kept \subseteq kept'
    <3>1. CASE Put(Binary(w), Compiled(w)) /\ UNCHANGED kept
      BY <1>0, <1>w, <1>13, <2>1, <3>1, PutOwn DEF Compile
    <3>2. CASE Unlink(Binary(w)) BY <3>2, <1>l
    <3> QED BY <1>13, <3>1, <3>2 DEF Compile
  <2> QED BY <1>0, <1>13, <2>2 DEF Compile, TypeOK, Goto
<1>14. CASE Check(w)
  <2>1. FilesSame(w) /\ kept \subseteq kept' BY <1>14, <1>u, <1>l DEF Check
  <2>2. OthersSame(w)
    <3>1. CASE Goto(w, "judge") /\ UNCHANGED servVars BY <1>0, <3>1 DEF TypeOK, Goto
    <3> QED BY <1>14, <1>a, <3>1 DEF Check
  <2> QED BY <1>14, <2>1, <2>2 DEF Check
<1>15. CASE Judge(w)
  <2>1. \A v \in Workers \ {w} : reads'[v] = reads[v] /\ wpc'[v] = wpc[v]
    BY <1>0, <1>15 DEF Judge, TypeOK, Goto
  <2> QED BY <1>15, <2>1, <1>u DEF Judge
<1>16. CASE RemoveBinary(w)
  <2>1. FilesSame(w) /\ kept \subseteq kept' BY <1>16, <1>l DEF RemoveBinary
  <2> QED BY <1>0, <1>16, <2>1 DEF RemoveBinary, TypeOK, Goto
<1>17. CASE RemoveInput(w)
  <2>1. FilesSame(w) /\ kept \subseteq kept' BY <1>17, <1>r DEF RemoveInput, Feeds
  <2> QED BY <1>0, <1>17, <2>1 DEF RemoveInput, TypeOK, Goto
<1>18. CASE RemoveOutput(w)
  <2>1. FilesSame(w) /\ kept \subseteq kept' BY <1>18, <1>r DEF RemoveOutput, Feeds
  <2> QED BY <1>18, <1>a, <2>1 DEF RemoveOutput
<1> QED BY <1>1, <1>2, <1>3, <1>4, <1>5, <1>6, <1>7, <1>8, <1>9, <1>10, <1>11, <1>12, <1>13, <1>14,
           <1>15, <1>16, <1>17, <1>18 DEF Serve

-----------------------------------------------------------------------------
(* A step of a busy worker goes on with its submission, or answers it; only   *)
(* the last one can answer "judged".                                          *)

Moves(w) ==
  /\ wpc[w] # "idle" /\ wpc'[w] # "idle"
  /\ UNCHANGED <<sub, status, given>>

Answers(w) ==
  /\ wpc[w] # "idle" /\ UNCHANGED given
  /\ \E st \in {"judged", "compile", "internal"} : Answer(w, st) /\ (st = "judged" => RemoveOutput(w))

\* A worker moves on with its submission or answers.
LEMMA Kinds ==
  ASSUME TypeOK, NEW w \in Workers, Serve(w)
  PROVE  Moves(w) \/ Answers(w)
<1> USE DEF Moves, servVars, procVars, histVars
<1>1. CASE FeedMask(w) BY <1>1 DEF FeedMask, NameFeed, TypeOK, Goto
<1>2. CASE FeedInput(w) BY <1>2 DEF FeedInput, AfterInput, TypeOK, Goto
<1>3. CASE FeedOutput(w) BY <1>3 DEF FeedOutput, TypeOK, Goto
<1>4. CASE MaskDir(w) BY <1>4 DEF MaskDir, TypeOK, Goto
<1>5. CASE MkDir(w) BY <1>5 DEF MkDir, TypeOK, Goto
<1>6. CASE MkDirFails(w) BY <1>6 DEF MkDirFails, Answers
<1>7. CASE Restore(w) BY <1>7 DEF Restore, TypeOK, Goto
<1>8. CASE UnknownLanguage(w) BY <1>8 DEF UnknownLanguage, Answers, LangGet
<1>9. CASE Interpreted(w) BY <1>9 DEF Interpreted, TypeOK, Goto, LangGet
<1>10. CASE SourceMask(w) BY <1>10 DEF SourceMask, TypeOK, Goto, LangGet
<1>11. CASE SourceOpen(w)
  <2>1. CASE Goto(w, "compile") /\ UNCHANGED <<status, servVars>>
    BY <1>11, <2>1 DEF SourceOpen, TypeOK, Goto
  <2>2. CASE Answer(w, "internal") BY <1>11, <2>2 DEF SourceOpen, Answers
  <2> QED BY <1>11, <2>1, <2>2 DEF SourceOpen
<1>12. ASSUME NEW ok \in BOOLEAN, Compile(w, ok) PROVE Moves(w)
  BY <1>12 DEF Compile, TypeOK, Goto
<1>13. CASE Check(w)
  <2>1. CASE Goto(w, "judge") /\ UNCHANGED <<status, servVars>>
    BY <1>13, <2>1 DEF Check, TypeOK, Goto
  <2>2. CASE Answer(w, "compile") BY <1>13, <2>2 DEF Check, Answers
  <2> QED BY <1>13, <2>1, <2>2 DEF Check
<1>14. CASE Judge(w) BY <1>14 DEF Judge, TypeOK, Goto
<1>15. CASE RemoveBinary(w) BY <1>15 DEF RemoveBinary, TypeOK, Goto
<1>16. CASE RemoveInput(w) BY <1>16 DEF RemoveInput, TypeOK, Goto
<1>17. CASE RemoveOutput(w)
  <2>1. PICK st \in {"judged", "internal"} : Answer(w, st)
    BY <1>17 DEF RemoveOutput
  <2> QED BY <1>17, <2>1 DEF RemoveOutput, Answers
<1> QED BY <1>1, <1>2, <1>3, <1>4, <1>5, <1>6, <1>7, <1>8, <1>9, <1>10, <1>11, <1>12, <1>13, <1>14,
           <1>15, <1>16, <1>17 DEF Serve

\* Submissions stay distinct.
LEMMA ServeKeeps ==
  ASSUME IndInv, NEW w \in Workers, Begin(w) \/ Serve(w)
  PROVE  ServeInv' /\ given <= given' /\ given' \in Subs
<1> USE FilesAssumption DEF IndInv, TypeOK, ServeInv
<1>0. OthersSame(w) /\ dpc' = dpc BY Frame
<1>1. CASE Begin(w)
  <2>1. /\ given \in Nat /\ given + 1 \in Subs /\ given' = given + 1
        /\ sub'[w] = given + 1 /\ wpc'[w] # "idle" /\ wpc[w] = "idle" /\ dpc = "up"
        /\ status' = [status EXCEPT ![given + 1] = "serving"]
    BY <1>1 DEF Begin, Goto, AfterInput, Subs
  <2>2. \A v \in Workers : sub[v] <= given /\ sub[v] \in Nat BY DEF Subs
  <2>3. \A s \in Subs : s # given + 1 => status'[s] = status[s] BY <2>1
  <2>4. status'[given + 1] = "serving" BY <2>1
  <2>5. \A s \in Subs : s = 0 \/ s > given' => status'[s] = "new"
    BY <2>1, <2>3 DEF Subs
  <2>6. \A v \in Workers : (wpc'[v] = "idle" <=> sub'[v] = 0) /\ sub'[v] <= given'
    BY <1>0, <2>1, <2>2 DEF OthersSame
  <2>7. \A v \in Workers : sub'[v] # 0 => status'[sub'[v]] = "serving"
    BY <1>0, <2>1, <2>2, <2>3, <2>4 DEF OthersSame
  <2>8. \A u, v \in Workers : v # u /\ sub'[u] = sub'[v] => sub'[u] = 0
    BY <1>0, <2>1, <2>2 DEF OthersSame
  <2> QED BY <1>0, <2>1, <2>5, <2>6, <2>7, <2>8
<1>2. CASE Moves(w)
  <2>1. \A v \in Workers : wpc'[v] = "idle" <=> wpc[v] = "idle"
    BY <1>0, <1>2 DEF Moves, OthersSame
  <2>2. sub' = sub /\ status' = status /\ given' = given
    BY <1>2 DEF Moves
  <2>3. wpc[w] # "idle" BY <1>2 DEF Moves
  <2>4. given <= given' /\ given' \in Subs BY <2>2 DEF Subs
  <2>5. dpc = "up" BY <2>3
  <2> QED BY <1>0, <2>1, <2>2, <2>4, <2>5
<1>3. CASE Answers(w)
  <2>1. /\ given' = given /\ wpc[w] # "idle" /\ wpc'[w] = "idle" /\ sub'[w] = 0
        /\ \A s \in Subs : s # sub[w] => status'[s] = status[s]
    BY <1>3 DEF Answers, Answer, Goto
  <2>2. sub[w] # 0 /\ sub[w] <= given /\ given \in Nat /\ sub[w] \in Nat BY <2>1 DEF Subs
  <2>3. \A s \in Subs : s = 0 \/ s > given' => status'[s] = "new"
    BY <2>1, <2>2 DEF Subs
  <2>4. \A v \in Workers : sub'[v] # 0 => status'[sub'[v]] = "serving"
    <3>1. \A v \in Workers \ {w} : sub[v] # 0 => sub[v] # sub[w] /\ sub[v] \in Subs /\ status[sub[v]] = "serving"
      BY <2>2
    <3>2. \A v \in Workers \ {w} : sub'[v] = sub[v] BY <1>0 DEF OthersSame
    <3> SUFFICES ASSUME NEW v \in Workers, sub'[v] # 0
                 PROVE  status'[sub'[v]] = "serving"
      OBVIOUS
    <3>3. v # w BY <2>1
    <3>4. sub'[v] = sub[v] /\ sub[v] # sub[w] /\ sub[v] \in Subs /\ status[sub[v]] = "serving"
      BY <3>1, <3>2, <3>3, Zenon
    <3>5. status'[sub[v]] = status[sub[v]] BY <2>1, <3>4
    <3> QED BY <3>4, <3>5
  <2>5. 0 <= given' /\ given <= given' /\ given' \in Subs BY <2>1, <2>2 DEF Subs
  <2>6. \A v \in Workers : (wpc'[v] = "idle" <=> sub'[v] = 0) /\ sub'[v] <= given'
    BY <1>0, <2>1, <2>5 DEF OthersSame
  <2>7. \A u, v \in Workers : v # u /\ sub'[u] = sub'[v] => sub'[u] = 0
    BY <1>0, <2>1 DEF OthersSame
  <2>8. dpc' = "up" BY <1>0, <2>1
  <2> QED BY <2>3, <2>4, <2>5, <2>6, <2>7, <2>8
<1> QED BY <1>1, <1>2, <1>3, Kinds DEF Serve

\* Files are of submissions that were given.
LEMMA KnownKeeps ==
  ASSUME IndInv, NEW w \in Workers, Begin(w) \/ Serve(w)
  PROVE  KnownInv'
<1>0. FilesSame(w) /\ given <= given' /\ given' \in Subs BY Frame, ServeKeeps
<1>1. wpc[w] # "idle" => sub[w] \in 1..given
  BY DEF IndInv, ServeInv, TypeOK, Subs
<1>2. given \in Nat /\ given' \in Nat BY <1>0 DEF IndInv, TypeOK, Subs
<1> SUFFICES ASSUME NEW n \in Names, files'[n] # NoFile
             PROVE  files'[n].of \in 1..given' /\ files'[n].by \in 1..given'
  BY DEF KnownInv
<1>3. \/ files'[n].of = sub[w] /\ wpc[w] # "idle" /\ (files'[n].by = sub[w] \/ (files[n] # NoFile /\ files'[n].by = files[n].by))
      \/ files'[n] = files[n]
  BY <1>0 DEF FilesSame, OwnFile
<1>4. files[n] # NoFile => files[n].of \in 1..given /\ files[n].by \in 1..given
  BY DEF IndInv, KnownInv
<1> QED BY <1>0, <1>1, <1>2, <1>3, <1>4

\* Nothing is left of a submission when it becomes "judged".
LEMMA NothingKeeps ==
  ASSUME IndInv, NEW w \in Workers, Begin(w) \/ Serve(w)
  PROVE  NothingLeftOfJudged'
<1>0. FilesSame(w) /\ kept \subseteq kept' BY Frame
<1> SUFFICES ASSUME NEW n \in Names, files'[n] # NoFile, files'[n].of \notin kept'
             PROVE  status'[files'[n].of] # "judged"
  BY DEF NothingLeftOfJudged, NoFile
<1>1. /\ files[n] # NoFile /\ files[n].of \notin kept => status[files[n].of] # "judged"
      /\ files[n].of \in Subs
      /\ wpc[w] # "idle" => status[sub[w]] = "serving" /\ sub[w] \in Subs /\ sub[w] # 0
      /\ status \in [Subs -> {"new", "serving", "judged", "compile", "internal", "cut"}]
  BY DEF IndInv, NothingLeftOfJudged, ServeInv, TypeOK
<1>2. \/ files'[n] = files[n]
      \/ files'[n].of = sub[w] /\ wpc[w] # "idle"
  BY <1>0 DEF FilesSame, OwnFile
<1>k. files[n] # NoFile /\ files'[n] = files[n] => status[files[n].of] # "judged"
  BY <1>0, <1>1
<1>3. CASE Begin(w)
  BY <1>1, <1>2, <1>k, <1>3 DEF Begin
<1>4. CASE Moves(w)
  BY <1>1, <1>2, <1>k, <1>4 DEF Moves
<1>5. CASE Answers(w) /\ ~RemoveOutput(w)
  BY <1>1, <1>2, <1>k, <1>5 DEF Answers, Answer
<1>6. CASE RemoveOutput(w)
  <2>1. PICK st \in {"judged", "internal"} :
          status' = [status EXCEPT ![sub[w]] = st] /\ (st = "judged" => reads[w] # {})
    BY <1>6 DEF RemoveOutput, Answer
  <2>2. ASSUME reads[w] # {} PROVE files'[n].of # sub[w]
    <3>1. /\ inAt[w] # 0 \/ "input" \in ref[w]
          /\ outAt[w] # 0 \/ "output" \in ref[w]
      BY <2>2 DEF IndInv, ReadInv, ReadsOwn
    <3>2. PICK m \in Led(w, "output") : RemoveByName(m)
      BY <1>6 DEF RemoveOutput
    <3>3. TypeOK /\ wpc[w] = "rmOut" BY <1>6 DEF RemoveOutput, IndInv
    <3>4. m \in Names /\ ("output" \notin ref[w] => m = OutName(w)) /\ OutName(w)[3] = outAt[w]
      BY <3>3, LedNames DEF Feeds, OutName, FeedName
    <3>5. /\ files'[n] = files[n] /\ (n = m /\ m[3] # 0 => files[m].of \in kept')
      BY <3>2, <3>3, <3>4, RemoveFacts
    <3>6. n[1] \in Tags BY TripleName
    <3>7. Owns(w, n) /\ sub[w] # 0 BY <1>1, <3>3 DEF IndInv, OwnInv
    <3> QED BY <1>0, <3>1, <3>3, <3>4, <3>5, <3>6, <3>7 DEF Owns, May, Tags, Feeds
  <2> QED BY <1>1, <1>2, <1>k, <2>1, <2>2
<1> QED BY <1>3, <1>4, <1>5, <1>6, Kinds DEF Serve, IndInv

-----------------------------------------------------------------------------
(* The parts of the invariant that speak of one worker and its files.         *)

Mine(w) == Holds(w) /\ Named(w) /\ (\A n \in Names : Owns(w, n)) /\ Language(w) /\ ReadsOwn(w)

\* What is known of the files is known worker by worker.
LEMMA MineAll == HoldInv /\ OwnInv /\ TypeInv /\ ReadInv <=> \A w \in Workers : Mine(w)
BY DEF HoldInv, OwnInv, TypeInv, ReadInv, Mine

\* The worker's four names differ.
LEMMA Distinct ==
  ASSUME NEW w \in Workers
  PROVE  /\ InName(w)[1] = "input" /\ OutName(w)[1] = "output"
         /\ Source(w)[1] = "source" /\ Binary(w)[1] = "binary"
BY DEF InName, OutName, Source, Binary, FeedName

\* A step of w keeps those of another worker.
LEMMA OthersKeep ==
  ASSUME IndInv, NEW w \in Workers, Begin(w) \/ Serve(w), NEW v \in Workers, v # w
  PROVE  Mine(v)'
<1>0. /\ TypeOK /\ ServeInv /\ Mine(v)
      /\ OthersSame(w) /\ FilesSame(w) /\ ctype' = ctype /\ kept \subseteq kept'
  BY Frame, MineAll DEF IndInv
<1>1. /\ wpc'[v] = wpc[v] /\ sub'[v] = sub[v] /\ inAt'[v] = inAt[v] /\ outAt'[v] = outAt[v]
      /\ reads'[v] = reads[v] /\ ref'[v] = ref[v]
  BY <1>0 DEF OthersSame
<1>2. \A n \in Names : n[2] = v => files'[n] = files[n] \/ (files'[n] = NoFile /\ n[1] \in Feeds)
  BY <1>0 DEF FilesSame, OwnFile
<1>3. /\ files'[Source(v)] = files[Source(v)] /\ files'[Binary(v)] = files[Binary(v)]
      /\ \A n \in {InName(v), OutName(v)} : files'[n] = files[n] \/ files'[n] = NoFile
  BY <1>0, <1>2, WorkerNames, Owner, Distinct DEF Feeds
<1>4. InName(v)' = InName(v) /\ OutName(v)' = OutName(v) /\ Source(v)' = Source(v) /\ Binary(v)' = Binary(v)
  BY <1>1 DEF InName, OutName, Source, Binary, FeedName
<1>5. Holds(v)' /\ Named(v)' /\ Language(v)' /\ ReadsOwn(v)'
  BY <1>0, <1>1, <1>3, <1>4 DEF Mine, Holds, Named, Language, ReadsOwn, NoFile
<1>6. ASSUME NEW n \in Names PROVE Owns(v, n)'
  <2>1. wpc[w] # "idle" /\ sub[v] # 0 => sub[w] # sub[v]
    BY <1>0 DEF ServeInv
  <2>2. sub[v] # 0 /\ files'[n].of = sub[v] => files'[n] = files[n]
    BY <1>0, <2>1 DEF FilesSame, OwnFile, NoFile
  <2> QED BY <1>0, <1>1, <1>4, <2>2 DEF Mine, Owns, May
<1> QED BY <1>5, <1>6 DEF Mine

\* Source and feeds are put beside the binary.
LEMMA PutElsewhere ==
  ASSUME TypeOK, NEW w \in Workers, NEW n \in {InName(w), OutName(w), Source(w)}, NEW f, Put(n, f)
  PROVE  files'[Binary(w)] = files[Binary(w)]
BY WorkerNames, Distinct DEF TypeOK, Put

\* A worker that answered has nothing left to keep.
LEMMA AnswerKeeps ==
  ASSUME TypeOK, NEW w \in Workers, Mine(w), NEW st, Answer(w, st), ctype' = ctype,
         files'[Binary(w)] = files[Binary(w)]
  PROVE  Mine(w)'
<1>1. wpc'[w] = "idle" /\ sub'[w] = 0 /\ reads'[w] = {} /\ inAt'[w] = 0 /\ outAt'[w] = 0
  BY DEF TypeOK, Answer, Goto
<1>2. ctype' # "compiled" => files'[Binary(w)'] = NoFile'
  BY DEF Mine, Language, Binary, NoFile
<1> QED BY <1>1, <1>2 DEF Mine, Holds, Named, Owns, Language, ReadsOwn

\* Each step of w keeps its own.
LEMMA MineKeeps ==
  ASSUME IndInv, NEW w \in Workers, Begin(w) \/ Serve(w)
  PROVE  Mine(w)'
<1> USE FilesAssumption DEF ramVars, procVars, servVars, histVars
<1>0. TypeOK /\ ServeInv /\ KnownInv /\ Mine(w) /\ kept \subseteq kept' BY MineAll, Frame DEF IndInv
<1>n. {InName(w), OutName(w), Source(w), Binary(w)} \subseteq Names BY <1>0, WorkerNames
<1>d. /\ InName(w)[1] = "input" /\ OutName(w)[1] = "output"
      /\ Source(w)[1] = "source" /\ Binary(w)[1] = "binary"
  BY Distinct
<1>m. \A n \in Names : n[1] \in Tags BY TripleName
<1>f. "source" \notin ref[w] /\ "binary" \notin ref[w] BY <1>0 DEF TypeOK, Feeds
<1>k. \A n \in Names : files[n] # NoFile => files[n].of \in 1..given
  BY <1>0 DEF KnownInv
<1>1. CASE Begin(w)
  <2>1. /\ wpc'[w] \in {"inMask", "outMask", "lang"} /\ sub'[w] = given + 1 /\ files' = files
        /\ ctype' = ctype /\ reads' = reads /\ wpc[w] = "idle" /\ given \in Nat
    BY <1>0, <1>1 DEF Begin, TypeOK, Goto, AfterInput, Subs
  <2>2. \A n \in Names : files'[n].of # given + 1
    BY <1>k, <2>1 DEF NoFile
  <2>i. inAt'[w] = 0 /\ outAt'[w] = 0
    BY <1>0, <1>1, <2>1 DEF Begin, servVars, Mine, Named
  <2>r. /\ wpc'[w] = "inMask" => "input" \notin ref'[w]
        /\ wpc'[w] = "outMask" => "output" \notin ref'[w]
    BY <1>0, <1>1 DEF Begin, TypeOK, Goto, AfterInput
  <2>3. sub[w] = 0 /\ reads[w] = {} BY <1>0, <2>1 DEF ServeInv, Mine, ReadsOwn
  <2> QED BY <1>0, <2>1, <2>2, <2>i, <2>r, <2>3 DEF Mine, Holds, Named, Owns, Language, ReadsOwn, Binary, NoFile
<1>2. CASE FeedMask(w)
  <2>1. /\ files' = files /\ sub' = sub /\ reads' = reads /\ ref' = ref /\ ctype' = ctype
        /\ \/ /\ wpc[w] = "inMask" /\ wpc'[w] = "inOpen" /\ outAt' = outAt
           \/ /\ wpc[w] = "outMask" /\ wpc'[w] = "outOpen" /\ inAt' = inAt
    BY <1>0, <1>2 DEF FeedMask, NameFeed, TypeOK, Goto
  <2>2. reads[w] = {} BY <1>0, <2>1 DEF Mine, ReadsOwn
  <2> QED BY <1>0, <1>m, <2>1, <2>2
          DEF Mine, Holds, Named, Owns, May, Language, ReadsOwn, InName, OutName, Source, Binary, FeedName, NoFile, Tags
<1>3. CASE FeedInput(w)
  <2>1. /\ wpc[w] = "inOpen" /\ wpc'[w] = AfterInput(ref[w]) /\ sub' = sub /\ outAt' = outAt
        /\ reads' = reads /\ ref' = ref /\ ctype' = ctype
    BY <1>0, <1>3 DEF FeedInput, TypeOK, Goto
  <2>2. Binary(w)' = Binary(w) /\ files'[Binary(w)] = files[Binary(w)]
    BY <1>0, <1>3, PutElsewhere DEF FeedInput, Binary
  <2>3. /\ inAt'[w] = 0 \/ (inAt' = inAt /\ files'[InName(w)].of = sub[w])
        /\ \A n \in Names : n # InName(w) => files'[n] = files[n]
    BY <1>0, <1>3, <1>n DEF FeedInput, TypeOK, Put, Written
  <2>4. InName(w)' = InName(w) \/ inAt'[w] = 0
    BY <2>3 DEF InName, FeedName
  <2>5. Holds(w)' /\ Named(w)' /\ Language(w)' /\ ReadsOwn(w)'
    BY <1>0, <2>1, <2>2, <2>3, <2>4 DEF Mine, Holds, Named, Language, ReadsOwn, NoFile, AfterInput
  <2>6. ASSUME NEW n \in Names PROVE Owns(w, n)'
    BY <1>0, <1>d, <1>m, <2>1, <2>3, <2>4, Owner DEF Mine, Named, AfterInput, Owns, May, Tags, Source, Binary
  <2> QED BY <2>5, <2>6 DEF Mine
<1>4. CASE FeedOutput(w)
  <2>1. /\ wpc[w] = "outOpen" /\ wpc'[w] = "lang" /\ sub' = sub /\ inAt' = inAt
        /\ reads' = reads /\ ref' = ref /\ ctype' = ctype
    BY <1>0, <1>4 DEF FeedOutput, TypeOK, Goto
  <2>2. Binary(w)' = Binary(w) /\ files'[Binary(w)] = files[Binary(w)]
    BY <1>0, <1>4, PutElsewhere DEF FeedOutput, Binary
  <2>3. /\ outAt'[w] = 0 \/ (outAt' = outAt /\ files'[OutName(w)].of = sub[w])
        /\ \A n \in Names : n # OutName(w) => files'[n] = files[n]
    BY <1>0, <1>4, <1>n DEF FeedOutput, TypeOK, Put, Written
  <2>4. (OutName(w)' = OutName(w) \/ outAt'[w] = 0) /\ InName(w)' = InName(w)
    BY <2>1, <2>3 DEF OutName, InName, FeedName
  <2>5. Holds(w)' /\ Named(w)' /\ Language(w)' /\ ReadsOwn(w)'
    BY <1>0, <1>d, <1>n, <2>1, <2>2, <2>3, <2>4 DEF Mine, Holds, Named, Language, ReadsOwn, NoFile
  <2>6. ASSUME NEW n \in Names PROVE Owns(w, n)'
    BY <1>0, <1>d, <1>m, <2>1, <2>3, <2>4, Owner DEF Mine, Named, Owns, May, Tags, Source, Binary
  <2> QED BY <2>5, <2>6 DEF Mine
<1>5. CASE \/ MaskDir(w) \/ MkDir(w) \/ Restore(w) \/ Interpreted(w) \/ SourceMask(w)
  <2>1. /\ files' = files /\ sub' = sub /\ inAt' = inAt /\ outAt' = outAt
        /\ reads' = reads /\ ref' = ref /\ ctype' = ctype
        /\ wpc[w] \in {"lang", "mkdir", "restore", "srcMask"}
        /\ wpc'[w] \in {"mkdir", "restore", "srcMask", "srcOpen", "judge"}
        /\ wpc'[w] = "srcOpen" => ctype = "compiled"
        /\ wpc'[w] = "judge" => ctype # "compiled"
    BY <1>0, <1>5 DEF MaskDir, MkDir, Restore, Interpreted, SourceMask, LangGet, TypeOK, Goto
  <2> QED BY <1>0, <1>m, <2>1
          DEF Mine, Holds, Named, Owns, May, Language, ReadsOwn, InName, OutName, Source, Binary, FeedName, NoFile, Tags
<1>6. CASE MkDirFails(w) \/ UnknownLanguage(w)
  BY <1>0, <1>6, AnswerKeeps DEF MkDirFails, UnknownLanguage
<1>7. CASE SourceOpen(w)
  <2>1. Binary(w)' = Binary(w) /\ Source(w)' = Source(w) /\ files'[Binary(w)] = files[Binary(w)] /\ ctype' = ctype
    BY <1>0, <1>7, PutElsewhere DEF SourceOpen, Binary, Source
  <2>2. CASE Answer(w, "internal")
    BY <1>0, <2>1, <2>2, AnswerKeeps
  <2>3. CASE Put(Source(w), Written(Source(w), sub[w])) /\ Goto(w, "compile") /\ UNCHANGED servVars
    <3>1. /\ wpc[w] = "srcOpen" /\ wpc'[w] = "compile" /\ sub' = sub /\ inAt' = inAt /\ outAt' = outAt
          /\ reads' = reads /\ ref' = ref
      BY <1>0, <1>7, <2>3 DEF SourceOpen, TypeOK, Goto
    <3>2. /\ files'[Source(w)].of = sub[w]
          /\ \A n \in Names : n # Source(w) => files'[n] = files[n]
      BY <1>0, <1>n, <2>3 DEF TypeOK, Put, Written
    <3>3. InName(w)' = InName(w) /\ OutName(w)' = OutName(w)
      BY <3>1 DEF InName, OutName, FeedName
    <3>4. Holds(w)' /\ Named(w)' /\ Language(w)' /\ ReadsOwn(w)'
      BY <1>0, <1>d, <1>n, <2>1, <3>1, <3>2, <3>3 DEF Mine, Holds, Named, Language, ReadsOwn, NoFile
    <3>5. ASSUME NEW n \in Names PROVE Owns(w, n)'
      BY <1>0, <1>d, <1>m, <1>f, <2>1, <3>1, <3>2, <3>3, Owner DEF Mine, Owns, May, Tags
    <3> QED BY <3>4, <3>5 DEF Mine
  <2> QED BY <1>7, <2>2, <2>3 DEF SourceOpen
<1>8. ASSUME NEW ok \in BOOLEAN, Compile(w, ok) PROVE Mine(w)'
  <2>1. /\ wpc[w] = "compile" /\ wpc'[w] = "check" /\ sub' = sub /\ inAt' = inAt /\ outAt' = outAt
        /\ reads' = reads /\ ref' = ref /\ ctype' = ctype
    BY <1>0, <1>8 DEF Compile, TypeOK, Goto
  <2>2. files[Source(w)].of = sub[w] /\ ctype = "compiled"
    BY <1>0, <2>1 DEF Mine, Holds, Named, Language
  <2>3. /\ \/ files'[Binary(w)] = NoFile \/ files'[Binary(w)].of = sub[w]
           \/ files'[Binary(w)] = files[Binary(w)] /\ files[Binary(w)].of \in kept'
        /\ \A n \in Names : n # Binary(w) => files'[n] = files[n]
    <3>1. CASE Put(Binary(w), Compiled(w))
      BY <1>0, <1>n, <2>2, <3>1 DEF Compiled, TypeOK, Put
    <3>2. CASE Unlink(Binary(w)) BY <1>0, <1>n, <3>2, UnlinkFacts
    <3> QED BY <1>8, <3>1, <3>2 DEF Compile
  <2>4. InName(w)' = InName(w) /\ OutName(w)' = OutName(w) /\ Source(w)' = Source(w) /\ Binary(w)' = Binary(w)
    BY <2>1 DEF InName, OutName, Source, Binary, FeedName
  <2>5. Holds(w)' /\ Named(w)' /\ Language(w)' /\ ReadsOwn(w)'
    BY <1>0, <1>d, <1>n, <2>1, <2>2, <2>3, <2>4 DEF Mine, Holds, Named, Language, ReadsOwn, NoFile
  <2>6. ASSUME NEW n \in Names PROVE Owns(w, n)'
    BY <1>0, <1>d, <1>m, <1>f, <2>1, <2>3, <2>4, Owner DEF Mine, Owns, May, Tags, Source, Binary
  <2> QED BY <2>5, <2>6 DEF Mine
<1>9. CASE Check(w)
  <2>1. Binary(w)' = Binary(w) /\ Source(w)' = Source(w) /\ files'[Binary(w)] = files[Binary(w)] /\ ctype' = ctype
    BY <1>0, <1>9, <1>n, <1>d, UnlinkFacts DEF Check, Binary, Source
  <2>2. CASE Answer(w, "compile")
    BY <1>0, <2>1, <2>2, AnswerKeeps
  <2>3. CASE Unlink(Source(w)) /\ Goto(w, "judge") /\ UNCHANGED servVars
    <3>1. /\ wpc[w] = "check" /\ wpc'[w] = "judge" /\ sub' = sub /\ inAt' = inAt /\ outAt' = outAt
          /\ reads' = reads /\ ref' = ref /\ sub[w] # 0
      BY <1>0, <1>9, <2>3 DEF Check, TypeOK, Goto, ServeInv
    <3>2. /\ files'[Source(w)] = NoFile \/ (files' = files /\ files[Source(w)].of \in kept')
          /\ \A n \in Names : n # Source(w) => files'[n] = files[n]
      BY <1>0, <1>n, <2>3, UnlinkFacts
    <3>3. InName(w)' = InName(w) /\ OutName(w)' = OutName(w)
      BY <3>1 DEF InName, OutName, FeedName
    <3>4. Holds(w)' /\ Named(w)' /\ Language(w)' /\ ReadsOwn(w)'
      BY <1>0, <1>d, <1>n, <2>1, <3>1, <3>2, <3>3 DEF Mine, Holds, Named, Language, ReadsOwn, NoFile
    <3>5. ASSUME NEW n \in Names PROVE Owns(w, n)'
      BY <1>0, <1>d, <1>m, <2>1, <3>1, <3>2, <3>3 DEF Mine, Owns, May, Tags, NoFile
    <3> QED BY <3>4, <3>5 DEF Mine
  <2> QED BY <1>9, <2>2, <2>3 DEF Check
<1>10. CASE Judge(w)
  <2>1. /\ wpc[w] = "judge" /\ wpc'[w] = "rmBin" /\ sub' = sub /\ inAt' = inAt /\ outAt' = outAt
        /\ files' = files /\ ctype' = ctype /\ sub[w] # 0 /\ ref' = ref /\ kept' = kept
    BY <1>0, <1>10 DEF Judge, TypeOK, Goto, ServeInv
  <2>2. InName(w)' = InName(w) /\ OutName(w)' = OutName(w) /\ Source(w)' = Source(w) /\ Binary(w)' = Binary(w)
    BY <2>1 DEF InName, OutName, Source, Binary, FeedName
  <2>3. InName(w)[3] = inAt[w] /\ OutName(w)[3] = outAt[w]
    BY DEF InName, OutName, FeedName
  <2>4. inAt[w] # 0 /\ outAt[w] # 0 =>
          \A n \in {Binary(w), InName(w), OutName(w)} : files[n] # NoFile => files[n].of \in {sub[w]} \cup kept
    BY <1>0, <2>1 DEF Mine, Holds
  <2>5. PICK in \in Led(w, "input"), out \in Led(w, "output") :
          \/ reads'[w] = {}
          \/ /\ in[3] # 0 /\ out[3] # 0
             /\ reads'[w] = {files[n].of : n \in {m \in {Binary(w), in, out} : files[m] # NoFile}}
    BY <1>0, <1>10 DEF Judge, TypeOK
  <2>e. /\ "input" \notin ref[w] => in = InName(w)
        /\ "output" \notin ref[w] => out = OutName(w)
    BY <1>0, <2>5, LedNames DEF Feeds
  <2>6. ReadsOwn(w)'
    <3>1. reads'[w] # {} => (inAt[w] # 0 \/ "input" \in ref[w]) /\ (outAt[w] # 0 \/ "output" \in ref[w])
      BY <2>3, <2>5, <2>e
    <3>2. ref[w] = {} => reads'[w] \subseteq {sub[w]} \cup kept
      BY <2>3, <2>4, <2>5, <2>e
    <3> QED BY <2>1, <3>1, <3>2 DEF ReadsOwn
  <2>7. Holds(w)' /\ Named(w)' /\ Language(w)'
    BY <1>0, <2>1, <2>2 DEF Mine, Holds, Named, Language, NoFile
  <2>8. ASSUME NEW n \in Names PROVE Owns(w, n)'
    BY <1>0, <1>m, <2>1, <2>2 DEF Mine, Owns, May, Tags
  <2> QED BY <2>6, <2>7, <2>8 DEF Mine
<1>11. CASE RemoveBinary(w)
  <2>1. /\ wpc[w] = "rmBin" /\ wpc'[w] = "rmIn" /\ sub' = sub /\ inAt' = inAt /\ outAt' = outAt
        /\ reads' = reads /\ ref' = ref /\ ctype' = ctype /\ sub[w] # 0
    BY <1>0, <1>11 DEF RemoveBinary, TypeOK, Goto, ServeInv
  <2>2. InName(w)' = InName(w) /\ OutName(w)' = OutName(w) /\ Source(w)' = Source(w) /\ Binary(w)' = Binary(w)
    BY <2>1 DEF InName, OutName, Source, Binary, FeedName
  <2>3. /\ files'[Binary(w)] = NoFile \/ (files' = files /\ files[Binary(w)].of \in kept')
        /\ \A n \in Names : n # Binary(w) => files'[n] = files[n]
    BY <1>0, <1>11, <1>n, UnlinkFacts DEF RemoveBinary
  <2>4. Holds(w)' /\ Named(w)' /\ Language(w)' /\ ReadsOwn(w)'
    BY <1>0, <1>d, <1>n, <2>1, <2>2, <2>3 DEF Mine, Holds, Named, Language, ReadsOwn, NoFile
  <2>5. ASSUME NEW n \in Names PROVE Owns(w, n)'
    BY <1>0, <1>d, <1>m, <2>1, <2>2, <2>3 DEF Mine, Owns, May, Tags, NoFile
  <2> QED BY <2>4, <2>5 DEF Mine
<1>12. CASE RemoveInput(w)
  <2>1. /\ wpc[w] = "rmIn" /\ wpc'[w] = "rmOut" /\ sub' = sub /\ inAt' = inAt /\ outAt' = outAt
        /\ reads' = reads /\ ref' = ref /\ ctype' = ctype /\ sub[w] # 0
    BY <1>0, <1>12 DEF RemoveInput, TypeOK, Goto, ServeInv
  <2>2. InName(w)' = InName(w) /\ OutName(w)' = OutName(w) /\ Source(w)' = Source(w) /\ Binary(w)' = Binary(w)
    BY <2>1 DEF InName, OutName, Source, Binary, FeedName
  <2>3. PICK k \in Led(w, "input") : RemoveByName(k)
    BY <1>12 DEF RemoveInput
  <2>k. /\ k \in Names /\ k[1] \in Feeds /\ ("input" \notin ref[w] => k = InName(w))
        /\ InName(w)[3] = inAt[w]
    BY <1>0, LedNames DEF Feeds, InName, FeedName
  <2>4. /\ \A n \in Names : files'[n] = files[n] \/ (n = k /\ files'[n] = NoFile)
        /\ k[3] # 0 => files'[k] = NoFile \/ files[k].of \in kept'
    BY <1>0, <2>3, <2>k, RemoveFacts
  <2>5. Holds(w)' /\ Named(w)' /\ Language(w)' /\ ReadsOwn(w)'
    BY <1>0, <1>d, <1>n, <2>1, <2>2, <2>k, <2>4 DEF Feeds, Mine, Holds, Named, Language, ReadsOwn, NoFile
  <2>6. ASSUME NEW n \in Names PROVE Owns(w, n)'
    BY <1>0, <1>d, <1>m, <2>1, <2>2, <2>k, <2>4 DEF Mine, Owns, May, Tags, NoFile
  <2> QED BY <2>5, <2>6 DEF Mine
<1>13. CASE RemoveOutput(w)
  <2>1. files'[Binary(w)] = files[Binary(w)] /\ ctype' = ctype
    <3>1. PICK k \in Led(w, "output") : RemoveByName(k)
      BY <1>13 DEF RemoveOutput
    <3>2. k \in Names /\ k # Binary(w) BY <1>0, <1>d, LedNames DEF Feeds
    <3>3. ctype' = ctype BY <1>13 DEF RemoveOutput
    <3> QED BY <1>0, <1>n, <3>1, <3>2, <3>3, RemoveFacts
  <2> QED BY <1>0, <1>13, <2>1, AnswerKeeps DEF RemoveOutput
<1> QED BY <1>1, <1>2, <1>3, <1>4, <1>5, <1>6, <1>7, <1>8, <1>9, <1>10, <1>11, <1>12, <1>13 DEF Serve

-----------------------------------------------------------------------------
(* The mask.  A step leaves it alone, sets it for a file or for a directory, *)
(* or puts the old one back.                                                 *)

MaskStep(w) ==
  \/ /\ UNCHANGED <<mask, overlap>> /\ wpc'[w] \notin Openers
     /\ wpc'[w] \in Making => wpc[w] \in Making /\ old'[w] = old[w]
     /\ wpc'[w] \notin Starting => wpc[w] \notin Starting \/ bare'
  \/ Umask(w) /\ wpc'[w] \in Openers
  \/ /\ wpc[w] = "lang" /\ wpc'[w] \in Making /\ mask' = "022" /\ old'[w] = mask
     /\ overlap' = overlap \cup {sub[v] : v \in Opening(w)}
  \/ wpc[w] \in Making /\ wpc'[w] \notin Openers \cup Making /\ mask' = old[w] /\ UNCHANGED overlap

\* What a worker does to the umask of the process.
LEMMA MaskSteps ==
  ASSUME TypeOK, NEW w \in Workers, Begin(w) \/ Serve(w)
  PROVE  MaskStep(w)
<1> USE DEF MaskStep, servVars, procVars, histVars, Openers, Making, Starting
<1>a. ASSUME NEW st, Answer(w, st) PROVE wpc'[w] = "idle"
  BY <1>a DEF Answer, TypeOK, Goto
<1>0. CASE Begin(w)
  <2>1. PICK r \in SUBSET Feeds : /\ bare' = (bare \/ r = Feeds)
                                  /\ Goto(w, IF "input" \in r THEN AfterInput(r) ELSE "inMask")
    BY <1>0 DEF Begin
  <2>2. wpc'[w] \in {"inMask", "outMask"} \/ (wpc'[w] = "lang" /\ bare')
    BY <2>1 DEF TypeOK, Goto, AfterInput, Feeds
  <2> QED BY <1>0, <2>2 DEF Begin
<1>1. CASE FeedMask(w) BY <1>1 DEF FeedMask, NameFeed, TypeOK, Goto
<1>2. CASE FeedInput(w) BY <1>2 DEF FeedInput, AfterInput, TypeOK, Goto
<1>3. CASE FeedOutput(w) BY <1>3 DEF FeedOutput, TypeOK, Goto
<1>4. CASE MaskDir(w) BY <1>4 DEF MaskDir, TypeOK, Goto
<1>5. CASE MkDir(w) BY <1>5 DEF MkDir, TypeOK, Goto
<1>6. CASE MkDirFails(w) BY <1>6, <1>a DEF MkDirFails
<1>7. CASE Restore(w) BY <1>7 DEF Restore, TypeOK, Goto
<1>8. CASE UnknownLanguage(w) BY <1>8, <1>a DEF UnknownLanguage
<1>9. CASE Interpreted(w) BY <1>9 DEF Interpreted, TypeOK, Goto, LangGet
<1>10. CASE SourceMask(w) BY <1>10 DEF SourceMask, TypeOK, Goto, LangGet
<1>11. CASE SourceOpen(w)
  <2>1. wpc[w] = "srcOpen" /\ wpc'[w] \in {"compile", "idle"} /\ UNCHANGED <<mask, overlap>>
    BY <1>11, <1>a DEF SourceOpen, TypeOK, Goto
  <2> QED BY <2>1
<1>12. ASSUME NEW ok \in BOOLEAN, Compile(w, ok) PROVE MaskStep(w)
  BY <1>12 DEF Compile, TypeOK, Goto
<1>13. CASE Check(w)
  <2>1. wpc[w] = "check" /\ wpc'[w] \in {"judge", "idle"} /\ UNCHANGED <<mask, overlap>>
    BY <1>13, <1>a DEF Check, TypeOK, Goto
  <2> QED BY <2>1
<1>14. CASE Judge(w) BY <1>14 DEF Judge, TypeOK, Goto
<1>15. CASE RemoveBinary(w) BY <1>15 DEF RemoveBinary, TypeOK, Goto
<1>16. CASE RemoveInput(w) BY <1>16 DEF RemoveInput, TypeOK, Goto
<1>17. CASE RemoveOutput(w) BY <1>17, <1>a DEF RemoveOutput
<1> QED BY <1>0, <1>1, <1>2, <1>3, <1>4, <1>5, <1>6, <1>7, <1>8, <1>9, <1>10, <1>11, <1>12, <1>13, <1>14,
           <1>15, <1>16, <1>17 DEF Serve

\* A worker about to create a file does so under 066, or was overlapped: kept by every step of a worker.
LEMMA MaskKeeps ==
  ASSUME IndInv, NEW w \in Workers, Begin(w) \/ Serve(w)
  PROVE  MaskInv'
<1>0. TypeOK /\ ServeInv /\ MaskInv /\ OthersSame(w) /\ MaskStep(w) /\ (bare => bare')
  BY Frame, MaskSteps DEF IndInv
<1>1. \A v \in Workers \ {w} : wpc'[v] = wpc[v] /\ sub'[v] = sub[v] /\ old'[v] = old[v]
  BY <1>0 DEF OthersSame
<1>2. CASE /\ UNCHANGED <<mask, overlap>> /\ wpc'[w] \notin Openers
           /\ wpc'[w] \in Making => wpc[w] \in Making /\ old'[w] = old[w]
           /\ wpc'[w] \notin Starting => wpc[w] \notin Starting \/ bare'
  BY <1>0, <1>1, <1>2 DEF MaskInv
<1>3. CASE Umask(w) /\ wpc'[w] \in Openers
  <2>1. sub'[w] = sub[w]
    BY <1>3, Kinds, <1>0 DEF Begin, AfterInput, Moves, Answers, Answer, Goto, Openers, TypeOK
  <2>2. /\ mask' = "066" /\ overlap \subseteq overlap' /\ wpc'[w] \notin Making
        /\ (\E v \in Workers \ {w} : wpc[v] \in Making) => sub[w] \in overlap'
    BY <1>3 DEF Umask, MakingDir, Making, Openers
  <2> QED BY <1>0, <1>1, <1>3, <2>1, <2>2 DEF MaskInv
<1>4. CASE /\ wpc[w] = "lang" /\ wpc'[w] \in Making /\ mask' = "022" /\ old'[w] = mask
           /\ overlap' = overlap \cup {sub[v] : v \in Opening(w)}
  <2>1. \A v \in Workers \ {w} : wpc[v] \in Openers => sub[v] \in overlap'
    BY <1>4 DEF Opening, Openers
  <2>2. mask # "0" \/ bare BY <1>0, <1>4 DEF MaskInv, Starting
  <2>3. wpc'[w] \notin Openers BY <1>4 DEF Making, Openers
  <2> QED BY <1>0, <1>1, <1>4, <2>1, <2>2, <2>3 DEF MaskInv
<1>5. CASE wpc[w] \in Making /\ wpc'[w] \notin Openers \cup Making /\ mask' = old[w] /\ UNCHANGED overlap
  BY <1>0, <1>1, <1>5 DEF MaskInv
<1> QED BY <1>0, <1>2, <1>3, <1>4, <1>5 DEF MaskStep

\* A feed or source file that a step makes has the mask of the moment, and a
\* directory too.
MadeUnder(w, n) ==
  \/ files'[n] = files[n] \/ files'[n] = NoFile
  \/ files[n] # NoFile /\ files'[n].by = files[n].by /\ files'[n].mask = files[n].mask
  \/ wpc[w] \in Openers /\ files'[n].by = sub[w] /\ files'[n].mask = mask

\* A file is made with the umask of that moment.
LEMMA Made ==
  ASSUME TypeOK, NEW w \in Workers, Begin(w) \/ Serve(w), NEW n \in Names, n[1] # "binary"
  PROVE  MadeUnder(w, n)
<1> USE DEF servVars, procVars, histVars
<1>u. ASSUME UNCHANGED files PROVE MadeUnder(w, n) BY <1>u DEF MadeUnder
<1>w. \A m \in {InName(w), OutName(w), Source(w), Binary(w)} : m \in Names
  BY WorkerNames
<1>p. ASSUME NEW m \in {InName(w), OutName(w), Source(w)}, wpc[w] \in Openers, Put(m, Written(m, sub[w]))
      PROVE  MadeUnder(w, n)
  BY <1>p, <1>w DEF Put, Written, MadeUnder, TypeOK
<1>q. ASSUME NEW m \in {Source(w), Binary(w)}, Unlink(m)
      PROVE  MadeUnder(w, n)
  BY <1>q, <1>w, UnlinkFacts DEF MadeUnder
<1>r. ASSUME NEW tag \in Feeds, NEW m \in Led(w, tag), RemoveByName(m)
      PROVE  MadeUnder(w, n)
  BY <1>r, LedNames, RemoveFacts DEF MadeUnder
<1>0. CASE Begin(w) BY <1>0, <1>u DEF Begin
<1>1. CASE FeedMask(w) BY <1>1, <1>u DEF FeedMask
<1>2. CASE FeedInput(w) BY <1>2, <1>u, <1>p DEF FeedInput, Openers
<1>3. CASE FeedOutput(w) BY <1>3, <1>u, <1>p DEF FeedOutput, Openers
<1>4. CASE MaskDir(w) BY <1>4, <1>u DEF MaskDir
<1>5. CASE MkDir(w) BY <1>5, <1>u DEF MkDir
<1>6. CASE MkDirFails(w) BY <1>6, <1>u DEF MkDirFails
<1>7. CASE Restore(w) BY <1>7, <1>u DEF Restore
<1>8. CASE UnknownLanguage(w) BY <1>8, <1>u DEF UnknownLanguage
<1>9. CASE Interpreted(w) BY <1>9, <1>u DEF Interpreted
<1>10. CASE SourceMask(w) BY <1>10, <1>u DEF SourceMask
<1>11. CASE SourceOpen(w) BY <1>11, <1>u, <1>p DEF SourceOpen, Openers
<1>12. ASSUME NEW ok \in BOOLEAN, Compile(w, ok) PROVE MadeUnder(w, n)
  <2>1. n # Binary(w) BY Distinct
  <2>2. CASE Put(Binary(w), Compiled(w))
    BY <1>w, <2>1, <2>2 DEF Put, TypeOK, MadeUnder
  <2>3. CASE Unlink(Binary(w)) BY <2>3, <1>q
  <2> QED BY <1>12, <2>2, <2>3 DEF Compile
<1>13. CASE Check(w) BY <1>13, <1>u, <1>q DEF Check
<1>14. CASE Judge(w) BY <1>14, <1>u DEF Judge
<1>15. CASE RemoveBinary(w) BY <1>15, <1>q DEF RemoveBinary
<1>16. CASE RemoveInput(w) BY <1>16, <1>r DEF RemoveInput, Feeds
<1>17. CASE RemoveOutput(w) BY <1>17, <1>r DEF RemoveOutput, Feeds
<1> QED BY <1>0, <1>1, <1>2, <1>3, <1>4, <1>5, <1>6, <1>7, <1>8, <1>9, <1>10, <1>11, <1>12, <1>13, <1>14,
           <1>15, <1>16, <1>17 DEF Serve

\* A worker's only change of the directories is the one it makes.
LEMMA DirsMade ==
  ASSUME TypeOK, NEW w \in Workers, Begin(w) \/ Serve(w)
  PROVE  wdir' = wdir \/ MkDir(w)
BY DEF Serve, Begin, FeedMask, FeedInput, FeedOutput, MaskDir, MkDirFails, Restore, UnknownLanguage,
       Interpreted, SourceMask, SourceOpen, Compile, Check, Judge, RemoveBinary, RemoveInput, RemoveOutput

\* A worker exposes a file only when another one changed the umask meanwhile.
LEMMA ExposureKeeps ==
  ASSUME IndInv, NEW w \in Workers, Begin(w) \/ Serve(w)
  PROVE  ExposureNeedsOverlap'
<1>0. /\ TypeOK /\ MaskInv /\ ExposureNeedsOverlap
      /\ overlap \subseteq overlap' /\ (bare => bare')
  BY Frame DEF IndInv
<1>1. ASSUME NEW n \in Names, n[1] # "binary", files'[n] # NoFile, files'[n].mask # "066"
      PROVE  files'[n].by \in overlap'
  <2>1. MadeUnder(w, n) BY <1>0, <1>1, Made
  <2>2. wpc[w] \in Openers => mask = "066" \/ sub[w] \in overlap
    BY <1>0 DEF MaskInv
  <2>3. files[n] # NoFile /\ files[n].mask # "066" => files[n].by \in overlap
    BY <1>0, <1>1 DEF ExposureNeedsOverlap
  <2> QED BY <1>0, <1>1, <2>1, <2>2, <2>3 DEF MadeUnder
<1>2. \A v \in Workers : wdir'[v] = "0" => bare'
  <2>1. CASE wdir' = wdir BY <1>0, <2>1 DEF ExposureNeedsOverlap
  <2>2. CASE MkDir(w)
    <3>1. mask # "0" \/ bare BY <1>0, <2>2 DEF MaskInv, MkDir, Starting
    <3> QED BY <1>0, <2>2, <3>1 DEF MkDir, ExposureNeedsOverlap, TypeOK
  <2> QED BY <1>0, <2>1, <2>2, DirsMade
<1> QED BY <1>1, <1>2 DEF ExposureNeedsOverlap, NoFile

-----------------------------------------------------------------------------
(* The steps of the daemon and of the world.                                 *)

\* No worker serves, the status of no submission turns to "judged" and no file
\* changes, unless all are lost.
AllFree ==
  \A w \in Workers : /\ wpc'[w] = "idle" /\ sub'[w] = 0 /\ reads'[w] = {}
                       /\ inAt'[w] = 0 /\ outAt'[w] = 0

Quiet ==
  /\ UNCHANGED <<wdir, files>> \/ ( /\ files' = [n \in Names |-> NoFile]
                                    /\ wdir' = [w \in Workers |-> "absent"] )
  /\ UNCHANGED <<ctype, given, overlap, kept, bare>>
  /\ \A s \in Subs : status'[s] = status[s] \/ (status[s] = "serving" /\ status'[s] = "cut")

\* The workers of a daemon that is not up are free.
LEMMA FreeKeeps ==
  ASSUME IndInv, AllFree, Quiet
  PROVE  /\ ServeInv' /\ KnownInv' /\ HoldInv' /\ OwnInv' /\ TypeInv' /\ ReadInv' /\ MaskInv'
         /\ ExposureNeedsOverlap' /\ NothingLeftOfJudged'
<1> USE DEF AllFree
<1>0. /\ TypeOK /\ ServeInv /\ KnownInv /\ TypeInv /\ ExposureNeedsOverlap /\ NothingLeftOfJudged
      /\ given' = given /\ ctype' = ctype /\ overlap' = overlap /\ kept' = kept /\ bare' = bare
  BY DEF IndInv, Quiet
<1>1. \A n \in Names : files'[n] = files[n] \/ files'[n] = NoFile
  BY DEF Quiet
<1>2. \A s \in Subs : /\ status[s] = "new" => status'[s] = "new"
                      /\ status'[s] = "judged" => status[s] = "judged"
  BY DEF Quiet
<1>3. ServeInv'
  <2>1. \A s \in Subs : s = 0 \/ s > given' => status'[s] = "new" BY <1>0, <1>2 DEF ServeInv
  <2>2. 0 <= given BY <1>0, FilesAssumption DEF TypeOK, Subs
  <2> QED BY <1>0, <2>1, <2>2 DEF ServeInv
<1>4. KnownInv' BY <1>0, <1>1 DEF KnownInv, NoFile
<1>5. HoldInv' BY DEF HoldInv, Holds, Named
<1>6. OwnInv' BY DEF OwnInv, Owns
<1>7. TypeInv'
  <2>1. \A w \in Workers : Binary(w)' = Binary(w) /\ Binary(w) \in Names
    BY <1>0, WorkerNames DEF Binary
  <2>2. \A w \in Workers : ctype' # "compiled" => files'[Binary(w)] = NoFile
    BY <1>0, <1>1, <2>1 DEF TypeInv, Language
  <2> QED BY <2>1, <2>2 DEF TypeInv, Language, NoFile
<1>8. ReadInv' BY DEF ReadInv, ReadsOwn
<1>9. MaskInv' BY DEF MaskInv, Openers, Making, Starting
<1>10. ExposureNeedsOverlap'
  <2>1. \A w \in Workers : wdir'[w] = "0" => bare' BY <1>0 DEF Quiet, ExposureNeedsOverlap
  <2> QED BY <1>0, <1>1, <2>1 DEF ExposureNeedsOverlap, NoFile
<1>11. NothingLeftOfJudged'
  <2>1. \A n \in Names : files[n].of \in Subs BY <1>0 DEF TypeOK
  <2> QED BY <1>0, <1>1, <1>2, <2>1 DEF NothingLeftOfJudged, NoFile
<1> QED BY <1>3, <1>4, <1>5, <1>6, <1>7, <1>8, <1>9, <1>10, <1>11

\* Nobody serves while the daemon starts.
LEMMA StartQuiet ==
  ASSUME IndInv, Daemonize \/ MakeRamfsDir \/ MountRamfs \/ Workspace("lang") \/ Workspace("feed")
  PROVE  AllFree /\ Quiet
<1>1. dpc # "up" /\ UNCHANGED <<wpc, servVars, wdir, files, ctype, given, histVars, status>>
  BY DEF Daemonize, MakeRamfsDir, MountRamfs, Workspace
<1>2. \A w \in Workers : wpc[w] = "idle" /\ sub[w] = 0 /\ reads[w] = {} /\ inAt[w] = 0 /\ outAt[w] = 0
  BY <1>1 DEF IndInv, ServeInv, ReadInv, ReadsOwn, HoldInv, Named
<1> QED BY <1>1, <1>2 DEF AllFree, Quiet, servVars, histVars

\* Nobody serves after it ended.
LEMMA EndQuiet ==
  ASSUME Die \/ Reboot
  PROVE  AllFree /\ Quiet
<1>1. End /\ (\/ UNCHANGED <<wdir, files>>
              \/ files' = [n \in Names |-> NoFile] /\ wdir' = [w \in Workers |-> "absent"])
  BY DEF Die, Reboot
<1> QED BY <1>1 DEF End, AllFree, Quiet, histVars

\* Starts and ends of daemons keep DirInv: only a mount that failed, was lost or was
\* not reached leaves a bare directory.
LEMMA DirKeeps ==
  ASSUME TypeOK, DirInv, Daemonize \/ MakeRamfsDir \/ MountRamfs \/ Workspace("lang") \/ Workspace("feed") \/ Die \/ Reboot
  PROVE  DirInv'
<1> USE DEF DirInv
<1>1. CASE Daemonize BY <1>1 DEF Daemonize, ramVars
<1>2. CASE MakeRamfsDir
  <2>1. CASE dir /\ dpc' = "lang" /\ UNCHANGED dir BY <1>2, <2>1 DEF MakeRamfsDir
  <2>2. CASE dir' = TRUE /\ dpc' = "mount" BY <2>2
  <2>3. CASE ~dir /\ dpc' = "down" /\ UNCHANGED dir BY <2>3
  <2> QED BY <1>2, <2>1, <2>2, <2>3 DEF MakeRamfsDir
<1>6. CASE MountRamfs
  <2>1. CASE mounted' = TRUE /\ dpc' = "lang" BY <1>6, <2>1 DEF MountRamfs
  <2>2. CASE dpc' = "down" /\ ramLost' = TRUE BY <2>2
  <2> QED BY <1>6, <2>1, <2>2 DEF MountRamfs
<1>3. ASSUME NEW x \in {"lang", "feed"}, Workspace(x) PROVE DirInv'
  <2>1. dir /\ dpc # "mount" /\ UNCHANGED <<dir, mounted, ramLost>> BY <1>3 DEF Workspace
  <2> QED BY <2>1
<1>4. CASE Die BY <1>4 DEF Die, End, ramVars
<1>5. CASE Reboot BY <1>5 DEF Reboot, End
<1> QED BY <1>1, <1>2, <1>3, <1>4, <1>5, <1>6

-----------------------------------------------------------------------------
\* Every step preserves the invariant.
LEMMA Steps == IndInv /\ [Next]_vars => IndInv'
<1> SUFFICES ASSUME IndInv, [Next]_vars PROVE IndInv'
  OBVIOUS
<1>0. TypeOK /\ DirInv BY DEF IndInv
<1>1. ASSUME NEW w \in Workers, Begin(w) \/ Serve(w) PROVE IndInv'
  <2>1. \A v \in Workers : Mine(v)' BY <1>1, MineKeeps, OthersKeep
  <2>2. HoldInv' /\ OwnInv' /\ TypeInv' /\ ReadInv'
    BY <2>1 DEF HoldInv, OwnInv, TypeInv, ReadInv, Mine
  <2>3. UNCHANGED <<dir, mounted, ramLost, dpc>> BY <1>1, Frame DEF ramVars
  <2>4. DirInv' BY <1>0, <2>3 DEF DirInv
  <2>5. TypeOK' BY <1>0, <1>1, TypeWorker
  <2> QED BY <1>1, <2>2, <2>4, <2>5, ServeKeeps, KnownKeeps, NothingKeeps, MaskKeeps, ExposureKeeps DEF IndInv
<1>2. CASE Daemonize \/ MakeRamfsDir \/ MountRamfs \/ Workspace("lang") \/ Workspace("feed")
  BY <1>0, <1>2, StartQuiet, FreeKeeps, DirKeeps, TypeWorld DEF IndInv
<1>3. CASE Die \/ Reboot
  BY <1>0, <1>3, EndQuiet, FreeKeeps, DirKeeps, TypeWorld DEF IndInv
<1>4. CASE UNCHANGED vars
  <2>1. TypeOK' BY <1>0, <1>4 DEF TypeOK, vars, ramVars, procVars, servVars, histVars
  <2>2. UNCHANGED <<dir, mounted, ramLost, dpc, wdir, files, ctype, mask, given, wpc, sub, ref, inAt, outAt,
                    old, reads, status, overlap, kept, bare>>
    BY <1>4 DEF vars, ramVars, procVars, servVars, histVars
  <2>3. DirInv' /\ ServeInv' /\ KnownInv' /\ MaskInv' /\ ExposureNeedsOverlap' /\ NothingLeftOfJudged'
    BY <2>2 DEF IndInv, DirInv, ServeInv, KnownInv, MaskInv, ExposureNeedsOverlap, NothingLeftOfJudged, NoFile
  <2>4. HoldInv' /\ OwnInv' /\ TypeInv' /\ ReadInv'
    BY <2>2 DEF IndInv, HoldInv, Holds, Named, OwnInv, Owns, TypeInv, Language, ReadInv, ReadsOwn, NoFile,
                InName, OutName, Source, Binary, FeedName
  <2> QED BY <2>1, <2>3, <2>4 DEF IndInv
<1> QED BY <1>1, <1>2, <1>3, <1>4 DEF Next

\* The inductive invariant holds in every state.
THEOREM IndInvHolds == Spec => []IndInv
<1> QED BY InitInd, Steps, PTL DEF Spec

\* Every variable of the model stays in its type: the names, records and counters
\* of feed.c, lang.c and ramfs.c that the model keeps.
THEOREM TypeCorrect == Spec => []TypeOK
<1>1. IndInv => TypeOK BY DEF IndInv
<1> QED BY <1>1, IndInvHolds, PTL

\* However many workers serve, in the same second or not, and whatever earlier
\* submissions and daemons left under the same names, jug_runner_judge opens the
\* binary, the input and the output of its own submission, if the submission came
\* with both feeds as data and every file of others could be removed.
THEOREM JudgedFilesAreMine == Spec => []JudgedIsMine
<1>1. IndInv => JudgedIsMine BY DEF IndInv, ReadInv, ReadsOwn, JudgedIsMine
<1> QED BY <1>1, IndInvHolds, PTL

\* A feed or source file that others may read was made while another worker was
\* between the two calls of umask in lang_process, and a directory is made under
\* the mask 0 only after a submission that came with two references.
THEOREM ExposedOnlyByOverlap == Spec => []ExposureNeedsOverlap
<1>1. IndInv => ExposureNeedsOverlap BY DEF IndInv
<1> QED BY <1>1, IndInvHolds, PTL

\* When queue_worker_serv sends the verdict of a judgement, no file with the content
\* of the submission is left but one that unlink failed to remove, whoever else
\* fails, ends or starts again.
THEOREM JudgedLeaveNothing == Spec => []NothingLeftOfJudged
<1>1. IndInv => NothingLeftOfJudged BY DEF IndInv
<1> QED BY <1>1, IndInvHolds, PTL

\* A daemon that is up without its RAM file system lost it: create_ramfs failed to
\* mount once, a daemon ended between its mkdir and its mount, or the machine was
\* started again.
THEOREM WorksInRam == Spec => []InRam
<1>1. IndInv => InRam BY DEF IndInv, DirInv, InRam
<1> QED BY <1>1, IndInvHolds, PTL
=============================================================================
