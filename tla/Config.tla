------------------------------- MODULE Config --------------------------------
(***************************************************************************)
(* The configuration: the ini file is parsed when the first value is asked *)
(* for (config.c, iniparser.c) and the parts of the daemon take their      *)
(* settings from it as they start; lang_init makes the table of languages  *)
(* of three of its sections.                                               *)
(*                                                                         *)
(* A line is what trim leaves of it: a triple of its kind, a name (of the  *)
(* section, or the key) and a value.  "bare" is a key without separator,   *)
(* or, with the key "", a line of blanks only.                             *)
(***************************************************************************)
EXTENDS Naturals, Sequences, FiniteSets

CONSTANTS Texts,        \* ini files: sequences of lines
          Unset,        \* a name that was never assigned
          Parts,        \* kudosd, queue, runner, sandbox, in the order they start
          Needs,        \* by part: the settings it reads, pairs of section and key
          LangSections, \* "compilers", "interpreters", "virtual machines"
          BadValues,    \* values with too few commas for a language
          MaxLangs      \* entries of g_languages

\* What trim and the tests of parse_section tell apart.
Kinds == {"section", "pair", "bare", "comment", "blank"}

ASSUME ConfigAssumption ==
  /\ \A t \in Texts : t \in Seq(Kinds \X STRING \X STRING)
  /\ Unset \notin STRING
  /\ \A p \in DOMAIN Needs : Needs[p] \in Seq(STRING \X STRING)
  /\ Parts \in Seq(DOMAIN Needs) /\ \A p \in DOMAIN Needs : \E i \in 1..Len(Parts) : Parts[i] = p
  /\ LangSections \in Seq(STRING) /\ Len(LangSections) = 3
  /\ \A a, b \in 1..3 : LangSections[a] = LangSections[b] => a = b
  /\ MaxLangs \in Nat

VARIABLES
  text, ended,  \* the file; its last line ends with a line feed
  pos,          \* the next line of it
  state,        \* read_ini->state
  tmp,          \* the line in read_ini->tmp
  cur,          \* the section being read
  ini,          \* the sections read
  pc, part,     \* control; the number of the part that starts
  got,          \* the settings read so far
  langs         \* g_languages: triples of section, id and definition

vars == <<text, ended, pos, state, tmp, cur, ini, pc, part, got, langs>>
bootVars == <<part, got, langs>>

NoLine == <<"blank", "", "">>
NewSection == [name |-> Unset, configs |-> <<>>]

Init ==
  /\ text \in Texts /\ ended \in BOOLEAN
  /\ ended \/ (text # <<>> /\ text[Len(text)][1] # "blank")
  /\ pos = 1 /\ state = "START" /\ tmp = NoLine /\ cur = NewSection /\ ini = <<>>
  /\ pc = "ini" /\ part = 1 /\ got = <<>> /\ langs = <<>>

-----------------------------------------------------------------------------
(* The parser.                                                             *)

\* parse_ini reads sections until the end of the file.
ParseIni ==
  /\ pc = "ini"
  /\ \/ state \in {"START", "NEW_SECTION"} /\ cur' = NewSection /\ pc' = "section"
     \/ state \notin {"START", "NEW_SECTION"} /\ pc' = "loaded" /\ UNCHANGED cur
  /\ UNCHANGED <<text, ended, pos, state, tmp, ini, bootVars>>

\* Mutant of ReadLine: the end of the file counts only where a line was read.
ReadLine_NoEnd ==
  /\ pc = "section" /\ state \in {"START", "IN_SECTION"}
  /\ \/ /\ pos <= Len(text)
        /\ tmp' = text[pos] /\ pos' = pos + 1
        /\ state' = IF pos = Len(text) /\ ~ended THEN "END_OF_FILE" ELSE state
        /\ pc' = IF text[pos][1] = "blank" THEN "section" ELSE "parse"
     \/ pos > Len(text) /\ UNCHANGED <<pos, tmp, pc, state>>
  /\ UNCHANGED <<text, ended, cur, ini, bootVars>>

\* read_line: the end of the file is noted by the call that meets it, which may
\* have read a last line without line feed.  An empty line is no line.
ReadLine ==
  /\ pc = "section" /\ state \in {"START", "IN_SECTION"}
  /\ \/ /\ pos <= Len(text)
        /\ tmp' = text[pos] /\ pos' = pos + 1
        /\ state' = IF pos = Len(text) /\ ~ended THEN "END_OF_FILE" ELSE state
        /\ pc' = IF text[pos][1] = "blank" THEN "section" ELSE "parse"
     \/ pos > Len(text) /\ state' = "END_OF_FILE" /\ UNCHANGED <<pos, tmp, pc>>
  /\ UNCHANGED <<text, ended, cur, ini, bootVars>>

\* The header that ended the last section is still in tmp.
HeldLine ==
  /\ pc = "section" /\ state = "NEW_SECTION" /\ pc' = "parse"
  /\ UNCHANGED <<text, ended, pos, state, tmp, cur, ini, bootVars>>

\* parse_section returns at the end of the file, and parse_ini adds the section.
SectionEnd ==
  /\ pc = "section" /\ state = "END_OF_FILE"
  /\ ini' = Append(ini, cur) /\ pc' = "ini"
  /\ UNCHANGED <<text, ended, pos, state, tmp, cur, bootVars>>

Comment ==
  /\ pc = "parse" /\ tmp[1] = "comment" /\ pc' = "section"
  /\ UNCHANGED <<text, ended, pos, state, tmp, cur, ini, bootVars>>

\* A header ends a section that has its name and is kept for the next one; else
\* it names the section.  At the end of the file it takes the second branch: the
\* section read so far gets the name of the header.
Header ==
  /\ pc = "parse" /\ tmp[1] = "section"
  /\ \/ /\ state = "IN_SECTION" /\ state' = "NEW_SECTION"
        /\ ini' = Append(ini, cur) /\ pc' = "ini" /\ UNCHANGED cur
     \/ /\ state # "IN_SECTION" /\ state' = "IN_SECTION"
        /\ cur' = [cur EXCEPT !.name = tmp[2]] /\ pc' = "section" /\ UNCHANGED ini
  /\ UNCHANGED <<text, ended, pos, tmp, bootVars>>

\* A key without separator gets for its value what lies in tmp behind the line:
\* nothing, or what an earlier line left there.
Values == IF tmp[1] = "pair" THEN {tmp[3]} ELSE {""} \cup {text[j][3] : j \in 1..(pos - 1)}

\* Mutant of Pair: the array of pairs is not grown.
Pair_NoGrow ==
  /\ pc = "parse" /\ tmp[1] \in {"pair", "bare"} /\ pc' = "section"
  /\ \E v \in Values : cur' = [cur EXCEPT !.configs = <<<<tmp[2], v>>>>]
  /\ UNCHANGED <<text, ended, pos, state, tmp, ini, bootVars>>

\* A key and a value are added to the section.
Pair ==
  /\ pc = "parse" /\ tmp[1] \in {"pair", "bare"} /\ pc' = "section"
  /\ \E v \in Values : cur' = [cur EXCEPT !.configs = Append(@, <<tmp[2], v>>)]
  /\ UNCHANGED <<text, ended, pos, state, tmp, ini, bootVars>>

-----------------------------------------------------------------------------
(* Looking up.                                                             *)

\* Where the pairs of the sections ss are: the number of the section and that of
\* the pair in it; and the pair.
Places(ss) == UNION {{a} \X (1..Len(ss[a].configs)) : a \in 1..Len(ss)}
At(ss, p) == ss[p[1]].configs[p[2]]

\* The order in which the loops over sections and pairs come to them.
Before(p, q) == p[1] < q[1] \/ (p[1] = q[1] /\ p[2] <= q[2])

\* The number of a place among those of P, and the place with that number.
Number(P, p) == Cardinality({q \in P : Before(q, p)})
Nth(P, n) == CHOOSE p \in P : Number(P, p) = n

\* The places of a section's pairs, whatever sections have its name, and those
\* with the key k.
Named(s) == {p \in Places(ini) : ini[p[1]].name = s}
Hits(s, k) == {p \in Named(s) : At(ini, p)[1] = k}

\* Mutant of ini_get_value: the last pair counts.
ini_get_value_Last(s, k) ==
  LET h == CHOOSE p \in Hits(s, k) : \A q \in Hits(s, k) : Before(q, p)
  IN  At(ini, h)[2]

\* ini_get_value returns the first of them.
ini_get_value(s, k) ==
  LET h == CHOOSE p \in Hits(s, k) : \A q \in Hits(s, k) : Before(p, q)
  IN  At(ini, h)[2]

\* jug_ini_get_section: the pairs of all sections of that name, by section.
jug_ini_get_section(s) ==
  [n \in 1..Cardinality(Named(s)) |-> At(ini, Nth(Named(s), n))]

\* strcmp with a section that has no name: anything may happen.
Nameless == \E a \in 1..Len(ini) : ini[a].name = Unset

-----------------------------------------------------------------------------
(* The daemon starts.                                                      *)

Loaded ==
  /\ pc = "loaded" /\ pc' = "start"
  /\ UNCHANGED <<text, ended, pos, state, tmp, cur, ini, bootVars>>

Starting(p) == pc = "start" /\ part <= Len(Parts) /\ Parts[part] = p

\* jug_ini_get_string, of a pair of section and key.
Value(setting) == ini_get_value(setting[1], setting[2])

\* A part reads its settings one after the other.
ReadSettings(p) ==
  /\ Starting(p) /\ ~Nameless
  /\ \A i \in 1..Len(Needs[p]) : Hits(Needs[p][i][1], Needs[p][i][2]) # {}
  /\ got' = got \o [i \in 1..Len(Needs[p]) |->
                      <<Needs[p][i], Value(Needs[p][i])>>]
  /\ part' = part + 1
  /\ UNCHANGED <<text, ended, pos, state, tmp, cur, ini, pc, langs>>

\* One is missing: the part does not start and the daemon ends.
SettingMissing(p) ==
  /\ Starting(p)
  /\ Nameless \/ \E i \in 1..Len(Needs[p]) : Hits(Needs[p][i][1], Needs[p][i][2]) = {}
  /\ pc' \in IF Nameless THEN {"failed", "crashed"} ELSE {"failed"}
  /\ UNCHANGED <<text, ended, pos, state, tmp, cur, ini, bootVars>>

\* Each part reads so.
StartRedirect == ReadSettings("kudosd") \/ SettingMissing("kudosd")
QueueInit == ReadSettings("queue") \/ SettingMissing("queue")
RunnerInit == ReadSettings("runner") \/ SettingMissing("runner")
SandboxInit == ReadSettings("sandbox") \/ SettingMissing("sandbox")

\* The languages of a section, in its order.
Languages(s) ==
  LET kv == jug_ini_get_section(s)
  IN  [i \in 1..Len(kv) |-> <<s, kv[i][1], kv[i][2]>>]

Table == Languages(LangSections[1]) \o Languages(LangSections[2]) \o Languages(LangSections[3])

\* lang_init: a definition with a comma too few, or more languages than entries,
\* is not noticed: anything may happen.
LangInit ==
  /\ pc = "start" /\ part = Len(Parts) + 1
  /\ langs' = Table
  /\ \/ pc' = "up"
     \/ /\ Len(Table) > MaxLangs \/ \E i \in 1..Len(Table) : Table[i][3] \in BadValues
        /\ pc' = "crashed"
  /\ UNCHANGED <<text, ended, pos, state, tmp, cur, ini, part, got>>

\* The first of a set of numbers, or 0.
First(S) == IF S = {} THEN 0 ELSE CHOOSE i \in S : \A j \in S : i <= j

\* lang_get: the number of the first entry with that id, 0 for NULL.
lang_get(id) == First({i \in 1..Len(langs) : langs[i][2] = id})

-----------------------------------------------------------------------------
Parser == ParseIni \/ ReadLine \/ HeldLine \/ SectionEnd \/ Comment \/ Header \/ Pair
Start == Loaded \/ StartRedirect \/ QueueInit \/ RunnerInit \/ SandboxInit \/ LangInit

Next == Parser \/ Start

Spec == Init /\ [][Next]_vars

\* One thread starts the daemon, and it is scheduled.
FairSpec == Spec /\ WF_vars(Next)

-----------------------------------------------------------------------------
(* What the file says.                                                     *)

Done == pc \in {"up", "failed", "crashed"}

\* The lines with a key, and the header that a line stands under: 0 if there is none.
PairLines == {i \in 1..Len(text) : text[i][1] \in {"pair", "bare"}}
Heads(i) == {j \in 1..i : text[j][1] = "section"}
Greatest(S) == CHOOSE i \in S : \A j \in S : j <= i
Under(i) == IF Heads(i) = {} THEN 0 ELSE Greatest(Heads(i))

\* Every key stands under a header, and no header is cut off by the end of the
\* file.
WellFormed ==
  /\ \A i \in PairLines : Under(i) # 0
  /\ \E j \in 1..Len(text) : text[j][1] = "section"
  /\ ended \/ text[Len(text)][1] # "section"

\* The lines with key k under headers that say s, and the first of them.
KeyLines(s, k) ==
  {i \in PairLines : Under(i) # 0 /\ text[Under(i)][2] = s /\ text[i][2] = k}
FirstLine(s, k) == First(KeyLines(s, k))

\* Line i gives the value v; one without separator gives none that is its own.
Gives(i, v) == i # 0 /\ (text[i][1] = "bare" \/ text[i][3] = v)

\* Whatever the file is like, every pair of it is in the result, once and in
\* the file's order, although lines are kept from one section to the next and
\* the end of the file may come with a line or after it.
PairsKept ==
  pc = "loaded" =>
    /\ Cardinality(Places(ini)) = Cardinality(PairLines)
    /\ \A p \in Places(ini), i \in PairLines :
         Number(Places(ini), p) = Cardinality({j \in PairLines : j <= i})
         => At(ini, p)[1] = text[i][2] /\ Gives(i, At(ini, p)[2])

\* For a well-formed file: the daemon starts with the first value the file gives
\* each setting, fails to start exactly when a setting is missing, and finds a
\* language in the first section, and the first line of it, that defines it.
StartsAsConfigured ==
  WellFormed /\ Done =>
    /\ \A i \in 1..Len(got) : Gives(FirstLine(got[i][1][1], got[i][1][2]), got[i][2])
    /\ (pc = "failed") = \E p \in DOMAIN Needs : \E i \in 1..Len(Needs[p]) :
                           FirstLine(Needs[p][i][1], Needs[p][i][2]) = 0
    /\ pc = "up" => \A i \in 1..Len(langs) : LET h == langs[lang_get(langs[i][2])] IN
         /\ Gives(FirstLine(h[1], h[2]), h[3])
         /\ \A a, b \in 1..3 : LangSections[b] = h[1] /\ a < b => FirstLine(LangSections[a], h[2]) = 0

\* The parser comes to the end of every file, and the start to an end.
Terminates == <>Done
=============================================================================
