------------------------------ MODULE MCConfig -------------------------------
(* Instances of Config for TLC: a complete file of seven lines and every file *)
(* with up to Edits lines of it replaced, dropped or added, and all files of  *)
(* up to Short lines.                                                        *)
EXTENDS Config, SequencesExt

CONSTANTS Edits, Short

Exec == <<"section", "Executer", "">>
Comp == <<"section", "compilers", "">>
Intp == <<"section", "interpreters", "">>

Line == {Exec, Comp, Intp, <<"section", "Queue", "">>,
         <<"pair", "time", "1">>, <<"pair", "time", "2">>, <<"pair", "c", "3">>, <<"pair", "c", "cut">>,
         <<"pair", "num", "4">>, <<"bare", "time", "">>, <<"bare", "", "">>,
         <<"comment", "", "">>, <<"blank", "", "">>}

Complete == <<<<"comment", "", "">>, Exec, <<"pair", "time", "1">>, <<"section", "Queue", "">>,
              <<"pair", "num", "4">>, Comp, <<"pair", "c", "3">>>>

Edited(t) == {ReplaceAt(t, i, l) : i \in 1..Len(t), l \in Line}
             \cup {RemoveAt(t, i) : i \in 1..Len(t)}
             \cup {InsertAt(t, i, l) : i \in 1..(Len(t) + 1), l \in Line}

AllTexts ==
  LET edited[n \in 0..Edits] == IF n = 0 THEN {Complete} ELSE UNION {Edited(t) : t \in edited[n - 1]}
  IN  SeqOf(Line, Short) \cup UNION {edited[n] : n \in 0..Edits}

AllParts == <<"kudosd", "queue", "runner", "sandbox">>
AllNeeds == [kudosd |-> <<<<"Executer", "time">>>>, queue |-> <<<<"Queue", "num">>>>,
             runner |-> <<<<"Executer", "time">>>>,
             sandbox |-> <<<<"Executer", "time">>, <<"Queue", "num">>>>]
Sections == <<"compilers", "interpreters", "virtual machines">>
=============================================================================
