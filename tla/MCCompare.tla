------------------------------ MODULE MCCompare ------------------------------
(* Instances of Compare for TLC. *)
EXTENDS Compare, SequencesExt

CONSTANTS RefLen, OutLen   \* bounds on the length of the texts

AllRefs == SeqOf(Chars \cup {LF, CR}, RefLen)
AllOuts == SeqOf(Chars \cup {LF, CR}, OutLen)

\* SameText in other words: with the carriage returns removed, the shorter text is
\* the beginning of the longer one, and what follows there are line ends.
NotCR(c) == c # CR
SameLines(s, t) ==
  \/ Len(s) <= Len(t) /\ \A k \in 1..Len(t) : IF k <= Len(s) THEN s[k] = t[k] ELSE t[k] = LF
  \/ Len(t) < Len(s) /\ \A k \in 1..Len(s) : IF k <= Len(t) THEN s[k] = t[k] ELSE s[k] = LF

ASSUME SameTextAssumption ==
  \A s \in AllRefs, t \in AllOuts :
    SameText(s, t) <=> SameLines(SelectSeq(s, NotCR), SelectSeq(t, NotCR))
=============================================================================
