------------------------------- MODULE Compare -------------------------------
(***************************************************************************)
(* The comparison of a submission's output with the reference output       *)
(* (compare.c), called once for each chunk the runner reads from the       *)
(* submission and once more at the end.  Carriage returns are to be        *)
(* ignored, and so are line ends after the last line.  The file offset of  *)
(* the reference output is the only state kept between two calls, and the  *)
(* length of the chunks is up to the scheduler.                            *)
(***************************************************************************)
EXTENDS Naturals, Sequences, FiniteSets

CONSTANTS Chars,      \* the ordinary characters
          LF, CR,     \* '\n' and '\r'
          READ_SIZE,  \* size of the buffer for the reference output
          MaxChunk,   \* the runner reads at most so many bytes at once
          RefTexts,   \* reference outputs
          OutTexts    \* outputs of submissions

Texts == Seq(Chars \cup {LF, CR})

ASSUME CompareAssumption == /\ READ_SIZE \in Nat \ {0}
                            /\ MaxChunk \in Nat \ {0}
                            /\ RefTexts \subseteq Texts
                            /\ OutTexts \subseteq Texts
                            /\ LF # CR /\ LF \notin Chars /\ CR \notin Chars

VARIABLES
  ref, out,            \* the two texts
  pos,                 \* file offset of fd_out_ref
  pc,                  \* "recv" between two calls
  tmprx, size,         \* the chunk is out[tmprx + 1 .. tmprx + size]
  buffer, rd,          \* the buffer holds ref[buffer + 1 .. buffer + rd]
  i, j,                \* indices into the chunk and the buffer
  read_plus, goback,   \* skipped '\r' of the reference and of the chunk
  result               \* what the calls said: "none" yet, "equal", "differ"

texts == <<ref, out>>
vars == <<ref, out, pos, pc, tmprx, size, buffer, rd, i, j, read_plus, goback, result>>

TypeOK ==
  /\ ref \in Texts /\ out \in Texts
  /\ pos \in 0..Len(ref)
  /\ pc \in {"recv", "read", "scan", "done"}
  /\ tmprx \in 0..Len(out) /\ size \in 0..Len(out) /\ tmprx + size <= Len(out)
  /\ buffer \in 0..Len(ref) /\ rd \in 0..Len(ref) /\ buffer + rd <= Len(ref)
  /\ i \in 0..size /\ j \in 0..rd
  /\ read_plus \in Nat /\ goback \in Nat
  /\ result \in {"none", "equal", "differ"}

LineEnd == {LF, CR}
Smaller(a, b) == IF a <= b THEN a ELSE b

Init ==
  /\ ref \in RefTexts /\ out \in OutTexts
  /\ pos = 0 /\ pc = "recv" /\ tmprx = 0 /\ size = 0
  /\ buffer = 0 /\ rd = 0 /\ i = 0 /\ j = 0
  /\ read_plus = 0 /\ goback = 0 /\ result = "none"

\* A call for the next chunk of the output; the counters are locals of the call.
Receive(n) ==
  /\ pc = "recv" /\ tmprx + n <= Len(out)
  /\ size' = n
  /\ read_plus' = 0 /\ goback' = 0
  /\ i' = 0 /\ j' = 0 /\ rd' = 0
  /\ pc' = "read"
  /\ UNCHANGED <<texts, pos, tmprx, buffer, result>>

\* Mutant of Read: a short read is taken for a full one.
Read_Full ==
  /\ pc = "read" /\ size > 0 /\ pos < Len(ref)
  /\ buffer' = pos
  /\ rd' = Smaller(READ_SIZE, size)
  /\ pos' = pos + rd'
  /\ i' = 0 /\ j' = 0
  /\ pc' = "scan"
  /\ UNCHANGED <<texts, tmprx, size, read_plus, goback, result>>

\* The next part of the reference, no longer than what is left of the chunk.
Read ==
  /\ pc = "read" /\ size > 0 /\ pos < Len(ref)
  /\ buffer' = pos
  /\ rd' = Smaller(Smaller(READ_SIZE, size), Len(ref) - pos)
  /\ pos' = pos + rd'
  /\ i' = 0 /\ j' = 0
  /\ pc' = "scan"
  /\ UNCHANGED <<texts, tmprx, size, read_plus, goback, result>>

\* Mutant of ReadEnd: the call does not return at the end of the reference.
ReadEnd_NoReturn ==
  /\ pc = "read" /\ size > 0 /\ pos = Len(ref)
  /\ IF \A k \in (tmprx + 1)..(tmprx + size) : out[k] \in LineEnd
     THEN UNCHANGED <<pc, size, result>>
     ELSE pc' = "done" /\ size' = 0 /\ result' = "differ"
  /\ UNCHANGED <<texts, pos, tmprx, buffer, rd, i, j, read_plus, goback>>

\* The reference is exhausted: only line ends may be left in the chunk.
ReadEnd ==
  /\ pc = "read" /\ size > 0 /\ pos = Len(ref)
  /\ IF \A k \in (tmprx + 1)..(tmprx + size) : out[k] \in LineEnd
     THEN pc' = "recv" /\ tmprx' = tmprx + size /\ UNCHANGED result
     ELSE pc' = "done" /\ result' = "differ" /\ UNCHANGED tmprx
  /\ size' = 0 /\ i' = 0
  /\ UNCHANGED <<texts, pos, buffer, rd, j, read_plus, goback>>

\* The whole chunk is compared: the call returns 0.
Return ==
  /\ pc = "read" /\ size = 0
  /\ pc' = "recv"
  /\ UNCHANGED <<texts, pos, tmprx, size, buffer, rd, i, j, read_plus, goback, result>>

\* One round of the inner loop.
Scan ==
  LET r == ref[buffer + j + 1]
      o == out[tmprx + i + 1]
  IN  /\ pc = "scan" /\ j < rd /\ i < size
      /\ \/ /\ r = CR
            /\ read_plus' = read_plus + 1 /\ j' = j + 1
            /\ UNCHANGED <<pc, i, goback, result>>
         \/ /\ r # CR /\ o = CR
            /\ goback' = goback + 1 /\ i' = i + 1
            /\ UNCHANGED <<pc, j, read_plus, result>>
         \/ /\ r # CR /\ o # CR /\ o = r
            /\ i' = i + 1 /\ j' = j + 1
            /\ UNCHANGED <<pc, read_plus, goback, result>>
         \/ /\ r # CR /\ o # CR /\ o # r
            /\ result' = "differ" /\ pc' = "done"
            /\ UNCHANGED <<i, j, read_plus, goback>>
      /\ UNCHANGED <<texts, pos, tmprx, size, buffer, rd>>

\* Mutant of Seek: the sign of the correction is wrong.
Seek_WrongSign ==
  /\ pc = "scan" /\ (j = rd \/ i = size)
  /\ pos' = IF read_plus > goback THEN pos - (read_plus - goback) ELSE pos
  /\ tmprx' = tmprx + i
  /\ size' = size - i
  /\ i' = 0
  /\ pc' = "read"
  /\ UNCHANGED <<texts, buffer, rd, j, read_plus, goback, result>>

\* The offset goes back by the number of '\r' skipped in the chunk beyond those
\* skipped in the reference, counted since the call began; lseek refuses a
\* negative offset and the code does not notice.
Seek ==
  /\ pc = "scan" /\ (j = rd \/ i = size)
  /\ pos' = IF goback > read_plus /\ pos + read_plus >= goback
            THEN pos - (goback - read_plus) ELSE pos
  /\ tmprx' = tmprx + i
  /\ size' = size - i
  /\ i' = 0
  /\ pc' = "read"
  /\ UNCHANGED <<texts, buffer, rd, j, read_plus, goback, result>>

\* The last call: what is left of the reference may only be line ends.
Finish ==
  /\ pc = "recv" /\ tmprx = Len(out)
  /\ result' = IF \A k \in (pos + 1)..Len(ref) : ref[k] \in LineEnd
               THEN "equal" ELSE "differ"
  /\ pos' = Len(ref)
  /\ pc' = "done"
  /\ UNCHANGED <<texts, tmprx, size, buffer, rd, i, j, read_plus, goback>>

Call == Read \/ ReadEnd \/ Return \/ Scan \/ Seek \/ Finish

Next == Call \/ \E n \in 1..MaxChunk : Receive(n)

Spec == Init /\ [][Next]_vars

\* The code of a call runs on; the output arrives or ends.
FairSpec == Spec /\ WF_vars(Next)

-----------------------------------------------------------------------------
(* What the comparison must compute. *)

\* The place of character k in the text without its carriage returns.
Rank(t, k) == Cardinality({l \in 1..k : t[l] # CR})

\* Each character of s but the carriage returns is at its place in t, or it is a
\* line end behind the end of t.
Covered(s, t) ==
  \A k \in 1..Len(s) : s[k] # CR =>
    \/ \E l \in 1..Len(t) : t[l] # CR /\ Rank(t, l) = Rank(s, k) /\ t[l] = s[k]
    \/ s[k] = LF /\ Rank(t, Len(t)) < Rank(s, k)

\* Equal texts, but for carriage returns and line ends at the end.
SameText(s, t) == Covered(s, t) /\ Covered(t, s)

NoCROut == \A k \in 1..Len(out) : out[k] # CR

\* For an output without carriage returns, against a reference with or without
\* them, the calls of compare_output end with 0 exactly for an output equal to
\* the reference up to carriage returns and final line ends, however the output
\* is cut in chunks.
VerdictRight ==
  NoCROut /\ pc = "done" => (result = "equal" <=> SameText(ref, out))

\* Every sequence of calls ends: the cursor moves in each round of the loop of
\* compare_output, whatever it seeks back.
Terminates == <>(pc = "done")
=============================================================================
