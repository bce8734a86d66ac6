---------------------------- MODULE CompareProofs ----------------------------
(***************************************************************************)
(* The comparison is right for every output without carriage returns and   *)
(* every reference, with or without them, for every READ_SIZE and however  *)
(* the output is cut into chunks.                                          *)
(***************************************************************************)
EXTENDS Compare, FiniteSetTheorems, TLAPS

\* The first n characters of the reference, without their carriage returns, are
\* the first characters of the output.
Agree(n) ==
  /\ \A k \in 1..n : ref[k] # CR => Rank(ref, k) \in 1..Len(out) /\ ref[k] = out[Rank(ref, k)]
  /\ \A l \in 1..Rank(ref, n) : \E k \in 1..n : ref[k] # CR /\ Rank(ref, k) = l

\* Between two rounds the offset follows the output, up to the end of the
\* reference, beyond which the output has only line ends.
BetweenInv ==
  pc \in {"recv", "read"} =>
    /\ Rank(ref, pos) <= tmprx
    /\ pos < Len(ref) => Rank(ref, pos) = tmprx
    /\ Agree(pos)
    /\ \A k \in (Rank(ref, pos) + 1)..tmprx : out[k] = LF

\* Inside a round buffer and chunk are scanned in step, but for the carriage
\* returns of the buffer.
ScanInv ==
  pc = "scan" =>
    /\ pos = buffer + rd /\ rd <= size /\ i <= j
    /\ Rank(ref, buffer + j) = tmprx + i
    /\ Agree(buffer + j)

DoneInv == /\ pc = "done" => result \in {"equal", "differ"}
           /\ result = "equal" => SameText(ref, out)
           /\ result = "differ" => ~SameText(ref, out)

InStep == goback = 0 /\ BetweenInv /\ ScanInv /\ DoneInv

\* The inductive invariant.
IndInv ==
  /\ TypeOK
  /\ pc = "recv" => size = 0
  /\ NoCROut => InStep

-----------------------------------------------------------------------------
(* Places in a text without its carriage returns.                          *)

\* A place is a number, and the place of the next character.
LEMMA RankStep ==
  ASSUME NEW t, NEW k \in Nat
  PROVE  /\ Rank(t, 0) = 0 /\ Rank(t, k) \in Nat /\ Rank(t, k + 1) \in Nat
         /\ t[k + 1] # CR => Rank(t, k + 1) = Rank(t, k) + 1
         /\ t[k + 1] = CR => Rank(t, k + 1) = Rank(t, k)
<1> DEFINE S(n) == {l \in 1..n : t[l] # CR}
<1>1. S(0) = {}  OBVIOUS
<1>2. IsFiniteSet(1..k) /\ S(k) \subseteq 1..k  BY FS_Interval
<1>3. IsFiniteSet(S(k)) /\ Cardinality(S(k)) \in Nat  BY <1>2, FS_Subset, FS_CardinalityType
<1>4. k + 1 \notin S(k)  OBVIOUS
<1>5. CASE t[k + 1] # CR
  <2>1. S(k + 1) = S(k) \cup {k + 1}  BY <1>5
  <2>2. Cardinality(S(k + 1)) = Cardinality(S(k)) + 1  BY <1>3, <1>4, <2>1, FS_AddElement
  <2>. QED  BY <1>1, <1>3, <1>5, <2>2, FS_EmptySet DEF Rank
<1>6. CASE t[k + 1] = CR
  <2>1. S(k + 1) = S(k)  BY <1>6
  <2>. QED  BY <1>1, <1>3, <1>6, <2>1, FS_EmptySet DEF Rank
<1>. QED  BY <1>5, <1>6

\* Places do not decrease, and grow with a character that is no carriage return.
LEMMA RankGrows ==
  ASSUME NEW t, NEW k \in Nat, NEW l \in Nat, k <= l
  PROVE  Rank(t, k) <= Rank(t, l) /\ (k < l /\ t[l] # CR => Rank(t, k) < Rank(t, l))
<1>1. ASSUME NEW m \in Nat, k <= m PROVE Rank(t, k) <= Rank(t, m)
  <2> DEFINE S(n) == {x \in 1..n : t[x] # CR}
  <2>1. IsFiniteSet(1..m) /\ S(m) \subseteq 1..m /\ S(k) \subseteq S(m)  BY <1>1, FS_Interval
  <2>2. IsFiniteSet(S(m))  BY <2>1, FS_Subset
  <2>3. Cardinality(S(k)) <= Cardinality(S(m))  BY <2>1, <2>2, FS_Subset
  <2>. QED  BY <2>3 DEF Rank
<1>2. ASSUME k < l, t[l] # CR PROVE Rank(t, k) < Rank(t, l)
  <2>1. l - 1 \in Nat /\ k <= l - 1 /\ (l - 1) + 1 = l  BY <1>2
  <2>2. Rank(t, l) = Rank(t, l - 1) + 1  BY <1>2, <2>1, RankStep
  <2>3. Rank(t, k) <= Rank(t, l - 1)  BY <1>1, <2>1
  <2>4. Rank(t, k) \in Nat /\ Rank(t, l - 1) \in Nat  BY <2>1, RankStep
  <2>. QED  BY <2>2, <2>3, <2>4
<1>. QED  BY <1>1, <1>2

\* In an output without carriage returns a character's place is its index.
LEMMA RankPlain ==
  ASSUME NoCROut, out \in Texts, NEW k \in 0..Len(out)
  PROVE  Rank(out, k) = k
<1>1. Len(out) \in Nat  BY DEF Texts
<1>2. {l \in 1..k : out[l] # CR} = 1..k  BY <1>1 DEF NoCROut
<1>3. k \in Nat /\ Cardinality(1..k) = k  BY <1>1, FS_Interval
<1>. QED  BY <1>2, <1>3 DEF Rank

-----------------------------------------------------------------------------
\* The initial states satisfy the invariant.
LEMMA InitInd == Init => IndInv
<1> SUFFICES ASSUME Init PROVE IndInv
  OBVIOUS
<1>1. ref \in Texts /\ out \in Texts BY CompareAssumption DEF Init
<1>2. Len(ref) \in Nat /\ Len(out) \in Nat BY <1>1 DEF Texts
<1>3. TypeOK BY <1>1, <1>2 DEF Init, TypeOK
<1>4. Rank(ref, 0) = 0 BY RankStep
<1>5. InStep
  BY <1>1, <1>2, <1>4 DEF Init, InStep, BetweenInv, ScanInv, DoneInv, Agree
<1> QED BY <1>3, <1>5 DEF Init, IndInv

\* Every step keeps the types, and no step leaves bytes behind for the next recv.
LEMMA TypeStep == IndInv /\ [Next]_vars => TypeOK' /\ (pc = "recv" => size = 0)'
<1> SUFFICES ASSUME IndInv, [Next]_vars PROVE TypeOK' /\ (pc = "recv" => size = 0)'
  OBVIOUS
<1>1. Len(ref) \in Nat /\ Len(out) \in Nat BY DEF IndInv, TypeOK, Texts
<1> USE <1>1, CompareAssumption DEF IndInv, TypeOK, texts
<1>2. ASSUME NEW n \in 1..MaxChunk, Receive(n) PROVE TypeOK' /\ (pc = "recv" => size = 0)'
  BY <1>2 DEF Receive
<1>3. CASE Read BY <1>3 DEF Read, Smaller
<1>4. CASE ReadEnd BY <1>4 DEF ReadEnd
<1>5. CASE Return BY <1>5 DEF Return
<1>6. CASE Scan
  <2>1. pc = "scan" /\ j < rd /\ i < size /\ UNCHANGED <<ref, out, pos, tmprx, size, buffer, rd>>
    BY <1>6 DEF Scan
  <2>2. CASE read_plus' = read_plus + 1 /\ j' = j + 1 /\ UNCHANGED <<pc, i, goback, result>>
    BY <2>1, <2>2
  <2>3. CASE goback' = goback + 1 /\ i' = i + 1 /\ UNCHANGED <<pc, j, read_plus, result>>
    BY <2>1, <2>3
  <2>4. CASE i' = i + 1 /\ j' = j + 1 /\ UNCHANGED <<pc, read_plus, goback, result>>
    BY <2>1, <2>4
  <2>5. CASE result' = "differ" /\ pc' = "done" /\ UNCHANGED <<i, j, read_plus, goback>>
    BY <2>1, <2>5
  <2> QED BY ONLY <1>6, <2>2, <2>3, <2>4, <2>5 DEF Scan
<1>7. CASE Seek BY <1>7 DEF Seek
<1>8. CASE Finish BY <1>8 DEF Finish
<1>9. CASE UNCHANGED vars BY <1>9 DEF vars
<1> QED BY <1>2, <1>3, <1>4, <1>5, <1>6, <1>7, <1>8, <1>9 DEF Next, Call

\* The characters compared so far agree with one more of the reference.
LEMMA AgreeMore ==
  ASSUME ref \in Texts, out \in Texts, NEW n \in Nat, n < Len(ref), Agree(n),
         ref[n + 1] # CR => Rank(ref, n) + 1 \in 1..Len(out) /\ ref[n + 1] = out[Rank(ref, n) + 1]
  PROVE  Agree(n + 1)
<1>1. Len(ref) \in Nat /\ Len(out) \in Nat  BY DEF Texts
<1>2. Rank(ref, n) \in Nat /\ Rank(ref, n + 1) \in Nat
  BY RankStep
<1>3. CASE ref[n + 1] = CR
  <2>1. Rank(ref, n + 1) = Rank(ref, n)  BY <1>3, RankStep
  <2>. QED  BY <1>1, <1>2, <1>3, <2>1 DEF Agree
<1>4. CASE ref[n + 1] # CR
  <2>1. Rank(ref, n + 1) = Rank(ref, n) + 1  BY <1>4, RankStep
  <2>2. ASSUME NEW k \in 1..(n + 1), ref[k] # CR
        PROVE  Rank(ref, k) \in 1..Len(out) /\ ref[k] = out[Rank(ref, k)]
    <3>1. CASE k = n + 1  BY <1>4, <2>1, <3>1
    <3>2. CASE k \in 1..n  BY <2>2, <3>2 DEF Agree
    <3>. QED  BY <3>1, <3>2
  <2>3. ASSUME NEW l \in 1..Rank(ref, n + 1)
        PROVE  \E k \in 1..(n + 1) : ref[k] # CR /\ Rank(ref, k) = l
    <3>1. CASE l = Rank(ref, n) + 1  BY <1>4, <2>1, <3>1
    <3>2. CASE l \in 1..Rank(ref, n)
      <4>1. PICK k \in 1..n : ref[k] # CR /\ Rank(ref, k) = l  BY <3>2 DEF Agree
      <4>. QED  BY <4>1
    <3>. QED  BY <1>2, <2>1, <2>3, <3>1, <3>2
  <2>. QED  BY <2>2, <2>3 DEF Agree
<1>. QED  BY <1>3, <1>4

\* A character that is not the one at its place, or has none and is no line end,
\* makes the texts different.
LEMMA Different ==
  ASSUME NoCROut, ref \in Texts, out \in Texts
  PROVE  /\ \A k \in 1..Len(ref) : ref[k] # CR /\ Rank(ref, k) \in 1..Len(out) /\ ref[k] # out[Rank(ref, k)]
                                    => ~SameText(ref, out)
         /\ \A k \in 1..Len(ref) : ref[k] \notin LineEnd /\ Len(out) < Rank(ref, k) => ~SameText(ref, out)
         /\ \A l \in 1..Len(out) : out[l] \notin LineEnd /\ Rank(ref, Len(ref)) < l => ~SameText(ref, out)
<1>1. Len(ref) \in Nat /\ Len(out) \in Nat  BY DEF Texts
<1>2. \A l \in 0..Len(out) : Rank(out, l) = l  BY RankPlain
<1>3. \A k \in 0..Len(ref) : Rank(ref, k) \in Nat /\ Rank(ref, k) <= Rank(ref, Len(ref))
  BY <1>1, RankStep, RankGrows
<1>4. ASSUME NEW k \in 1..Len(ref), ref[k] # CR, Rank(ref, k) \in 1..Len(out), ref[k] # out[Rank(ref, k)]
      PROVE  ~Covered(ref, out)
  BY <1>1, <1>2, <1>4 DEF Covered
<1>5. ASSUME NEW k \in 1..Len(ref), ref[k] \notin LineEnd, Len(out) < Rank(ref, k)
      PROVE  ~Covered(ref, out)
  BY <1>1, <1>2, <1>5 DEF Covered, LineEnd
<1>6. ASSUME NEW l \in 1..Len(out), out[l] \notin LineEnd, Rank(ref, Len(ref)) < l
      PROVE  ~Covered(out, ref)
  <2>1. \A k \in 1..Len(ref) : Rank(ref, k) # l  BY <1>1, <1>3, <1>6
  <2>2. Rank(out, l) = l  BY <1>2
  <2>. QED  BY <1>6, <2>1, <2>2 DEF Covered, LineEnd
<1>. QED  BY <1>4, <1>5, <1>6 DEF SameText

\* Texts that agree up to line ends behind the end of one of them are the same.
LEMMA Same ==
  ASSUME NoCROut, ref \in Texts, out \in Texts, NEW n \in 0..Len(ref), Agree(n),
         Rank(ref, n) <= Len(out), n < Len(ref) => Rank(ref, n) = Len(out),
         \A k \in (Rank(ref, n) + 1)..Len(out) : out[k] = LF,
         \A k \in (n + 1)..Len(ref) : ref[k] \in LineEnd
  PROVE  SameText(ref, out)
<1>0. Len(ref) \in Nat /\ Len(out) \in Nat  BY DEF Texts
<1>1. Len(ref) \in Nat /\ Len(out) \in Nat /\ n \in Nat /\ Rank(ref, n) \in Nat  BY <1>0, RankStep
<1>2. \A l \in 0..Len(out) : Rank(out, l) = l  BY RankPlain
<1>3. Covered(ref, out)
  <2> SUFFICES ASSUME NEW k \in 1..Len(ref), ref[k] # CR
               PROVE  \/ \E l \in 1..Len(out) : out[l] # CR /\ Rank(out, l) = Rank(ref, k) /\ out[l] = ref[k]
                      \/ ref[k] = LF /\ Rank(out, Len(out)) < Rank(ref, k)
    BY DEF Covered
  <2>1. CASE k \in 1..n
    <3>1. Rank(ref, k) \in 1..Len(out) /\ ref[k] = out[Rank(ref, k)]  BY <2>1 DEF Agree
    <3>2. Rank(out, Rank(ref, k)) = Rank(ref, k)  BY <1>1, <1>2, <3>1
    <3>. QED  BY <3>1, <3>2
  <2>2. CASE k \in (n + 1)..Len(ref)
    <3>1. Rank(ref, n) = Len(out) /\ n < k /\ k \in Nat  BY <1>1, <2>2
    <3>2. Rank(ref, n) < Rank(ref, k)  BY <1>1, <3>1, RankGrows
    <3>3. Rank(out, Len(out)) = Len(out) /\ ref[k] = LF  BY <1>1, <1>2, <2>2 DEF LineEnd
    <3>. QED  BY <3>1, <3>2, <3>3
  <2>. QED  BY <1>1, <2>1, <2>2
<1>4. Covered(out, ref)
  <2> SUFFICES ASSUME NEW l \in 1..Len(out)
               PROVE  \/ \E k \in 1..Len(ref) : ref[k] # CR /\ Rank(ref, k) = Rank(out, l) /\ ref[k] = out[l]
                      \/ out[l] = LF /\ Rank(ref, Len(ref)) < Rank(out, l)
    BY DEF Covered
  <2>0. Rank(out, l) = l  BY <1>1, <1>2
  <2>1. CASE l \in 1..Rank(ref, n)
    <3>1. PICK k \in 1..n : ref[k] # CR /\ Rank(ref, k) = l  BY <2>1 DEF Agree
    <3>. QED  BY <1>1, <2>0, <3>1 DEF Agree
  <2>2. CASE l \in (Rank(ref, n) + 1)..Len(out)
    <3>1. n = Len(ref)  BY <1>1, <2>2
    <3>. QED  BY <1>1, <2>0, <2>2, <3>1
  <2>. QED  BY <1>1, <2>1, <2>2
<1>. QED  BY <1>3, <1>4 DEF SameText

\* Every step keeps the output and what was read of the reference in step.
LEMMA SyncStep ==
  ASSUME IndInv, NoCROut, [Next]_vars
  PROVE  InStep'
<1>0. TypeOK /\ InStep /\ (pc = "recv" => size = 0)  BY DEF IndInv
<1>1. ref \in Texts /\ out \in Texts /\ Len(ref) \in Nat /\ Len(out) \in Nat  BY <1>0 DEF TypeOK, Texts
<1>2. ref' = ref /\ out' = out
  BY DEF Next, Call, Receive, Read, ReadEnd, Return, Scan, Seek, Finish, texts, vars
<1>3. \A k \in 0..Len(ref) : Rank(ref, k) \in Nat  BY <1>1, RankStep
<1>d. SameText(ref, out)' <=> SameText(ref, out)  BY <1>2
<1>u. ASSUME UNCHANGED result, pc' # "done", pc # "done" PROVE DoneInv'
  BY <1>0, <1>2, <1>u DEF InStep, DoneInv
<1>4. ASSUME NEW n \in 1..MaxChunk, Receive(n) PROVE InStep'
  BY <1>0, <1>1, <1>2, <1>4, <1>u DEF InStep, Receive, BetweenInv, ScanInv, Agree
<1>5. CASE Read
  <2>1. pos \in 0..Len(ref) /\ tmprx \in Nat /\ size \in Nat  BY <1>0, <1>1 DEF TypeOK
  <2>2. /\ buffer' + j' = pos /\ rd' <= size /\ pos' = buffer' + rd' /\ i' = 0 /\ j' = 0 /\ size' = size
        /\ pc = "read" /\ pc' = "scan" /\ goback' = goback /\ tmprx' = tmprx /\ result' = result /\ pos < Len(ref)
    BY <1>1, <1>5, <2>1, CompareAssumption DEF Read, Smaller
  <2>3. Rank(ref, pos) = tmprx /\ Agree(pos)  BY <1>0, <2>2 DEF InStep, BetweenInv
  <2>4. ScanInv'
    <3>1. Rank(ref, buffer + j)' = tmprx' + i' /\ Agree(buffer + j)'
      BY <1>2, <2>1, <2>2, <2>3 DEF Agree
    <3>. QED  BY <2>1, <2>2, <3>1 DEF ScanInv
  <2>. QED  BY <1>0, <1>u, <2>2, <2>4 DEF InStep, BetweenInv
<1>6. CASE ReadEnd
  <2>1. /\ pc = "read" /\ size > 0 /\ pos = Len(ref) /\ pos' = pos /\ goback' = goback
        /\ tmprx \in Nat /\ size \in Nat /\ tmprx + size <= Len(out)
    BY <1>0, <1>1, <1>6 DEF TypeOK, ReadEnd
  <2>2. Rank(ref, pos) \in Nat /\ Rank(ref, pos) <= tmprx /\ Agree(pos) /\ \A k \in (Rank(ref, pos) + 1)..tmprx : out[k] = LF
    BY <1>0, <1>1, <1>3, <2>1 DEF InStep, BetweenInv
  <2>3. CASE /\ \A k \in (tmprx + 1)..(tmprx + size) : out[k] \in LineEnd
             /\ pc' = "recv" /\ tmprx' = tmprx + size /\ UNCHANGED result
    <3>1. \A k \in (tmprx + 1)..(tmprx + size) : out[k] = LF  BY <1>1, <2>1, <2>3 DEF LineEnd, NoCROut
    <3>2. \A k \in (Rank(ref, pos) + 1)..(tmprx + size) : out[k] = LF
      BY <2>1, <2>2, <3>1
    <3>3. BetweenInv'
      BY <1>2, <1>1, <2>1, <2>2, <2>3, <3>2 DEF BetweenInv, Agree
    <3>. QED  BY <1>0, <1>u, <2>1, <2>3, <3>3 DEF InStep, ScanInv
  <2>4. CASE /\ ~\A k \in (tmprx + 1)..(tmprx + size) : out[k] \in LineEnd
             /\ pc' = "done" /\ result' = "differ"
    <3>1. PICK k \in (tmprx + 1)..(tmprx + size) : out[k] \notin LineEnd  BY <2>4
    <3>2. k \in 1..Len(out) /\ Rank(ref, Len(ref)) < k  BY <1>1, <2>1, <2>2
    <3>3. ~SameText(ref, out)  BY <1>1, <3>1, <3>2, Different
    <3>. QED  BY <1>0, <1>d, <2>1, <2>4, <3>3 DEF InStep, BetweenInv, ScanInv, DoneInv
  <2>. QED  BY <1>6, <2>3, <2>4 DEF ReadEnd
<1>7. CASE Return
  BY <1>0, <1>1, <1>2, <1>7, <1>u DEF InStep, Return, BetweenInv, ScanInv, Agree, texts
<1>8. CASE Scan
  <2> DEFINE n == buffer + j
             m == tmprx + i
  <2>1. /\ pc = "scan" /\ j < rd /\ i < size
        /\ UNCHANGED <<ref, out, pos, tmprx, size, buffer, rd>>
    BY <1>8 DEF Scan, texts
  <2>2. /\ n \in Nat /\ n + 1 \in 1..Len(ref) /\ m \in Nat /\ m + 1 \in 1..Len(out) /\ i \in Nat /\ j \in Nat
        /\ buffer \in Nat /\ tmprx \in Nat
    BY <1>0, <1>1, <2>1 DEF TypeOK
  <2>3. Rank(ref, n) = m /\ Agree(n) /\ pos = buffer + rd /\ rd <= size /\ i <= j
    BY <1>0, <2>1 DEF InStep, ScanInv
  <2>4. out[m + 1] # CR  BY <2>2 DEF NoCROut
  <2>5. CASE /\ ref[n + 1] = CR
             /\ j' = j + 1 /\ UNCHANGED <<pc, i, goback, result>>
    <3>1. Rank(ref, n + 1) = m /\ Agree(n + 1)
      <4>1. n < Len(ref)  BY <1>1, <2>2
      <4>2. Agree(n + 1)  BY ONLY <1>1, <2>2, <2>3, <2>5, <4>1, AgreeMore
      <4>3. Rank(ref, n + 1) = m  BY <2>2, <2>3, <2>5, RankStep
      <4>. QED  BY <4>2, <4>3
    <3>2. Rank(ref, buffer + j)' = m /\ Agree(buffer + j)'
      <4>1. buffer' + j' = n + 1  BY <2>1, <2>2, <2>5
      <4>. QED  BY <1>2, <3>1, <4>1 DEF Agree
    <3>. QED  BY <1>0, <1>u, <2>1, <2>2, <2>3, <2>5, <3>2 DEF InStep, ScanInv, BetweenInv
  <2>6. CASE /\ ref[n + 1] # CR /\ out[m + 1] = ref[n + 1]
             /\ i' = i + 1 /\ j' = j + 1 /\ UNCHANGED <<pc, goback, result>>
    <3>1. Rank(ref, n + 1) = m + 1 /\ Agree(n + 1)
      <4>1. n < Len(ref)  BY <1>1, <2>2
      <4>2. Agree(n + 1)  BY ONLY <1>1, <2>2, <2>3, <2>6, <4>1, AgreeMore
      <4>3. Rank(ref, n + 1) = m + 1  BY <2>2, <2>3, <2>6, RankStep
      <4>. QED  BY <4>2, <4>3
    <3>2. Rank(ref, buffer + j)' = m + 1 /\ Agree(buffer + j)'
      <4>1. buffer' + j' = n + 1  BY <2>1, <2>2, <2>6
      <4>. QED  BY <1>2, <3>1, <4>1 DEF Agree
    <3>. QED  BY <1>0, <1>u, <2>1, <2>2, <2>3, <2>6, <3>2 DEF InStep, ScanInv, BetweenInv
  <2>7. CASE /\ ref[n + 1] # CR /\ out[m + 1] # ref[n + 1]
             /\ result' = "differ" /\ pc' = "done" /\ UNCHANGED <<i, j, goback>>
    <3>1. Rank(ref, n + 1) = m + 1  BY <2>2, <2>3, <2>7, RankStep
    <3>2. ~SameText(ref, out)  BY <1>1, <2>2, <2>7, <3>1, Different
    <3>. QED  BY <1>0, <1>d, <2>7, <3>2 DEF InStep, BetweenInv, ScanInv, DoneInv
  <2>. QED  BY ONLY <1>8, <2>4, <2>5, <2>6, <2>7 DEF Scan
<1>9. CASE Seek
  <2>1. /\ pc = "scan" /\ (j = rd \/ i = size) /\ pos' = pos /\ tmprx' = tmprx + i /\ pc' = "read"
        /\ goback' = goback /\ result' = result
    BY <1>0, <1>1, <1>9 DEF Seek, InStep, TypeOK
  <2>2. /\ pos = buffer + rd /\ rd <= size /\ i <= j /\ Rank(ref, buffer + j) = tmprx + i
        /\ Agree(buffer + j)
    BY <1>0, <2>1 DEF InStep, ScanInv
  <2>3. j = rd /\ pos \in Nat /\ tmprx + i \in Nat  BY <1>0, <1>1, <2>1, <2>2 DEF TypeOK
  <2>4. BetweenInv'  BY <1>2, <1>1, <2>1, <2>2, <2>3 DEF BetweenInv, Agree
  <2>. QED  BY <1>0, <1>u, <2>1, <2>4 DEF InStep, ScanInv
<1>10. CASE Finish
  <2>1. /\ pc = "recv" /\ tmprx = Len(out) /\ pc' = "done" /\ goback' = goback /\ pos \in 0..Len(ref)
        /\ result' = IF \A k \in (pos + 1)..Len(ref) : ref[k] \in LineEnd THEN "equal" ELSE "differ"
    BY <1>0, <1>10 DEF Finish, TypeOK
  <2>2. /\ Rank(ref, pos) <= Len(out) /\ (pos < Len(ref) => Rank(ref, pos) = Len(out)) /\ Agree(pos)
        /\ \A k \in (Rank(ref, pos) + 1)..Len(out) : out[k] = LF
    BY <1>0, <2>1 DEF InStep, BetweenInv
  <2>3. CASE \A k \in (pos + 1)..Len(ref) : ref[k] \in LineEnd
    <3>1. SameText(ref, out)  BY <1>1, <2>1, <2>2, <2>3, Same
    <3>. QED  BY <1>0, <1>d, <2>1, <2>3, <3>1 DEF InStep, BetweenInv, ScanInv, DoneInv
  <2>4. CASE ~\A k \in (pos + 1)..Len(ref) : ref[k] \in LineEnd
    <3>1. PICK k \in (pos + 1)..Len(ref) : ref[k] \notin LineEnd  BY <2>4
    <3>2. k \in 1..Len(ref) /\ pos \in Nat /\ k \in Nat /\ pos < k /\ pos < Len(ref)  BY <1>1, <2>1
    <3>3. Rank(ref, pos) < Rank(ref, k)  BY <3>1, <3>2, RankGrows DEF LineEnd
    <3>4. ~SameText(ref, out)  BY <1>1, <2>2, <3>1, <3>2, <3>3, Different
    <3>. QED  BY <1>0, <1>d, <2>1, <2>4, <3>4 DEF InStep, BetweenInv, ScanInv, DoneInv
  <2>. QED  BY <2>3, <2>4
<1>11. CASE UNCHANGED vars
  BY <1>0, <1>11 DEF vars, InStep, BetweenInv, ScanInv, DoneInv, Agree
<1>. QED  BY <1>4, <1>5, <1>6, <1>7, <1>8, <1>9, <1>10, <1>11 DEF Next, Call

\* Cursor and offset are in step in every state of the calls of compare_output, for
\* an output without carriage returns.
THEOREM IndInvHolds == Spec => []IndInv
<1>1. IndInv /\ [Next]_vars => IndInv'
  <2> SUFFICES ASSUME IndInv, [Next]_vars PROVE IndInv'
    OBVIOUS
  <2>1. TypeOK' /\ (pc = "recv" => size = 0)' BY TypeStep
  <2>2. ref' = ref /\ out' = out
    BY DEF Next, Call, Receive, Read, ReadEnd, Return, Scan, Seek, Finish, texts, vars
  <2>3. NoCROut' => NoCROut BY <2>2 DEF NoCROut
  <2> QED BY <2>1, <2>3, SyncStep DEF IndInv
<1> QED BY InitInd, <1>1, PTL DEF Spec

\* The offsets and indices of compare_output stay within the two texts, with or
\* without carriage returns.
THEOREM TypeCorrect == Spec => []TypeOK
BY IndInvHolds, PTL DEF IndInv

\* For an output without carriage returns, against any reference, the calls of
\* compare_output end with 0 exactly when the texts are equal up to carriage
\* returns and final line ends.
THEOREM RightWithoutCR == Spec => []VerdictRight
<1>1. IndInv => VerdictRight
  BY DEF IndInv, InStep, DoneInv, VerdictRight
<1> QED BY IndInvHolds, <1>1, PTL
=============================================================================
