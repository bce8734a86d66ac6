---------------------------- MODULE ConfigProofs -----------------------------
(***************************************************************************)
(* Proofs about Config, for every ini file and every set of settings.  The *)
(* parser maps the lines with a key, in the file's order, one to one to    *)
(* the pairs of the sections it builds: that map is the inductive          *)
(* invariant.  What the daemon looks up by section and number is therefore *)
(* what the file says by line.                                             *)
(***************************************************************************)
EXTENDS Config, FiniteSetTheorems, TLAPS

Contents == STRING \cup {""}
Section == [name : STRING \cup {Unset}, configs : Seq(STRING \X Contents)]

\* The sections read, with the one in progress, and the number of lines whose
\* meaning is in them: a header in tmp is not.
Secs == IF pc \in {"section", "parse"} THEN Append(ini, cur) ELSE ini
Seen == IF pc = "parse" \/ state = "NEW_SECTION" THEN pos - 2 ELSE pos - 1

LinesTo(n) == {i \in PairLines : i <= n}

\* What the header says that a line stands under.
Heading(i) == IF Heads(i) = {} THEN Unset ELSE text[Under(i)][2]

\* f maps the first lines to the pairs of ss.
Follows(f, n, ss) ==
  /\ f \in [LinesTo(n) -> Places(ss)]
  /\ \A p \in Places(ss) : \E i \in LinesTo(n) : f[i] = p
  /\ \A i, j \in LinesTo(n) : i <= j <=> Before(f[i], f[j])
  /\ \A i \in LinesTo(n) : At(ss, f[i])[1] = text[i][2] /\ Gives(i, At(ss, f[i])[2])
  /\ WellFormed => \A i \in LinesTo(n) : ss[f[i][1]].name = Heading(i)

Types ==
  /\ text \in Texts /\ pos \in 1..(Len(text) + 1)
  /\ cur \in Section /\ ini \in Seq(Section)
  /\ state \in {"START", "IN_SECTION", "NEW_SECTION", "END_OF_FILE"}
  /\ pc \in {"ini", "section", "parse", "loaded", "start", "up", "failed", "crashed"}

\* Where the parser is in the file, and what it holds in tmp.
Held ==
  /\ pc = "ini" => state # "IN_SECTION"
  /\ pc \notin {"ini", "section", "parse"} => state = "END_OF_FILE"
  /\ pc = "parse" \/ state = "NEW_SECTION" => pos > 1 /\ tmp = text[pos - 1]
  /\ state = "NEW_SECTION" => tmp[1] = "section"
  /\ state = "NEW_SECTION" /\ pc \in {"section", "parse"} => cur = NewSection
  /\ state = "END_OF_FILE" => pos = Len(text) + 1
  /\ state = "END_OF_FILE" /\ pc = "parse" => ~ended

\* The name of the section in progress is that of the last header seen.
Naming ==
  /\ state = "START" => Heads(Seen) = {}
  /\ state = "IN_SECTION" => Heads(Seen) # {}
  /\ pc \in {"section", "parse"} /\ state # "NEW_SECTION" =>
       /\ cur.name = Heading(Seen)
       /\ Heads(Seen) # {} => cur.name # Unset
  /\ WellFormed => \A a \in 1..Len(ini) : ini[a].name # Unset

ParseInv == Types /\ Held /\ Naming /\ \E f : Follows(f, Seen, Secs)

-----------------------------------------------------------------------------
(* Places and their order.                                                 *)

\* The lines of a file.
LEMMA TextLines ==
  ASSUME NEW t \in Texts
  PROVE  Len(t) \in Nat /\ \A i \in 1..Len(t) : t[i] \in Kinds \X STRING \X STRING
<1>1. t \in Seq(Kinds \X STRING \X STRING)  BY ConfigAssumption
<1>. QED  BY <1>1

\* What a place is.
LEMMA PlaceOf ==
  ASSUME NEW ss \in Seq(Section)
  PROVE  /\ \A p \in Places(ss) : /\ p[1] \in 1..Len(ss) /\ p[2] \in 1..Len(ss[p[1]].configs)
                                  /\ p = <<p[1], p[2]>> /\ p[1] \in Nat /\ p[2] \in Nat
         /\ \A a \in 1..Len(ss) : \A b \in 1..Len(ss[a].configs) : <<a, b>> \in Places(ss)
<1>1. ASSUME NEW p \in Places(ss)
      PROVE  /\ p[1] \in 1..Len(ss) /\ p[2] \in 1..Len(ss[p[1]].configs)
             /\ p = <<p[1], p[2]>> /\ p[1] \in Nat /\ p[2] \in Nat
  <2>1. PICK a \in 1..Len(ss) : p \in {a} \X (1..Len(ss[a].configs))  BY DEF Places
  <2>2. p[1] = a /\ p[2] \in 1..Len(ss[a].configs) /\ p = <<p[1], p[2]>>  BY <2>1
  <2>. QED  BY <2>2
<1>2. ASSUME NEW a \in 1..Len(ss), NEW b \in 1..Len(ss[a].configs) PROVE <<a, b>> \in Places(ss)
  <2>1. <<a, b>> \in {a} \X (1..Len(ss[a].configs))  OBVIOUS
  <2>. QED  BY <2>1 DEF Places
<1>. QED  BY <1>1, <1>2

\* What is at a place.
LEMMA PairAt ==
  ASSUME NEW ss \in Seq(Section), NEW p \in Places(ss)
  PROVE  At(ss, p) \in STRING \X Contents
<1>1. p[1] \in 1..Len(ss) /\ p[2] \in 1..Len(ss[p[1]].configs)  BY PlaceOf
<1>2. ss[p[1]] \in Section  BY <1>1
<1>3. ss[p[1]].configs \in Seq(STRING \X Contents)  BY <1>2 DEF Section
<1>. QED  BY <1>1, <1>3 DEF At

\* Before is a total order of places.
LEMMA BeforeTotal ==
  ASSUME NEW p \in Nat \X Nat, NEW q \in Nat \X Nat, NEW r \in Nat \X Nat
  PROVE  /\ Before(p, p) /\ (Before(p, q) \/ Before(q, p))
         /\ Before(p, q) /\ Before(q, p) => p = q
         /\ Before(p, q) /\ Before(q, r) => Before(p, r)
<1>1. p = <<p[1], p[2]>> /\ q = <<q[1], q[2]>>  OBVIOUS
<1>2. p[1] \in Nat /\ p[2] \in Nat /\ q[1] \in Nat /\ q[2] \in Nat /\ r[1] \in Nat /\ r[2] \in Nat  OBVIOUS
<1>. QED  BY <1>1, <1>2 DEF Before

\* The numbers of the places of a finite set are 1, 2, ... in their order.
LEMMA Numbers ==
  ASSUME NEW P \in SUBSET (Nat \X Nat), IsFiniteSet(P)
  PROVE  /\ Cardinality(P) \in Nat
         /\ \A p \in P : Number(P, p) \in 1..Cardinality(P)
         /\ \A p, q \in P : Before(p, q) /\ p # q => Number(P, p) < Number(P, q)
         /\ \A p, q \in P : Number(P, p) = Number(P, q) => p = q
         /\ \A n \in 1..Cardinality(P) : \E p \in P : Number(P, p) = n
<1> DEFINE S(p) == {q \in P : Before(q, p)}
<1>0. Cardinality(P) \in Nat  BY FS_CardinalityType
<1>1. ASSUME NEW p \in P
      PROVE  IsFiniteSet(S(p)) /\ Number(P, p) \in 1..Cardinality(P)
  <2>1. S(p) \in SUBSET P /\ p \in S(p)  BY BeforeTotal
  <2>2. IsFiniteSet(S(p)) /\ Cardinality(S(p)) <= Cardinality(P) /\ Cardinality(S(p)) \in Nat
    BY <2>1, FS_Subset, FS_CardinalityType
  <2>3. Cardinality(S(p)) # 0  BY <2>1, <2>2, FS_EmptySet
  <2>. QED  BY <1>0, <2>2, <2>3 DEF Number
<1>n. \A p \in P : Number(P, p) \in 1..Cardinality(P)  BY <1>1
<1>2. ASSUME NEW p \in P, NEW q \in P, Before(p, q), p # q PROVE Number(P, p) < Number(P, q)
  <2>1. S(p) \in SUBSET S(q)  BY <1>2, BeforeTotal
  <2>2. q \in S(q) /\ q \notin S(p)  BY <1>2, BeforeTotal
  <2>3. Cardinality(S(p)) <= Cardinality(S(q)) /\ Cardinality(S(p)) # Cardinality(S(q))
    BY <1>1, <2>1, <2>2, FS_Subset
  <2>4. Number(P, p) <= Number(P, q) /\ Number(P, p) # Number(P, q)  BY <2>3 DEF Number
  <2>5. Number(P, p) \in Nat /\ Number(P, q) \in Nat  BY <1>0, <1>n
  <2> HIDE DEF S
  <2>. QED  BY <2>4, <2>5
<1>3. ASSUME NEW p \in P, NEW q \in P, Number(P, p) = Number(P, q) PROVE p = q
  <2>1. Number(P, p) \in Nat  BY <1>0, <1>n
  <2>2. p # q => Before(p, q) \/ Before(q, p)  BY BeforeTotal
  <2>. QED  BY <1>2, <1>3, <2>1, <2>2
<1>4. \A n \in 1..Cardinality(P) : \E p \in P : Number(P, p) = n
  <2> DEFINE g == [p \in P |-> Number(P, p)]
  <2>1. g \in Injection(P, 1..Cardinality(P))
    <3>1. g \in [P -> 1..Cardinality(P)]  BY <1>n
    <3>2. \A p, q \in P : g[p] = g[q] => p = q  BY <1>3
    <3>. QED  BY <3>1, <3>2 DEF Injection, IsInjective
  <2>2. IsFiniteSet(1..Cardinality(P)) /\ Cardinality(1..Cardinality(P)) = Cardinality(P)
    BY <1>0, FS_Interval
  <2>3. g \in Surjection(P, 1..Cardinality(P))  BY <2>1, <2>2, FS_Injection
  <2>. QED  BY <2>3 DEF Surjection
<1>. QED  BY <1>0, <1>n, <1>2, <1>3, <1>4

\* The place with a number.
LEMMA NthPlace ==
  ASSUME NEW P \in SUBSET (Nat \X Nat), IsFiniteSet(P)
  PROVE  /\ \A n \in 1..Cardinality(P) : Nth(P, n) \in P /\ Number(P, Nth(P, n)) = n
         /\ \A p \in P : Nth(P, Number(P, p)) = p
<1>1. ASSUME NEW n \in 1..Cardinality(P) PROVE Nth(P, n) \in P /\ Number(P, Nth(P, n)) = n
  <2>1. \E p \in P : Number(P, p) = n  BY Numbers
  <2>. QED  BY <2>1 DEF Nth
<1>2. ASSUME NEW p \in P PROVE Nth(P, Number(P, p)) = p
  <2>1. Number(P, p) \in 1..Cardinality(P)  BY Numbers
  <2>2. Nth(P, Number(P, p)) \in P /\ Number(P, Nth(P, Number(P, p))) = Number(P, p)  BY <1>1, <2>1
  <2>. QED  BY <2>2, Numbers
<1>. QED  BY <1>1, <1>2

\* A set of numbers has a least one.
LEMMA Least ==
  ASSUME NEW S \in SUBSET Nat, S # {}
  PROVE  \E i \in S : \A j \in S : i <= j
<1>1. PICK i \in S : \A j \in S : ~(<<j, i>> \in OpToRel(<, Nat))
  BY NatLessThanWellFounded, WFMin
<1>2. \A j \in S : ~(j < i)  BY <1>1 DEF OpToRel
<1>. QED  BY <1>2

-----------------------------------------------------------------------------
(* The map from lines to places.                                           *)

\* One section more.
LEMMA Appended ==
  ASSUME NEW ss \in Seq(Section), NEW c \in Section
  PROVE  LET tt == Append(ss, c) IN
         /\ tt \in Seq(Section) /\ Len(ss) \in Nat
         /\ Places(tt) = Places(ss) \cup {<<Len(ss) + 1, b>> : b \in 1..Len(c.configs)}
         /\ \A p \in Places(ss) : /\ At(tt, p) = At(ss, p) /\ tt[p[1]].name = ss[p[1]].name
                                  /\ p[1] # Len(ss) + 1
         /\ \A b \in 1..Len(c.configs) : At(tt, <<Len(ss) + 1, b>>) = c.configs[b]
         /\ tt[Len(ss) + 1].name = c.name
<1> DEFINE tt == Append(ss, c)
<1>1. /\ tt \in Seq(Section) /\ Len(ss) \in Nat /\ Len(tt) = Len(ss) + 1 /\ tt[Len(ss) + 1] = c
      /\ \A a \in 1..Len(ss) : tt[a] = ss[a]
  OBVIOUS
<1> HIDE DEF tt
<1>2. ASSUME NEW p \in Places(ss)
      PROVE  /\ p \in Places(tt) /\ At(tt, p) = At(ss, p) /\ tt[p[1]].name = ss[p[1]].name /\ p[1] # Len(ss) + 1
  <2>1. p[1] \in 1..Len(ss) /\ p[2] \in 1..Len(ss[p[1]].configs) /\ p = <<p[1], p[2]>>  BY PlaceOf
  <2>2. p[1] \in 1..Len(tt) /\ tt[p[1]] = ss[p[1]] /\ p[1] # Len(ss) + 1  BY <1>1, <2>1
  <2>3. p \in Places(tt)  BY <1>1, <2>1, <2>2, PlaceOf
  <2>. QED  BY <2>2, <2>3 DEF At
<1>3. ASSUME NEW b \in 1..Len(c.configs)
      PROVE  <<Len(ss) + 1, b>> \in Places(tt) /\ At(tt, <<Len(ss) + 1, b>>) = c.configs[b]
  <2>1. Len(ss) + 1 \in 1..Len(tt)  BY <1>1
  <2>. QED  BY <1>1, <2>1, PlaceOf DEF At
<1>4. ASSUME NEW p \in Places(tt) PROVE p \in Places(ss) \cup {<<Len(ss) + 1, b>> : b \in 1..Len(c.configs)}
  <2>1. p[1] \in 1..Len(tt) /\ p[2] \in 1..Len(tt[p[1]].configs) /\ p = <<p[1], p[2]>>  BY <1>1, PlaceOf
  <2>2. CASE p[1] = Len(ss) + 1  BY <1>1, <2>1, <2>2
  <2>3. CASE p[1] # Len(ss) + 1
    <3>1. p[1] \in 1..Len(ss) /\ tt[p[1]] = ss[p[1]]  BY <1>1, <2>1, <2>3
    <3>2. <<p[1], p[2]>> \in Places(ss)  BY <2>1, <3>1, PlaceOf
    <3>. QED  BY <2>1, <3>2
  <2>. QED  BY <2>2, <2>3
<1>5. Places(tt) = Places(ss) \cup {<<Len(ss) + 1, b>> : b \in 1..Len(c.configs)}  BY <1>2, <1>3, <1>4
<1>. QED  BY <1>1, <1>2, <1>3, <1>5 DEF tt

\* The lines with a key among one more line.
LEMMA NextLine ==
  ASSUME text \in Texts, NEW n \in Nat
  PROVE  /\ LinesTo(n) \subseteq 1..n
         /\ n + 1 \notin PairLines => LinesTo(n + 1) = LinesTo(n)
         /\ n + 1 \in PairLines => LinesTo(n + 1) = LinesTo(n) \cup {n + 1}
<1>1. Len(text) \in Nat  BY TextLines
<1>2. PairLines \subseteq 1..Len(text) /\ PairLines \subseteq Nat  BY <1>1 DEF PairLines
<1>3. \A i \in Nat : i <= n + 1 <=> i <= n \/ i = n + 1  OBVIOUS
<1>4. \A i \in LinesTo(n) : i \in 1..n  BY <1>1, <1>2 DEF LinesTo, PairLines
<1>5. \A i : i \in LinesTo(n + 1) <=> i \in LinesTo(n) \/ (i = n + 1 /\ i \in PairLines)
  BY <1>2, <1>3 DEF LinesTo
<1>. QED  BY <1>4, <1>5

\* The header over one more line.
LEMMA NextHeading ==
  ASSUME NEW n \in Nat
  PROVE  /\ text[n + 1][1] # "section" => Heads(n + 1) = Heads(n) /\ Heading(n + 1) = Heading(n)
         /\ text[n + 1][1] = "section" => Heads(n + 1) # {} /\ Heading(n + 1) = text[n + 1][2]
<1>1. \A i \in 1..(n + 1) : i \in 1..n \/ i = n + 1  OBVIOUS
<1>2. ASSUME text[n + 1][1] # "section" PROVE Heads(n + 1) = Heads(n) /\ Heading(n + 1) = Heading(n)
  <2>1. Heads(n + 1) = Heads(n)  BY <1>1, <1>2 DEF Heads
  <2>2. Under(n + 1) = Under(n)  BY <2>1 DEF Under
  <2>. QED  BY <2>1, <2>2 DEF Heading
<1>3. ASSUME text[n + 1][1] = "section" PROVE Heads(n + 1) # {} /\ Heading(n + 1) = text[n + 1][2]
  <2>1. n + 1 \in Heads(n + 1) /\ \A l \in Heads(n + 1) : l <= n + 1 /\ l \in Nat  BY <1>3 DEF Heads
  <2>2. \A j \in Heads(n + 1) : (\A l \in Heads(n + 1) : l <= j) => j = n + 1  BY <2>1
  <2>3. Under(n + 1) = n + 1  BY <2>1, <2>2 DEF Under, Greatest
  <2>. QED  BY <2>1, <2>3 DEF Heading
<1>. QED  BY <1>2, <1>3

\* The map is kept where no pair is added and none is moved.
LEMMA Unmoved ==
  ASSUME NEW f, NEW n, NEW m, NEW ss, NEW tt, Follows(f, n, ss),
         LinesTo(m) = LinesTo(n), Places(tt) = Places(ss),
         \A p \in Places(ss) : At(tt, p) = At(ss, p),
         WellFormed => \A p \in Places(ss) : tt[p[1]].name = ss[p[1]].name
  PROVE  Follows(f, m, tt)
<1>1. \A i \in LinesTo(n) : f[i] \in Places(ss)  BY DEF Follows
<1>2. WellFormed => \A i \in LinesTo(n) : tt[f[i][1]].name = Heading(i)  BY <1>1 DEF Follows
<1>3. \A i \in LinesTo(n) : At(tt, f[i]) = At(ss, f[i])  BY <1>1
<1>4. \A i \in LinesTo(n) : At(tt, f[i])[1] = text[i][2] /\ Gives(i, At(tt, f[i])[2])  BY <1>3 DEF Follows
<1>. QED  BY <1>2, <1>4 DEF Follows

\* A pair more in the last section follows one line more.
LEMMA OneMore ==
  ASSUME text \in Texts, NEW f, NEW n \in Nat, NEW ss \in Seq(Section), NEW c \in Section,
         Follows(f, n, Append(ss, c)), n + 1 \in PairLines,
         NEW v \in Contents, Gives(n + 1, v), text[n + 1][2] \in STRING,
         WellFormed => c.name = Heading(n + 1)
  PROVE  \E g : Follows(g, n + 1, Append(ss, [c EXCEPT !.configs = Append(c.configs, <<text[n + 1][2], v>>)]))
<1> DEFINE d == [c EXCEPT !.configs = Append(c.configs, <<text[n + 1][2], v>>)]
           old == Append(ss, c)
           new == Append(ss, d)
           q == <<Len(ss) + 1, Len(c.configs) + 1>>
           g == [i \in LinesTo(n + 1) |-> IF i = n + 1 THEN q ELSE f[i]]
<1>1. /\ d \in Section /\ d.name = c.name /\ Len(c.configs) \in Nat /\ Len(d.configs) = Len(c.configs) + 1
      /\ d.configs[Len(c.configs) + 1] = <<text[n + 1][2], v>>
      /\ \A b \in 1..Len(c.configs) : d.configs[b] = c.configs[b]
  <2>1. c.configs \in Seq(STRING \X Contents) /\ <<text[n + 1][2], v>> \in STRING \X Contents  BY DEF Section
  <2>2. d.configs = Append(c.configs, <<text[n + 1][2], v>>) /\ d.name = c.name  BY DEF Section
  <2>3. d.configs \in Seq(STRING \X Contents)  BY <2>1, <2>2
  <2>4. d \in Section  BY <2>3 DEF Section
  <2> HIDE DEF d
  <2>. QED  BY <2>1, <2>2, <2>4
<1> HIDE DEF d
<1>2. /\ Places(old) = Places(ss) \cup {<<Len(ss) + 1, b>> : b \in 1..Len(c.configs)}
      /\ Places(new) = Places(ss) \cup {<<Len(ss) + 1, b>> : b \in 1..Len(d.configs)}
      /\ new \in Seq(Section) /\ old \in Seq(Section) /\ Len(ss) \in Nat
      /\ new[Len(ss) + 1].name = c.name /\ old[Len(ss) + 1].name = c.name
  BY <1>1, Appended
<1>3. /\ \A p \in Places(ss) : /\ At(new, p) = At(ss, p) /\ new[p[1]].name = ss[p[1]].name
                               /\ At(old, p) = At(ss, p) /\ old[p[1]].name = ss[p[1]].name
      /\ \A b \in 1..Len(d.configs) : At(new, <<Len(ss) + 1, b>>) = d.configs[b]
      /\ \A b \in 1..Len(c.configs) : At(old, <<Len(ss) + 1, b>>) = c.configs[b]
  <2>1. \A p \in Places(ss) : At(new, p) = At(ss, p) /\ new[p[1]].name = ss[p[1]].name  BY <1>1, Appended, ZenonT(40)
  <2>2. \A p \in Places(ss) : At(old, p) = At(ss, p) /\ old[p[1]].name = ss[p[1]].name  BY Appended
  <2>3. \A b \in 1..Len(d.configs) : At(new, <<Len(ss) + 1, b>>) = d.configs[b]  BY <1>1, Appended
  <2>4. \A b \in 1..Len(c.configs) : At(old, <<Len(ss) + 1, b>>) = c.configs[b]  BY Appended
  <2>. QED  BY <2>1, <2>2, <2>3, <2>4
<1> HIDE DEF old, new
<1>4. Places(new) = Places(old) \cup {q}
  <2>1. \A b : b \in 1..Len(d.configs) <=> b \in 1..Len(c.configs) \/ b = Len(c.configs) + 1  BY <1>1
  <2>. QED  BY <1>2, <2>1
<1>5. At(new, q) = <<text[n + 1][2], v>> /\ new[q[1]].name = c.name
  <2>1. Len(c.configs) + 1 \in 1..Len(d.configs)  BY <1>1
  <2>. QED  BY <1>1, <1>2, <1>3, <2>1
<1>6. ASSUME NEW p \in Places(old)
      PROVE  /\ At(new, p) = At(old, p) /\ new[p[1]].name = old[p[1]].name
             /\ Before(p, q) /\ ~Before(q, p)
  <2>1. CASE p \in Places(ss)
    <3>1. p[1] \in 1..Len(ss)  BY <2>1, PlaceOf
    <3>2. p[1] < q[1]  BY <1>2, <3>1
    <3>3. p[1] \in Nat /\ q[1] \in Nat  BY <1>2, <3>1
    <3>. QED  BY <1>3, <2>1, <3>2, <3>3 DEF Before
  <2>2. CASE \E b \in 1..Len(c.configs) : p = <<Len(ss) + 1, b>>
    <3>1. PICK b \in 1..Len(c.configs) : p = <<Len(ss) + 1, b>>  BY <2>2
    <3>2. b \in 1..Len(d.configs) /\ d.configs[b] = c.configs[b] /\ b < Len(c.configs) + 1  BY <1>1
    <3>3. At(new, p) = At(old, p) /\ new[p[1]].name = old[p[1]].name  BY <1>2, <1>3, <3>1, <3>2
    <3>4. Before(p, q) /\ ~Before(q, p)  BY <1>1, <1>2, <3>1, <3>2 DEF Before
    <3>. QED  BY <3>3, <3>4
  <2>. QED  BY <1>2, <2>1, <2>2
<1>7. /\ LinesTo(n + 1) = LinesTo(n) \cup {n + 1} /\ LinesTo(n) \subseteq 1..n
  BY NextLine
<1>8. \A i \in LinesTo(n) : i # n + 1 /\ g[i] = f[i] /\ f[i] \in Places(old) /\ i <= n + 1 /\ ~(n + 1 <= i)
  BY <1>7 DEF Follows, old
<1>9. g[n + 1] = q  BY <1>7
<1>10. DOMAIN g = LinesTo(n + 1) /\ g = [i \in LinesTo(n + 1) |-> g[i]]  OBVIOUS
<1> HIDE DEF g, q
<1>11. g \in [LinesTo(n + 1) -> Places(new)]
  <2>1. \A i \in LinesTo(n + 1) : g[i] \in Places(new)  BY <1>4, <1>7, <1>8, <1>9
  <2>. QED  BY <1>10, <2>1
<1>12. \A p \in Places(new) : \E i \in LinesTo(n + 1) : g[i] = p
  <2>1. \A p \in Places(old) : \E i \in LinesTo(n) : f[i] = p  BY DEF Follows, old
  <2>. QED  BY <1>4, <1>7, <1>8, <1>9, <2>1
<1>13. Before(q, q)  BY <1>1, <1>2 DEF Before, q
<1>14. ASSUME NEW i \in LinesTo(n + 1), NEW j \in LinesTo(n + 1) PROVE i <= j <=> Before(g[i], g[j])
  <2>1. CASE i \in LinesTo(n) /\ j \in LinesTo(n)  BY <1>8, <2>1 DEF Follows, old
  <2>2. CASE i \in LinesTo(n) /\ j = n + 1  BY <1>6, <1>8, <1>9, <2>2
  <2>3. CASE i = n + 1 /\ j \in LinesTo(n)  BY <1>6, <1>8, <1>9, <2>3
  <2>4. CASE i = n + 1 /\ j = n + 1  BY <1>9, <1>13, <2>4
  <2>. QED  BY <1>7, <2>1, <2>2, <2>3, <2>4
<1>15. \A i \in LinesTo(n + 1) : At(new, g[i])[1] = text[i][2] /\ Gives(i, At(new, g[i])[2])
  <2>1. ASSUME NEW i \in LinesTo(n) PROVE At(new, g[i])[1] = text[i][2] /\ Gives(i, At(new, g[i])[2])
    <3>1. At(new, g[i]) = At(old, f[i])  BY <1>6, <1>8
    <3>. QED  BY <3>1 DEF Follows, old
  <2>2. At(new, g[n + 1])[1] = text[n + 1][2] /\ Gives(n + 1, At(new, g[n + 1])[2])  BY <1>5, <1>9
  <2>. QED  BY <1>7, <2>1, <2>2
<1>16. ASSUME WellFormed PROVE \A i \in LinesTo(n + 1) : new[g[i][1]].name = Heading(i)
  <2>1. ASSUME NEW i \in LinesTo(n) PROVE new[g[i][1]].name = Heading(i)
    <3>1. new[g[i][1]].name = old[f[i][1]].name  BY <1>6, <1>8
    <3>. QED  BY <1>16, <3>1 DEF Follows, old
  <2>2. new[g[n + 1][1]].name = Heading(n + 1)  BY <1>5, <1>9, <1>16
  <2>. QED  BY <1>7, <2>1, <2>2
<1>17. Follows(g, n + 1, new)  BY <1>11, <1>12, <1>14, <1>15, <1>16 DEF Follows
<1>. QED  BY <1>17 DEF new, d

-----------------------------------------------------------------------------
(* The parser.                                                             *)

\* The file does not change, so that what is said of it may be said of its value.
LEMMA Carry ==
  ASSUME UNCHANGED <<text, ended>>, Types', Held', NEW n, NEW ss, Seen' = n, Secs' = ss,
         \E f : Follows(f, n, ss),
         state' = "START" => Heads(n) = {}, state' = "IN_SECTION" => Heads(n) # {},
         pc' \in {"section", "parse"} /\ state' # "NEW_SECTION" =>
           cur'.name = Heading(n) /\ (Heads(n) # {} => cur'.name # Unset),
         WellFormed => \A a \in 1..Len(ini') : ini'[a].name # Unset
  PROVE  ParseInv'
<1>1. Heads(Seen)' = Heads(n)  BY DEF Heads
<1>2. Under(Seen)' = Under(n)  BY <1>1 DEF Under
<1>3. Heading(Seen)' = Heading(n)  BY <1>1, <1>2 DEF Heading
<1>4. PairLines' = PairLines  BY DEF PairLines
<1>5. LinesTo(Seen)' = LinesTo(n)  BY <1>4 DEF LinesTo
<1>6. \A i : Heads(i)' = Heads(i)  BY DEF Heads
<1>7. \A i : Under(i)' = Under(i)  BY <1>6 DEF Under
<1>8. \A i : Heading(i)' = Heading(i)  BY <1>6, <1>7 DEF Heading
<1>9. WellFormed' <=> WellFormed  BY <1>4, <1>7 DEF WellFormed
<1>10. Naming'  BY <1>1, <1>3, <1>9 DEF Naming
<1>11. PICK f : Follows(f, n, ss)  OBVIOUS
<1>12. Follows(f, Seen, Secs)'
  <2>1. Places(Secs)' = Places(ss)  BY DEF Places
  <2>4. \A i \in LinesTo(n) : (At(Secs, f[i])[1])' = text[i][2] /\ Gives(i, At(Secs, f[i])[2])'
    <3> SUFFICES ASSUME NEW i \in LinesTo(n) PROVE (At(Secs, f[i])[1])' = text[i][2] /\ Gives(i, At(Secs, f[i])[2])'
      OBVIOUS
    <3>1. At(ss, f[i])[1] = text[i][2] /\ Gives(i, At(ss, f[i])[2])  BY <1>11 DEF Follows
    <3>. QED  BY <3>1 DEF At, Gives
  <2>5. WellFormed' => \A i \in LinesTo(n) : (Secs[f[i][1]].name)' = Heading(i)  BY <1>9, <1>11 DEF Follows
  <2>. QED  BY <1>5, <1>8, <1>11, <2>1, <2>4, <2>5 DEF Follows
<1>. QED  BY <1>10, <1>12 DEF ParseInv

\* What the steps of the parser need.
LEMMA Facts ==
  ASSUME ParseInv
  PROVE  /\ Types /\ Held /\ Naming /\ Len(text) \in Nat /\ Seen \in Nat /\ pos \in Nat
         /\ \A i \in 1..Len(text) : text[i] \in Kinds \X STRING \X STRING
         /\ NewSection \in Section
         /\ pc = "parse" \/ state = "NEW_SECTION" => Seen + 1 = pos - 1 /\ Seen + 1 \in 1..Len(text) /\ tmp = text[Seen + 1]
<1>1. Types /\ Held /\ Naming  BY DEF ParseInv
<1>2. Len(text) \in Nat /\ \A i \in 1..Len(text) : text[i] \in Kinds \X STRING \X STRING
  BY <1>1, TextLines DEF Types
<1>3. NewSection \in Section  BY DEF NewSection, Section
<1>4. pos \in 1..(Len(text) + 1) /\ pos \in Nat  BY <1>1, <1>2 DEF Types
<1>5. pc = "parse" \/ state = "NEW_SECTION" => pos > 1 /\ tmp = text[pos - 1]  BY <1>1 DEF Held
<1>6. Seen \in Nat  BY <1>4, <1>5 DEF Seen
<1>7. pc = "parse" \/ state = "NEW_SECTION" => Seen + 1 = pos - 1 /\ pos - 1 \in 1..Len(text)
  BY <1>2, <1>4, <1>5 DEF Seen
<1>. QED  BY <1>1, <1>2, <1>3, <1>4, <1>5, <1>6, <1>7

\* parse_ini opens a section without pairs, or is done.
LEMMA ParseIniKeeps ==
  ASSUME ParseInv, ParseIni
  PROVE  ParseInv'
<1> USE Facts DEF bootVars
<1>0. pc = "ini" /\ UNCHANGED <<text, ended, pos, state, tmp, ini>>  BY DEF ParseIni
<1>f. PICK f : Follows(f, Seen, ini)  BY <1>0 DEF ParseInv, Secs
<1>1. CASE state \in {"START", "NEW_SECTION"} /\ cur' = NewSection /\ pc' = "section"
  <2>1. Types'  BY <1>0, <1>1 DEF Types
  <2>2. Held'  BY <1>0, <1>1 DEF Held
  <2>3. Seen' = Seen /\ Secs' = Append(ini, NewSection)  BY <1>0, <1>1 DEF Seen, Secs
  <2>4. Follows(f, Seen, Append(ini, NewSection))
    <3>0. ini \in Seq(Section) /\ NewSection.configs = <<>>  BY DEF Types, NewSection
    <3>1. 1..Len(NewSection.configs) = {}  BY <3>0
    <3>a. Places(Append(ini, NewSection)) = Places(ini) \cup {<<Len(ini) + 1, b>> : b \in 1..Len(NewSection.configs)}
      BY <3>0, Appended
    <3>2. Places(Append(ini, NewSection)) = Places(ini)  BY <3>1, <3>a
    <3>3. \A p \in Places(ini) : At(Append(ini, NewSection), p) = At(ini, p)  BY <3>0, Appended
    <3>4. \A p \in Places(ini) : Append(ini, NewSection)[p[1]].name = ini[p[1]].name  BY <3>0, Appended
    <3>. QED  BY <1>f, <3>2, <3>3, <3>4, Unmoved
  <2>5. state' = "START" => Heads(Seen) = {}  BY <1>0 DEF Naming
  <2>6. state' # "NEW_SECTION" => cur'.name = Heading(Seen) /\ Heads(Seen) = {}
    <3>1. state' # "NEW_SECTION" => Heads(Seen) = {}  BY <1>0, <1>1 DEF Naming
    <3>. QED  BY <1>1, <3>1 DEF Heading, NewSection
  <2>7. state' # "IN_SECTION"  BY <1>0, <1>1
  <2>8. WellFormed => \A a \in 1..Len(ini') : ini'[a].name # Unset  BY <1>0 DEF Naming
  <2>. QED  BY <1>0, <2>1, <2>2, <2>3, <2>4, <2>5, <2>6, <2>7, <2>8, Carry
<1>2. CASE state \notin {"START", "NEW_SECTION"} /\ pc' = "loaded" /\ UNCHANGED cur
  <2>1. Types'  BY <1>0, <1>2 DEF Types
  <2>2. Held'  BY <1>0, <1>2 DEF Held, Types
  <2>3. Seen' = Seen /\ Secs' = ini  BY <1>0, <1>2 DEF Seen, Secs
  <2>4. state' \notin {"START", "IN_SECTION"}  BY <1>0, <1>2 DEF Held
  <2>8. WellFormed => \A a \in 1..Len(ini') : ini'[a].name # Unset  BY <1>0 DEF Naming
  <2>. QED  BY <1>0, <1>2, <1>f, <2>1, <2>2, <2>3, <2>4, <2>8, Carry
<1>. QED  BY <1>1, <1>2 DEF ParseIni

\* read_line sees a line of blanks at once; any other is in tmp until it is parsed.
LEMMA ReadLineKeeps ==
  ASSUME ParseInv, ReadLine
  PROVE  ParseInv'
<1> USE Facts DEF bootVars
<1>0. pc = "section" /\ state \in {"START", "IN_SECTION"} /\ UNCHANGED <<text, ended, cur, ini>>  BY DEF ReadLine
<1>f. PICK f : Follows(f, Seen, Append(ini, cur))  BY <1>0 DEF ParseInv, Secs
<1>n. /\ Seen = pos - 1 /\ cur.name = Heading(Seen) /\ (Heads(Seen) # {} => cur.name # Unset)
      /\ state = "START" => Heads(Seen) = {}
      /\ state = "IN_SECTION" => Heads(Seen) # {}
      /\ WellFormed => \A a \in 1..Len(ini') : ini'[a].name # Unset
  BY <1>0 DEF Naming, Seen
<1>1. CASE pos > Len(text) /\ state' = "END_OF_FILE" /\ UNCHANGED <<pos, tmp, pc>>
  <2>1. Types'  BY <1>0, <1>1 DEF Types
  <2>2. pos = Len(text) + 1  BY <1>1 DEF Types
  <2>3. Held'  BY <1>0, <1>1, <2>2 DEF Held
  <2>4. Seen' = Seen /\ Secs' = Append(ini, cur)  BY <1>0, <1>1 DEF Seen, Secs
  <2>. QED  BY <1>0, <1>1, <1>f, <1>n, <2>1, <2>3, <2>4, Carry
<1>2. CASE /\ pos <= Len(text) /\ tmp' = text[pos] /\ pos' = pos + 1
           /\ state' = IF pos = Len(text) /\ ~ended THEN "END_OF_FILE" ELSE state
           /\ pc' = IF text[pos][1] = "blank" THEN "section" ELSE "parse"
  <2>0. pos \in 1..Len(text) /\ pos + 1 \in 1..(Len(text) + 1) /\ pos + 1 > 1 /\ (pos + 1) - 1 = pos
    BY <1>2 DEF Types
  <2>1. Types'  BY <1>0, <1>2, <2>0 DEF Types
  <2>2. Held'  BY <1>0, <1>2, <2>0 DEF Held
  <2>3. state' # "NEW_SECTION" /\ Secs' = Append(ini, cur)  BY <1>0, <1>2 DEF Secs
  <2>4. state' = "START" => Heads(Seen) = {}  BY <1>0, <1>2, <1>n
  <2>5. state' = "IN_SECTION" => Heads(Seen) # {}  BY <1>0, <1>2, <1>n
  <2>6. CASE text[pos][1] # "blank"
    <3>1. Seen' = Seen  BY <1>0, <1>2, <1>n, <2>6 DEF Seen
    <3>. QED  BY <1>0, <1>f, <1>n, <2>1, <2>2, <2>3, <2>4, <2>5, <3>1, Carry
  <2>7. CASE text[pos][1] = "blank"
    <3>1. Seen' = Seen + 1 /\ Seen + 1 = pos  BY <1>0, <1>2, <1>n, <2>3, <2>7 DEF Seen
    <3>2. Heads(Seen + 1) = Heads(Seen) /\ Heading(Seen + 1) = Heading(Seen)  BY <2>7, <3>1, NextHeading
    <3>3. pos \notin PairLines  BY <2>7 DEF PairLines
    <3>4. LinesTo(Seen + 1) = LinesTo(Seen)  BY <3>1, <3>3, NextLine DEF Types
    <3>5. Follows(f, Seen + 1, Append(ini, cur))  BY <1>f, <3>4, Unmoved
    <3>. QED  BY <1>0, <1>n, <2>1, <2>2, <2>3, <2>4, <2>5, <3>1, <3>2, <3>5, Carry
  <2>. QED  BY <2>6, <2>7
<1>. QED  BY <1>1, <1>2 DEF ReadLine

\* Steps that keep the sections and what is seen of the file.
LEMMA QuietKeeps ==
  ASSUME ParseInv, HeldLine \/ SectionEnd \/ (Header /\ state = "IN_SECTION")
  PROVE  ParseInv'
<1> USE Facts DEF bootVars
<1>f. PICK f : Follows(f, Seen, Secs)  BY DEF ParseInv
<1>1. CASE HeldLine
  <2>0. /\ pc = "section" /\ state = "NEW_SECTION" /\ pc' = "parse"
        /\ UNCHANGED <<text, ended, pos, state, tmp, cur, ini>>
    BY <1>1 DEF HeldLine
  <2>1. Types'  BY <2>0 DEF Types
  <2>2. Held'  BY <2>0 DEF Held
  <2>3. Seen' = Seen /\ Secs' = Secs  BY <2>0 DEF Seen, Secs
  <2>4. WellFormed => \A a \in 1..Len(ini') : ini'[a].name # Unset  BY <2>0 DEF Naming
  <2>. QED  BY <1>f, <2>0, <2>1, <2>2, <2>3, <2>4, Carry
<1>n. ASSUME ini' = Append(ini, cur), cur.name # Unset
      PROVE  WellFormed => \A a \in 1..Len(ini') : ini'[a].name # Unset
  <2>1. ini \in Seq(Section) /\ cur \in Section  BY DEF Types
  <2>2. /\ Len(ini') = Len(ini) + 1 /\ Len(ini) \in Nat /\ ini'[Len(ini) + 1] = cur
        /\ \A a \in 1..Len(ini) : ini'[a] = ini[a]
    BY <1>n, <2>1
  <2>3. \A a \in 1..Len(ini') : a \in 1..Len(ini) \/ a = Len(ini) + 1  BY <2>2
  <2>. QED  BY <1>n, <2>2, <2>3 DEF Naming
<1>2. CASE SectionEnd
  <2>0. /\ pc = "section" /\ state = "END_OF_FILE" /\ pc' = "ini" /\ ini' = Append(ini, cur)
        /\ UNCHANGED <<text, ended, pos, state, tmp, cur>>
    BY <1>2 DEF SectionEnd
  <2>1. Types'
    <3>1. ini \in Seq(Section) /\ cur \in Section  BY DEF Types
    <3>2. ini' \in Seq(Section)  BY <2>0, <3>1
    <3>. QED  BY <2>0, <3>2 DEF Types
  <2>2. Held'  BY <2>0 DEF Held
  <2>3. Seen' = Seen /\ Secs' = Secs /\ Seen = pos - 1  BY <2>0 DEF Seen, Secs
  <2>4. WellFormed => \A a \in 1..Len(ini') : ini'[a].name # Unset
    <3>1. Seen = Len(text)  BY <2>0, <2>3 DEF Held
    <3>2. WellFormed => Heads(Seen) # {}  BY <3>1 DEF WellFormed, Heads
    <3>3. WellFormed => cur.name # Unset  BY <2>0, <3>2 DEF Naming
    <3>. QED  BY <1>n, <2>0, <3>3
  <2>. QED  BY <1>f, <2>0, <2>1, <2>2, <2>3, <2>4, Carry
<1>3. CASE Header /\ state = "IN_SECTION"
  <2>0. /\ pc = "parse" /\ tmp[1] = "section" /\ state = "IN_SECTION" /\ state' = "NEW_SECTION"
        /\ pc' = "ini" /\ ini' = Append(ini, cur) /\ UNCHANGED <<text, ended, pos, tmp, cur>>
    BY <1>3 DEF Header
  <2>1. Types'
    <3>1. ini \in Seq(Section) /\ cur \in Section  BY DEF Types
    <3>2. ini' \in Seq(Section)  BY <2>0, <3>1
    <3>. QED  BY <2>0, <3>2 DEF Types
  <2>2. Held'  BY <2>0 DEF Held
  <2>3. Seen' = Seen /\ Secs' = Secs  BY <2>0 DEF Seen, Secs
  <2>4. WellFormed => \A a \in 1..Len(ini') : ini'[a].name # Unset
    <3>1. cur.name # Unset  BY <2>0 DEF Naming
    <3>. QED  BY <1>n, <2>0, <3>1
  <2>. QED  BY <1>f, <2>0, <2>1, <2>2, <2>3, <2>4, Carry
<1>. QED  BY <1>1, <1>2, <1>3

\* A header names the section in progress, in which a well-formed file has put nothing yet.
LEMMA HeaderNames ==
  ASSUME ParseInv, Header, state # "IN_SECTION"
  PROVE  ParseInv'
<1> USE Facts DEF bootVars
<1>0. /\ pc = "parse" /\ tmp[1] = "section" /\ state' = "IN_SECTION" /\ pc' = "section"
      /\ cur' = [cur EXCEPT !.name = tmp[2]] /\ UNCHANGED <<text, ended, pos, tmp, ini>>
  BY DEF Header
<1>1. /\ cur \in Section /\ ini \in Seq(Section) /\ tmp = text[Seen + 1] /\ tmp[2] \in STRING
      /\ Seen' = Seen + 1 /\ Seen + 1 \in 1..Len(text) /\ Unset \notin STRING
  BY <1>0, ConfigAssumption DEF Types, Seen
<1>2. cur' \in Section /\ cur'.name = tmp[2] /\ cur'.configs = cur.configs  BY <1>0, <1>1 DEF Section
<1>3. Types'  BY <1>0, <1>2 DEF Types
<1>4. Held'  BY <1>0 DEF Held
<1>f. PICK f : Follows(f, Seen, Append(ini, cur))  BY <1>0 DEF ParseInv, Secs
<1>5. Heads(Seen + 1) # {} /\ Heading(Seen + 1) = tmp[2]  BY <1>0, <1>1, NextHeading
<1>6. Seen + 1 \notin PairLines  BY <1>0, <1>1 DEF PairLines
<1>7. LinesTo(Seen + 1) = LinesTo(Seen)  BY <1>6, NextLine DEF Types
<1> DEFINE old == Append(ini, cur)
           new == Append(ini, cur')
<1>8. /\ Places(old) = Places(ini) \cup {<<Len(ini) + 1, b>> : b \in 1..Len(cur.configs)}
      /\ \A p \in Places(ini) : At(old, p) = At(ini, p) /\ old[p[1]].name = ini[p[1]].name
      /\ \A b \in 1..Len(cur.configs) : At(old, <<Len(ini) + 1, b>>) = cur.configs[b]
  BY <1>1, Appended
<1>9. /\ Places(new) = Places(ini) \cup {<<Len(ini) + 1, b>> : b \in 1..Len(cur'.configs)}
      /\ \A p \in Places(ini) : At(new, p) = At(ini, p) /\ new[p[1]].name = ini[p[1]].name
      /\ \A b \in 1..Len(cur'.configs) : At(new, <<Len(ini) + 1, b>>) = cur'.configs[b]
  BY <1>1, <1>2, Appended
<1> HIDE DEF old, new
<1>10. Places(new) = Places(old) /\ \A p \in Places(old) : At(new, p) = At(old, p)
  <2>1. 1..Len(cur'.configs) = 1..Len(cur.configs)  BY <1>2
  <2>2. Places(new) = Places(old)  BY <1>8, <1>9, <2>1
  <2>. QED  BY <1>2, <1>8, <1>9, <2>1, <2>2
<1>11. ASSUME WellFormed PROVE \A p \in Places(old) : new[p[1]].name = old[p[1]].name
  <2>1. CASE state = "START"
    <3>1. Heads(Seen) = {}  BY <2>1 DEF Naming
    <3>2. LinesTo(Seen) = {}
      <4>1. ASSUME NEW i \in LinesTo(Seen) PROVE FALSE
        <5>1. i \in PairLines /\ i \in 1..Seen /\ Under(i) # 0  BY <1>11, NextLine DEF LinesTo, Types, WellFormed
        <5>2. Heads(i) \subseteq Heads(Seen)  BY <5>1 DEF Heads
        <5>3. Heads(i) = {}  BY <3>1, <5>2
        <5>. QED  BY <5>1, <5>3 DEF Under
      <4>. QED  BY <4>1
    <3>3. Places(old) = {}  BY <1>f, <3>2 DEF Follows, old
    <3>. QED  BY <3>3
  <2>2. CASE state = "NEW_SECTION"
    <3>1. cur.configs = <<>>  BY <1>0, <2>2 DEF Held, NewSection
    <3>2. 1..Len(cur.configs) = {}  BY <3>1
    <3>3. Places(old) = Places(ini)  BY <1>8, <3>2
    <3>. QED  BY <1>8, <1>9, <3>3
  <2>3. CASE state = "END_OF_FILE"
    <3>1. ~ended /\ Seen + 1 = Len(text)  BY <1>0, <2>3 DEF Held
    <3>. QED  BY <1>0, <1>1, <1>11, <3>1 DEF WellFormed
  <2>. QED  BY <2>1, <2>2, <2>3 DEF Types
<1>12. Follows(f, Seen + 1, new)  BY <1>7, <1>10, <1>11, <1>f, Unmoved DEF old
<1>13. Secs' = new  BY <1>0 DEF Secs, new
<1>14. cur'.name = Heading(Seen + 1) /\ cur'.name # Unset  BY <1>1, <1>2, <1>5
<1>15. WellFormed => \A a \in 1..Len(ini') : ini'[a].name # Unset  BY <1>0 DEF Naming
<1>. QED  BY <1>0, <1>1, <1>3, <1>4, <1>5, <1>12, <1>13, <1>14, <1>15, Carry

\* A comment is passed over, and a pair is added to the section.
LEMMA LineKeeps ==
  ASSUME ParseInv, Comment \/ Pair
  PROVE  ParseInv'
<1> USE Facts DEF bootVars
<1>0. /\ pc = "parse" /\ pc' = "section" /\ tmp[1] \in {"comment", "pair", "bare"}
      /\ UNCHANGED <<text, ended, pos, state, tmp, ini>>
  BY DEF Comment, Pair
<1>1. /\ cur \in Section /\ ini \in Seq(Section) /\ tmp = text[Seen + 1] /\ state # "NEW_SECTION"
      /\ Seen + 1 \in 1..Len(text) /\ tmp[2] \in STRING /\ tmp[3] \in STRING /\ text \in Texts
  BY <1>0 DEF Types, Held
<1>2. Seen' = Seen + 1 /\ Secs' = Append(ini, cur')  BY <1>0, <1>1 DEF Seen, Secs
<1>3. Heads(Seen + 1) = Heads(Seen) /\ Heading(Seen + 1) = Heading(Seen)  BY <1>0, <1>1, NextHeading
<1>f. PICK f : Follows(f, Seen, Append(ini, cur))  BY <1>0 DEF ParseInv, Secs
<1>4. /\ cur.name = Heading(Seen + 1) /\ (Heads(Seen + 1) # {} => cur.name # Unset)
      /\ state = "START" => Heads(Seen + 1) = {}
      /\ state = "IN_SECTION" => Heads(Seen + 1) # {}
      /\ WellFormed => \A a \in 1..Len(ini') : ini'[a].name # Unset
  BY <1>0, <1>1, <1>3 DEF Naming
<1>5. Held'  BY <1>0, <1>1 DEF Held
<1>6. ASSUME cur' \in Section, cur'.name = cur.name, \E g : Follows(g, Seen + 1, Append(ini, cur')) PROVE ParseInv'
  <2>1. Types'  BY <1>0, <1>6 DEF Types
  <2>. QED  BY <1>0, <1>2, <1>4, <1>5, <1>6, <2>1, Carry
<1>7. CASE Comment
  <2>1. UNCHANGED cur /\ tmp[1] = "comment"  BY <1>7 DEF Comment
  <2>2. Seen + 1 \notin PairLines  BY <1>1, <2>1 DEF PairLines
  <2>3. LinesTo(Seen + 1) = LinesTo(Seen)  BY <1>1, <2>2, NextLine
  <2>4. Follows(f, Seen + 1, Append(ini, cur))  BY <1>f, <2>3, Unmoved
  <2>. QED  BY <1>1, <1>6, <2>1, <2>4
<1>8. CASE Pair
  <2>1. PICK v \in Values : cur' = [cur EXCEPT !.configs = Append(cur.configs, <<tmp[2], v>>)]  BY <1>8 DEF Pair
  <2>2. tmp[1] \in {"pair", "bare"}  BY <1>8 DEF Pair
  <2>3. v \in Contents
    <3>1. \A j \in 1..(pos - 1) : text[j][3] \in STRING  BY DEF Types
    <3>2. CASE tmp[1] = "pair"  BY <1>1, <3>2 DEF Values, Contents
    <3>3. CASE tmp[1] # "pair"
      <4>1. v = "" \/ \E j \in 1..(pos - 1) : v = text[j][3]  BY <3>3 DEF Values
      <4>. QED  BY <3>1, <4>1 DEF Contents
    <3>. QED  BY <3>2, <3>3
  <2>4. Seen + 1 \in PairLines  BY <1>1, <2>2 DEF PairLines
  <2>5. Gives(Seen + 1, v)
    <3>1. tmp[1] = "pair" => v = tmp[3]  BY DEF Values
    <3>. QED  BY <1>1, <2>2, <3>1 DEF Gives
  <2>6. cur' \in Section /\ cur'.name = cur.name
    <3>1. cur.configs \in Seq(STRING \X Contents) /\ <<tmp[2], v>> \in STRING \X Contents  BY <1>1, <2>3 DEF Section
    <3>2. Append(cur.configs, <<tmp[2], v>>) \in Seq(STRING \X Contents)  BY <3>1
    <3>. QED  BY <1>1, <2>1, <3>2 DEF Section
  <2>7. \E g : Follows(g, Seen + 1, Append(ini, cur'))  BY <1>1, <1>4, <1>f, <2>1, <2>3, <2>4, <2>5, OneMore
  <2>. QED  BY <1>6, <2>6, <2>7
<1>. QED  BY <1>7, <1>8

\* Once the file is read, the parser's state is left alone.
LEMMA StartKeeps ==
  ASSUME ParseInv, UNCHANGED <<text, ended, pos, state, tmp, cur, ini>>,
         pc' = pc \/ (pc \in {"loaded", "start"} /\ pc' \in {"start", "up", "failed", "crashed"})
  PROVE  ParseInv'
<1> USE Facts
<1>1. Types'  BY DEF Types
<1>2. Held'  BY DEF Held
<1>3. Seen' = Seen /\ Secs' = Secs  BY DEF Seen, Secs
<1>f. \E f : Follows(f, Seen, Secs)  BY DEF ParseInv
<1>4. /\ state' = "START" => Heads(Seen) = {}
      /\ state' = "IN_SECTION" => Heads(Seen) # {}
      /\ pc' \in {"section", "parse"} /\ state' # "NEW_SECTION" =>
           cur'.name = Heading(Seen) /\ (Heads(Seen) # {} => cur'.name # Unset)
      /\ WellFormed => \A a \in 1..Len(ini') : ini'[a].name # Unset
  BY DEF Naming
<1>. QED  BY <1>1, <1>2, <1>3, <1>4, <1>f, Carry

\* Whatever the file is like, the parser maps the lines it has seen to the pairs it has.
THEOREM ParseInvHolds == Spec => []ParseInv
<1>1. Init => ParseInv
  <2> SUFFICES ASSUME Init PROVE ParseInv  OBVIOUS
  <2>1. Len(text) \in Nat /\ 1 \in 1..(Len(text) + 1)  BY TextLines DEF Init
  <2>2. Types  BY <2>1 DEF Init, Types, Section, NewSection
  <2>3. Held  BY DEF Init, Held
  <2>4. Seen = 0 /\ Secs = <<>>  BY DEF Init, Seen, Secs
  <2>5. Heads(0) = {} /\ LinesTo(0) = {}  BY <2>1 DEF Heads, LinesTo, PairLines
  <2>6. Naming  BY <2>4, <2>5 DEF Init, Naming
  <2>7. Places(<<>>) = {}  BY DEF Places
  <2>8. Follows(<<>>, 0, <<>>)  BY <2>5, <2>7 DEF Follows
  <2>. QED  BY <2>2, <2>3, <2>4, <2>6, <2>8 DEF ParseInv
<1>2. ParseInv /\ [Next]_vars => ParseInv'
  <2> SUFFICES ASSUME ParseInv, [Next]_vars PROVE ParseInv'  OBVIOUS
  <2>1. CASE Parser  BY <2>1, ParseIniKeeps, ReadLineKeeps, QuietKeeps, HeaderNames, LineKeeps DEF Parser
  <2>2. CASE Start
    BY <2>2, StartKeeps DEF Start, Loaded, StartRedirect, QueueInit, RunnerInit, SandboxInit, LangInit,
                            ReadSettings, SettingMissing, Starting, bootVars
  <2>3. CASE UNCHANGED vars  BY <2>3, StartKeeps DEF vars
  <2>. QED  BY <2>1, <2>2, <2>3 DEF Next
<1>. QED  BY <1>1, <1>2, PTL DEF Spec

\* The map when the file is read.
LEMMA ReadMap ==
  ASSUME ParseInv, pc \notin {"ini", "section", "parse"}
  PROVE  /\ PairLines \subseteq Nat /\ IsFiniteSet(PairLines) /\ ini \in Seq(Section)
         /\ Places(ini) \in SUBSET (Nat \X Nat) /\ IsFiniteSet(Places(ini))
         /\ Cardinality(Places(ini)) = Cardinality(PairLines)
         /\ \E f : LinesTo(Len(text)) = PairLines /\ Follows(f, Len(text), ini)
<1>0. ini \in Seq(Section) /\ Len(text) \in Nat  BY Facts DEF Types
<1>1. PairLines \subseteq 1..Len(text) /\ PairLines \subseteq Nat  BY <1>0 DEF PairLines
<1>2. IsFiniteSet(1..Len(text))  BY <1>0, FS_Interval
<1>3. IsFiniteSet(PairLines)  BY <1>1, <1>2, FS_Subset
<1>4. Seen = Len(text) /\ Secs = ini  BY <1>0, Facts DEF Held, Seen, Secs
<1>5. LinesTo(Len(text)) = PairLines
  <2>1. \A i \in PairLines : i <= Len(text)  BY <1>0, <1>1
  <2>. QED  BY <2>1 DEF LinesTo
<1>6. PICK f : Follows(f, Len(text), ini)  BY <1>4 DEF ParseInv
<1>7. Places(ini) \in SUBSET (Nat \X Nat)  BY <1>0, PlaceOf
<1>8. f \in Bijection(PairLines, Places(ini))
  <2>1. f \in [PairLines -> Places(ini)] /\ \A p \in Places(ini) : \E i \in PairLines : f[i] = p
    BY <1>5, <1>6 DEF Follows
  <2>2. ASSUME NEW i \in PairLines, NEW j \in PairLines, f[i] = f[j] PROVE i = j
    <3>1. f[i] \in Nat \X Nat  BY <1>7, <2>1
    <3>2. Before(f[i], f[j]) /\ Before(f[j], f[i])  BY <2>2, <3>1, BeforeTotal
    <3>3. i <= j /\ j <= i  BY <1>5, <1>6, <3>2 DEF Follows
    <3>. QED  BY <1>1, <3>3
  <2>. QED  BY <2>1, <2>2 DEF Bijection, Injection, Surjection, IsInjective
<1>9. IsFiniteSet(Places(ini)) /\ Cardinality(Places(ini)) = Cardinality(PairLines)
  BY <1>3, <1>8, FS_Bijection DEF ExistsBijection
<1>. QED  BY <1>0, <1>1, <1>3, <1>5, <1>6, <1>7, <1>9

\* A line and its place have the same number.
LEMMA SameNumber ==
  ASSUME ParseInv, pc \notin {"ini", "section", "parse"}, NEW f, LinesTo(Len(text)) = PairLines,
         Follows(f, Len(text), ini), NEW i \in PairLines
  PROVE  Number(Places(ini), f[i]) = Cardinality({j \in PairLines : j <= i})
<1> DEFINE L == {j \in PairLines : j <= i}
           Q == {q \in Places(ini) : Before(q, f[i])}
           g == [j \in L |-> f[j]]
<1>1. f \in [PairLines -> Places(ini)] /\ \A p \in Places(ini) : \E j \in PairLines : f[j] = p  BY DEF Follows
<1>2. \A j, k \in PairLines : j <= k <=> Before(f[j], f[k])  BY DEF Follows
<1>3. IsFiniteSet(L)  BY ReadMap, FS_Subset
<1>4. g \in [L -> Q]  BY <1>1, <1>2
<1>5. \A q \in Q : \E j \in L : g[j] = q  BY <1>1, <1>2
<1>6. ASSUME NEW j \in L, NEW k \in L, g[j] = g[k] PROVE j = k
  <2>1. f[j] = f[k] /\ j \in PairLines /\ k \in PairLines  BY <1>6
  <2>2. f[j] \in Nat \X Nat  BY <1>1, <2>1, ReadMap
  <2>3. Before(f[j], f[k]) /\ Before(f[k], f[j])  BY <2>1, <2>2, BeforeTotal
  <2>4. j <= k /\ k <= j /\ j \in Nat /\ k \in Nat  BY <1>2, <2>1, <2>3, ReadMap
  <2>. QED  BY <2>4
<1>7. g \in Bijection(L, Q)  BY <1>4, <1>5, <1>6 DEF Bijection, Injection, Surjection, IsInjective
<1>8. Cardinality(Q) = Cardinality(L)  BY <1>3, <1>7, FS_Bijection DEF ExistsBijection
<1>. QED  BY <1>8 DEF Number

\* Every pair of the file is in the result, once and in the file's order, however
\* parse_section hands lines from one section to the next and wherever the file ends.
THEOREM KeepsPairs == Spec => []PairsKept
<1>1. ParseInv => PairsKept
  <2> SUFFICES ASSUME ParseInv, pc = "loaded" PROVE PairsKept  BY DEF PairsKept
  <2>1. Cardinality(Places(ini)) = Cardinality(PairLines)  BY ReadMap
  <2>2. PICK f : LinesTo(Len(text)) = PairLines /\ Follows(f, Len(text), ini)  BY ReadMap
  <2>3. ASSUME NEW p \in Places(ini), NEW i \in PairLines,
               Number(Places(ini), p) = Cardinality({j \in PairLines : j <= i})
        PROVE  At(ini, p)[1] = text[i][2] /\ Gives(i, At(ini, p)[2])
    <3>1. Number(Places(ini), f[i]) = Number(Places(ini), p)  BY <2>2, <2>3, SameNumber
    <3>2. f[i] \in Places(ini)  BY <2>2 DEF Follows
    <3>3. f[i] = p  BY <3>1, <3>2, Numbers, ReadMap
    <3>. QED  BY <2>2, <3>3 DEF Follows
  <2>. QED  BY <2>1, <2>3 DEF PairsKept
<1>. QED  BY <1>1, ParseInvHolds, PTL

-----------------------------------------------------------------------------
(* What is looked up.                                                      *)

\* A nonempty set of numbers has a first one.
LEMMA FirstOf ==
  ASSUME NEW S \in SUBSET (Nat \ {0})
  PROVE  /\ First(S) = 0 <=> S = {}
         /\ S # {} => First(S) \in S /\ \A j \in S : First(S) <= j
<1>1. CASE S = {}  BY <1>1 DEF First
<1>2. CASE S # {}
  <2>1. \E i \in S : \A j \in S : i <= j  BY <1>2, Least
  <2>2. First(S) \in S /\ \A j \in S : First(S) <= j  BY <1>2, <2>1 DEF First
  <2>. QED  BY <1>2, <2>2
<1>. QED  BY <1>1, <1>2

\* For a well-formed file a line and its place say the same.
LEMMA SaysTheSame ==
  ASSUME ParseInv, pc \notin {"ini", "section", "parse"}, WellFormed
  PROVE  \E f : /\ f \in [PairLines -> Places(ini)] /\ \A p \in Places(ini) : \E i \in PairLines : f[i] = p
                /\ \A i, j \in PairLines : i <= j <=> Before(f[i], f[j])
                /\ \A i \in PairLines : Gives(i, At(ini, f[i])[2])
                /\ \A s, k : \A i \in PairLines : i \in KeyLines(s, k) <=> f[i] \in Hits(s, k)
<1>1. PICK f : LinesTo(Len(text)) = PairLines /\ Follows(f, Len(text), ini)  BY ReadMap
<1>2. /\ f \in [PairLines -> Places(ini)] /\ \A p \in Places(ini) : \E i \in PairLines : f[i] = p
      /\ \A i, j \in PairLines : i <= j <=> Before(f[i], f[j])
      /\ \A i \in PairLines : At(ini, f[i])[1] = text[i][2] /\ Gives(i, At(ini, f[i])[2])
      /\ \A i \in PairLines : ini[f[i][1]].name = Heading(i)
  BY <1>1 DEF Follows
<1>3. ASSUME NEW i \in PairLines PROVE Under(i) # 0 /\ Heading(i) = text[Under(i)][2]
  <2>1. Under(i) # 0  BY DEF WellFormed
  <2>2. Heads(i) # {}  BY <2>1 DEF Under
  <2>. QED  BY <2>1, <2>2 DEF Heading
<1>4. ASSUME NEW s, NEW k, NEW i \in PairLines PROVE i \in KeyLines(s, k) <=> f[i] \in Hits(s, k)
  <2>1. f[i] \in Places(ini) /\ ini[f[i][1]].name = text[Under(i)][2] /\ At(ini, f[i])[1] = text[i][2] /\ Under(i) # 0
    BY <1>2, <1>3
  <2>2. i \in KeyLines(s, k) <=> text[Under(i)][2] = s /\ text[i][2] = k  BY <2>1 DEF KeyLines
  <2>3. f[i] \in Hits(s, k) <=> ini[f[i][1]].name = s /\ At(ini, f[i])[1] = k  BY <2>1 DEF Hits, Named
  <2>. QED  BY <2>1, <2>2, <2>3
<1>. QED  BY <1>2, <1>4

\* ini_get_value finds a value exactly if a line gives one, and finds that of the first.
LEMMA Found ==
  ASSUME ParseInv, pc \notin {"ini", "section", "parse"}, WellFormed, NEW s, NEW k
  PROVE  /\ Hits(s, k) = {} <=> FirstLine(s, k) = 0
         /\ Hits(s, k) # {} => Gives(FirstLine(s, k), ini_get_value(s, k)) /\ ini_get_value(s, k) \in Contents
<1>1. PICK f : /\ f \in [PairLines -> Places(ini)] /\ \A p \in Places(ini) : \E i \in PairLines : f[i] = p
               /\ \A i, j \in PairLines : i <= j <=> Before(f[i], f[j])
               /\ \A i \in PairLines : Gives(i, At(ini, f[i])[2])
               /\ \A x, y : \A i \in PairLines : i \in KeyLines(x, y) <=> f[i] \in Hits(x, y)
  BY SaysTheSame
<1>2. KeyLines(s, k) \subseteq PairLines /\ Hits(s, k) \subseteq Places(ini)  BY DEF KeyLines, Hits, Named
<1>3. KeyLines(s, k) \in SUBSET (Nat \ {0})
  <2>1. PairLines \subseteq Nat \ {0}  BY Facts DEF PairLines
  <2>. QED  BY <1>2, <2>1
<1>4. Hits(s, k) = {} <=> KeyLines(s, k) = {}
  <2>1. \A p \in Hits(s, k) : \E i \in KeyLines(s, k) : f[i] = p  BY <1>1, <1>2
  <2>2. \A i \in KeyLines(s, k) : f[i] \in Hits(s, k)  BY <1>1, <1>2
  <2>. QED  BY <2>1, <2>2
<1>5. ASSUME Hits(s, k) # {}
      PROVE  Gives(FirstLine(s, k), ini_get_value(s, k)) /\ ini_get_value(s, k) \in Contents
  <2> DEFINE m == First(KeyLines(s, k))
  <2>1. m \in KeyLines(s, k) /\ \A j \in KeyLines(s, k) : m <= j  BY <1>3, <1>4, <1>5, FirstOf
  <2> HIDE DEF m
  <2>2. m \in PairLines /\ f[m] \in Hits(s, k) /\ f[m] \in Places(ini)  BY <1>1, <1>2, <2>1
  <2>3. ASSUME NEW q \in Hits(s, k) PROVE Before(f[m], q)
    <3>1. PICK j \in PairLines : f[j] = q  BY <1>1, <1>2
    <3>2. m <= j  BY <1>1, <2>1, <3>1
    <3>. QED  BY <1>1, <2>2, <3>1, <3>2
  <2>4. \A p \in Hits(s, k) : p \in Nat \X Nat  BY <1>2, ReadMap
  <2>5. ASSUME NEW p \in Hits(s, k), \A q \in Hits(s, k) : Before(p, q) PROVE p = f[m]
    <3>1. Before(p, f[m]) /\ Before(f[m], p)  BY <2>2, <2>3, <2>5
    <3>. QED  BY <2>2, <2>4, <3>1, BeforeTotal
  <2>6. ini_get_value(s, k) = At(ini, f[m])[2]
    <3>1. (CHOOSE p \in Hits(s, k) : \A q \in Hits(s, k) : Before(p, q)) = f[m]  BY <2>2, <2>3, <2>5
    <3>. QED  BY <3>1 DEF ini_get_value
  <2>7. At(ini, f[m])[2] \in Contents
    <3>1. At(ini, f[m]) \in STRING \X Contents  BY <2>2, ReadMap, PairAt
    <3>. QED  BY <3>1
  <2>. QED  BY <1>1, <2>2, <2>6, <2>7 DEF FirstLine, m
<1>. QED  BY <1>3, <1>4, <1>5, FirstOf DEF FirstLine

-----------------------------------------------------------------------------
(* The table of languages.                                                 *)

Entry == STRING \X STRING \X Contents

\* Number of the entries before those of the section LangSections[a].
Offset(a) == CASE a = 1 -> 0
               [] a = 2 -> Cardinality(Named(LangSections[1]))
               [] OTHER -> Cardinality(Named(LangSections[1])) + Cardinality(Named(LangSections[2]))

EntryAt(s, p) == <<s, At(ini, p)[1], At(ini, p)[2]>>

\* The pairs of a section.
LEMMA NamedFinite ==
  ASSUME ParseInv, pc \notin {"ini", "section", "parse"}, NEW s
  PROVE  Named(s) \in SUBSET (Nat \X Nat) /\ IsFiniteSet(Named(s)) /\ Cardinality(Named(s)) \in Nat
<1>1. Named(s) \in SUBSET Places(ini)  BY DEF Named
<1>. QED  BY <1>1, ReadMap, FS_Subset, FS_CardinalityType

\* The entries of a section are its pairs, in their order.
LEMMA Entries ==
  ASSUME ParseInv, pc \notin {"ini", "section", "parse"}, NEW s \in STRING
  PROVE  /\ Languages(s) \in Seq(Entry) /\ Len(Languages(s)) = Cardinality(Named(s))
         /\ \A n \in 1..Cardinality(Named(s)) : Languages(s)[n] = EntryAt(s, Nth(Named(s), n))
<1> DEFINE c == Cardinality(Named(s))
           kv == jug_ini_get_section(s)
<1>1. c \in Nat  BY NamedFinite
<1>2. kv = [n \in 1..c |-> At(ini, Nth(Named(s), n))]  BY DEF jug_ini_get_section
<1>3. ASSUME NEW n \in 1..c PROVE At(ini, Nth(Named(s), n)) \in STRING \X Contents
  <2>1. Nth(Named(s), n) \in Named(s)  BY NamedFinite, NthPlace
  <2>2. Nth(Named(s), n) \in Places(ini)  BY <2>1 DEF Named
  <2>. QED  BY <2>2, ReadMap, PairAt
<1> HIDE DEF c, kv
<1>4. kv \in Seq(STRING \X Contents) /\ Len(kv) = c  BY <1>1, <1>2, <1>3
<1>5. Languages(s) = [n \in 1..c |-> <<s, kv[n][1], kv[n][2]>>]  BY <1>4 DEF Languages, kv
<1>6. \A n \in 1..c : kv[n] = At(ini, Nth(Named(s), n)) /\ kv[n] \in STRING \X Contents  BY <1>2, <1>3
<1>7. Languages(s) \in Seq(Entry) /\ Len(Languages(s)) = c
  <2>1. \A n \in 1..c : <<s, kv[n][1], kv[n][2]>> \in Entry  BY <1>6 DEF Entry
  <2>. QED  BY <1>1, <1>5, <2>1
<1>. QED  BY <1>5, <1>6, <1>7 DEF c, EntryAt

\* Two sequences one after the other.
LEMMA Concatenated ==
  ASSUME NEW x \in Seq(Entry), NEW y \in Seq(Entry)
  PROVE  /\ x \o y \in Seq(Entry) /\ Len(x \o y) = Len(x) + Len(y)
         /\ \A n \in 1..Len(x) : (x \o y)[n] = x[n]
         /\ \A n \in 1..Len(y) : (x \o y)[Len(x) + n] = y[n]
  OBVIOUS

\* Three sequences one after the other.
LEMMA Joined ==
  ASSUME NEW x \in Seq(Entry), NEW y \in Seq(Entry), NEW z \in Seq(Entry)
  PROVE  /\ Len(x \o y \o z) = Len(x) + Len(y) + Len(z)
         /\ \A n \in 1..Len(x) : (x \o y \o z)[n] = x[n]
         /\ \A n \in 1..Len(y) : (x \o y \o z)[Len(x) + n] = y[n]
         /\ \A n \in 1..Len(z) : (x \o y \o z)[Len(x) + Len(y) + n] = z[n]
<1> DEFINE u == x \o y
<1>1. Len(x) \in Nat /\ Len(y) \in Nat /\ Len(z) \in Nat  OBVIOUS
<1>2. /\ u \in Seq(Entry) /\ Len(u) = Len(x) + Len(y)
      /\ \A n \in 1..Len(x) : u[n] = x[n]
      /\ \A n \in 1..Len(y) : u[Len(x) + n] = y[n]
  BY Concatenated
<1> HIDE DEF u
<1>u. u \in Seq(Entry)  BY <1>2
<1>3. /\ Len(u \o z) = Len(u) + Len(z)
      /\ \A n \in 1..Len(u) : (u \o z)[n] = u[n]
      /\ \A n \in 1..Len(z) : (u \o z)[Len(u) + n] = z[n]
  BY <1>u, Concatenated
<1>4. /\ Len(u \o z) = Len(x) + Len(y) + Len(z)
      /\ \A n \in 1..Len(x) : (u \o z)[n] = x[n]
      /\ \A n \in 1..Len(y) : (u \o z)[Len(x) + n] = y[n]
      /\ \A n \in 1..Len(z) : (u \o z)[Len(x) + Len(y) + n] = z[n]
  <2>1. \A n \in 1..Len(x) : n \in 1..Len(u)  BY <1>1, <1>2
  <2>2. \A n \in 1..Len(y) : Len(x) + n \in 1..Len(u)  BY <1>1, <1>2
  <2>. QED  BY <1>1, <1>2, <1>3, <2>1, <2>2
<1>. QED  BY <1>4 DEF u

\* The table has the entries of the three sections one after the other.
LEMMA TableEntries ==
  ASSUME ParseInv, pc \notin {"ini", "section", "parse"}
  PROVE  /\ \A i \in 1..Len(Table) : \E a \in 1..3 : \E n \in 1..Cardinality(Named(LangSections[a])) :
              i = Offset(a) + n
         /\ \A a \in 1..3 : \A n \in 1..Cardinality(Named(LangSections[a])) :
              /\ Offset(a) + n \in 1..Len(Table)
              /\ Table[Offset(a) + n] = EntryAt(LangSections[a], Nth(Named(LangSections[a]), n))
         /\ \A a, b \in 1..3 : \A n \in 1..Cardinality(Named(LangSections[a])) : \A m \in Nat :
              a < b => Offset(a) + n <= Offset(b) + m
         /\ \A a \in 1..3 : Offset(a) \in Nat
<1> DEFINE c(a) == Cardinality(Named(LangSections[a]))
           l(a) == Languages(LangSections[a])
<1>1. \A a \in 1..3 : LangSections[a] \in STRING
  <2>1. LangSections \in Seq(STRING) /\ Len(LangSections) = 3  BY ConfigAssumption
  <2>. QED  BY <2>1, SMTT(30)
<1>2. \A a \in 1..3 : c(a) \in Nat  BY NamedFinite
<1>3. \A a \in 1..3 : l(a) \in Seq(Entry) /\ Len(l(a)) = c(a)  BY <1>1, Entries
<1>4. \A a \in 1..3 : \A n \in 1..c(a) : l(a)[n] = EntryAt(LangSections[a], Nth(Named(LangSections[a]), n))
  BY <1>1, Entries
<1>5. Table = l(1) \o l(2) \o l(3)  BY DEF Table
<1>6. Offset(1) = 0 /\ Offset(2) = c(1) /\ Offset(3) = c(1) + c(2)  BY DEF Offset
<1> HIDE DEF c, l
<1>7. /\ l(1) \in Seq(Entry) /\ l(2) \in Seq(Entry) /\ l(3) \in Seq(Entry)
      /\ Len(l(1)) = c(1) /\ Len(l(2)) = c(2) /\ Len(l(3)) = c(3)
      /\ c(1) \in Nat /\ c(2) \in Nat /\ c(3) \in Nat
  BY <1>2, <1>3
<1>j. /\ Len(Table) = Len(l(1)) + Len(l(2)) + Len(l(3))
      /\ \A n \in 1..Len(l(1)) : Table[n] = l(1)[n]
      /\ \A n \in 1..Len(l(2)) : Table[Len(l(1)) + n] = l(2)[n]
      /\ \A n \in 1..Len(l(3)) : Table[Len(l(1)) + Len(l(2)) + n] = l(3)[n]
  <2>1. l(1) \in Seq(Entry) /\ l(2) \in Seq(Entry) /\ l(3) \in Seq(Entry)  BY <1>7
  <2>2. /\ Len(l(1) \o l(2) \o l(3)) = Len(l(1)) + Len(l(2)) + Len(l(3))
        /\ \A n \in 1..Len(l(1)) : (l(1) \o l(2) \o l(3))[n] = l(1)[n]
        /\ \A n \in 1..Len(l(2)) : (l(1) \o l(2) \o l(3))[Len(l(1)) + n] = l(2)[n]
        /\ \A n \in 1..Len(l(3)) : (l(1) \o l(2) \o l(3))[Len(l(1)) + Len(l(2)) + n] = l(3)[n]
    BY <2>1, Joined
  <2>. QED  BY <1>5, <2>2
<1>8. Len(Table) = c(1) + c(2) + c(3)  BY <1>7, <1>j
<1>9. /\ \A n \in 1..c(1) : Table[n] = l(1)[n]
      /\ \A n \in 1..c(2) : Table[c(1) + n] = l(2)[n]
      /\ \A n \in 1..c(3) : Table[c(1) + c(2) + n] = l(3)[n]
  BY <1>7, <1>j
<1>10. \A i \in 1..Len(Table) : \E a \in 1..3 : \E n \in 1..c(a) : i = Offset(a) + n
  <2> SUFFICES ASSUME NEW i \in 1..Len(Table) PROVE \E a \in 1..3 : \E n \in 1..c(a) : i = Offset(a) + n
    OBVIOUS
  <2>1. CASE i <= c(1)
    <3>1. i \in 1..c(1) /\ i = Offset(1) + i  BY <1>6, <1>7, <1>8, <2>1
    <3>. QED  BY <3>1
  <2>2. CASE c(1) < i /\ i <= c(1) + c(2)
    <3>1. i - c(1) \in 1..c(2) /\ i = Offset(2) + (i - c(1))  BY <1>6, <1>7, <1>8, <2>2
    <3>. QED  BY <3>1
  <2>3. CASE c(1) + c(2) < i
    <3>1. i - (c(1) + c(2)) \in 1..c(3) /\ i = Offset(3) + (i - (c(1) + c(2)))  BY <1>6, <1>7, <1>8, <2>3
    <3>. QED  BY <3>1
  <2>. QED  BY <1>7, <1>8, <2>1, <2>2, <2>3
<1>11. ASSUME NEW a \in 1..3, NEW n \in 1..c(a)
       PROVE  /\ Offset(a) + n \in 1..Len(Table)
              /\ Table[Offset(a) + n] = EntryAt(LangSections[a], Nth(Named(LangSections[a]), n))
  <2>1. a = 1 \/ a = 2 \/ a = 3  OBVIOUS
  <2>2. CASE a = 1
    <3>1. n \in 1..c(1) /\ Offset(a) + n = n  BY <1>6, <1>7, <2>2
    <3>2. n \in 1..Len(Table) /\ Table[n] = l(a)[n]  BY <1>7, <1>8, <1>9, <2>2, <3>1
    <3>. QED  BY <1>4, <3>1, <3>2
  <2>3. CASE a = 2
    <3>1. n \in 1..c(2) /\ Offset(a) + n = c(1) + n  BY <1>6, <1>7, <2>3
    <3>2. c(1) + n \in 1..Len(Table) /\ Table[c(1) + n] = l(a)[n]  BY <1>7, <1>8, <1>9, <2>3, <3>1
    <3>. QED  BY <1>4, <3>1, <3>2
  <2>4. CASE a = 3
    <3>1. n \in 1..c(3) /\ Offset(a) + n = c(1) + c(2) + n  BY <1>6, <1>7, <2>4
    <3>2. c(1) + c(2) + n \in 1..Len(Table) /\ Table[c(1) + c(2) + n] = l(a)[n]  BY <1>7, <1>8, <1>9, <2>4, <3>1
    <3>. QED  BY <1>4, <3>1, <3>2
  <2>. QED  BY <2>1, <2>2, <2>3, <2>4
<1>12. ASSUME NEW a \in 1..3, NEW b \in 1..3, NEW n \in 1..c(a), NEW m \in Nat, a < b
       PROVE  Offset(a) + n <= Offset(b) + m
  <2>1. (a = 1 /\ b = 2) \/ (a = 1 /\ b = 3) \/ (a = 2 /\ b = 3)  BY <1>12
  <2>. QED  BY <1>6, <1>7, <2>1
<1>13. \A a \in 1..3 : Offset(a) \in Nat
  <2>1. \A a \in 1..3 : a = 1 \/ a = 2 \/ a = 3  OBVIOUS
  <2>. QED  BY <1>6, <1>7, <2>1
<1>. QED  BY <1>10, <1>11, <1>12, <1>13 DEF c

\* lang_get finds a language at the first line of the first section that defines it.
LEMMA LanguageFound ==
  ASSUME ParseInv, pc \notin {"ini", "section", "parse"}, WellFormed, langs = Table,
         NEW i \in 1..Len(langs)
  PROVE  LET h == langs[lang_get(langs[i][2])] IN
         /\ Gives(FirstLine(h[1], h[2]), h[3])
         /\ \A a, b \in 1..3 : LangSections[b] = h[1] /\ a < b => FirstLine(LangSections[a], h[2]) = 0
<1> DEFINE id == langs[i][2]
           S == {j \in 1..Len(langs) : langs[j][2] = id}
           o == lang_get(id)
           P(a) == Named(LangSections[a])
<1>1. PICK f : /\ f \in [PairLines -> Places(ini)] /\ \A p \in Places(ini) : \E j \in PairLines : f[j] = p
               /\ \A j, k \in PairLines : j <= k <=> Before(f[j], f[k])
               /\ \A j \in PairLines : Gives(j, At(ini, f[j])[2])
               /\ \A x, y : \A j \in PairLines : j \in KeyLines(x, y) <=> f[j] \in Hits(x, y)
  BY SaysTheSame
<1>2. o \in S /\ \A j \in S : o <= j
  <2>1. S \in SUBSET (Nat \ {0}) /\ i \in S  OBVIOUS
  <2>2. o = First(S)  BY DEF lang_get
  <2> HIDE DEF S, o
  <2>. QED  BY <2>1, <2>2, FirstOf
<1>3. \A j \in 1..Len(Table) : Table[j][2] = id => j \in S  OBVIOUS
<1>4. o \in 1..Len(Table) /\ o \in Nat /\ Table[o] = langs[o] /\ langs[o][2] = id  BY <1>2
<1> HIDE DEF id, S, o
<1>5. PICK b \in 1..3 : \E n \in 1..Cardinality(P(b)) : o = Offset(b) + n  BY <1>4, TableEntries
<1>6. PICK n \in 1..Cardinality(P(b)) : o = Offset(b) + n  BY <1>5
<1>7. \A a \in 1..3 : P(a) \in SUBSET (Nat \X Nat) /\ IsFiniteSet(P(a)) /\ Cardinality(P(a)) \in Nat /\ P(a) \subseteq Places(ini)
  BY NamedFinite DEF Named
<1> DEFINE p == Nth(P(b), n)
<1>8. p \in P(b) /\ Number(P(b), p) = n  BY <1>7, NthPlace
<1>9. langs[o] = EntryAt(LangSections[b], p)  BY <1>4, <1>6, TableEntries
<1> HIDE DEF P, p
<1>10. langs[o][1] = LangSections[b] /\ langs[o][2] = id /\ langs[o][3] = At(ini, p)[2] /\ At(ini, p)[1] = id
  BY <1>4, <1>9 DEF EntryAt
<1>11. \A j \in PairLines : j \in Nat \ {0}  BY Facts DEF PairLines
<1>12. \A x, y : KeyLines(x, y) \subseteq PairLines  BY DEF KeyLines
\* A line that defines the language in a section has an entry, not before the first.
<1>13. ASSUME NEW a \in 1..3, NEW j \in KeyLines(LangSections[a], id)
       PROVE  /\ j \in PairLines /\ f[j] \in P(a) /\ Number(P(a), f[j]) \in 1..Cardinality(P(a))
              /\ o <= Offset(a) + Number(P(a), f[j])
  <2>1. j \in PairLines /\ f[j] \in Hits(LangSections[a], id)  BY <1>1, <1>12
  <2>2. f[j] \in P(a) /\ At(ini, f[j])[1] = id  BY <2>1 DEF Hits, P
  <2>3. Number(P(a), f[j]) \in 1..Cardinality(P(a)) /\ Nth(P(a), Number(P(a), f[j])) = f[j]
    BY <1>7, <2>2, Numbers, NthPlace
  <2> DEFINE q == Offset(a) + Number(P(a), f[j])
  <2>4. q \in 1..Len(Table) /\ Table[q] = EntryAt(LangSections[a], f[j])  BY <2>3, TableEntries DEF P
  <2>5. Table[q][2] = id  BY <2>2, <2>4 DEF EntryAt
  <2> HIDE DEF q
  <2>6. q \in S  BY <1>3, <2>4, <2>5
  <2>7. o <= q  BY <1>2, <2>6
  <2>. QED  BY <2>1, <2>2, <2>3, <2>7 DEF q
<1>14. PICK m \in PairLines : f[m] = p  BY <1>1, <1>7, <1>8
<1>15. m \in KeyLines(LangSections[b], id)
  <2>1. p \in Hits(LangSections[b], id)  BY <1>8, <1>10 DEF Hits, P
  <2>. QED  BY <1>1, <1>14, <2>1
<1>16. \A j \in KeyLines(LangSections[b], id) : m <= j
  <2> SUFFICES ASSUME NEW j \in KeyLines(LangSections[b], id), ~(m <= j) PROVE FALSE  OBVIOUS
  <2>1. j \in PairLines /\ f[j] \in P(b) /\ Number(P(b), f[j]) \in 1..Cardinality(P(b)) /\ o <= Offset(b) + Number(P(b), f[j])
    BY <1>13
  <2>2. n <= Number(P(b), f[j])
    <3>1. Offset(b) \in Nat /\ Cardinality(P(b)) \in Nat  BY <1>7, TableEntries
    <3>. QED  BY <1>6, <2>1, <3>1
  <2>3. ~Before(p, f[j])  BY <1>1, <1>14, <2>1
  <2>4. Before(f[j], p) /\ f[j] # p  BY <1>7, <1>8, <2>1, <2>3, BeforeTotal
  <2>5. Number(P(b), f[j]) < n  BY <1>7, <1>8, <2>1, <2>4, Numbers
  <2>. QED  BY <1>7, <2>1, <2>2, <2>5
<1>17. FirstLine(LangSections[b], id) = m
  <2> DEFINE K == KeyLines(LangSections[b], id)
  <2>1. K \in SUBSET (Nat \ {0}) /\ m \in K  BY <1>11, <1>12, <1>15
  <2>2. First(K) \in K /\ First(K) <= m /\ m <= First(K)  BY <1>16, <2>1, FirstOf
  <2>3. First(K) \in Nat /\ m \in Nat  BY <2>1, <2>2
  <2> HIDE DEF K
  <2>4. First(K) = m  BY <2>2, <2>3
  <2>. QED  BY <2>4 DEF FirstLine, K
<1>18. Gives(FirstLine(langs[o][1], langs[o][2]), langs[o][3])  BY <1>1, <1>10, <1>14, <1>17
<1>19. ASSUME NEW a \in 1..3, NEW e \in 1..3, LangSections[e] = langs[o][1], a < e
       PROVE  FirstLine(LangSections[a], langs[o][2]) = 0
  <2>1. e = b  BY <1>10, <1>19, ConfigAssumption
  <2>2. ASSUME NEW j \in KeyLines(LangSections[a], id) PROVE FALSE
    <3>1. Number(P(a), f[j]) \in 1..Cardinality(P(a)) /\ o <= Offset(a) + Number(P(a), f[j])  BY <1>13, <2>2
    <3>2. n - 1 \in Nat /\ Cardinality(P(a)) \in Nat /\ Offset(a) \in Nat /\ Offset(b) \in Nat
      BY <1>7, TableEntries
    <3>3. Offset(a) + Number(P(a), f[j]) <= Offset(b) + (n - 1)  BY <1>19, <2>1, <3>1, <3>2, TableEntries DEF P
    <3>. QED  BY <1>6, <3>1, <3>2, <3>3
  <2>3. KeyLines(LangSections[a], id) = {}  BY <2>2
  <2>. QED  BY <1>10, <2>3, FirstOf DEF FirstLine
<1>. QED  BY <1>18, <1>19 DEF o, id

-----------------------------------------------------------------------------
(* The daemon starts.                                                      *)

Setting == STRING \X STRING

\* The file has a line for the setting n; e has the value that the file gives first.
Given(n) == FirstLine(n[1], n[2]) # 0
Right(e) == Gives(FirstLine(e[1][1], e[1][2]), e[2])

\* What the parts that started have read, for a well-formed file.
BootInv ==
  WellFormed =>
    /\ part \in 1..(Len(Parts) + 1) /\ got \in Seq(Setting \X Contents)
    /\ \A i \in 1..Len(got) : Right(got[i])
    /\ \A j \in 1..(part - 1) : \A i \in 1..Len(Needs[Parts[j]]) : Given(Needs[Parts[j]][i])
    /\ pc = "failed" => \E p \in DOMAIN Needs : \E i \in 1..Len(Needs[p]) : ~Given(Needs[p][i])
    /\ pc \in {"up", "crashed"} => part = Len(Parts) + 1
    /\ pc = "up" => langs = Table

\* What the file says does not change with the state.
LEMMA SameFile ==
  ASSUME UNCHANGED <<text, ended>>
  PROVE  /\ WellFormed' <=> WellFormed
         /\ \A n : Given(n)' <=> Given(n)
         /\ \A i : Right(got[i])' <=> Right(got'[i])
<1>1. PairLines' = PairLines  BY DEF PairLines
<1>2. \A i : Heads(i)' = Heads(i)  BY DEF Heads
<1>3. \A i : Under(i)' = Under(i)  BY <1>2 DEF Under
<1>4. WellFormed' <=> WellFormed  BY <1>1, <1>3 DEF WellFormed
<1>5. ASSUME NEW n PROVE Given(n)' <=> Given(n)
  <2>1. KeyLines(n[1], n[2])' = KeyLines(n[1], n[2])  BY <1>1, <1>3 DEF KeyLines
  <2>2. FirstLine(n[1], n[2])' = FirstLine(n[1], n[2])  BY <2>1 DEF FirstLine, First
  <2>. QED  BY <2>2 DEF Given
<1>6. ASSUME NEW i PROVE Right(got[i])' <=> Right(got'[i])
  <2> DEFINE e == got'[i]
  <2>1. KeyLines(got[i][1][1], got[i][1][2])' = KeyLines(e[1][1], e[1][2])  BY <1>1, <1>3 DEF KeyLines
  <2>2. FirstLine(got[i][1][1], got[i][1][2])' = FirstLine(e[1][1], e[1][2])  BY <2>1 DEF FirstLine, First
  <2>. QED  BY <2>2 DEF Right, Gives
<1>. QED  BY <1>4, <1>5, <1>6

\* The settings of a part.
LEMMA PartSettings ==
  ASSUME NEW p \in DOMAIN Needs
  PROVE  Needs[p] \in Seq(Setting) /\ Len(Needs[p]) \in Nat /\ \A i \in 1..Len(Needs[p]) : Needs[p][i] \in Setting
<1>1. Needs[p] \in Seq(Setting)  BY ConfigAssumption DEF Setting
<1>. QED  BY <1>1

\* A part that starts has the first values the file gives its settings.
LEMMA ReadKeeps ==
  ASSUME ParseInv, BootInv, WellFormed, NEW p, ReadSettings(p)
  PROVE  BootInv'
<1> DEFINE new == [i \in 1..Len(Needs[p]) |-> <<Needs[p][i], Value(Needs[p][i])>>]
<1>1. /\ pc = "start" /\ part <= Len(Parts) /\ Parts[part] = p
      /\ \A i \in 1..Len(Needs[p]) : Hits(Needs[p][i][1], Needs[p][i][2]) # {}
      /\ got' = got \o new /\ part' = part + 1 /\ UNCHANGED <<text, ended, pc>>
  BY DEF ReadSettings, Starting
<1>2. /\ part \in 1..(Len(Parts) + 1) /\ got \in Seq(Setting \X Contents) /\ \A i \in 1..Len(got) : Right(got[i])
      /\ \A j \in 1..(part - 1) : \A i \in 1..Len(Needs[Parts[j]]) : Given(Needs[Parts[j]][i])
  BY DEF BootInv
<1>3. Parts \in Seq(DOMAIN Needs) /\ Len(Parts) \in Nat  BY ConfigAssumption
<1>4. part \in 1..Len(Parts) /\ p \in DOMAIN Needs  BY <1>1, <1>2, <1>3
<1>5. ASSUME NEW i \in 1..Len(Needs[p])
      PROVE  /\ <<Needs[p][i], Value(Needs[p][i])>> \in Setting \X Contents
             /\ Right(<<Needs[p][i], Value(Needs[p][i])>>) /\ Given(Needs[p][i])
  <2> DEFINE n == Needs[p][i]
  <2>1. n \in Setting  BY <1>4, PartSettings
  <2>2. Hits(n[1], n[2]) # {}  BY <1>1
  <2> HIDE DEF n
  <2>3. FirstLine(n[1], n[2]) # 0 /\ Gives(FirstLine(n[1], n[2]), Value(n)) /\ Value(n) \in Contents
    BY <1>1, <2>2, Found DEF Value
  <2>4. Right(<<n, Value(n)>>)  BY <2>3 DEF Right
  <2>. QED  BY <2>1, <2>3, <2>4 DEF Given, n
<1>6. new \in Seq(Setting \X Contents) /\ Len(new) = Len(Needs[p]) /\ \A i \in 1..Len(new) : Right(new[i])
  <2>1. Len(Needs[p]) \in Nat  BY <1>4, PartSettings
  <2>2. \A i \in 1..Len(Needs[p]) : new[i] \in Setting \X Contents /\ Right(new[i])  BY <1>5
  <2>3. new \in [1..Len(Needs[p]) -> Setting \X Contents]  BY <1>5
  <2> HIDE DEF new
  <2>. QED  BY <2>1, <2>2, <2>3
<1> HIDE DEF new
<1>7. got' \in Seq(Setting \X Contents) /\ \A i \in 1..Len(got') : Right(got'[i])
  <2>1. /\ got' \in Seq(Setting \X Contents) /\ Len(got') = Len(got) + Len(new) /\ Len(got) \in Nat /\ Len(new) \in Nat
        /\ \A i \in 1..Len(got') : got'[i] = IF i <= Len(got) THEN got[i] ELSE new[i - Len(got)]
    <3>1. got \in Seq(Setting \X Contents) /\ new \in Seq(Setting \X Contents)  BY <1>2, <1>6
    <3> HIDE DEF Setting, Contents
    <3>2. ASSUME NEW T, NEW x \in Seq(T), NEW y \in Seq(T)
          PROVE  /\ x \o y \in Seq(T) /\ Len(x \o y) = Len(x) + Len(y) /\ Len(x) \in Nat /\ Len(y) \in Nat
                 /\ \A i \in 1..Len(x \o y) : (x \o y)[i] = IF i <= Len(x) THEN x[i] ELSE y[i - Len(x)]
      OBVIOUS
    <3>. QED  BY <1>1, <3>1, <3>2
  <2>2. ASSUME NEW i \in 1..Len(got') PROVE Right(got'[i])
    <3>1. CASE i <= Len(got)
      <4>1. i \in 1..Len(got) /\ got'[i] = got[i]  BY <2>1, <3>1
      <4>. QED  BY <1>2, <4>1
    <3>2. CASE ~(i <= Len(got))
      <4>1. i - Len(got) \in 1..Len(new) /\ got'[i] = new[i - Len(got)]  BY <2>1, <3>2
      <4>. QED  BY <1>6, <4>1
    <3>. QED  BY <3>1, <3>2
  <2>. QED  BY <2>1, <2>2
<1>8. \A j \in 1..(part' - 1) : \A i \in 1..Len(Needs[Parts[j]]) : Given(Needs[Parts[j]][i])
  <2>1. \A j \in 1..(part' - 1) : j \in 1..(part - 1) \/ j = part  BY <1>1, <1>2, <1>3
  <2>. QED  BY <1>1, <1>2, <1>5, <2>1
<1>9. part' \in 1..(Len(Parts) + 1)  BY <1>1, <1>3, <1>4
<1>. QED  BY <1>1, <1>7, <1>8, <1>9, SameFile DEF BootInv

\* A part fails to start only where the file lacks one of its settings.
LEMMA MissingKeeps ==
  ASSUME ParseInv, BootInv, WellFormed, NEW p, SettingMissing(p)
  PROVE  BootInv'
<1>1. /\ pc = "start" /\ part <= Len(Parts) /\ Parts[part] = p /\ UNCHANGED <<text, ended, part, got, langs, ini>>
      /\ Nameless \/ \E i \in 1..Len(Needs[p]) : Hits(Needs[p][i][1], Needs[p][i][2]) = {}
      /\ pc' \in IF Nameless THEN {"failed", "crashed"} ELSE {"failed"}
  BY DEF SettingMissing, Starting, bootVars
<1>2. ~Nameless  BY Facts DEF Naming, Nameless
<1>3. PICK i \in 1..Len(Needs[p]) : Hits(Needs[p][i][1], Needs[p][i][2]) = {}  BY <1>1, <1>2
<1>4. ~Given(Needs[p][i])  BY <1>1, <1>3, Found DEF Given
<1>5. Parts \in Seq(DOMAIN Needs) /\ Len(Parts) \in Nat  BY ConfigAssumption
<1>6. part \in 1..Len(Parts)  BY <1>1, <1>5 DEF BootInv
<1>7. p \in DOMAIN Needs  BY <1>1, <1>5, <1>6
<1>. QED  BY <1>1, <1>2, <1>3, <1>4, <1>7, SameFile DEF BootInv

\* The rest of the steps reads no settings.
LEMMA BootKeeps ==
  ASSUME BootInv, UNCHANGED <<text, ended, part, got>>, pc' # "failed" \/ pc' = pc,
         pc' \in {"up", "crashed"} => part = Len(Parts) + 1,
         pc' = "up" => langs' = Table'
  PROVE  BootInv'
  BY SameFile DEF BootInv

\* The parts that started have the values that the file gives.
THEOREM BootInvHolds == Spec => []BootInv
<1>1. Init => BootInv
  <2> SUFFICES ASSUME Init PROVE BootInv  OBVIOUS
  <2>1. Len(Parts) \in Nat  BY ConfigAssumption
  <2>2. part = 1 /\ got = <<>> /\ pc = "ini"  BY DEF Init
  <2>3. part \in 1..(Len(Parts) + 1) /\ got \in Seq(Setting \X Contents) /\ 1..Len(got) = {} /\ 1..(part - 1) = {}
    BY <2>1, <2>2
  <2>. QED  BY <2>2, <2>3 DEF BootInv
<1>2. ParseInv /\ BootInv /\ [Next]_vars => BootInv'
  <2> SUFFICES ASSUME ParseInv, BootInv, [Next]_vars PROVE BootInv'  OBVIOUS
  <2> SUFFICES ASSUME WellFormed PROVE BootInv'
    <3>1. UNCHANGED <<text, ended>>
      <4>1. CASE Parser
        BY <4>1 DEF Parser, ParseIni, ReadLine, HeldLine, SectionEnd, Comment, Header, Pair
      <4>2. CASE Start
        BY <4>2 DEF Start, Loaded, StartRedirect, QueueInit, RunnerInit, SandboxInit, LangInit, ReadSettings, SettingMissing
      <4>3. CASE UNCHANGED vars  BY <4>3 DEF vars
      <4>. QED  BY <4>1, <4>2, <4>3 DEF Next
    <3>2. ~WellFormed => BootInv'  BY <3>1, SameFile DEF BootInv
    <3>. QED  BY <3>2
  <2>1. CASE Parser
    <3>1. UNCHANGED <<text, ended, part, got>> /\ pc' \notin {"failed", "up", "crashed"}
      BY <2>1 DEF Parser, ParseIni, ReadLine, HeldLine, SectionEnd, Comment, Header, Pair, bootVars
    <3>. QED  BY <3>1, BootKeeps
  <2>2. CASE Loaded
    <3>1. UNCHANGED <<text, ended, part, got>> /\ pc' \notin {"failed", "up", "crashed"}  BY <2>2 DEF Loaded, bootVars
    <3>. QED  BY <3>1, BootKeeps
  <2>3. CASE StartRedirect \/ QueueInit \/ RunnerInit \/ SandboxInit
    BY <2>3, ReadKeeps, MissingKeeps DEF StartRedirect, QueueInit, RunnerInit, SandboxInit
  <2>4. CASE LangInit
    <3>1. /\ UNCHANGED <<text, ended, part, got, ini>> /\ pc' # "failed"
          /\ part = Len(Parts) + 1 /\ langs' = Table
      BY <2>4 DEF LangInit
    <3>2. ini' = ini  BY <3>1
    <3>t. Table' = Table
      BY <3>2 DEF Table, Languages, jug_ini_get_section, Named, Nth, Number, Places, At
    <3>. QED  BY <3>1, <3>t, BootKeeps
  <2>5. CASE UNCHANGED vars
    <3>1. UNCHANGED <<text, ended, part, got, ini, pc, langs>>  BY <2>5 DEF vars
    <3>2. Table' = Table
      BY <3>1 DEF Table, Languages, jug_ini_get_section, Named, Nth, Number, Places, At
    <3>3. (pc \in {"up", "crashed"} => part = Len(Parts) + 1) /\ (pc = "up" => langs = Table)  BY DEF BootInv
    <3>. QED  BY <3>1, <3>2, <3>3, BootKeeps
  <2>. QED  BY <2>1, <2>2, <2>3, <2>4, <2>5 DEF Next, Start
<1>. QED  BY <1>1, <1>2, ParseInvHolds, PTL DEF Spec

\* For a well-formed file the daemon starts with the first value the file gives each
\* setting, fails to start exactly when one is missing, and lang_get finds a language
\* at the first line of the first section that defines it.
THEOREM StartsRight == Spec => []StartsAsConfigured
<1>1. ParseInv /\ BootInv => StartsAsConfigured
  <2> SUFFICES ASSUME ParseInv, BootInv, WellFormed, Done PROVE StartsAsConfigured  BY DEF StartsAsConfigured
  <2>0. pc \in {"up", "failed", "crashed"} /\ pc \notin {"ini", "section", "parse"}  BY DEF Done
  <2>1. /\ \A i \in 1..Len(got) : Right(got[i])
        /\ \A j \in 1..(part - 1) : \A i \in 1..Len(Needs[Parts[j]]) : Given(Needs[Parts[j]][i])
        /\ pc = "failed" => \E p \in DOMAIN Needs : \E i \in 1..Len(Needs[p]) : ~Given(Needs[p][i])
        /\ pc \in {"up", "crashed"} => part = Len(Parts) + 1
        /\ pc = "up" => langs = Table
    BY DEF BootInv
  <2>2. \A i \in 1..Len(got) : Gives(FirstLine(got[i][1][1], got[i][1][2]), got[i][2])  BY <2>1 DEF Right
  <2>3. ASSUME pc # "failed", NEW p \in DOMAIN Needs, NEW i \in 1..Len(Needs[p]) PROVE Given(Needs[p][i])
    <3>1. PICK j \in 1..Len(Parts) : Parts[j] = p  BY ConfigAssumption
    <3>2. Len(Parts) \in Nat  BY ConfigAssumption
    <3>3. j \in 1..(part - 1)  BY <2>0, <2>1, <2>3, <3>2
    <3>. QED  BY <2>1, <3>1, <3>3
  <2>4. (pc = "failed") <=> \E p \in DOMAIN Needs : \E i \in 1..Len(Needs[p]) : ~Given(Needs[p][i])
    BY <2>1, <2>3
  <2>5. (pc = "failed") = \E p \in DOMAIN Needs : \E i \in 1..Len(Needs[p]) :
                            FirstLine(Needs[p][i][1], Needs[p][i][2]) = 0
    BY <2>4 DEF Given
  <2>6. pc = "up" => \A i \in 1..Len(langs) : LET h == langs[lang_get(langs[i][2])] IN
          /\ Gives(FirstLine(h[1], h[2]), h[3])
          /\ \A a, b \in 1..3 : LangSections[b] = h[1] /\ a < b => FirstLine(LangSections[a], h[2]) = 0
    BY <2>0, <2>1, LanguageFound
  <2>. QED  BY <2>2, <2>5, <2>6 DEF StartsAsConfigured
<1>. QED  BY <1>1, ParseInvHolds, BootInvHolds, PTL
=============================================================================
