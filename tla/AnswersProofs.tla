---------------------------- MODULE AnswersProofs ---------------------------
(***************************************************************************)
(* at_tok.c reads the fields of every line (at_tok.c:28-188), and with that *)
(* a client is told what the modem said, and the caches keep what it said   *)
(* last (huawei-tgm.c), for whatever the modem answers.  The lemmas on the  *)
(* tokenizer relate a cursor to the field it is at the beginning of; each   *)
(* request is then one to three of them.                                    *)
(***************************************************************************)
EXTENDS Answers, SequenceTheorems, WellFoundedInduction, TLAPS

-----------------------------------------------------------------------------
(* Numbers.                                                                 *)

\* A set of numbers that is not empty has a least one.
LEMMA LeastOf ==
    ASSUME NEW S \in SUBSET Nat, S # {}
    PROVE  Min(S) \in S /\ \A y \in S : Min(S) <= y
<1> DEFINE Less == OpToRel(<, Nat)
<1>1. IsWellFoundedOn(Less, Nat)
  BY NatLessThanWellFounded, Zenon
<1>2. \A x \in Nat, y \in Nat : y < x => <<y, x>> \in Less
  BY Zenon DEF OpToRel
<1> HIDE DEF Less
<1>3. PICK x \in S : \A y \in S : ~ (<<y, x>> \in Less)
  BY <1>1, WFMin
<1>4. \A y \in S : y \in Nat /\ x \in Nat /\ ~ (y < x)
  BY <1>2, <1>3
<1>5. \A y \in S : x <= y
  BY <1>4
<1> QED
  BY <1>5 DEF Min

\* An interval has its ends.
LEMMA Interval ==
    ASSUME NEW a \in Nat, NEW e \in Nat, a <= e
    PROVE  a .. e # {} /\ Min(a .. e) = a /\ Max(a .. e) = e
<1>1. a \in a .. e /\ e \in a .. e /\ \A y \in a .. e : a <= y /\ e >= y
  OBVIOUS
<1>2. Min(a .. e) \in a .. e /\ \A y \in a .. e : Min(a .. e) <= y
  BY <1>1 DEF Min
<1>3. Max(a .. e) \in a .. e /\ \A y \in a .. e : Max(a .. e) >= y
  BY <1>1 DEF Max
<1> QED
  BY <1>1, <1>2, <1>3

-----------------------------------------------------------------------------
(* A search in a line.                                                      *)

\* The first of some characters, or 0.
LEMMA IndexFound ==
    ASSUME NEW C, NEW s \in Seq(C), NEW cs
    PROVE  LET i == IndexOf(s, cs) IN
           /\ i \in 0 .. Len(s)
           /\ i # 0 => s[i] \in cs
           /\ \A j \in 1 .. (IF i = 0 THEN Len(s) ELSE i - 1) : s[j] \notin cs
<1> DEFINE I == {i \in 1 .. Len(s) : s[i] \in cs}
<1>1. IndexOf(s, cs) = IF I # {} THEN Min(I) ELSE 0
  BY DEF IndexOf, SelectInSeq
<1>2. I \in SUBSET Nat /\ Len(s) \in Nat
  OBVIOUS
<1>3. CASE I = {}
  BY <1>1, <1>2, <1>3
<1>4. CASE I # {}
  <2> DEFINE m == Min(I)
  <2>1. m \in I /\ \A j \in I : m <= j
    BY <1>2, <1>4, LeastOf
  <2>2. m \in 1 .. Len(s) /\ s[m] \in cs
    BY <2>1
  <2>3. \A j \in 1 .. m - 1 : j \in 1 .. Len(s) /\ ~ (m <= j)
    BY <1>2, <2>2
  <2>4. \A j \in 1 .. m - 1 : s[j] \notin cs
    BY <2>1, <2>3
  <2>5. IndexOf(s, cs) = m /\ m # 0
    BY <1>1, <1>2, <1>4, <2>2
  <2> HIDE DEF I, m
  <2> QED
    BY <1>2, <2>2, <2>4, <2>5
<1> QED
  BY <1>3, <1>4

\* A part of a line.
LEMMA PartFacts ==
    ASSUME NEW s \in Seq(Symbols), NEW a \in Nat, NEW e \in Nat, 1 <= a, a <= e + 1, e <= Len(s)
    PROVE  /\ SubSeq(s, a, e) \in Seq(Symbols)
           /\ Len(SubSeq(s, a, e)) = e - a + 1
           /\ \A i \in 1 .. e - a + 1 : SubSeq(s, a, e)[i] = s[a + i - 1]
<1>1. a .. e \subseteq 1 .. Len(s) /\ Len(s) \in Nat
  OBVIOUS
<1>2. \A i \in 1 .. Len(s) : s[i] \in Symbols
  OBVIOUS
<1> HIDE DEF Symbols
<1> QED
  BY <1>1, <1>2, SubSeqProperties

\* What is behind a place.
LEMMA AfterFacts ==
    ASSUME NEW s \in Seq(Symbols), NEW p \in 0 .. Len(s)
    PROVE  /\ After(s, p) \in Seq(Symbols)
           /\ Len(After(s, p)) = Len(s) - p
           /\ \A i \in 1 .. Len(s) - p : After(s, p)[i] = s[p + i]
           /\ After(s, p) = << >> <=> p = Len(s)
<1>1. Len(s) \in Nat /\ p \in Nat /\ p + 1 \in Nat /\ 1 <= p + 1 /\ p + 1 <= Len(s) + 1
  OBVIOUS
<1>2. /\ After(s, p) \in Seq(Symbols)
      /\ Len(After(s, p)) = Len(s) - (p + 1) + 1
      /\ \A i \in 1 .. Len(s) - (p + 1) + 1 : After(s, p)[i] = s[p + 1 + i - 1]
  BY <1>1, PartFacts DEF After
<1>3. Len(After(s, p)) = Len(s) - p
  BY <1>1, <1>2
<1>4. \A i \in 1 .. Len(s) - p : After(s, p)[i] = s[p + i]
  BY <1>1, <1>2
<1>5. After(s, p) = << >> <=> p = Len(s)
  <2>1. After(s, p) = << >> <=> Len(After(s, p)) = 0
    BY <1>2, EmptySeq
  <2> QED
    BY <1>1, <1>3, <2>1
<1> QED
  BY <1>2, <1>3, <1>4, <1>5

\* A part of what is behind a place is a part of the line.
LEMMA PartOfAfter ==
    ASSUME NEW s \in Seq(Symbols), NEW p \in 0 .. Len(s),
           NEW a \in Nat, NEW e \in Nat, 1 <= a, a <= e + 1, p + e <= Len(s)
    PROVE  SubSeq(After(s, p), a, e) = SubSeq(s, p + a, p + e)
<1>1. Len(s) \in Nat /\ p \in Nat /\ p + a \in Nat /\ p + e \in Nat
  OBVIOUS
<1>2. 1 <= p + a /\ p + a <= p + e + 1 /\ e <= Len(s) - p
  BY <1>1
<1> DEFINE r == After(s, p)
           x == SubSeq(r, a, e)
           y == SubSeq(s, p + a, p + e)
<1>3. r \in Seq(Symbols) /\ Len(r) = Len(s) - p /\ \A i \in 1 .. Len(s) - p : r[i] = s[p + i]
  BY AfterFacts
<1>4. /\ y \in Seq(Symbols) /\ Len(y) = p + e - (p + a) + 1
      /\ \A i \in 1 .. p + e - (p + a) + 1 : y[i] = s[p + a + i - 1]
  BY <1>1, <1>2, PartFacts
<1> HIDE DEF r
<1>5. /\ x \in Seq(Symbols) /\ Len(x) = e - a + 1
      /\ \A i \in 1 .. e - a + 1 : x[i] = r[a + i - 1]
  BY <1>2, <1>3, PartFacts
<1> HIDE DEF x, y
<1>6. Len(x) = Len(y)
  BY <1>1, <1>4, <1>5
<1>7. ASSUME NEW i \in 1 .. Len(x)  PROVE x[i] = y[i]
  <2>1. i \in 1 .. e - a + 1 /\ i \in 1 .. p + e - (p + a) + 1 /\ a + i - 1 \in 1 .. Len(s) - p
    BY <1>1, <1>2, <1>5
  <2>2. x[i] = s[p + (a + i - 1)] /\ y[i] = s[p + a + i - 1]
    BY <1>3, <1>4, <1>5, <2>1
  <2> QED
    BY <1>1, <2>1, <2>2
<1>8. x = y
  BY <1>4, <1>5, <1>6, <1>7, SeqEqual
<1> QED
  BY <1>8 DEF x, y, r

\* Behind a place behind a place.
LEMMA AfterAfter ==
    ASSUME NEW s \in Seq(Symbols), NEW p \in 0 .. Len(s), NEW i \in 0 .. Len(s) - p
    PROVE  After(After(s, p), i) = After(s, p + i)
<1>1. Len(s) \in Nat /\ p \in Nat /\ i \in Nat /\ Len(s) - p \in Nat
  OBVIOUS
<1>2. Len(After(s, p)) = Len(s) - p
  BY AfterFacts
<1> DEFINE a == i + 1
           e == Len(s) - p
<1>3. a \in Nat /\ e \in Nat /\ 1 <= a /\ a <= e + 1 /\ p + e = Len(s) /\ p + a = p + i + 1
  BY <1>1
<1> HIDE DEF a, e
<1>4. SubSeq(After(s, p), a, e) = SubSeq(s, p + a, p + e)
  BY <1>1, <1>3, PartOfAfter
<1> QED
  BY <1>2, <1>3, <1>4 DEF After, a, e

-----------------------------------------------------------------------------
(* Where one is in a field.                                                 *)

\* f is what Modes is to be, up to n
IsModes(f, s, n) ==
    f = [i \in 0 .. n |-> IF i = 0 THEN "start" ELSE ModeAfter(f[i - 1], s[i])]

\* One can always read on.
LEMMA ModesGoOn ==
    ASSUME NEW s, NEW n \in Nat, NEW f, IsModes(f, s, n)
    PROVE  \E g : IsModes(g, s, n + 1)
<1> DEFINE g == [i \in 0 .. n + 1 |-> IF i <= n THEN f[i] ELSE ModeAfter(f[n], s[n + 1])]
           h == [i \in 0 .. n + 1 |-> IF i = 0 THEN "start" ELSE ModeAfter(g[i - 1], s[i])]
<1>1. \A i \in 0 .. n : f[i] = IF i = 0 THEN "start" ELSE ModeAfter(f[i - 1], s[i])
  BY DEF IsModes
<1>2. \A i \in 0 .. n : g[i] = f[i]
  OBVIOUS
<1>3. g[n + 1] = ModeAfter(f[n], s[n + 1])
  OBVIOUS
<1>4. ASSUME NEW i \in 0 .. n + 1
      PROVE  g[i] = IF i = 0 THEN "start" ELSE ModeAfter(g[i - 1], s[i])
  <2>1. CASE i = 0
    BY <1>1, <1>2, <2>1
  <2>2. CASE i \in 1 .. n
    <3>1. i - 1 \in 0 .. n /\ i \in 0 .. n /\ i # 0
      BY <2>2
    <3> HIDE DEF g
    <3> QED
      BY <1>1, <1>2, <3>1
  <2>3. CASE i = n + 1
    <3>1. i # 0 /\ i - 1 = n /\ n \in 0 .. n
      BY <2>3
    <3> HIDE DEF g
    <3> QED
      BY <1>2, <1>3, <2>3, <3>1
  <2> QED
    BY <2>1, <2>2, <2>3
<1>5. g = h
  BY <1>4
<1>6. IsModes(g, s, n + 1)
  BY <1>5 DEF IsModes
<1> QED
  BY <1>6

\* However far one reads.
LEMMA ModesUpTo ==
    ASSUME NEW s, NEW n \in Nat
    PROVE  \E f : IsModes(f, s, n)
<1> DEFINE S == {k \in Nat : ~ \E f : IsModes(f, s, k)}
<1>1. SUFFICES ASSUME S # {} PROVE FALSE
  OBVIOUS
<1>2. PICK m \in S : \A k \in S : m <= k
  BY <1>1, LeastOf
<1>3. m # 0
  <2> DEFINE f == [i \in 0 .. 0 |-> "start"]
  <2>1. f = [i \in 0 .. 0 |-> IF i = 0 THEN "start" ELSE ModeAfter(f[i - 1], s[i])]
    OBVIOUS
  <2>2. IsModes(f, s, 0)
    BY <2>1 DEF IsModes
  <2> QED
    BY <1>2, <2>2
<1>4. m - 1 \in Nat /\ m - 1 \notin S /\ m = m - 1 + 1
  BY <1>2, <1>3
<1>5. PICK f : IsModes(f, s, m - 1)
  BY <1>4
<1>6. \E g : IsModes(g, s, m - 1 + 1)
  BY <1>4, <1>5, ModesGoOn
<1> QED
  BY <1>2, <1>4, <1>6

\* The recursive definition of Modes is one.
LEMMA ModesFacts ==
    ASSUME NEW s \in Seq(Symbols)
    PROVE  /\ Modes(s)[0] = "start"
           /\ \A i \in 1 .. Len(s) : Modes(s)[i] = ModeAfter(Modes(s)[i - 1], s[i])
<1>1. Len(s) \in Nat
  OBVIOUS
<1>2. \E f : IsModes(f, s, Len(s))
  BY <1>1, ModesUpTo
<1> DEFINE f == Modes(s)
<1>3. f = [i \in 0 .. Len(s) |-> IF i = 0 THEN "start" ELSE ModeAfter(f[i - 1], s[i])]
  BY <1>2 DEF Modes, IsModes
<1> HIDE DEF f
<1>4. \A i \in 0 .. Len(s) : f[i] = IF i = 0 THEN "start" ELSE ModeAfter(f[i - 1], s[i])
  BY <1>3
<1>5. 0 \in 0 .. Len(s) /\ \A i \in 1 .. Len(s) : i \in 0 .. Len(s) /\ i # 0
  BY <1>1
<1>6. f[0] = "start" /\ \A i \in 1 .. Len(s) : f[i] = ModeAfter(f[i - 1], s[i])
  BY <1>4, <1>5
<1> QED
  BY <1>6 DEF f

\* A mode stays while no character changes it.
LEMMA ModeStays ==
    ASSUME NEW s \in Seq(Symbols), NEW a \in Nat, NEW e \in Nat, e <= Len(s),
           NEW mode, Modes(s)[a] = mode,
           \A i \in a + 1 .. e : ModeAfter(mode, s[i]) = mode
    PROVE  \A i \in a .. e : Modes(s)[i] = mode
<1> DEFINE S == {i \in a .. e : Modes(s)[i] # mode}
<1>1. SUFFICES ASSUME S # {} PROVE FALSE
  OBVIOUS
<1>2. S \in SUBSET Nat /\ Len(s) \in Nat
  OBVIOUS
<1>3. PICK m \in S : \A i \in S : m <= i
  BY <1>1, <1>2, LeastOf
<1>4. m \in a .. e /\ m # a /\ m \in Nat
  BY <1>3
<1>5. m \in a + 1 .. e /\ m \in 1 .. Len(s) /\ m - 1 \in a .. e /\ ~ (m <= m - 1)
  BY <1>2, <1>4
<1>6. Modes(s)[m - 1] = mode
  BY <1>3, <1>5
<1>7. Modes(s)[m] = ModeAfter(mode, s[m])
  BY <1>5, <1>6, ModesFacts
<1> QED
  BY <1>3, <1>5, <1>7

\* The characters that matter are different ones.
LEMMA CharactersDiffer ==
    Comma # Quote /\ Comma # Space /\ Quote # Space /\ "zero" # Space
  BY Zenon DEF Comma, Quote, Space

-----------------------------------------------------------------------------
(* The end of a field and its text.                                         *)

\* A comma that is in no quotes ends the fields before it.
EndsField(s, i) == s[i] = Comma /\ Modes(s)[i - 1] # "quoted"

\* The first one does.
LEMMA EndAtComma ==
    ASSUME NEW s \in Seq(Symbols), NEW b \in Nat, NEW c \in b + 1 .. Len(s),
           EndsField(s, c), \A i \in b + 1 .. c - 1 : ~ EndsField(s, i)
    PROVE  EndOf(s, b) = c
<1> DEFINE S == {i \in b + 1 .. Len(s) : EndsField(s, i)} \cup {Len(s) + 1}
<1>1. Len(s) \in Nat /\ c \in Nat /\ c <= Len(s)
  OBVIOUS
<1>2. S \in SUBSET Nat /\ c \in S
  BY <1>1
<1>3. Min(S) \in S /\ \A i \in S : Min(S) <= i
  BY <1>2, LeastOf
<1>4. EndOf(s, b) = Min(S)
  BY DEF EndOf, EndsField
<1> DEFINE m == Min(S)
<1>5. m <= c /\ m \in Nat
  BY <1>2, <1>3
<1>6. ~ (m < c)
  <2> SUFFICES ASSUME m < c PROVE FALSE
    OBVIOUS
  <2>1. m # Len(s) + 1
    BY <1>1, <1>5
  <2>2. m \in b + 1 .. Len(s) /\ EndsField(s, m)
    BY <1>3, <2>1
  <2>3. m \in b + 1 .. c - 1
    BY <1>1, <2>2
  <2> QED
    BY <2>2, <2>3
<1>7. m = c
  BY <1>1, <1>5, <1>6
<1> QED
  BY <1>4, <1>7

\* Without one the field goes to the end of the line.
LEMMA EndAtEnd ==
    ASSUME NEW s \in Seq(Symbols), NEW b \in Nat,
           \A i \in b + 1 .. Len(s) : ~ EndsField(s, i)
    PROVE  EndOf(s, b) = Len(s) + 1
<1>1. {i \in b + 1 .. Len(s) : s[i] = Comma /\ Modes(s)[i - 1] # "quoted"} = {}
  BY DEF EndsField
<1>2. EndOf(s, b) = Min({Len(s) + 1})
  BY <1>1 DEF EndOf
<1>3. Len(s) + 1 \in Nat /\ {Len(s) + 1} = Len(s) + 1 .. Len(s) + 1
  OBVIOUS
<1> QED
  BY <1>2, <1>3, LeastOf

\* the character is one of the text
OfText(s, i) ==
    Modes(s)[i] = "plain" \/ (Modes(s)[i] = "quoted" /\ Modes(s)[i - 1] = "quoted")

\* The text is what lies between two places when those are its characters.
LEMMA TextBetween ==
    ASSUME NEW s \in Seq(Symbols), NEW b \in Nat, NEW a \in Nat, NEW z \in Nat,
           a <= z + 1, b < a, z <= Len(s), z < EndOf(s, b), EndOf(s, b) \in Nat,
           \A i \in b + 1 .. EndOf(s, b) - 1 : OfText(s, i) <=> a <= i /\ i <= z
    PROVE  Text(s, b) = SubSeq(s, a, z) /\ Text(s, b) \in Seq(Symbols)
<1> DEFINE e == EndOf(s, b)
           chars == {i \in b + 1 .. e - 1 : OfText(s, i)}
<1>1. Text(s, b) = IF chars = {} THEN << >> ELSE SubSeq(s, Min(chars), Max(chars))
  BY DEF Text, OfText
<1> HIDE DEF e
<1>2. \A i : i \in chars <=> i \in a .. z
  BY DEF e
<1>3. chars = a .. z
  BY <1>2
<1> HIDE DEF chars
<1>s. SubSeq(s, a, z) \in Seq(Symbols)
  BY PartFacts
<1>4. CASE a <= z
  BY <1>s, <1>1, <1>3, <1>4, Interval
<1>5. CASE z < a
  <2>1. a .. z = {}
    BY <1>5
  <2>2. SubSeq(s, a, z) = << >>
    BY <1>5, SubSeqEmpty
  <2> QED
    BY <1>s, <1>1, <1>3, <2>1, <2>2
<1> QED
  BY <1>4, <1>5

-----------------------------------------------------------------------------
(* Searches behind a place of the line.                                     *)

\* The first of some characters behind a place.
LEMMA FoundAfter ==
    ASSUME NEW s \in Seq(Symbols), NEW p \in 0 .. Len(s), NEW cs
    PROVE  LET i == IndexOf(After(s, p), cs) IN
           /\ i \in 0 .. Len(s) - p
           /\ i # 0 => s[p + i] \in cs /\ \A j \in p + 1 .. p + i - 1 : s[j] \notin cs
           /\ i = 0 => \A j \in p + 1 .. Len(s) : s[j] \notin cs
<1> DEFINE r == After(s, p)
           i == IndexOf(r, cs)
<1>1. r \in Seq(Symbols) /\ Len(r) = Len(s) - p /\ \A j \in 1 .. Len(s) - p : r[j] = s[p + j]
  BY AfterFacts
<1>2. Len(s) \in Nat /\ p \in Nat
  OBVIOUS
<1> HIDE DEF r
<1>3. /\ i \in 0 .. Len(r)
      /\ i # 0 => r[i] \in cs
      /\ \A j \in 1 .. (IF i = 0 THEN Len(r) ELSE i - 1) : r[j] \notin cs
  BY <1>1, IndexFound
<1> HIDE DEF i
<1>4. i \in 0 .. Len(s) - p
  BY <1>1, <1>3
<1>5. ASSUME i # 0
      PROVE  s[p + i] \in cs /\ \A j \in p + 1 .. p + i - 1 : s[j] \notin cs
  <2>1. i \in 1 .. Len(s) - p
    BY <1>4, <1>5, <1>2
  <2>2. s[p + i] \in cs
    BY <1>1, <1>3, <1>5, <2>1
  <2>3. ASSUME NEW j \in p + 1 .. p + i - 1  PROVE s[j] \notin cs
    <3>1. j - p \in 1 .. i - 1 /\ j - p \in 1 .. Len(s) - p /\ p + (j - p) = j
      BY <1>2, <2>1
    <3> QED
      BY <1>1, <1>3, <1>5, <3>1
  <2> QED
    BY <2>2, <2>3
<1>6. ASSUME i = 0, NEW j \in p + 1 .. Len(s)  PROVE s[j] \notin cs
  <2>1. j - p \in 1 .. Len(s) - p /\ p + (j - p) = j
    BY <1>2
  <2> QED
    BY <1>1, <1>3, <1>6, <2>1
<1> QED
  BY <1>4, <1>5, <1>6 DEF r, i

\* How far the spaces go.
LEMMA SpacesSkipped ==
    ASSUME NEW s \in Seq(Symbols), NEW b \in 0 .. Len(s)
    PROVE  \E p \in b .. Len(s) :
              /\ skipWhiteSpace(After(s, b)) = After(s, p)
              /\ \A i \in b + 1 .. p : s[i] = Space
              /\ p < Len(s) => s[p + 1] # Space
<1> DEFINE r == After(s, b)
           t == Append(r, "zero")
           C == Symbols \cup {"zero"}
           w == IndexOf(t, C \ {Space})
           p == b + w - 1
<1>1. r \in Seq(Symbols) /\ Len(r) = Len(s) - b /\ \A j \in 1 .. Len(s) - b : r[j] = s[b + j]
  BY AfterFacts
<1>2. Len(s) \in Nat /\ b \in Nat /\ b <= Len(s)
  OBVIOUS
<1> HIDE DEF r
<1>d. r \in Seq(C) /\ "zero" \in C
  BY <1>1
<1> HIDE DEF C
<1>a. "zero" \in C \ {Space}
  BY <1>d, CharactersDiffer
<1>3. /\ t \in Seq(C) /\ Len(t) = Len(r) + 1 /\ t[Len(r) + 1] = "zero"
      /\ \A j \in 1 .. Len(r) : t[j] = r[j]
  BY <1>d, AppendProperties
<1> HIDE DEF t
<1>b. \A j \in 1 .. Len(t) : t[j] \in C
  BY <1>3
<1>4. {j \in 1 .. Len(t) : t[j] # Space} = {j \in 1 .. Len(t) : t[j] \in C \ {Space}}
  BY <1>b
<1>5. SelectInSeq(t, LAMBDA c : c # Space) = w
  BY <1>4 DEF SelectInSeq, IndexOf
<1>6. skipWhiteSpace(r) = SubSeq(r, w, Len(r))
  BY <1>5 DEF skipWhiteSpace, t
<1>7. /\ w \in 0 .. Len(t)
      /\ w # 0 => t[w] \in C \ {Space}
      /\ \A j \in 1 .. (IF w = 0 THEN Len(t) ELSE w - 1) : t[j] \notin C \ {Space}
  BY <1>3, IndexFound
<1> HIDE DEF w
<1>c. Len(r) + 1 \in 1 .. Len(t)
  BY <1>1, <1>2, <1>3
<1>8. w # 0
  BY <1>a, <1>3, <1>7, <1>c
<1>9. w \in 1 .. Len(s) - b + 1
  <2>1. Len(t) = Len(s) - b + 1 /\ w \in 0 .. Len(t)
    BY <1>1, <1>3, <1>7
  <2> QED
    BY <1>2, <1>8, <2>1
<1>10. p \in b .. Len(s) /\ w - 1 \in 0 .. Len(s) - b /\ b + (w - 1) = p /\ w - 1 + 1 = w
  BY <1>2, <1>9
<1>11. After(r, w - 1) = SubSeq(r, w, Len(r))
  BY <1>10 DEF After
<1>12. skipWhiteSpace(r) = After(s, p)
  <2>1. After(r, w - 1) = After(s, b + (w - 1))
    BY <1>10, AfterAfter DEF r
  <2> QED
    BY <1>6, <1>10, <1>11, <2>1
<1>13. ASSUME NEW i \in b + 1 .. p  PROVE s[i] = Space
  <2>1. i - b \in 1 .. w - 1 /\ i - b \in 1 .. Len(s) - b /\ b + (i - b) = i
    BY <1>2, <1>9, <1>10
  <2>2. t[i - b] \notin C \ {Space} /\ t[i - b] = s[i]
    BY <1>1, <1>3, <1>7, <1>8, <2>1
  <2>3. s[i] \in C
    BY <1>2, <1>10 DEF C
  <2> QED
    BY <2>2, <2>3
<1>14. ASSUME p < Len(s)  PROVE s[p + 1] # Space
  <2>1. w \in 1 .. Len(s) - b /\ b + w = p + 1
    BY <1>2, <1>9, <1>10, <1>14
  <2>2. t[w] = s[p + 1]
    BY <1>1, <1>3, <2>1
  <2> QED
    BY <1>7, <1>8, <2>2
<1> HIDE DEF p
<1> QED
  BY <1>10, <1>12, <1>13, <1>14 DEF r

-----------------------------------------------------------------------------
(* A token is a field.                                                      *)

\* The cursor is at the beginning of the field behind b, or there is none.
AtField(cur, s, b) ==
    \/ b \in 0 .. Len(s) /\ cur = At(After(s, b)) /\ Modes(s)[b] = "start"
    \/ b = Len(s) + 1 /\ cur \in {NULL, At(<< >>)}

\* What reading the field behind b gives.
Reads(tok, s, b) ==
    /\ tok.ok /\ tok.out = Text(s, b) /\ Text(s, b) \in Seq(Symbols)
    /\ EndOf(s, b) \in b + 1 .. Len(s) + 1
    /\ AtField(tok.cur, s, EndOf(s, b))

\* strsep gives what is before the delimiter, and what is behind it.
LEMMA StrsepFacts ==
    ASSUME NEW s \in Seq(Symbols), NEW p \in 0 .. Len(s), NEW d
    PROVE  \/ /\ \A j \in p + 1 .. Len(s) : s[j] # d
              /\ strsep(After(s, p), d) = Got(SubSeq(s, p + 1, Len(s)), NULL)
           \/ \E c \in p + 1 .. Len(s) :
                 /\ s[c] = d /\ \A j \in p + 1 .. c - 1 : s[j] # d
                 /\ strsep(After(s, p), d) = Got(SubSeq(s, p + 1, c - 1), At(After(s, c)))
<1> DEFINE i == IndexOf(After(s, p), {d})
<1>1. Len(s) \in Nat /\ p \in Nat
  OBVIOUS
<1>2. /\ i \in 0 .. Len(s) - p
      /\ i # 0 => s[p + i] \in {d} /\ \A j \in p + 1 .. p + i - 1 : s[j] \notin {d}
      /\ i = 0 => \A j \in p + 1 .. Len(s) : s[j] \notin {d}
  BY FoundAfter
<1>3. strsep(After(s, p), d) =
        IF i = 0 THEN Got(After(s, p), NULL)
        ELSE Got(SubSeq(After(s, p), 1, i - 1), At(After(After(s, p), i)))
  BY DEF strsep
<1> HIDE DEF i
<1>n. i \in Nat /\ i <= Len(s) - p
  BY <1>1, <1>2
<1>4. CASE i = 0
  BY <1>2, <1>3, <1>4 DEF After
<1>5. CASE i # 0
  <2> DEFINE c == p + i
           e == i - 1
  <2>1. /\ c \in p + 1 .. Len(s) /\ e \in Nat /\ 1 \in Nat /\ 1 <= e + 1
        /\ p + e = c - 1 /\ p + e <= Len(s)
    BY <1>1, <1>n, <1>5
  <2> HIDE DEF e
  <2>2. SubSeq(After(s, p), 1, e) = SubSeq(s, p + 1, p + e)
    BY <2>1, PartOfAfter
  <2>3. After(After(s, p), i) = After(s, p + i)
    BY <1>2, AfterAfter
  <2>4. s[c] = d /\ \A j \in p + 1 .. c - 1 : s[j] # d
    BY <1>2, <1>5
  <2>5. strsep(After(s, p), d) = Got(SubSeq(s, p + 1, c - 1), At(After(s, c)))
    BY <1>3, <1>5, <2>1, <2>2, <2>3 DEF e
  <2> HIDE DEF c
  <2> QED
    BY <2>1, <2>4, <2>5
<1> QED
  BY <1>4, <1>5

\* And skipNextComma goes behind the next comma, or to the end.
LEMMA CommaFacts ==
    ASSUME NEW s \in Seq(Symbols), NEW p \in 0 .. Len(s)
    PROVE  \/ /\ \A j \in p + 1 .. Len(s) : s[j] # Comma
              /\ skipNextComma(At(After(s, p))) = At(<< >>)
           \/ \E c \in p + 1 .. Len(s) :
                 /\ s[c] = Comma /\ \A j \in p + 1 .. c - 1 : s[j] # Comma
                 /\ skipNextComma(At(After(s, p))) = At(After(s, c))
<1> DEFINE i == IndexOf(After(s, p), {Comma})
<1>1. Len(s) \in Nat /\ p \in Nat
  OBVIOUS
<1>2. /\ i \in 0 .. Len(s) - p
      /\ i # 0 => s[p + i] \in {Comma} /\ \A j \in p + 1 .. p + i - 1 : s[j] \notin {Comma}
      /\ i = 0 => \A j \in p + 1 .. Len(s) : s[j] \notin {Comma}
  BY FoundAfter
<1>3. skipNextComma(At(After(s, p))) =
        IF i = 0 THEN At(<< >>) ELSE At(After(After(s, p), i))
  BY DEF skipNextComma, At
<1> HIDE DEF i
<1>n. i \in Nat /\ i <= Len(s) - p
  BY <1>1, <1>2
<1>4. CASE i = 0
  BY <1>2, <1>3, <1>4
<1>5. CASE i # 0
  <2> DEFINE c == p + i
  <2>1. c \in p + 1 .. Len(s)
    BY <1>1, <1>n, <1>5
  <2>2. After(After(s, p), i) = After(s, c)
    BY <1>2, AfterAfter
  <2>3. s[c] = Comma
    BY <1>2, <1>5
  <2>5. \A j \in p + 1 .. c - 1 : s[j] # Comma
    BY <1>2, <1>5
  <2>4. skipNextComma(At(After(s, p))) = At(After(s, c))
    BY <1>3, <1>5, <2>2
  <2> HIDE DEF c
  <2> QED
    BY <2>1, <2>3, <2>4, <2>5
<1> QED
  BY <1>4, <1>5

\* Spaces are part of the beginning.
LEMMA StartStays ==
    ASSUME NEW s \in Seq(Symbols), NEW b \in Nat, NEW p \in Nat, b <= p, p <= Len(s),
           Modes(s)[b] = "start", \A i \in b + 1 .. p : s[i] = Space
    PROVE  /\ \A i \in b .. p : Modes(s)[i] = "start"
           /\ \A i \in b + 1 .. p : ~ EndsField(s, i) /\ ~ OfText(s, i)
<1>2. \A i \in b + 1 .. p : ModeAfter("start", s[i]) = "start"
  BY CharactersDiffer DEF ModeAfter
<1>3. \A i \in b .. p : Modes(s)[i] = "start"
  BY <1>2, ModeStays
<1>4. \A i \in b + 1 .. p : i \in b .. p /\ i - 1 \in b .. p
  OBVIOUS
<1>5. \A i \in b + 1 .. p : ~ EndsField(s, i) /\ ~ OfText(s, i)
  BY <1>3, <1>4, CharactersDiffer DEF EndsField, OfText
<1> QED
  BY <1>3, <1>5

\* A comma in no quotes begins a field.
LEMMA CommaStarts ==
    ASSUME NEW s \in Seq(Symbols), NEW c \in 1 .. Len(s), EndsField(s, c)
    PROVE  AtField(At(After(s, c)), s, c)
<1>1. Modes(s)[c] = ModeAfter(Modes(s)[c - 1], s[c])
  BY ModesFacts
<1>2. c \in 0 .. Len(s)
  OBVIOUS
<1> QED
  BY <1>1, <1>2 DEF EndsField, ModeAfter, AtField

\* A field that is not quoted.
LEMMA ReadsPlain ==
    ASSUME NEW s \in Seq(Symbols), NEW b \in Nat, NEW p \in Nat, b <= p, p <= Len(s),
           Modes(s)[b] = "start", \A i \in b + 1 .. p : s[i] = Space,
           p < Len(s) => s[p + 1] # Space /\ s[p + 1] # Quote
    PROVE  Reads(strsep(After(s, p), Comma), s, b)
<1>1. Len(s) \in Nat /\ p \in 0 .. Len(s)
  OBVIOUS
<1>2. /\ \A i \in b .. p : Modes(s)[i] = "start"
      /\ \A i \in b + 1 .. p : ~ EndsField(s, i) /\ ~ OfText(s, i)
  BY StartStays
<1>3. ASSUME NEW z \in Nat, p <= z, z <= Len(s), \A j \in p + 1 .. z : s[j] # Comma
      PROVE  /\ \A i \in p + 1 .. z : Modes(s)[i] = "plain"
             /\ \A i \in b + 1 .. z : ~ EndsField(s, i)
             /\ \A i \in b + 1 .. z : OfText(s, i) <=> p + 1 <= i /\ i <= z
             /\ Modes(s)[z] # "quoted"
  <2>1. CASE z = p
    <3>1. \A i \in b + 1 .. z : i \in b + 1 .. p /\ ~ (p + 1 <= i)
      BY <2>1
    <3>2. \A i \in p + 1 .. z : FALSE
      BY <2>1
    <3>3. Modes(s)[z] = "start"
      BY <1>2, <2>1
    <3> QED
      BY <1>2, <3>1, <3>2, <3>3
  <2>2. CASE p < z
    <3>1. p + 1 \in 1 .. Len(s) /\ p + 1 \in p + 1 .. z /\ p + 1 - 1 = p /\ p \in b .. p
      BY <1>1, <1>3, <2>2
    <3>2. Modes(s)[p + 1] = ModeAfter(Modes(s)[p], s[p + 1]) /\ Modes(s)[p] = "start"
      BY <1>2, <3>1, ModesFacts
    <3>3. Modes(s)[p + 1] = "plain"
      <4>1. s[p + 1] # Comma /\ s[p + 1] # Space /\ s[p + 1] # Quote
        BY <1>1, <1>3, <2>2, <3>1
      <4> QED
        BY <3>2, <4>1 DEF ModeAfter
    <3>4. \A i \in p + 1 + 1 .. z : ModeAfter("plain", s[i]) = "plain"
      <4>1. \A i \in p + 1 + 1 .. z : s[i] # Comma
        BY <1>3
      <4> QED
        BY <4>1 DEF ModeAfter
    <3>5. \A i \in p + 1 .. z : Modes(s)[i] = "plain"
      BY <1>3, <3>3, <3>4, ModeStays
    <3>6. \A i \in b + 1 .. z : \/ i \in b + 1 .. p /\ ~ (p + 1 <= i)
                                \/ i \in p + 1 .. z /\ i <= z
      BY <1>1, <1>3
    <3>7. \A i \in p + 1 .. z : OfText(s, i) /\ ~ EndsField(s, i)
      BY <1>3, <3>5 DEF OfText, EndsField
    <3>8. z \in p + 1 .. z
      BY <1>3, <2>2
    <3> QED
      BY <1>2, <3>5, <3>6, <3>7, <3>8
  <2> QED
    BY <1>3, <2>1, <2>2
<1>4. CASE /\ \A j \in p + 1 .. Len(s) : s[j] # Comma
           /\ strsep(After(s, p), Comma) = Got(SubSeq(s, p + 1, Len(s)), NULL)
  <2>1. /\ \A i \in b + 1 .. Len(s) : ~ EndsField(s, i)
        /\ \A i \in b + 1 .. Len(s) : OfText(s, i) <=> p + 1 <= i /\ i <= Len(s)
    BY <1>1, <1>3, <1>4
  <2>2. EndOf(s, b) = Len(s) + 1
    BY <2>1, EndAtEnd
  <2>3. /\ p + 1 \in Nat /\ p + 1 <= Len(s) + 1 /\ b < p + 1 /\ Len(s) <= Len(s)
        /\ Len(s) < EndOf(s, b) /\ EndOf(s, b) \in Nat /\ EndOf(s, b) - 1 = Len(s)
    BY <1>1, <2>2
  <2>4. Text(s, b) = SubSeq(s, p + 1, Len(s)) /\ Text(s, b) \in Seq(Symbols)
    BY <1>1, <2>1, <2>3, TextBetween
  <2>5. EndOf(s, b) \in b + 1 .. Len(s) + 1
    BY <1>1, <2>2
  <2> QED
    BY <1>4, <2>2, <2>4, <2>5 DEF Reads, AtField, Got
<1>5. CASE \E c \in p + 1 .. Len(s) :
              /\ s[c] = Comma /\ \A j \in p + 1 .. c - 1 : s[j] # Comma
              /\ strsep(After(s, p), Comma) = Got(SubSeq(s, p + 1, c - 1), At(After(s, c)))
  <2>1. PICK c \in p + 1 .. Len(s) :
              /\ s[c] = Comma /\ \A j \in p + 1 .. c - 1 : s[j] # Comma
              /\ strsep(After(s, p), Comma) = Got(SubSeq(s, p + 1, c - 1), At(After(s, c)))
    BY <1>5
  <2> DEFINE z == c - 1
  <2>2. /\ z \in Nat /\ p <= z /\ z <= Len(s) /\ c \in b + 1 .. Len(s) /\ c \in 1 .. Len(s)
        /\ p + 1 \in Nat /\ p + 1 <= z + 1 /\ b < p + 1 /\ z < c /\ c \in Nat
        /\ c \in b + 1 .. Len(s) + 1
    BY <1>1
  <2>3. /\ \A i \in b + 1 .. z : ~ EndsField(s, i)
        /\ \A i \in b + 1 .. z : OfText(s, i) <=> p + 1 <= i /\ i <= z
        /\ Modes(s)[z] # "quoted"
    BY <1>3, <2>1, <2>2
  <2>4. EndsField(s, c)
    BY <2>1, <2>3 DEF EndsField
  <2>5. EndOf(s, b) = c
    BY <2>2, <2>3, <2>4, EndAtComma
  <2> HIDE DEF z
  <2>6. /\ z < EndOf(s, b) /\ EndOf(s, b) \in Nat
        /\ \A i \in b + 1 .. EndOf(s, b) - 1 : OfText(s, i) <=> p + 1 <= i /\ i <= z
    BY <2>2, <2>3, <2>5 DEF z
  <2>7. Text(s, b) = SubSeq(s, p + 1, z) /\ Text(s, b) \in Seq(Symbols)
    BY <2>2, <2>6, TextBetween
  <2>8. AtField(At(After(s, c)), s, c)
    BY <2>2, <2>4, CommaStarts
  <2> QED
    BY <2>1, <2>2, <2>5, <2>7, <2>8 DEF Reads, Got, z
<1> QED
  BY <1>1, <1>4, <1>5, StrsepFacts

\* A field that is quoted.
LEMMA ReadsQuoted ==
    ASSUME NEW s \in Seq(Symbols), NEW b \in Nat, NEW p \in Nat, b <= p, p < Len(s),
           Modes(s)[b] = "start", \A i \in b + 1 .. p : s[i] = Space,
           s[p + 1] = Quote
    PROVE  Reads(TokOf(strsep(After(s, p + 1), Quote)), s, b)
<1> DEFINE o == p + 1
<1>1. Len(s) \in Nat /\ o \in 0 .. Len(s) /\ o \in 1 .. Len(s) /\ o \in Nat /\ p = o - 1
      /\ p \in b .. p
  OBVIOUS
<1>2. /\ \A i \in b .. p : Modes(s)[i] = "start"
      /\ \A i \in b + 1 .. p : ~ EndsField(s, i) /\ ~ OfText(s, i)
  BY StartStays
<1>3. Modes(s)[o] = "quoted"
  <2>1. Modes(s)[o] = ModeAfter(Modes(s)[p], s[o]) /\ Modes(s)[p] = "start" /\ s[o] = Quote
    BY <1>1, <1>2, ModesFacts
  <2> QED
    BY <2>1, CharactersDiffer DEF ModeAfter
<1>4. ~ EndsField(s, o) /\ ~ OfText(s, o)
  <2>1. Modes(s)[o - 1] = "start" /\ s[o] = Quote
    BY <1>1, <1>2
  <2> QED
    BY <1>3, <2>1, CharactersDiffer DEF EndsField, OfText
<1>5. \A i \in b + 1 .. o : ~ EndsField(s, i) /\ ~ OfText(s, i)
  <2>1. \A i \in b + 1 .. o : i \in b + 1 .. p \/ i = o
    BY <1>1
  <2> QED
    BY <1>2, <1>4, <2>1
<1>n. b < o /\ o <= Len(s) /\ strsep(After(s, p + 1), Quote) = strsep(After(s, o), Quote)
  BY <1>1
<1> HIDE DEF o
\* the text, up to the closing quote or the end of the line
<1>6. ASSUME NEW z \in Nat, o <= z, z <= Len(s), \A j \in o + 1 .. z : s[j] # Quote
      PROVE  /\ \A i \in o .. z : Modes(s)[i] = "quoted"
             /\ \A i \in b + 1 .. z : ~ EndsField(s, i)
             /\ \A i \in b + 1 .. z : OfText(s, i) <=> o + 1 <= i /\ i <= z
  <2>1. \A i \in o + 1 .. z : ModeAfter("quoted", s[i]) = "quoted"
    BY <1>6 DEF ModeAfter
  <2>2. \A i \in o .. z : Modes(s)[i] = "quoted"
    BY <1>1, <1>3, <1>6, <2>1, ModeStays
  <2>3. \A i \in o + 1 .. z : i \in o .. z /\ i - 1 \in o .. z
    BY <1>1, <1>6
  <2>4. \A i \in o + 1 .. z : OfText(s, i) /\ ~ EndsField(s, i)
    BY <2>2, <2>3 DEF OfText, EndsField
  <2>5. \A i \in b + 1 .. z : \/ i \in b + 1 .. o /\ ~ (o + 1 <= i)
                              \/ i \in o + 1 .. z /\ i <= z
    BY <1>1, <1>6
  <2> QED
    BY <1>5, <2>2, <2>4, <2>5
<1>7. CASE /\ \A j \in o + 1 .. Len(s) : s[j] # Quote
           /\ strsep(After(s, o), Quote) = Got(SubSeq(s, o + 1, Len(s)), NULL)
  <2>1. /\ \A i \in b + 1 .. Len(s) : ~ EndsField(s, i)
        /\ \A i \in b + 1 .. Len(s) : OfText(s, i) <=> o + 1 <= i /\ i <= Len(s)
    BY <1>1, <1>n, <1>6, <1>7
  <2>2. EndOf(s, b) = Len(s) + 1
    BY <2>1, EndAtEnd
  <2>3. /\ o + 1 \in Nat /\ o + 1 <= Len(s) + 1 /\ b < o + 1 /\ Len(s) <= Len(s)
        /\ Len(s) < EndOf(s, b) /\ EndOf(s, b) \in Nat
        /\ \A i \in b + 1 .. EndOf(s, b) - 1 : OfText(s, i) <=> o + 1 <= i /\ i <= Len(s)
    BY <1>1, <1>n, <2>1, <2>2
  <2>4. Text(s, b) = SubSeq(s, o + 1, Len(s)) /\ Text(s, b) \in Seq(Symbols)
    BY <1>1, <2>3, TextBetween
  <2>5. EndOf(s, b) \in b + 1 .. Len(s) + 1
    BY <1>1, <1>n, <2>2
  <2>6. skipNextComma(NULL) = NULL
    BY DEF skipNextComma, NULL
  <2> QED
    BY <1>n, <1>7, <2>2, <2>4, <2>5, <2>6 DEF Reads, AtField, Got, TokOf
<1>8. CASE \E q \in o + 1 .. Len(s) :
              /\ s[q] = Quote /\ \A j \in o + 1 .. q - 1 : s[j] # Quote
              /\ strsep(After(s, o), Quote) = Got(SubSeq(s, o + 1, q - 1), At(After(s, q)))
  <2>1. PICK q \in o + 1 .. Len(s) :
              /\ s[q] = Quote /\ \A j \in o + 1 .. q - 1 : s[j] # Quote
              /\ strsep(After(s, o), Quote) = Got(SubSeq(s, o + 1, q - 1), At(After(s, q)))
    BY <1>8
  <2> DEFINE z == q - 1
  <2>2. /\ z \in Nat /\ o <= z /\ z <= Len(s) /\ q \in 1 .. Len(s) /\ q \in 0 .. Len(s)
        /\ o + 1 \in Nat /\ o + 1 <= z + 1 /\ b < o + 1 /\ q \in Nat /\ q <= Len(s)
        /\ z \in o .. z /\ q = z + 1 /\ z < q /\ b < q
    BY <1>1, <1>n
  <2>3. /\ \A i \in o .. z : Modes(s)[i] = "quoted"
        /\ \A i \in b + 1 .. z : ~ EndsField(s, i)
        /\ \A i \in b + 1 .. z : OfText(s, i) <=> o + 1 <= i /\ i <= z
    BY <1>6, <2>1, <2>2
  <2>4. Modes(s)[q] = "closed"
    <3>1. Modes(s)[q] = ModeAfter(Modes(s)[z], s[q]) /\ Modes(s)[z] = "quoted"
      BY <2>2, <2>3, ModesFacts
    <3> QED
      BY <2>1, <3>1, CharactersDiffer DEF ModeAfter
  <2>z. strsep(After(s, o), Quote) = Got(SubSeq(s, o + 1, z), At(After(s, q)))
    BY <2>1
  <2> HIDE DEF z
  \* what follows the closing quote, up to the comma or the end of the line
  <2>5. ASSUME NEW y \in Nat, q <= y, y <= Len(s), \A j \in q + 1 .. y : s[j] # Comma
        PROVE  /\ \A i \in b + 1 .. y : ~ EndsField(s, i)
               /\ \A i \in b + 1 .. y : OfText(s, i) <=> o + 1 <= i /\ i <= z
               /\ Modes(s)[y] = "closed"
    <3>1. \A i \in q + 1 .. y : ModeAfter("closed", s[i]) = "closed"
      BY <2>5 DEF ModeAfter
    <3>2. \A i \in q .. y : Modes(s)[i] = "closed"
      BY <2>2, <2>4, <2>5, <3>1, ModeStays
    <3>3. \A i \in q + 1 .. y : ~ EndsField(s, i)
      BY <2>5 DEF EndsField
    <3>4. ~ EndsField(s, q)
      BY <2>1, CharactersDiffer DEF EndsField
    <3>5. \A i \in q .. y : ~ OfText(s, i) /\ ~ (i <= z)
      BY <2>2, <3>2 DEF OfText
    <3>6. \A i \in b + 1 .. y : i \in b + 1 .. z \/ i = q \/ i \in q + 1 .. y
      BY <2>2, <2>5
    <3>7. y \in q .. y /\ q \in q .. y /\ \A i \in q + 1 .. y : i \in q .. y
      BY <2>2, <2>5
    <3> QED
      BY <2>3, <3>2, <3>3, <3>4, <3>5, <3>6, <3>7
  <2>6. CASE /\ \A j \in q + 1 .. Len(s) : s[j] # Comma
             /\ skipNextComma(At(After(s, q))) = At(<< >>)
    <3>1. /\ \A i \in b + 1 .. Len(s) : ~ EndsField(s, i)
          /\ \A i \in b + 1 .. Len(s) : OfText(s, i) <=> o + 1 <= i /\ i <= z
      BY <1>1, <2>2, <2>5, <2>6
    <3>2. EndOf(s, b) = Len(s) + 1
      BY <3>1, EndAtEnd
    <3>3. /\ z < EndOf(s, b) /\ EndOf(s, b) \in Nat
          /\ \A i \in b + 1 .. EndOf(s, b) - 1 : OfText(s, i) <=> o + 1 <= i /\ i <= z
      BY <1>1, <2>2, <3>1, <3>2
    <3>4. Text(s, b) = SubSeq(s, o + 1, z) /\ Text(s, b) \in Seq(Symbols)
      BY <2>2, <3>3, TextBetween
    <3>5. EndOf(s, b) \in b + 1 .. Len(s) + 1
      BY <1>1, <1>n, <3>2
    <3> QED
      BY <1>n, <2>z, <2>6, <3>2, <3>4, <3>5 DEF Reads, AtField, Got, TokOf
  <2>7. CASE \E c \in q + 1 .. Len(s) :
                /\ s[c] = Comma /\ \A j \in q + 1 .. c - 1 : s[j] # Comma
                /\ skipNextComma(At(After(s, q))) = At(After(s, c))
    <3>1. PICK c \in q + 1 .. Len(s) :
                /\ s[c] = Comma /\ \A j \in q + 1 .. c - 1 : s[j] # Comma
                /\ skipNextComma(At(After(s, q))) = At(After(s, c))
      BY <2>7
    <3> DEFINE y == c - 1
    <3>2. /\ y \in Nat /\ q <= y /\ y <= Len(s) /\ c \in b + 1 .. Len(s) /\ c \in 1 .. Len(s)
          /\ z < c /\ c \in Nat /\ c \in b + 1 .. Len(s) + 1
      BY <1>1, <2>2
    <3>3. /\ \A i \in b + 1 .. y : ~ EndsField(s, i)
          /\ \A i \in b + 1 .. y : OfText(s, i) <=> o + 1 <= i /\ i <= z
          /\ Modes(s)[y] = "closed"
      BY <2>5, <3>1, <3>2
    <3>4. EndsField(s, c)
      BY <3>1, <3>3 DEF EndsField
    <3>5. EndOf(s, b) = c
      BY <3>2, <3>3, <3>4, EndAtComma
    <3>6. /\ z < EndOf(s, b) /\ EndOf(s, b) \in Nat
          /\ \A i \in b + 1 .. EndOf(s, b) - 1 : OfText(s, i) <=> o + 1 <= i /\ i <= z
      BY <3>2, <3>3, <3>5
    <3>7. Text(s, b) = SubSeq(s, o + 1, z) /\ Text(s, b) \in Seq(Symbols)
      BY <2>2, <3>6, TextBetween
    <3>8. AtField(At(After(s, c)), s, c)
      BY <3>2, <3>4, CommaStarts
    <3> QED
      BY <1>n, <2>z, <3>1, <3>2, <3>5, <3>7, <3>8 DEF Reads, Got, TokOf
  <2> QED
    BY <2>2, <2>6, <2>7, CommaFacts
<1> QED
  BY <1>1, <1>7, <1>8, StrsepFacts

\* nextTok reads the field the cursor is at.
LEMMA ReadsField ==
    ASSUME NEW s \in Seq(Symbols), NEW b \in 0 .. Len(s), Modes(s)[b] = "start"
    PROVE  Reads(nextTok(At(After(s, b))), s, b)
<1>1. Len(s) \in Nat /\ b \in Nat
  OBVIOUS
<1>2. PICK p \in b .. Len(s) :
          /\ skipWhiteSpace(After(s, b)) = After(s, p)
          /\ \A i \in b + 1 .. p : s[i] = Space
          /\ p < Len(s) => s[p + 1] # Space
  BY SpacesSkipped
<1>3. p \in Nat /\ b <= p /\ p <= Len(s) /\ p \in 0 .. Len(s)
  BY <1>1
<1>4. nextTok(At(After(s, b))) = TokAt(After(s, p))
  BY <1>2 DEF nextTok, At
<1>5. CASE p < Len(s) /\ s[p + 1] = Quote
  <2>1. After(s, p) \in Seq(Symbols) /\ After(s, p) # << >> /\ After(s, p)[1] = Quote
    <3>1. 1 \in 1 .. Len(s) - p /\ p # Len(s)
      BY <1>1, <1>3, <1>5
    <3> QED
      BY <1>3, <1>5, <3>1, AfterFacts
  <2>2. Tail(After(s, p)) = After(s, p + 1)
    <3>1. 1 \in 0 .. Len(s) - p
      BY <1>1, <1>3, <1>5
    <3>2. After(After(s, p), 1) = After(s, p + 1)
      BY <1>3, <3>1, AfterAfter
    <3>3. Tail(After(s, p)) = SubSeq(After(s, p), 2, Len(After(s, p)))
      BY <2>1, TailIsSubSeq
    <3> QED
      BY <3>2, <3>3 DEF After
  <2>3. TokAt(After(s, p)) = TokOf(strsep(After(s, p + 1), Quote))
    BY <2>1, <2>2 DEF TokAt
  <2> QED
    BY <1>1, <1>2, <1>3, <1>4, <1>5, <2>3, ReadsQuoted
<1>6. CASE ~ (p < Len(s) /\ s[p + 1] = Quote)
  <2>1. ~ (After(s, p) # << >> /\ After(s, p)[1] = Quote)
    <3>1. CASE p = Len(s)
      BY <1>3, <3>1, AfterFacts
    <3>2. CASE p < Len(s)
      <4>1. 1 \in 1 .. Len(s) - p
        BY <1>1, <1>3, <3>2
      <4> QED
        BY <1>3, <1>6, <3>2, <4>1, AfterFacts
    <3> QED
      BY <1>1, <1>3, <3>1, <3>2
  <2>2. TokAt(After(s, p)) = strsep(After(s, p), Comma)
    BY <2>1 DEF TokAt
  <2> QED
    BY <1>1, <1>2, <1>3, <1>4, <1>6, <2>2, ReadsPlain
<1> QED
  BY <1>5, <1>6

\* What is empty is no number.
LEMMA NothingRead == DigitsAtFront(nextTok(At(<< >>)).out) = << >>
<1> DEFINE e == << >>
<1>1. e \in Seq(Symbols) /\ Len(e) = 0 /\ 0 \in 0 .. Len(e)
  OBVIOUS
<1>2. After(e, 0) = e
  BY <1>1, AfterFacts
<1>3. skipWhiteSpace(e) = e
  <2> HIDE DEF e
  <2>1. PICK p \in 0 .. Len(e) : skipWhiteSpace(After(e, 0)) = After(e, p)
    BY <1>1, SpacesSkipped
  <2>2. p = 0
    BY <1>1
  <2> QED
    BY <1>2, <2>1, <2>2
<1>4. nextTok(At(e)).out = e
  <2>1. nextTok(At(e)) = strsep(e, Comma)
    BY <1>3 DEF nextTok, At, TokAt
  <2> HIDE DEF e
  <2>e. \A c : c \notin 0 + 1 .. Len(e)
    BY <1>1
  <2>2. strsep(After(e, 0), Comma) = Got(SubSeq(e, 0 + 1, Len(e)), NULL)
    BY <1>1, <2>e, StrsepFacts
  <2>3. SubSeq(e, 0 + 1, Len(e)) = e
    BY <1>2 DEF After
  <2> QED
    BY <1>2, <2>1, <2>2, <2>3 DEF Got
<1>5. DigitsAtFront(e) = << >>
  <2> DEFINE t == Append(e, "zero")
             I == {i \in 1 .. Len(t) : t[i] \notin ToSet(Digits)}
  <2>1. t = <<"zero">> /\ Len(t) = 1 /\ t[1] = "zero"
    OBVIOUS
  <2>2. "zero" \notin ToSet(Digits)
    BY DEF ToSet, Digits
  <2> HIDE DEF t
  <2>3. I = 1 .. 1
    BY <2>1, <2>2
  <2> HIDE DEF I
  <2>i. 1 \in Nat /\ 1 <= 1
    OBVIOUS
  <2>4. Min(I) = 1
    BY <2>3, <2>i, Interval
  <2>5. SelectInSeq(t, LAMBDA c : c \notin ToSet(Digits)) = 1
    BY <2>1, <2>3, <2>4 DEF SelectInSeq, I
  <2>6. DigitsAtFront(e) = SubSeq(t, 1, 1 - 1)
    BY <1>3, <2>5 DEF DigitsAtFront, t
  <2> QED
    BY <2>6, SubSeqEmpty
<1> QED
  BY <1>4, <1>5

\* at_tok_nextint gives the number in the field, if it begins with one.
LEMMA NextInt ==
    ASSUME NEW s \in Seq(Symbols), NEW b, NEW cur, AtField(cur, s, b)
    PROVE  /\ at_tok_nextint(cur).ok <=> HasInt(s, b)
           /\ HasInt(s, b) => /\ at_tok_nextint(cur).out = IntField(s, b)
                              /\ AtField(at_tok_nextint(cur).cur, s, EndOf(s, b))
<1>1. Len(s) \in Nat
  OBVIOUS
<1>2. CASE b \in 0 .. Len(s) /\ cur = At(After(s, b)) /\ Modes(s)[b] = "start"
  <2> DEFINE tok == nextTok(cur)
  <2>1. Reads(tok, s, b)
    BY <1>2, ReadsField
  <2>2. at_tok_nextint(cur) = IntOf(tok, DigitsAtFront(tok.out))
    BY <1>2 DEF at_tok_nextint, IntIn, At
  <2>3. HasField(s, b)
    BY <1>1, <1>2 DEF HasField
  <2> HIDE DEF tok
  <2> QED
    BY <2>1, <2>2, <2>3 DEF Reads, IntOf, HasInt, IntField, Failed, Got
<1>3. CASE b = Len(s) + 1 /\ cur \in {NULL, At(<< >>)}
  <2>1. ~ HasInt(s, b)
    BY <1>1, <1>3 DEF HasInt, HasField
  <2>2. CASE cur = NULL
    BY <2>1, <2>2 DEF at_tok_nextint, NULL, Failed
  <2>3. CASE cur = At(<< >>)
    BY <2>1, <2>3, NothingRead DEF at_tok_nextint, IntIn, IntOf, At, Failed
  <2> QED
    BY <1>3, <2>1, <2>2, <2>3
<1> QED
  BY <1>2, <1>3 DEF AtField

\* at_tok_nextstr gives the text of the field, if there is one.
LEMMA NextStr ==
    ASSUME NEW s \in Seq(Symbols), NEW b \in 0 .. Len(s), NEW cur, AtField(cur, s, b)
    PROVE  at_tok_nextstr(cur).ok /\ at_tok_nextstr(cur).out = Text(s, b)
           /\ Text(s, b) \in Seq(Symbols)
<1>1. cur = At(After(s, b)) /\ Modes(s)[b] = "start"
  BY DEF AtField
<1>2. Reads(nextTok(cur), s, b)
  BY <1>1, ReadsField
<1>3. at_tok_nextstr(cur) = nextTok(cur)
  BY <1>1 DEF at_tok_nextstr, At
<1> QED
  BY <1>2, <1>3 DEF Reads

\* at_tok_hasmore says whether anything follows.
LEMMA HasMore ==
    ASSUME NEW s \in Seq(Symbols), NEW b, NEW cur, AtField(cur, s, b)
    PROVE  /\ at_tok_hasmore(cur) <=> ~ (b >= Len(s))
           /\ at_tok_hasmore(cur) => b \in 0 .. Len(s)
<1>1. Len(s) \in Nat
  OBVIOUS
<1>2. CASE b \in 0 .. Len(s) /\ cur = At(After(s, b))
  <2>1. After(s, b) = << >> <=> b = Len(s)
    BY <1>2, AfterFacts
  <2>2. at_tok_hasmore(cur) <=> After(s, b) # << >>
    BY <1>2 DEF at_tok_hasmore, At
  <2> QED
    BY <1>1, <1>2, <2>1, <2>2
<1>3. CASE b = Len(s) + 1 /\ cur \in {NULL, At(<< >>)}
  <2>1. ~ at_tok_hasmore(cur)
    BY <1>3 DEF at_tok_hasmore, At, NULL
  <2> QED
    BY <1>1, <1>3, <2>1
<1> QED
  BY <1>2, <1>3 DEF AtField

-----------------------------------------------------------------------------
(* The beginnings of lines.                                                 *)

\* at_tok_start goes behind the colon.
LEMMA StartOfLine ==
    ASSUME NEW line \in Seq(Symbols), line # << >>, line[1] = ":"
    PROVE  LET start == at_tok_start(At(line)) IN
           /\ Tail(line) \in Seq(Symbols)
           /\ start.ok /\ AtField(start.cur, Tail(line), 0)
<1>1. Len(line) \in Nat /\ Len(line) # 0 /\ 1 \in 0 .. Len(line)
  BY EmptySeq
<1> DEFINE i == IndexOf(line, {":"})
           s == Tail(line)
<1>2. /\ i \in 0 .. Len(line)
      /\ \A j \in 1 .. (IF i = 0 THEN Len(line) ELSE i - 1) : line[j] \notin {":"}
  BY IndexFound
<1> HIDE DEF i
<1>3. i = 1
  BY <1>1, <1>2
<1>4. s = After(line, 1) /\ s \in Seq(Symbols)
  BY TailIsSubSeq, HeadTailProperties DEF After
<1>5. at_tok_start(At(line)) = Got(<< >>, At(s))
  <2>1. at_tok_start(At(line)) = IF i = 0 THEN Failed(NULL) ELSE Got(<< >>, At(After(line, i)))
    BY DEF at_tok_start, At, i
  <2>2. i # 0
    BY <1>3
  <2>3. at_tok_start(At(line)) = Got(<< >>, At(After(line, i)))
    BY <2>1, <2>2, Zenon
  <2> QED
    BY <1>3, <1>4, <2>3, Zenon
<1> HIDE DEF s
<1>6. After(s, 0) = s /\ 0 \in 0 .. Len(s)
  <2>1. SubSeq(s, 1, Len(s)) = s
    BY <1>4, SubSeqFull
  <2>2. Len(s) \in Nat
    BY <1>4
  <2> QED
    BY <2>1, <2>2 DEF After
<1>7. AtField(At(s), s, 0)
  BY <1>4, <1>6, ModesFacts DEF AtField
<1> QED
  BY <1>4, <1>5, <1>7 DEF Got, s

\* Also in a final response that begins with a word.
LEMMA StartOfFinal ==
    ASSUME NEW final \in Seq(Symbols), Len(final) > 1, final[1] = CME_ERROR, final[2] = ":"
    PROVE  LET start == at_tok_start(At(final))
               s == SubSeq(final, 3, Len(final)) IN
           /\ s \in Seq(Symbols)
           /\ start.ok /\ AtField(start.cur, s, 0)
<1>0. CME_ERROR # ":"
  BY Zenon DEF CME_ERROR
<1>1. Len(final) \in Nat /\ 2 \in 0 .. Len(final)
  OBVIOUS
<1> DEFINE i == IndexOf(final, {":"})
           s == SubSeq(final, 3, Len(final))
<1>2. /\ i \in 0 .. Len(final)
      /\ i # 0 => final[i] \in {":"}
      /\ \A j \in 1 .. (IF i = 0 THEN Len(final) ELSE i - 1) : final[j] \notin {":"}
  BY IndexFound
<1> HIDE DEF i
<1>3. i = 2
  <2>1. i # 0
    BY <1>1, <1>2
  <2>2. i # 1
    BY <1>0, <1>2
  <2>3. ~ (2 < i)
    BY <1>1, <1>2
  <2> QED
    BY <1>2, <2>1, <2>2, <2>3
<1>4. s = After(final, 2) /\ s \in Seq(Symbols)
  BY <1>1, AfterFacts DEF After
<1>5. at_tok_start(At(final)) = Got(<< >>, At(s))
  <2>1. at_tok_start(At(final)) = IF i = 0 THEN Failed(NULL) ELSE Got(<< >>, At(After(final, i)))
    BY DEF at_tok_start, At, i
  <2>2. i # 0
    BY <1>3
  <2>3. at_tok_start(At(final)) = Got(<< >>, At(After(final, i)))
    BY <2>1, <2>2, Zenon
  <2> QED
    BY <1>3, <1>4, <2>3, Zenon
<1> HIDE DEF s
<1>6. After(s, 0) = s /\ 0 \in 0 .. Len(s)
  <2>1. SubSeq(s, 1, Len(s)) = s
    BY <1>4, SubSeqFull
  <2>2. Len(s) \in Nat
    BY <1>4
  <2> QED
    BY <2>1, <2>2 DEF After
<1>7. AtField(At(s), s, 0)
  BY <1>4, <1>6, ModesFacts DEF AtField
<1> QED
  BY <1>4, <1>5, <1>7 DEF Got, s

-----------------------------------------------------------------------------
(* Each request.                                                            *)

\* What the channel may return.
LEMMA ResponseCases ==
    ASSUME NEW lines, NEW r \in Responses(lines)
    PROVE  \/ r.err = "none" /\ r.success = TRUE /\ r.line \in lines /\ ~ NoLine(r)
           \/ r.err = "none" /\ r.success = FALSE /\ r.line \in FinalErrors /\ NoLine(r)
           \/ r.err \in {"failed", "invalid"} /\ r.success = FALSE /\ NoLine(r)
  BY DEF Responses, Response, NoLine

\* AT+CSQ: two numbers, and the second completion is not seen.
LEMMA SignalRight ==
    ASSUME NEW r \in Responses(SignalLines)
    PROVE  Seen(requestSignalStrength[r]) = <<SignalIs[r]>>
<1>1. requestSignalStrength[r] = IF NoLine(r) THEN <<GENERIC_FAILURE, GENERIC_FAILURE>>
                                 ELSE <<SignalStrength[r.line]>>
  BY DEF requestSignalStrength
<1>2. CASE NoLine(r)
  <2>1. r.success = FALSE
    BY <1>2, ResponseCases
  <2>2. SignalIs[r] = GENERIC_FAILURE
    BY <2>1 DEF SignalIs
  <2> QED
    BY <1>1, <1>2, <2>2 DEF Seen
<1>3. CASE ~ NoLine(r)
  <2>1. r.success = TRUE /\ r.line \in SignalLines
    BY <1>3, ResponseCases
  <2> DEFINE line == r.line
             s == Tail(line)
             start == at_tok_start(At(line))
             rssi == at_tok_nextint(start.cur)
             ber == at_tok_nextint(rssi.cur)
  <2>2. line \in Seq(Symbols) /\ line # << >> /\ line[1] = ":"
    BY <2>1, LinesAssumption
  <2>3. s \in Seq(Symbols) /\ start.ok /\ AtField(start.cur, s, 0)
    BY <2>2, StartOfLine
  <2>4. SignalStrength[line] =
          IF start.ok THEN IF rssi.ok /\ ber.ok THEN SUCCESS(<<rssi.out, ber.out>>)
                           ELSE GENERIC_FAILURE
          ELSE GENERIC_FAILURE
    BY <2>1 DEF SignalStrength, SignalAfter, SignalOf
  <2>5. SignalIs[r] = IF HasInt(s, 0) /\ HasInt(s, EndOf(s, 0))
                      THEN SUCCESS(<<IntField(s, 0), IntField(s, EndOf(s, 0))>>)
                      ELSE GENERIC_FAILURE
    BY <2>1 DEF SignalIs, First, Second
  <2> HIDE DEF line, s, start
  <2>6. /\ rssi.ok <=> HasInt(s, 0)
        /\ HasInt(s, 0) => rssi.out = IntField(s, 0) /\ AtField(rssi.cur, s, EndOf(s, 0))
    BY <2>3, NextInt
  <2> HIDE DEF rssi
  <2>7. HasInt(s, 0) => /\ ber.ok <=> HasInt(s, EndOf(s, 0))
                        /\ HasInt(s, EndOf(s, 0)) => ber.out = IntField(s, EndOf(s, 0))
    BY <2>3, <2>6, NextInt
  <2> HIDE DEF ber
  <2>8. SignalStrength[line] = SignalIs[r]
    BY <2>3, <2>4, <2>5, <2>6, <2>7
  <2> QED
    BY <1>1, <1>3, <2>8 DEF Seen, line
<1> QED
  BY <1>2, <1>3

\* AT+COPS: a line has two numbers and a name, or ends before.
LEMMA WalkRight ==
    ASSUME NEW line \in OperatorLines
    PROVE  /\ WalkLine[line].ok <=> NameIn[line].ok
           /\ NameIn[line].ok => /\ WalkLine[line].out = NameIn[line].out
                                 /\ \/ NameIn[line].out = << >>
                                    \/ \E text \in Seq(Symbols) : NameIn[line].out = <<text>>
<1> DEFINE s == Tail(line)
           second == EndOf(s, 0)
           third == EndOf(s, second)
           start == at_tok_start(At(line))
           mode == at_tok_nextint(start.cur)
           format == at_tok_nextint(mode.cur)
           name == at_tok_nextstr(format.cur)
<1>1. line \in Seq(Symbols) /\ line # << >> /\ line[1] = ":"
  BY LinesAssumption
<1>2. s \in Seq(Symbols) /\ start.ok /\ AtField(start.cur, s, 0)
  BY <1>1, StartOfLine
<1>3. WalkLine[line] =
        IF start.ok
        THEN IF ~mode.ok THEN Failed(NULL)
             ELSE IF ~at_tok_hasmore(mode.cur) THEN Got(<< >>, mode.cur)
             ELSE IF ~format.ok THEN Failed(NULL)
             ELSE IF ~at_tok_hasmore(format.cur) THEN Got(<< >>, format.cur)
             ELSE Got(<<name.out>>, name.cur)
        ELSE Failed(NULL)
  BY DEF WalkLine, WalkMode, WalkFormat, WalkName
<1>4. NameIn[line] =
        IF ~HasInt(s, 0) THEN Failed(NULL)
        ELSE IF second >= Len(s) THEN Got(<< >>, NULL)
        ELSE IF ~HasInt(s, second) THEN Failed(NULL)
        ELSE IF third >= Len(s) THEN Got(<< >>, NULL)
        ELSE Got(<<Text(s, third)>>, NULL)
  BY DEF NameIn, NoMoreAfter, First, Second, Third
<1> HIDE DEF s, start
<1>5. /\ mode.ok <=> HasInt(s, 0)
      /\ HasInt(s, 0) => AtField(mode.cur, s, second)
  BY <1>2, NextInt
<1> HIDE DEF mode
<1>6. HasInt(s, 0) => /\ at_tok_hasmore(mode.cur) <=> ~ (second >= Len(s))
                      /\ format.ok <=> HasInt(s, second)
                      /\ HasInt(s, second) => AtField(format.cur, s, third)
  BY <1>2, <1>5, NextInt, HasMore
<1> HIDE DEF format
<1>7. HasInt(s, 0) /\ HasInt(s, second) =>
        /\ at_tok_hasmore(format.cur) <=> ~ (third >= Len(s))
        /\ at_tok_hasmore(format.cur) => third \in 0 .. Len(s)
  BY <1>2, <1>6, HasMore
<1> HIDE DEF third
<1>8. HasInt(s, 0) /\ HasInt(s, second) /\ at_tok_hasmore(format.cur) =>
        name.out = Text(s, third) /\ Text(s, third) \in Seq(Symbols)
  BY <1>2, <1>6, <1>7, NextStr
<1> HIDE DEF second, name
<1>9. CASE ~HasInt(s, 0)
  BY <1>2, <1>3, <1>4, <1>5, <1>9 DEF Failed
<1>10. CASE HasInt(s, 0) /\ second >= Len(s)
  BY <1>2, <1>3, <1>4, <1>5, <1>6, <1>10 DEF Got
<1>11. CASE HasInt(s, 0) /\ ~ (second >= Len(s)) /\ ~HasInt(s, second)
  BY <1>2, <1>3, <1>4, <1>5, <1>6, <1>11 DEF Failed
<1>12. CASE HasInt(s, 0) /\ ~ (second >= Len(s)) /\ HasInt(s, second)
  <2>1. CASE third >= Len(s)
    BY <1>2, <1>3, <1>4, <1>5, <1>6, <1>7, <1>12, <2>1 DEF Got
  <2>2. CASE ~ (third >= Len(s))
    <3>1. WalkLine[line] = Got(<<name.out>>, name.cur)
      BY <1>2, <1>3, <1>5, <1>6, <1>7, <1>12, <2>2
    <3>2. NameIn[line] = Got(<<Text(s, third)>>, NULL)
      BY <1>4, <1>12, <2>2
    <3>3. name.out = Text(s, third) /\ Text(s, third) \in Seq(Symbols)
      BY <1>7, <1>8, <1>12, <2>2
    <3> QED
      BY <3>1, <3>2, <3>3 DEF Got
  <2> QED
    BY <2>1, <2>2
<1> QED
  BY <1>9, <1>10, <1>11, <1>12

\* AT+CFUN?: the number in the line, and 1 without a line.
LEMMA RadioRight ==
    ASSUME NEW r \in Responses(RadioLines)
    PROVE  isRadioOn[r] <=> RadioIsOn[r]
<1> DEFINE line == r.line
           s == Tail(line)
           start == at_tok_start(At(line))
           int == at_tok_nextint(start.cur)
           on == at_tok_nextbool(start.cur)
<1>1. isRadioOn[r] = IF NoLine(r) THEN r.err = "invalid" ELSE start.ok /\ on.ok /\ on.out > 0
  BY DEF isRadioOn
<1>2. RadioIsOn[r] = (\/ r.err = "invalid"
                      \/ r.success /\ HasInt(s, 0) /\ IntField(s, 0) = 1)
  BY DEF RadioIsOn, First
<1>3. CASE NoLine(r)
  <2>1. r.success = FALSE
    BY <1>3, ResponseCases
  <2> HIDE DEF line, s, start, int, on
  <2> QED
    BY <1>1, <1>2, <1>3, <2>1
<1>4. CASE ~ NoLine(r)
  <2>1. r.err = "none" /\ r.success = TRUE /\ r.line \in RadioLines
    BY <1>4, ResponseCases
  <2>2. line \in Seq(Symbols) /\ line # << >> /\ line[1] = ":"
    BY <2>1, LinesAssumption
  <2>3. s \in Seq(Symbols) /\ start.ok /\ AtField(start.cur, s, 0)
    BY <2>2, StartOfLine
  <2>4. on = IF int.ok /\ int.out \in {0, 1} THEN int ELSE Failed(int.cur)
    BY DEF at_tok_nextbool, BoolOf
  <2> HIDE DEF line, s, start
  <2>5. /\ int.ok <=> HasInt(s, 0)
        /\ HasInt(s, 0) => int.out = IntField(s, 0)
    BY <2>3, NextInt
  <2> HIDE DEF int
  <2>6. on.ok /\ on.out > 0 <=> int.ok /\ int.out = 1
    BY <2>4 DEF Failed
  <2> HIDE DEF on
  <2> QED
    BY <1>1, <1>2, <1>4, <2>1, <2>3, <2>5, <2>6
<1> QED
  BY <1>3, <1>4

\* The number of a CME error, from 0 on.
LEMMA CmeErrorRight ==
    ASSUME NEW final \in FinalErrors, NEW n \in Nat
    PROVE  at_get_cme_error[final] = n <=>
             /\ final[1] = CME_ERROR
             /\ LET s == SubSeq(final, 3, Len(final)) IN HasInt(s, 0) /\ IntField(s, 0) = n
<1> DEFINE s == SubSeq(final, 3, Len(final))
           start == at_tok_start(At(final))
           ret == at_tok_nextint(start.cur)
<1>1. at_get_cme_error[final] =
        IF final[1] = CME_ERROR /\ start.ok /\ ret.ok THEN ret.out ELSE CME_ERROR_NON_CME
  BY DEF at_get_cme_error
<1>2. CME_ERROR_NON_CME # n
  BY DEF CME_ERROR_NON_CME
<1>3. CASE final[1] = CME_ERROR
  <2>1. final \in Seq(Symbols) /\ Len(final) > 1 /\ final[2] = ":"
    BY <1>3, LinesAssumption
  <2>2. s \in Seq(Symbols) /\ start.ok /\ AtField(start.cur, s, 0)
    BY <1>3, <2>1, StartOfFinal
  <2> HIDE DEF s, start
  <2>3. /\ ret.ok <=> HasInt(s, 0)
        /\ HasInt(s, 0) => ret.out = IntField(s, 0)
    BY <2>2, NextInt
  <2> HIDE DEF ret
  <2>4. at_get_cme_error[final] = n <=> HasInt(s, 0) /\ IntField(s, 0) = n
    BY <1>1, <1>2, <1>3, <2>2, <2>3
  <2> QED
    BY <1>3, <2>4 DEF s
<1>4. CASE final[1] # CME_ERROR
  <2> HIDE DEF s, start, ret
  <2> QED
    BY <1>1, <1>2, <1>4
<1> QED
  BY <1>3, <1>4

\* AT+CPIN?: the word of the line, or what the error says of the SIM.
LEMMA SimRight ==
    ASSUME NEW r \in Responses(SimLines)
    PROVE  SimStatus[r] = StatusIs[r]
<1> DEFINE line == r.line
           start == at_tok_start(At(line))
           result == at_tok_nextstr(start.cur)
           text == Text(Tail(line), 0)
           s == SubSeq(line, 3, Len(line))
<1>1. SimStatus[r] =
        IF r.err # "none" THEN "SIM_NOT_READY"
        ELSE IF ~r.success
        THEN IF at_get_cme_error[line] \in {10, 13} THEN "SIM_ABSENT" ELSE "SIM_NOT_READY"
        ELSE IF ~start.ok \/ ~result.ok THEN "SIM_NOT_READY"
        ELSE IF Len(result.out) = 1 /\ result.out[1] \in Words THEN StatusOf[result.out[1]]
        ELSE "SIM_ABSENT"
  BY DEF SimStatus, CME_SIM_NOT_INSERTED, CME_SIM_FAILURE
<1>2. StatusIs[r] =
        IF r.success
        THEN IF \E word \in Words : text = <<word>> THEN StatusOf[text[1]] ELSE "SIM_ABSENT"
        ELSE IF \E n \in {10, 13} : /\ r.err = "none" /\ ~r.success /\ line[1] = CME_ERROR
                                    /\ HasInt(s, 0) /\ IntField(s, 0) = n
             THEN "SIM_ABSENT" ELSE "SIM_NOT_READY"
  BY DEF StatusIs, ErrorIs, First, CME_SIM_NOT_INSERTED, CME_SIM_FAILURE
<1>3. CASE r.err = "none" /\ r.success = TRUE /\ r.line \in SimLines
  <2>1. line \in Seq(Symbols) /\ line # << >> /\ line[1] = ":"
    BY <1>3, LinesAssumption
  <2>2. Tail(line) \in Seq(Symbols) /\ start.ok /\ AtField(start.cur, Tail(line), 0)
    BY <2>1, StartOfLine
  <2>3. 0 \in 0 .. Len(Tail(line))
    <3> HIDE DEF line
    <3> QED
      BY <2>2
  <2>4. result.ok /\ result.out = text /\ text \in Seq(Symbols)
    BY <2>2, <2>3, NextStr
  <2> HIDE DEF line, start, result, text, s
  <2>5. (\E word \in Words : text = <<word>>) <=> Len(text) = 1 /\ text[1] \in Words
    <3>1. ASSUME NEW word \in Words, text = <<word>>  PROVE Len(text) = 1 /\ text[1] \in Words
      BY <3>1
    <3>2. ASSUME Len(text) = 1  PROVE text = <<text[1]>>
      BY <2>4, <3>2
    <3> QED
      BY <3>1, <3>2
  <2> QED
    BY <1>1, <1>2, <1>3, <2>2, <2>4, <2>5
<1>4. CASE r.err = "none" /\ r.success = FALSE /\ r.line \in FinalErrors
  <2>1. \A n \in {10, 13} :
          at_get_cme_error[line] = n <=>
            line[1] = CME_ERROR /\ HasInt(s, 0) /\ IntField(s, 0) = n
    BY <1>4, CmeErrorRight
  <2> HIDE DEF line, start, result, text, s
  <2> QED
    BY <1>1, <1>2, <1>4, <2>1
<1>5. CASE r.err \in {"failed", "invalid"} /\ r.success = FALSE
  <2> HIDE DEF line, start, result, text, s
  <2> QED
    BY <1>1, <1>2, <1>5
<1> QED
  BY <1>3, <1>4, <1>5, ResponseCases

\* The error 0, and nothing else, makes getSIMStatus look for a line that is not
\* there.
LEMMA CrashRight ==
    ASSUME NEW r \in Responses(SimLines)
    PROVE  ReadsNull(r) <=> ErrorIs(r, 0)
<1>1. CASE r.err = "none" /\ r.success = FALSE /\ r.line \in FinalErrors
  <2>1. at_get_cme_error[r.line] = 0 <=>
          /\ r.line[1] = CME_ERROR
          /\ LET s == SubSeq(r.line, 3, Len(r.line)) IN HasInt(s, 0) /\ IntField(s, 0) = 0
    BY <1>1, CmeErrorRight
  <2> QED
    BY <1>1, <2>1 DEF ReadsNull, ErrorIs, CME_SUCCESS, First
<1>2. CASE ~ (r.err = "none" /\ r.success = FALSE)
  BY <1>2, ResponseCases DEF ReadsNull, ErrorIs
<1> QED
  BY <1>1, <1>2, ResponseCases

-----------------------------------------------------------------------------
(* The invariant.                                                           *)

\* While it walks the lines, requestOperator has the names that are in them.
Walks ==
    /\ names \in Seq(Seq(Seq(Symbols)))
    /\ \/ operator = NotWalking /\ names = << >>
       \/ operator = [walking |-> TRUE, response |-> names] /\ answers = << >>

CachesInv ==
    /\ DOMAIN cached = Caches /\ DOMAIN latest = Caches
    /\ \A c \in Caches : cached[c] = Fresh(c) /\ (latest[c] = Nothing \/ latest[c] \in Seq(Symbols))

Right == ~operator.walking => Seen(answers) = right

DefinedInv == beyond \in BOOLEAN /\ StaysDefined

Inv == Walks /\ CachesInv /\ Right /\ DefinedInv

\* An action that leaves the memory of the daemon only when it is due.
LEMMA GoesInv ==
    ASSUME DefinedInv, NEW outside, NEW due \in BOOLEAN, outside => due, Goes(outside, due)
    PROVE  DefinedInv'
  BY DEF DefinedInv, StaysDefined, Goes

\* Or that goes on in its memory.
LEMMA DefinedKept ==
    ASSUME DefinedInv, beyond' = beyond, state' = "UNDEFINED" => state = "UNDEFINED"
    PROVE  DefinedInv'
  BY DEF DefinedInv, StaysDefined

\* A cache is written with what is noted as the latest.
LEMMA CacheWritten ==
    ASSUME CachesInv, NEW c \in Caches, NEW text \in Seq(Symbols),
           cached' = [cached EXCEPT ![c] = Stored(text)],
           latest' = [latest EXCEPT ![c] = text]
    PROVE  CachesInv'
<1>1. text # Nothing
  <2>1. ASSUME text = Nothing PROVE FALSE
    <3>1. Len(text) = 1 /\ text[1] = "nothing"
      BY <2>1 DEF Nothing
    <3>2. text[1] \in Symbols
      BY <3>1
    <3> QED
      BY <3>1, <3>2 DEF Symbols
  <2> QED
    BY <2>1
<1>2. DOMAIN cached' = Caches /\ DOMAIN latest' = Caches
  BY DEF CachesInv
<1>3. ASSUME NEW d \in Caches
      PROVE  cached'[d] = Fresh(d)' /\ (latest'[d] = Nothing \/ latest'[d] \in Seq(Symbols))
  <2>1. CASE d = c
    <3>1. Len(text) \in Nat /\ CacheSize \in Nat
      BY CacheAssumption
    <3>2. latest'[d] = text /\ cached'[d] = Stored(text)
      BY <2>1 DEF CachesInv
    <3> QED
      BY <1>1, <3>1, <3>2 DEF Stored, Fresh
  <2>2. CASE d # c
    <3>1. cached'[d] = cached[d] /\ latest'[d] = latest[d]
      BY <2>2 DEF CachesInv
    <3> QED
      BY <3>1 DEF CachesInv, Fresh
  <2> QED
    BY <2>1, <2>2
<1> QED
  BY <1>2, <1>3 DEF CachesInv

\* And left alone with it.
LEMMA CachesUnchanged == CachesInv /\ UNCHANGED <<cached, latest>> => CachesInv'
  BY DEF CachesInv, Fresh

\* A request that leaves the walk and the caches alone, answered right.
LEMMA AnsweredInv ==
    ASSUME Inv, NEW completions, NEW should, Seen(completions) = should,
           ~operator.walking, Answer(completions, should), DefinedInv',
           UNCHANGED <<cached, operator, latest, names>>
    PROVE  Inv'
<1>1. Walks'
  <2>1. operator = NotWalking /\ names = << >> /\ names \in Seq(Seq(Seq(Symbols)))
    BY DEF Inv, Walks, NotWalking
  <2> QED
    BY <2>1 DEF Walks, NotWalking
<1>2. CachesInv'
  BY CachesUnchanged DEF Inv
<1>3. Right'
  BY DEF Right, Answer, Seen
<1> QED
  BY <1>1, <1>2, <1>3 DEF Inv

\* AT+CSQ is answered right.
LEMMA QuerySignalStrengthInv == Inv /\ QuerySignalStrength => Inv'
<1> SUFFICES ASSUME Inv, QuerySignalStrength PROVE Inv'
  OBVIOUS
<1>1. PICK r \in Responses(SignalLines) : Answer(requestSignalStrength[r], <<SignalIs[r]>>)
  BY DEF QuerySignalStrength
<1>2. Seen(requestSignalStrength[r]) = <<SignalIs[r]>>
  BY SignalRight
<1>3. DefinedInv'
  BY DefinedKept DEF QuerySignalStrength, Inv
<1> QED
  BY <1>1, <1>2, <1>3, AnsweredInv DEF QuerySignalStrength, Ready

\* A line that is passed on as it is, and cached as it is or cleared.
LEMMA QueryLineInv ==
    ASSUME NEW kind \in LineKinds
    PROVE  Inv /\ QueryLine(kind) => Inv'
<1> SUFFICES ASSUME Inv, QueryLine(kind) PROVE Inv'
  OBVIOUS
<1>1. PICK r \in Responses(TextLines) :
        IF NoLine(r)
        THEN /\ Answer(<<GENERIC_FAILURE>>, <<GENERIC_FAILURE>>)
             /\ UNCHANGED <<state, cached, latest, beyond>>
        ELSE /\ Answer(<<SUCCESS(r.line)>>, <<SUCCESS(r.line)>>)
             /\ Cache(kind, r.line)
             /\ Goes(kind \in CachedKinds /\ Overflows(r.line),
                     kind \in CachedKinds /\ Len(r.line) = CacheSize)
             /\ latest' = IF kind \in CachedKinds THEN [latest EXCEPT ![kind] = r.line]
                          ELSE latest
  BY DEF QueryLine
<1>2. ~operator.walking /\ UNCHANGED <<operator, names>>
  BY DEF QueryLine, Ready
<1>3. \A c : Seen(<<c>>) = <<c>>
  BY DEF Seen
<1>4. DefinedInv'
  <2>1. CASE NoLine(r)
    BY <1>1, <2>1, DefinedKept DEF Inv
  <2>2. CASE ~NoLine(r)
    <3>1. Len(r.line) \in Nat
      BY <2>2, ResponseCases, LinesAssumption
    <3>2. Overflows(r.line) => Len(r.line) = CacheSize
      BY <3>1, CacheAssumption DEF Overflows, Stored
    <3> HIDE DEF NoLine
    <3> QED
      BY <1>1, <2>2, <3>2, GoesInv DEF Inv
  <2> QED
    BY <2>1, <2>2
<1>5. CASE NoLine(r) \/ kind \notin CachedKinds
  <2>1. PICK c : Answer(<<c>>, <<c>>)
    BY <1>1
  <2>2. UNCHANGED <<cached, latest>>
    BY <1>1, <1>5 DEF Cache
  <2> QED
    BY <1>2, <1>3, <1>4, <2>1, <2>2, AnsweredInv
<1>6. CASE ~ NoLine(r) /\ kind \in CachedKinds
  <2>1. r.line \in Seq(Symbols)
    <3>1. r.line \in TextLines
      BY <1>6, ResponseCases
    <3> QED
      BY <3>1, LinesAssumption
  <2>2. CachesInv'
    <3>1. kind \in Caches
      BY <1>6 DEF Caches
    <3> QED
      BY <1>1, <1>6, <2>1, <3>1, CacheWritten DEF Cache, Inv
  <2>3. Walks'
    <3>1. operator = NotWalking /\ names = << >> /\ names \in Seq(Seq(Seq(Symbols)))
      BY <1>2 DEF Inv, Walks, NotWalking
    <3> QED
      BY <1>2, <3>1 DEF Walks, NotWalking
  <2>4. Right'
    BY <1>1, <1>3, <1>6 DEF Right, Answer
  <2> QED
    BY <1>4, <2>2, <2>3, <2>4 DEF Inv
<1> QED
  BY <1>5, <1>6

\* AT+COPS fails, or its lines are to be walked.
LEMMA QueryOperatorInv == Inv /\ QueryOperator => Inv'
<1> SUFFICES ASSUME Inv, QueryOperator PROVE Inv'
  OBVIOUS
<1>1. ~operator.walking /\ UNCHANGED <<state, cached, latest, names, beyond>>
  BY DEF QueryOperator, Ready
<1>0. DefinedInv'
  BY <1>1, DefinedKept DEF Inv
<1>2. operator = NotWalking /\ names = << >> /\ names \in Seq(Seq(Seq(Symbols)))
  BY <1>1 DEF Inv, Walks, NotWalking
<1>3. CASE Answer(<<GENERIC_FAILURE>>, <<GENERIC_FAILURE>>) /\ UNCHANGED operator
  <2>1. Seen(<<GENERIC_FAILURE>>) = <<GENERIC_FAILURE>>
    BY DEF Seen
  <2> QED
    BY <1>0, <1>1, <1>3, <2>1, AnsweredInv
<1>4. CASE operator' = [walking |-> TRUE, response |-> << >>] /\ Answer(<< >>, << >>)
  <2>1. Walks'
    BY <1>1, <1>2, <1>4 DEF Walks, Answer
  <2>2. CachesInv'
    BY <1>1, CachesUnchanged DEF Inv
  <2>3. Right'
    BY <1>4 DEF Right
  <2> QED
    BY <1>0, <2>1, <2>2, <2>3 DEF Inv
<1> QED
  BY <1>3, <1>4 DEF QueryOperator

\* Each line adds its name to response and to its cache, or fails the request.
LEMMA WalkOperatorInv ==
    ASSUME NEW line \in OperatorLines
    PROVE  Inv /\ WalkOperator(line) => Inv'
<1> SUFFICES ASSUME Inv, WalkOperator(line) PROVE Inv'
  OBVIOUS
<1> DEFINE name == WalkLine[line]
           is == NameIn[line]
           i == Len(operator.response)
           due == is.ok /\ (Len(names) > 2 \/ (names # << >> /\ is.out # << >>))
<1>1. /\ operator.walking
      /\ IF name.ok
         THEN /\ operator' = [operator EXCEPT !.response = Append(@, name.out)]
              /\ CacheName(i, name.out)
              /\ answers' = << >>
         ELSE /\ operator' = NotWalking
              /\ answers' = <<GENERIC_FAILURE>>
              /\ UNCHANGED cached
      /\ Goes(name.ok /\ NameOutside(i, name.out), due)
      /\ names' = IF is.ok THEN Append(names, is.out) ELSE << >>
      /\ latest' = IF is.ok /\ is.out # << >> /\ names = << >>
                   THEN [latest EXCEPT ![CachedCarrier] = is.out[1]] ELSE latest
      /\ right' = IF is.ok THEN << >> ELSE <<GENERIC_FAILURE>>
  BY DEF WalkOperator
<1>2. /\ name.ok <=> is.ok
      /\ is.ok => /\ name.out = is.out
                  /\ is.out = << >> \/ \E text \in Seq(Symbols) : is.out = <<text>>
  BY WalkRight
<1>3. /\ operator = [walking |-> TRUE, response |-> names] /\ answers = << >>
      /\ names \in Seq(Seq(Seq(Symbols)))
  BY <1>1 DEF Inv, Walks, NotWalking
<1>4. i = Len(names) /\ i \in Nat /\ (i = 0 <=> names = << >>)
  BY <1>3
<1>5. CachesInv
  BY DEF Inv
<1> HIDE DEF name, is, i
<1>6. DefinedInv'
  <2>1. name.ok /\ NameOutside(i, name.out) => due
    BY <1>2, <1>4 DEF NameOutside
  <2>2. due \in BOOLEAN
    BY <1>2
  <2> HIDE DEF due
  <2> QED
    BY <1>1, <2>1, <2>2, GoesInv DEF Inv
<1>7. CASE ~ is.ok
  <2>1. Walks'
    BY <1>1, <1>2, <1>7 DEF Walks
  <2>2. CachesInv'
    BY <1>1, <1>2, <1>5, <1>7, CachesUnchanged
  <2>3. Right'
    BY <1>1, <1>2, <1>7 DEF Right, Seen
  <2> QED
    BY <1>6, <2>1, <2>2, <2>3 DEF Inv
<1>8. CASE is.ok
  <2>1. is.out \in Seq(Seq(Symbols))
    <3>1. \A text \in Seq(Symbols) : <<text>> \in Seq(Seq(Symbols))
      OBVIOUS
    <3>2. << >> \in Seq(Seq(Symbols))
      OBVIOUS
    <3> QED
      BY <1>2, <1>8, <3>1, <3>2, Zenon
  <2>2. operator' = [walking |-> TRUE, response |-> Append(names, is.out)]
    BY <1>1, <1>2, <1>3, <1>8
  <2>3. Walks'
    <3>1. names' = Append(names, is.out) /\ answers' = << >>
      BY <1>1, <1>2, <1>8
    <3>2. Append(names, is.out) \in Seq(Seq(Seq(Symbols)))
      BY <1>3, <2>1, AppendProperties
    <3> QED
      BY <2>2, <3>1, <3>2 DEF Walks
  <2>4. CachesInv'
    <3>0. CacheName(i, name.out)
      BY <1>1, <1>2, <1>8
    <3>1. CASE is.out = << >> \/ names # << >>
      <4>1. UNCHANGED <<cached, latest>>
        BY <1>1, <1>2, <1>4, <1>8, <3>0, <3>1 DEF CacheName
      <4> QED
        BY <1>5, <4>1, CachesUnchanged
    <3>2. CASE is.out # << >> /\ names = << >>
      <4>1. PICK text \in Seq(Symbols) : is.out = <<text>>
        BY <1>2, <1>8, <3>2
      <4>2. is.out[1] = text /\ name.out[1] = text /\ name.out # << >>
        <5>1. <<text>>[1] = text
          OBVIOUS
        <5> QED
          BY <1>2, <1>8, <3>2, <4>1, <5>1
      <4>3. i = 0
        BY <1>4, <3>2
      <4>4. cached' = [cached EXCEPT ![CachedCarrier] = Stored(text)]
        <5>1. cached' = [cached EXCEPT ![CachedCarrier] = Stored(name.out[1])]
          BY <3>0, <4>2, <4>3, Zenon DEF CacheName
        <5> QED
          BY <4>2, <5>1, Zenon
      <4>5. latest' = [latest EXCEPT ![CachedCarrier] = text]
        <5>1. latest' = [latest EXCEPT ![CachedCarrier] = is.out[1]]
          BY <1>1, <1>8, <3>2, Zenon
        <5> QED
          BY <4>2, <5>1, Zenon
      <4>6. CachedCarrier \in Caches
        BY DEF Caches
      <4> QED
        BY <1>5, <4>4, <4>5, <4>6, CacheWritten
    <3> QED
      BY <3>1, <3>2
  <2>5. Right'
    BY <2>2 DEF Right
  <2> QED
    BY <1>6, <2>3, <2>4, <2>5 DEF Inv
<1> QED
  BY <1>7, <1>8

\* After the last line, the names are answered if there are three.
LEMMA OperatorEndsInv == Inv /\ OperatorEnds => Inv'
<1> SUFFICES ASSUME Inv, OperatorEnds PROVE Inv'
  OBVIOUS
<1>1. operator.response = names
  BY DEF Inv, Walks, OperatorEnds, NotWalking
<1>2. \E c : answers' = <<c>> /\ right' = <<c>>
  BY <1>1 DEF OperatorEnds, Answer
<1>3. operator' = NotWalking /\ names' = << >> /\ UNCHANGED <<cached, latest>>
  BY DEF OperatorEnds
<1>4. Walks'
  BY <1>3 DEF Walks
<1>5. CachesInv'
  BY <1>3, CachesUnchanged DEF Inv
<1>6. Right'
  BY <1>2 DEF Right, Seen
<1>7. DefinedInv'
  <2>1. Goes(Len(names) = 3, Len(names) = 3)
    BY <1>1 DEF OperatorEnds
  <2> QED
    BY <2>1, GoesInv DEF Inv
<1> QED
  BY <1>4, <1>5, <1>6, <1>7 DEF Inv

\* AT+CFUN? and AT+CPIN? are answered right together.
LEMMA QuerySimStatusInv == Inv /\ QuerySimStatus => Inv'
<1> SUFFICES ASSUME Inv, QuerySimStatus PROVE Inv'
  OBVIOUS
<1>1. /\ ~operator.walking /\ UNCHANGED <<cached, operator, latest, names, beyond>>
      /\ state' \in {"CRASHED", "ON", "OFF"}
  BY DEF QuerySimStatus
<1>2. PICK cfun \in Responses(RadioLines), r \in Responses(SimLines) :
        Answer(<<IF FindsOn(cfun) /\ ReadsNull(r) THEN CRASH
                 ELSE SUCCESS(<<IF FindsOn(cfun) THEN SimStatus[r] ELSE "SIM_NOT_READY">>)>>,
               <<IF (state = "ON" \/ RadioIsOn[cfun]) /\ ErrorIs(r, 0) THEN CRASH
                 ELSE SUCCESS(<<IF state = "ON" \/ RadioIsOn[cfun] THEN StatusIs[r]
                                ELSE "SIM_NOT_READY">>)>>)
  BY DEF QuerySimStatus
<1>3. FindsOn(cfun) <=> state = "ON" \/ RadioIsOn[cfun]
  BY RadioRight DEF FindsOn
<1>4. SimStatus[r] = StatusIs[r] /\ (ReadsNull(r) <=> ErrorIs(r, 0))
  BY SimRight, CrashRight
<1>5. \A c : Seen(<<c>>) = <<c>>
  BY DEF Seen
<1>6. PICK c : Answer(<<c>>, <<c>>)
  BY <1>2, <1>3, <1>4
<1>7. DefinedInv'
  BY <1>1, DefinedKept DEF Inv
<1> QED
  BY <1>1, <1>5, <1>6, <1>7, AnsweredInv

\* The PIN was right, or it was not.
LEMMA EnterSIMPinInv == Inv /\ EnterSIMPin => Inv'
<1> SUFFICES ASSUME Inv, EnterSIMPin PROVE Inv'
  OBVIOUS
<1>1. ~operator.walking /\ UNCHANGED <<state, cached, operator, latest, names, beyond>>
  BY DEF EnterSIMPin, Ready
<1>2. PICK r \in Responses({<<":", "READY">>}) :
        Answer(<<IF NoLine(r) /\ r.err # "invalid" THEN PASSWORD_INCORRECT
                 ELSE SUCCESS(<< >>)>>,
               <<IF r.success \/ r.err = "invalid" THEN SUCCESS(<< >>)
                 ELSE PASSWORD_INCORRECT>>)
  BY DEF EnterSIMPin
<1>3. NoLine(r) /\ r.err # "invalid" <=> ~ (r.success \/ r.err = "invalid")
  BY ResponseCases
<1>4. \A c : Seen(<<c>>) = <<c>>
  BY DEF Seen
<1>5. PICK c : Answer(<<c>>, <<c>>)
  BY <1>2, <1>3
<1>6. DefinedInv'
  BY <1>1, DefinedKept DEF Inv
<1> QED
  BY <1>1, <1>4, <1>5, <1>6, AnsweredInv

\* The caches answer for the modem.
LEMMA QueryCachedInv == Inv /\ QueryCached => Inv'
<1> SUFFICES ASSUME Inv, QueryCached PROVE Inv'
  OBVIOUS
<1>1. ~operator.walking /\ UNCHANGED <<cached, operator, latest, names>>
  BY DEF QueryCached, Ready
<1>2. \A c \in Caches : /\ cached[c] = Fresh(c)
                        /\ latest[c] = Nothing \/ latest[c] \in Seq(Symbols)
  BY DEF Inv, CachesInv
<1>3. \A c : Seen(<<c>>) = <<c>>
  BY DEF Seen
<1>4. ASSUME NEW kind \in CachedKinds,
             Answer(<<SUCCESS(cached[kind])>>, <<SUCCESS(Fresh(kind))>>),
             Goes(Unended(cached[kind]), latest[kind] = Nothing \/ Len(latest[kind]) = CacheSize)
      PROVE  Inv'
  <2>1. /\ cached[kind] = Fresh(kind)
        /\ latest[kind] = Nothing \/ latest[kind] \in Seq(Symbols)
    <3>1. kind \in Caches
      BY DEF Caches
    <3> QED
      BY <1>2, <3>1, Zenon
  <2> DEFINE due == latest[kind] = Nothing \/ Len(latest[kind]) = CacheSize
  <2>2. Unended(cached[kind]) => due
    <3>1. CASE latest[kind] = Nothing
      BY <3>1
    <3>2. CASE latest[kind] # Nothing
      <4>1. latest[kind] \in Seq(Symbols) /\ Len(latest[kind]) \in Nat
        BY <2>1, <3>2
      <4>2. latest[kind] # Garbage
        <5>1. ASSUME latest[kind] = Garbage PROVE FALSE
          <6>1. Len(latest[kind]) = 1 /\ latest[kind][1] = "garbage"
            BY <5>1 DEF Garbage
          <6>2. latest[kind][1] \in Symbols
            BY <4>1, <6>1
          <6> QED
            BY <6>1, <6>2 DEF Symbols
        <5> QED
          BY <5>1
      <4>3. << >> # Garbage /\ Len(<< >>) = 0
        BY DEF Garbage
      <4>4. cached[kind] = IF Len(latest[kind]) > CacheSize THEN << >> ELSE latest[kind]
        BY <2>1, <3>2 DEF Fresh
      <4> QED
        BY <4>1, <4>2, <4>3, <4>4, CacheAssumption DEF Unended
    <3> QED
      BY <3>1, <3>2
  <2>3. DefinedInv'
    <3>1. due \in BOOLEAN /\ Goes(Unended(cached[kind]), due)
      BY <1>4
    <3> HIDE DEF due
    <3> QED
      BY <2>2, <3>1, GoesInv DEF Inv
  <2> QED
    BY <1>1, <1>3, <1>4, <2>1, <2>3, AnsweredInv
<1>5. CASE /\ Answer(<<SUCCESS(<<cached[CachedCarrier], Garbage, Garbage>>)>>,
                     <<SUCCESS(<<Fresh(CachedCarrier), Garbage, Garbage>>)>>)
           /\ Goes(TRUE, TRUE)
  <2>1. cached[CachedCarrier] = Fresh(CachedCarrier)
    <3>1. CachedCarrier \in Caches
      BY DEF Caches
    <3> QED
      BY <1>2, <3>1, Zenon
  <2>2. DefinedInv'
    BY <1>5, GoesInv DEF Inv
  <2> QED
    BY <1>1, <1>3, <1>5, <2>1, <2>2, AnsweredInv
<1> QED
  BY <1>4, <1>5 DEF QueryCached

\* A change of the state answers nothing.
LEMMA StateChangesInv == Inv /\ StateChanges => Inv'
<1> SUFFICES ASSUME Inv, StateChanges PROVE Inv'
  OBVIOUS
<1>1. Seen(<< >>) = << >>
  BY DEF Seen
<1>2. DefinedInv'
  <2>1. beyond' = beyond /\ state' \in {"OFF", "ON", "PPPD"}
    BY DEF StateChanges
  <2> QED
    BY <2>1, DefinedKept DEF Inv
<1> QED
  BY <1>1, <1>2, AnsweredInv DEF StateChanges

\* Inv holds in every reachable state.
LEMMA AlwaysInv == Spec => []Inv
<1>1. Init => Inv
  <2> SUFFICES ASSUME Init PROVE Inv
    OBVIOUS
  <2>1. Walks
    BY DEF Init, Walks
  <2>2. CachesInv
    BY DEF Init, CachesInv, Fresh
  <2>3. Right
    BY DEF Init, Right, Seen
  <2>4. DefinedInv
    BY DEF Init, DefinedInv, StaysDefined
  <2> QED
    BY <2>1, <2>2, <2>3, <2>4 DEF Inv
<1>2. Inv /\ [Next]_vars => Inv'
  <2>1. Inv /\ UNCHANGED vars => Inv'
    BY DEF vars, Inv, Walks, CachesInv, Fresh, Right, DefinedInv, StaysDefined
  <2> QED
    BY <2>1, QuerySignalStrengthInv, QuerySimStatusInv, EnterSIMPinInv, QueryOperatorInv,
       QueryLineInv, WalkOperatorInv, OperatorEndsInv, QueryCachedInv, StateChangesInv DEF Next
<1> QED
  BY <1>1, <1>2, PTL DEF Spec

-----------------------------------------------------------------------------
(* Theorems.                                                                *)

\* Every request is answered with what the fields of the modem's line say, for
\* whatever the modem answers, and the daemon crashes on no answer but
\* "+CME ERROR: 0" to AT+CPIN? (huawei-tgm.c:1076-1118, 1238-1420, 1512-1617).
THEOREM AlwaysAnsweredRight == Spec => []AnsweredRight
<1>1. Inv => AnsweredRight
  BY DEF Inv, Right, AnsweredRight
<1> QED
  BY <1>1, AlwaysInv, PTL

\* The caches in the daemon's own memory hold what was read last, or nothing when
\* it is too long, for caches of any size (huawei-tgm.c:328-389, 1327-1337).
THEOREM AlwaysCachesLatest == Spec => []CachesLatest
<1>1. Inv => CachesLatest
  BY DEF Inv, CachesInv, CachesLatest
<1> QED
  BY <1>1, AlwaysInv, PTL

\* The daemon reads and writes behind its buffers only after one of the answers
\* and requests that StaysDefined names, for buffers of any size and any number
\* of lines (huawei-tgm.c:341, 376, 470-471, 1295-1355).
THEOREM AlwaysStaysDefined == Spec => []StaysDefined
<1>1. Inv => StaysDefined
  BY DEF Inv, DefinedInv
<1> QED
  BY <1>1, AlwaysInv, PTL
=============================================================================
