--------------------------- MODULE ReadlineProofs ---------------------------
(***************************************************************************)
(* The cursor of readline (atchannel.c:343-454) stays in the data but for a *)
(* prompt, and the lines it returns are those of the stream, for a buffer of *)
(* any size, any stream and any division of it into chunks.  The invariant  *)
(* says of a place in the stream that everything up to it is dealt with; four *)
(* lemmas on streams say how that place moves, and each action is one or two *)
(* of these moves.                                                          *)
(***************************************************************************)
EXTENDS Readline, SequenceTheorems, WellFoundedInduction, TLAPS

-----------------------------------------------------------------------------
(* The first byte of a kind in the buffer.                                  *)

\* A set of numbers that is not empty has a least one.
LEMMA LeastOf ==
    ASSUME NEW S \in SUBSET Nat, S # {}
    PROVE  Min(S) \in S /\ \A y \in S : Min(S) <= y
<1> DEFINE Less == OpToRel(<, Nat)
<1>1. IsWellFoundedOn(Less, Nat)
  BY NatLessThanWellFounded, Zenon
<1>2. \A x \in Nat, y \in Nat : y < x => <<y, x>> \in Less
  BY Zenon DEF OpToRel
<1> HIDE DEF Less
<1>3. PICK x \in S : \A y \in S : ~ (<<y, x>> \in Less)
  BY <1>1, WFMin
<1>4. \A y \in S : y \in Nat /\ x \in Nat /\ ~ (y < x)
  BY <1>2, <1>3
<1>5. \A y \in S : x <= y
  BY <1>4
<1> QED
  BY <1>5 DEF Min

\* A search that counts the terminating zero ends in the buffer.
LEMMA FirstFound ==
    ASSUME NEW buffer, NEW i \in Indexes, NEW cs,
           buffer[MAX_AT_RESPONSE] = NUL, NUL \in cs
    PROVE  LET f == First(buffer, i, cs) IN
           /\ f \in i .. MAX_AT_RESPONSE
           /\ buffer[f] \in cs
           /\ \A j \in i .. f - 1 : buffer[j] \notin cs
<1> DEFINE S == {j \in i .. MAX_AT_RESPONSE : buffer[j] \in cs}
<1>1. S \in SUBSET Nat /\ MAX_AT_RESPONSE \in S
  BY SizeAssumption DEF Indexes
<1>2. Min(S) \in S /\ \A y \in S : Min(S) <= y
  BY <1>1, LeastOf
<1>3. First(buffer, i, cs) = Min(S)
  BY DEF First
<1> HIDE DEF S
<1> DEFINE f == First(buffer, i, cs)
<1>4. f \in i .. MAX_AT_RESPONSE /\ buffer[f] \in cs
  BY <1>2, <1>3 DEF S
<1>5. ASSUME NEW j \in i .. f - 1, buffer[j] \in cs  PROVE FALSE
  BY <1>2, <1>3, <1>4, <1>5, SizeAssumption DEF S, Indexes
<1> QED
  BY <1>4, <1>5

-----------------------------------------------------------------------------
(* The lines of a stream, and of one that goes on.                          *)

\* t begins with s
Begins(s, t) ==
    Len(s) <= Len(t) /\ \A k \in 1 .. Len(s) : t[k] = s[k]

\* s has a line from b to its newline at e
IsLine(s, b, e) ==
    /\ b \in Nat \ {0} /\ e \in Nat /\ b < e /\ e <= Len(s)
    /\ b = 1 \/ s[b - 1] \in Newlines
    /\ \A k \in b .. e - 1 : s[k] \notin Newlines
    /\ s[e] \in Newlines

\* The lines of a stream, by their two fields.
LEMMA LineFacts ==
    ASSUME NEW s \in Seq(Chars)
    PROVE  /\ \A line \in Lines(s) :
                 /\ IsLine(s, line.begin, line.end)
                 /\ line = [begin |-> line.begin, end |-> line.end]
           /\ \A b, e : IsLine(s, b, e) => [begin |-> b, end |-> e] \in Lines(s)
<1>1. DOMAIN s = 1 .. Len(s) /\ Len(s) \in Nat
  OBVIOUS
<1>2. ASSUME NEW line \in Lines(s)
      PROVE  /\ IsLine(s, line.begin, line.end)
             /\ line = [begin |-> line.begin, end |-> line.end]
  BY <1>1 DEF Lines, IsLine
<1>3. ASSUME NEW b, NEW e, IsLine(s, b, e)
      PROVE  [begin |-> b, end |-> e] \in Lines(s)
  <2>1. b \in 1 .. Len(s) /\ e \in 1 .. Len(s)
    BY <1>1, <1>3 DEF IsLine
  <2> QED
    BY <1>1, <1>3, <2>1 DEF Lines, IsLine
<1> QED
  BY <1>2, <1>3

\* A line is known by where it ends.
LEMMA OneLinePerEnd ==
    ASSUME NEW s \in Seq(Chars), NEW line \in Lines(s), NEW other \in Lines(s),
           line.end = other.end
    PROVE  line = other
<1>1. ASSUME NEW e, NEW b, NEW c, IsLine(s, b, e), IsLine(s, c, e)
      PROVE  ~ (b < c)
  BY <1>1 DEF IsLine
<1>2. line.begin = other.begin
  <2>1. IsLine(s, line.begin, line.end) /\ IsLine(s, other.begin, line.end)
    BY LineFacts
  <2>2. ~ (line.begin < other.begin) /\ ~ (other.begin < line.begin)
    BY <1>1, <2>1
  <2> QED
    BY <2>1, <2>2 DEF IsLine
<1> QED
  BY <1>2, LineFacts

\* The lines of a stream are those of its continuation that end in it.
LEMMA LinesGoOn ==
    ASSUME NEW s \in Seq(Chars), NEW t \in Seq(Chars), Begins(s, t)
    PROVE  /\ \A line \in Lines(s) : line \in Lines(t)
           /\ \A line \in Lines(t) : line.end <= Len(s) => line \in Lines(s)
<1>1. ASSUME NEW b, NEW e, IsLine(s, b, e)  PROVE IsLine(t, b, e)
  <2>1. b \in 1 .. Len(s) /\ e \in 1 .. Len(s) /\ Len(s) \in Nat /\ Len(t) \in Nat
    BY <1>1 DEF IsLine
  <2> QED
    BY <1>1, <2>1 DEF IsLine, Begins
<1>2. ASSUME NEW b, NEW e, IsLine(t, b, e), e <= Len(s)  PROVE IsLine(s, b, e)
  <2>1. b \in 1 .. Len(s) /\ e \in 1 .. Len(s) /\ Len(s) \in Nat /\ Len(t) \in Nat
    BY <1>2 DEF IsLine
  <2> QED
    BY <1>2, <2>1 DEF IsLine, Begins
<1> QED
  BY <1>1, <1>2, LineFacts

\* Where the line of a byte begins, for a byte that is no newline.
LEMMA LineBegins ==
    ASSUME NEW s \in Seq(Chars), NEW p \in 1 .. Len(s), s[p] \notin Newlines
    PROVE  \E b \in 1 .. p :
              /\ b = 1 \/ s[b - 1] \in Newlines
              /\ \A k \in b .. p : s[k] \notin Newlines
<1> DEFINE Back == {n \in 0 .. p : p - n = 0 \/ s[p - n] \in Newlines}
<1>1. Back \in SUBSET Nat /\ p \in Back
  OBVIOUS
<1>2. PICK m \in Back : \A n \in Back : m <= n
  BY <1>1, LeastOf
<1>3. m \in 0 .. p /\ m # 0 /\ (p - m = 0 \/ s[p - m] \in Newlines)
  BY <1>2
<1>4. ASSUME NEW k \in p - m + 1 .. p, s[k] \in Newlines  PROVE FALSE
  <2>1. p - k \in 0 .. p /\ p - (p - k) = k
    BY <1>3
  <2>2. p - k \in Back
    BY <2>1, <1>4
  <2> QED
    BY <2>2, <1>2, <1>3
<1> HIDE DEF Back
<1> DEFINE b == p - m + 1
<1>5. b \in 1 .. p /\ (b = 1 \/ s[b - 1] \in Newlines)
  <2>1. p \in Nat /\ m \in Nat /\ b - 1 = p - m /\ (p - m = 0 => b = 1)
    BY <1>3
  <2> QED
    BY <1>3, <2>1
<1>6. \A k \in b .. p : s[k] \notin Newlines
  BY <1>4
<1> QED
  BY <1>5, <1>6

-----------------------------------------------------------------------------
(* The place in the stream up to which everything is dealt with.            *)

\* the bytes from b to p are the beginning of a line, and may be all of it
Starts(s, b, p) ==
    /\ b = 1 \/ s[b - 1] \in Newlines
    /\ \A k \in b .. p : s[k] \notin Newlines

\* If p is within a line, that line is too long already.
TooLong(s, of, p) ==
    \A b \in 1 .. p :
        Starts(s, b, p) =>
            \A e \in 0 .. b - 1 : Gone(s, of, e) => p - e >= MAX_AT_RESPONSE

\* the first p bytes of the stream s are dealt with: the lines that are
\* returned (of) are in them, and all that fit and are in them are returned
Dealt(s, lines, of, p) ==
    /\ p \in 0 .. Len(s)
    /\ of \in [DOMAIN lines -> Lines(s)]
    /\ Match(s, lines, of)
    /\ \A i \in DOMAIN lines : of[i].end <= p
    /\ \A line \in Lines(s) :
          line.end <= p /\ Fits(s, line, of) => \E i \in DOMAIN of : of[i] = line
    /\ TooLong(s, of, p)

\* What fits does not depend on how the stream goes on.
LEMMA FitsGoesOn ==
    ASSUME NEW s \in Seq(Chars), NEW t \in Seq(Chars), Begins(s, t), NEW of,
           NEW line \in Lines(s)
    PROVE  Fits(s, line, of) <=> Fits(t, line, of)
<1>1. \A e \in 0 .. line.begin - 1 : Gone(s, of, e) <=> Gone(t, of, e)
  <2>1. IsLine(s, line.begin, line.end) /\ Len(s) \in Nat
    BY LineFacts
  <2>2. \A e \in 0 .. line.begin - 1 : e # 0 => t[e] = s[e]
    BY <2>1 DEF IsLine, Begins
  <2> QED
    BY <2>2 DEF Gone
<1> QED
  BY <1>1 DEF Fits

\* More bytes of the stream change nothing of what is dealt with.
LEMMA StreamGoesOn ==
    ASSUME NEW s \in Seq(Chars), NEW t \in Seq(Chars), Begins(s, t),
           NEW lines, NEW of, NEW p, Dealt(s, lines, of, p)
    PROVE  Dealt(t, lines, of, p)
<1>1. p \in Nat /\ p <= Len(s) /\ Len(s) \in Nat /\ Len(t) \in Nat /\ Len(s) <= Len(t)
  BY DEF Dealt, Begins
<1>2. of \in [DOMAIN lines -> Lines(t)]
  BY LinesGoOn DEF Dealt
<1>3. \A i \in DOMAIN lines :
         /\ of[i] \in Lines(s)
         /\ IsLine(s, of[i].begin, of[i].end)
         /\ Fits(s, of[i], of) <=> Fits(t, of[i], of)
  BY LineFacts, FitsGoesOn DEF Dealt
<1>4. Match(t, lines, of)
  <2>1. ASSUME NEW i \in DOMAIN lines, NEW from \in of[i].begin .. of[i].end - 1
        PROVE  Text(s, from, of[i].end) = Text(t, from, of[i].end)
    <3>1. \A k \in 1 .. of[i].end - from : t[from + k - 1] = s[from + k - 1]
      BY <1>1, <1>3 DEF IsLine, Begins
    <3> QED
      BY <3>1 DEF Text
  <2>2. Match(s, lines, of)
    BY DEF Dealt
  <2> QED
    BY <2>1, <2>2, <1>3 DEF Match
<1>5. ASSUME NEW line \in Lines(t), line.end <= p, Fits(t, line, of)
      PROVE  \E i \in DOMAIN of : of[i] = line
  <2>1. line.end \in Nat
    BY LineFacts DEF IsLine
  <2>2. line \in Lines(s)
    BY <1>1, <1>5, <2>1, LinesGoOn
  <2> QED
    BY <1>5, <2>2, FitsGoesOn DEF Dealt
<1>6. TooLong(t, of, p)
  <2>1. ASSUME NEW b \in 1 .. p, Starts(t, b, p), NEW e \in 0 .. b - 1, Gone(t, of, e)
        PROVE  p - e >= MAX_AT_RESPONSE
    <3>1. \A k \in 1 .. p : t[k] = s[k]
      BY <1>1 DEF Begins
    <3>2. Starts(s, b, p) /\ Gone(s, of, e)
      BY <1>1, <2>1, <3>1 DEF Starts, Gone
    <3> QED
      BY <2>1, <3>2 DEF Dealt, TooLong
  <2> QED
    BY <2>1 DEF TooLong
<1> QED
  BY <1>1, <1>2, <1>4, <1>5, <1>6 DEF Dealt

\* Newlines are skipped: none of them ends a line that fits.
LEMMA NewlinesSkipped ==
    ASSUME NEW s \in Seq(Chars), NEW lines, NEW of,
           NEW p, Dealt(s, lines, of, p),
           NEW q \in p .. Len(s), \A k \in p + 1 .. q : s[k] \in Newlines
    PROVE  Dealt(s, lines, of, q)
<1>1. p \in Nat /\ q \in Nat /\ Len(s) \in Nat /\ p <= q /\ q <= Len(s)
  BY DEF Dealt
<1>2. ASSUME NEW i \in DOMAIN lines  PROVE of[i].end <= q
  <2>1. of[i].end \in Nat /\ of[i].end <= p
    BY LineFacts DEF IsLine, Dealt
  <2> QED
    BY <1>1, <2>1
<1>3. ASSUME NEW line \in Lines(s), line.end <= q, Fits(s, line, of)
      PROVE  \E i \in DOMAIN of : of[i] = line
  <2>1. IsLine(s, line.begin, line.end)
    BY LineFacts
  <2>2. CASE line.end <= p
    BY <1>3, <2>2 DEF Dealt
  <2>3. CASE ~ (line.end <= p)
    <3>1. line.end = p + 1
      BY <1>1, <1>3, <2>1, <2>3 DEF IsLine
    <3>2. line.begin \in 1 .. p /\ Starts(s, line.begin, p)
      BY <1>1, <2>1, <3>1 DEF IsLine, Starts
    <3>3. PICK e \in 0 .. line.begin - 1 :
             Gone(s, of, e) /\ line.end - 1 - e < MAX_AT_RESPONSE
      BY <1>3 DEF Fits
    <3>4. p - e >= MAX_AT_RESPONSE
      BY <3>2, <3>3 DEF Dealt, TooLong
    <3> QED
      BY <1>1, <3>1, <3>2, <3>3, <3>4, SizeAssumption
  <2> QED
    BY <2>2, <2>3
<1>4. TooLong(s, of, q)
  <2>1. CASE q = p
    BY <2>1 DEF Dealt
  <2>2. CASE q # p
    <3>1. s[q] \in Newlines
      BY <1>1, <2>2
    <3> QED
      BY <1>1, <3>1 DEF TooLong, Starts
  <2> QED
    BY <2>1, <2>2
<1> QED
  BY <1>1, <1>2, <1>3, <1>4 DEF Dealt

\* A full buffer without the end of a line is ditched, and with it only the
\* beginning of a line that is too long.
LEMMA LineDitched ==
    ASSUME NEW s \in Seq(Chars), NEW lines, NEW of,
           NEW p, Dealt(s, lines, of, p),
           NEW q \in 0 .. p, Len(s) - q >= MAX_AT_RESPONSE,
           \A k \in q + 1 .. p : s[k] \in Newlines,
           \A k \in p + 1 .. Len(s) : s[k] \notin Newlines,
           \A i \in DOMAIN lines : of[i].end <= q
    PROVE  Dealt(s, lines, of, Len(s))
<1> DEFINE n == Len(s)
<1>1. p \in Nat /\ q \in Nat /\ n \in Nat /\ q <= p /\ p <= n
  BY DEF Dealt
<1>2. \A i \in DOMAIN lines : IsLine(s, of[i].begin, of[i].end)
  BY LineFacts DEF Dealt
<1>3. ASSUME NEW line \in Lines(s), Fits(s, line, of)
      PROVE  \E i \in DOMAIN of : of[i] = line
  <2>1. IsLine(s, line.begin, line.end)
    BY LineFacts
  <2>2. line.end <= p
    BY <1>1, <2>1 DEF IsLine
  <2> QED
    BY <1>3, <2>2 DEF Dealt
<1>4. ASSUME NEW b \in 1 .. n, Starts(s, b, n), NEW e \in 0 .. b - 1, Gone(s, of, e)
      PROVE  n - e >= MAX_AT_RESPONSE
  <2>1. CASE b <= p
    <3>1. b \in 1 .. p /\ Starts(s, b, p)
      BY <1>1, <1>4, <2>1 DEF Starts
    <3>2. p - e >= MAX_AT_RESPONSE
      BY <1>4, <3>1 DEF Dealt, TooLong
    <3> QED
      BY <1>1, <3>2, SizeAssumption
  <2>2. CASE b > p
    <3>1. e <= q
      <4>1. b - 1 <= p
        BY <1>1, <1>4, <2>2 DEF Starts
      <4>2. CASE s[e] \notin Newlines
        BY <1>1, <4>1, <4>2
      <4>3. CASE \E i \in DOMAIN of : of[i].end = e
        BY <4>3 DEF Dealt
      <4> QED
        BY <1>1, <1>4, <4>2, <4>3 DEF Gone
    <3> QED
      BY <1>1, <3>1, SizeAssumption
  <2> QED
    BY <1>1, <2>1, <2>2
<1>5. \A i \in DOMAIN lines : of[i].end <= n
  BY <1>1, <1>2 DEF IsLine
<1> QED
  BY <1>1, <1>3, <1>4, <1>5 DEF Dealt, TooLong

\* A text cut out of a stream or of the buffer.
LEMMA TextFacts ==
    ASSUME NEW buffer, NEW from \in Nat, NEW to \in Nat, from <= to,
           \A k \in from .. to - 1 : buffer[k] \in Chars
    PROVE  Text(buffer, from, to) \in Seq(Chars)
<1>1. \A k \in 1 .. to - from : from + k - 1 \in from .. to - 1
  OBVIOUS
<1>2. Text(buffer, from, to) \in [1 .. to - from -> Chars]
  BY <1>1 DEF Text
<1>3. to - from \in Nat
  OBVIOUS
<1> QED
  BY <1>2, <1>3

\* The line after p is returned.
LEMMA LineReturned ==
    ASSUME NEW s \in Seq(Chars), NEW lines \in Seq(Seq(Chars)), NEW of,
           NEW p, Dealt(s, lines, of, p),
           NEW r \in p + 2 .. Len(s), s[r] \in Newlines,
           \A k \in p + 1 .. r - 1 : s[k] \notin Newlines
    PROVE  \E more : Dealt(s, Append(lines, Text(s, p + 1, r)), more, r)
<1>1. p \in Nat /\ r \in Nat /\ Len(s) \in Nat /\ p + 2 <= r /\ r <= Len(s)
  BY DEF Dealt
<1>2. PICK b \in 1 .. r - 1 : Starts(s, b, r - 1)
  <2>1. r - 1 \in 1 .. Len(s) /\ s[r - 1] \notin Newlines
    BY <1>1
  <2> QED
    BY <2>1, LineBegins DEF Starts
<1>3. b <= p + 1
  BY <1>1, <1>2 DEF Starts
<1>4. IsLine(s, b, r)
  BY <1>1, <1>2 DEF IsLine, Starts
<1> DEFINE text == Text(s, p + 1, r)
           longer == Append(lines, text)
           new == [begin |-> b, end |-> r]
           more == [i \in DOMAIN longer |-> IF i \in DOMAIN lines THEN of[i] ELSE new]
           m == Len(lines) + 1
<1>5. new \in Lines(s) /\ new.begin = b /\ new.end = r
  BY <1>4, LineFacts
<1>6. /\ m \in Nat \ {0} /\ m \notin DOMAIN lines
      /\ DOMAIN longer = DOMAIN lines \cup {m}
      /\ \A i \in DOMAIN lines : i \in Nat /\ i < m /\ longer[i] = lines[i]
      /\ longer[m] = text
  <2>1. text \in Seq(Chars)
    <3>1. \A k \in p + 1 .. r - 1 : s[k] \in Chars
      BY <1>1
    <3> QED
      BY <1>1, <3>1, TextFacts
  <2> HIDE DEF text
  <2> QED
    BY <2>1
<1> HIDE DEF longer, text
<1>7. /\ \A i \in DOMAIN lines : more[i] = of[i]
      /\ more[m] = new
      /\ DOMAIN more = DOMAIN longer
  BY <1>6
<1> HIDE DEF more, new, m
<1>8. \A i \in DOMAIN lines :
         of[i] \in Lines(s) /\ IsLine(s, of[i].begin, of[i].end) /\ of[i].end <= p
  BY LineFacts DEF Dealt
<1>9. more \in [DOMAIN longer -> Lines(s)]
  <2>1. \A i \in DOMAIN longer : more[i] \in Lines(s)
    BY <1>5, <1>6, <1>7, <1>8
  <2>2. more = [i \in DOMAIN longer |-> more[i]]
    BY <1>7 DEF more
  <2> QED
    BY <2>1, <2>2
<1>10. \A e \in 0 .. r - 1 : Gone(s, more, e) <=> Gone(s, of, e)
  <2>1. ASSUME NEW e \in 0 .. r - 1
        PROVE  (\E i \in DOMAIN more : more[i].end = e)
                 <=> \E i \in DOMAIN of : of[i].end = e
    <3>1. DOMAIN of = DOMAIN lines /\ e # r
      BY <1>1 DEF Dealt
    <3> QED
      BY <3>1, <1>5, <1>6, <1>7
  <2> QED
    BY <2>1 DEF Gone
<1>11. ASSUME NEW line \in Lines(s), line.begin <= r
       PROVE  Fits(s, line, more) <=> Fits(s, line, of)
  <2>1. line.begin \in Nat
    BY LineFacts DEF IsLine
  <2>2. 0 .. line.begin - 1 \subseteq 0 .. r - 1
    BY <1>1, <1>11, <2>1
  <2> QED
    BY <1>10, <2>2 DEF Fits
<1>12. ASSUME b <= p, NEW e \in 0 .. b - 1, Gone(s, of, e)
       PROVE  p - e >= MAX_AT_RESPONSE
  <2>1. b \in 1 .. p /\ Starts(s, b, p)
    BY <1>1, <1>2, <1>12 DEF Starts
  <2> QED
    BY <1>12, <2>1 DEF Dealt, TooLong
<1>13. ASSUME Fits(s, new, of), b <= p  PROVE FALSE
  <2>1. PICK e \in 0 .. b - 1 : Gone(s, of, e) /\ r - 1 - e < MAX_AT_RESPONSE
    BY <1>5, <1>13 DEF Fits
  <2>2. p - e >= MAX_AT_RESPONSE
    BY <1>12, <1>13, <2>1
  <2> QED
    BY <1>1, <1>2, <2>1, <2>2, SizeAssumption
<1>14. Match(s, longer, more)
  <2>1. ASSUME NEW i \in DOMAIN longer, NEW j \in DOMAIN longer, i < j
        PROVE  more[i].end < more[j].end
    <3>1. i \in DOMAIN lines
      BY <1>6, <2>1
    <3>2. CASE j \in DOMAIN lines
      BY <2>1, <3>1, <3>2, <1>7 DEF Dealt, Match
    <3>3. CASE j = m
      BY <1>1, <1>5, <1>7, <1>8, <3>1, <3>3 DEF IsLine
    <3> QED
      BY <1>6, <3>2, <3>3
  <2>2. ASSUME NEW i \in DOMAIN longer
        PROVE  \E from \in more[i].begin .. more[i].end - 1 :
                  /\ longer[i] = Text(s, from, more[i].end)
                  /\ Fits(s, more[i], more) => from = more[i].begin
    <3>1. CASE i \in DOMAIN lines
      <4>1. PICK from \in of[i].begin .. of[i].end - 1 :
               /\ lines[i] = Text(s, from, of[i].end)
               /\ Fits(s, of[i], of) => from = of[i].begin
        BY <3>1 DEF Dealt, Match
      <4>2. of[i].begin <= r
        BY <1>1, <1>8, <3>1 DEF IsLine
      <4> QED
        BY <1>6, <1>7, <1>8, <1>11, <3>1, <4>1, <4>2
    <3>2. CASE i = m
      <4>1. p + 1 \in b .. r - 1
        BY <1>1, <1>2, <1>3
      <4>2. longer[i] = Text(s, p + 1, r)
        BY <1>6, <3>2 DEF text
      <4>3. Fits(s, new, more) => p + 1 = b
        BY <1>1, <1>2, <1>3, <1>5, <1>11, <1>13
      <4> QED
        BY <1>5, <1>7, <3>2, <4>1, <4>2, <4>3
    <3> QED
      BY <1>6, <3>1, <3>2
  <2> QED
    BY <2>1, <2>2 DEF Match
<1>15. \A i \in DOMAIN longer : more[i].end <= r
  <2>1. \A i \in DOMAIN lines : more[i].end <= r
    BY <1>1, <1>7, <1>8 DEF IsLine
  <2>2. more[m].end <= r
    BY <1>1, <1>5, <1>7
  <2> QED
    BY <2>1, <2>2, <1>6
<1>16. ASSUME NEW line \in Lines(s), line.end <= r, Fits(s, line, more)
       PROVE  \E i \in DOMAIN more : more[i] = line
  <2>1. IsLine(s, line.begin, line.end)
    BY LineFacts
  <2>2. Fits(s, line, of)
    BY <1>1, <1>11, <1>16, <2>1 DEF IsLine
  <2>3. CASE line.end <= p
    <3>1. PICK i \in DOMAIN of : of[i] = line
      BY <2>2, <2>3 DEF Dealt
    <3>2. i \in DOMAIN lines
      BY DEF Dealt
    <3> QED
      BY <1>6, <1>7, <3>1, <3>2
  <2>4. CASE line.end = r
    <3>1. line = new
      BY <1>5, <2>4, OneLinePerEnd
    <3> QED
      BY <1>6, <1>7, <3>1
  <2>5. CASE line.end = p + 1
    BY <1>1, <2>1, <2>5 DEF IsLine
  <2>6. line.end <= p \/ line.end = p + 1 \/ line.end = r
    BY <1>1, <1>16, <2>1 DEF IsLine
  <2> QED
    BY <2>3, <2>4, <2>5, <2>6
<1>17. TooLong(s, more, r)
  BY <1>1 DEF TooLong, Starts
<1> QED
  BY <1>1, <1>9, <1>14, <1>15, <1>16, <1>17 DEF Dealt, longer, text

-----------------------------------------------------------------------------
(* The buffer.                                                              *)

\* What a call finds between two calls: the bytes from the cursor to where
\* the next chunk would go, or nothing.
HeldEnd ==
    IF pc = "call" /\ s_ATBuffer[s_ATBufferCur] = NUL THEN s_ATBufferCur ELSE p_read

\* the buffer has, from cur to end, the last bytes of the stream s
Holds(buffer, cur, end, s) ==
    /\ cur \in 0 .. end /\ end \in Indexes /\ end - cur <= Len(s)
    /\ buffer[end] = NUL
    /\ \A j \in cur .. end - 1 : buffer[j] = s[Len(s) - end + j + 1]

\* While a chunk is read: there is no newline behind the cursor, the bytes
\* before it are newlines, and no line returned ends among them.
Partial(lines, of, s, cur, p) ==
    /\ p <= Len(s)
    /\ \A k \in Len(s) - p + 1 .. Len(s) - p + cur : s[k] \in Newlines
    /\ \A k \in Len(s) - p + cur + 1 .. Len(s) : s[k] \notin Newlines
    /\ \A i \in DOMAIN lines : of[i].end <= Len(s) - p

Types ==
    /\ TypeOK
    /\ pc = "reading" => s_ATBufferCur \in Indexes

\* Until a prompt: the buffer holds the end of the stream, and the stream is
\* dealt with up to the cursor.
Served ==
    /\ Holds(s_ATBuffer, s_ATBufferCur, HeldEnd, stream)
    /\ \E of \in [DOMAIN returned -> Lines(stream)] :
          /\ Dealt(stream, returned, of, Len(stream) - HeldEnd + s_ATBufferCur)
          /\ pc = "reading" => Partial(returned, of, stream, s_ATBufferCur, p_read)

Inv == Types /\ (prompted \/ Served)

-----------------------------------------------------------------------------
(* The search for a line in the buffer.                                     *)

\* The newlines are skipped, and a line found, within the buffer.
LEMMA Scanned ==
    ASSUME NEW buffer \in [Indexes -> Chars \cup {NUL}],
           buffer[MAX_AT_RESPONSE] = NUL, NEW i \in Indexes
    PROVE  LET cur == SkipNewlines(buffer, i)
               eol == findNextEOL(buffer, cur)
           IN /\ cur \in i .. MAX_AT_RESPONSE
              /\ buffer[cur] \notin Newlines
              /\ \A j \in i .. cur - 1 : buffer[j] \in Newlines
              /\ eol # None => /\ eol \in cur + 1 .. MAX_AT_RESPONSE
                               /\ \A j \in cur .. eol - 1 : buffer[j] \in Chars
              /\ eol # None /\ ~ IsPrompt(buffer, cur) =>
                    /\ buffer[eol] \in Newlines
                    /\ \A j \in cur .. eol - 1 : buffer[j] \notin Newlines
              /\ eol = None =>
                    \E z \in cur .. MAX_AT_RESPONSE :
                       /\ buffer[z] = NUL
                       /\ \A j \in cur .. z - 1 : buffer[j] \notin Newlines \cup {NUL}
<1> DEFINE cur == SkipNewlines(buffer, i)
           eol == findNextEOL(buffer, cur)
           z == First(buffer, cur, Newlines \cup {NUL})
<1>0. MAX_AT_RESPONSE \in Nat /\ Indexes = 0 .. MAX_AT_RESPONSE
      /\ NUL \notin Newlines /\ None \notin Nat
  BY SizeAssumption DEF Indexes, NUL, Newlines, None
<1>1. /\ cur \in i .. MAX_AT_RESPONSE
      /\ buffer[cur] \in (Chars \ Newlines) \cup {NUL}
      /\ \A j \in i .. cur - 1 : buffer[j] \notin (Chars \ Newlines) \cup {NUL}
  BY FirstFound DEF SkipNewlines
<1>2. cur \in Indexes /\ buffer[cur] \notin Newlines
  BY <1>0, <1>1
<1>3. \A j \in i .. cur - 1 : buffer[j] \in Newlines
  BY <1>0, <1>1
<1>4. /\ z \in cur .. MAX_AT_RESPONSE
      /\ buffer[z] \in Newlines \cup {NUL}
      /\ \A j \in cur .. z - 1 : buffer[j] \notin Newlines \cup {NUL}
  BY <1>2, FirstFound
<1> HIDE DEF cur, eol, z
<1>5. CASE IsPrompt(buffer, cur)
  <2>0. eol = cur + 2 /\ cur \in Nat
    BY <1>0, <1>2, <1>5 DEF findNextEOL, eol
  <2>1. buffer[cur] = ">" /\ buffer[cur + 1] = " " /\ buffer[cur + 2] = NUL
    BY <1>5 DEF IsPrompt
  <2>2. cur # MAX_AT_RESPONSE /\ cur + 1 # MAX_AT_RESPONSE
    BY <2>1 DEF NUL
  <2>3. cur + 2 \in cur + 1 .. MAX_AT_RESPONSE
    BY <1>0, <1>2, <2>2
  <2>4. \A j \in cur .. eol - 1 : buffer[j] \in Chars
    <3>1. \A j \in cur .. eol - 1 : j = cur \/ j = cur + 1
      BY <2>0
    <3>2. buffer[cur] \in Chars /\ buffer[cur + 1] \in Chars
      <4>1. cur \in Indexes /\ cur + 1 \in Indexes
        BY <1>0, <1>2, <2>3
      <4>2. buffer[cur] # NUL /\ buffer[cur + 1] # NUL
        BY <2>1 DEF NUL
      <4> QED
        BY <4>1, <4>2
    <3> QED
      BY <3>1, <3>2
  <2> QED
    <3>1. eol # None /\ eol \in cur + 1 .. MAX_AT_RESPONSE
      BY <1>0, <2>0, <2>3
    <3> QED
      BY <1>1, <1>2, <1>3, <1>5, <2>4, <3>1 DEF cur, eol
<1>6. CASE ~ IsPrompt(buffer, cur)
  <2>1. eol = IF buffer[z] = NUL THEN None ELSE z
    BY <1>6 DEF findNextEOL, eol, z
  <2>2. CASE buffer[z] = NUL
    BY <1>1, <1>2, <1>3, <1>4, <2>1, <2>2 DEF cur, eol
  <2>3. CASE buffer[z] # NUL
    <3>1. eol = z /\ z \in Nat /\ z # cur /\ buffer[z] \in Newlines
      BY <1>0, <1>2, <1>4, <2>1, <2>3
    <3>2. eol \in cur + 1 .. MAX_AT_RESPONSE
      BY <1>0, <1>2, <1>4, <3>1
    <3>3. \A j \in cur .. eol - 1 : buffer[j] \in Chars /\ buffer[j] \notin Newlines
      <4>1. \A j \in cur .. eol - 1 : j \in Indexes
        BY <1>0, <1>2, <3>2
      <4> QED
        BY <4>1, <1>4, <3>1
    <3> QED
      BY <1>0, <1>1, <1>2, <1>3, <3>1, <3>2, <3>3 DEF cur, eol
  <2> QED
    BY <2>2, <2>3
<1> QED
  BY <1>5, <1>6

\* What is found in a buffer that holds the end of the stream is there in the
\* stream: newlines up to cur, then a line, or no newline at all.
LEMMA ScannedStream ==
    ASSUME NEW buffer \in [Indexes -> Chars \cup {NUL}],
           buffer[MAX_AT_RESPONSE] = NUL,
           NEW s \in Seq(Chars), NEW i, NEW end, Holds(buffer, i, end, s)
    PROVE  LET cur == SkipNewlines(buffer, i)
               eol == findNextEOL(buffer, cur)
               base == Len(s) - end
           IN /\ cur \in i .. end
              /\ Holds(buffer, cur, end, s)
              /\ \A k \in base + i + 1 .. base + cur : s[k] \in Newlines
              /\ eol = None =>
                    \A k \in base + cur + 1 .. Len(s) : s[k] \notin Newlines
              /\ eol # None /\ ~ IsPrompt(buffer, cur) =>
                    /\ eol \in cur + 1 .. end - 1
                    /\ s[base + eol + 1] \in Newlines
                    /\ \A k \in base + cur + 1 .. base + eol : s[k] \notin Newlines
                    /\ Text(buffer, cur, eol) = Text(s, base + cur + 1, base + eol + 1)
                    /\ Holds([buffer EXCEPT ![eol] = NUL], eol + 1, end, s)
<1> DEFINE cur == SkipNewlines(buffer, i)
           eol == findNextEOL(buffer, cur)
           base == Len(s) - end
<1>0. /\ MAX_AT_RESPONSE \in Nat /\ Indexes = 0 .. MAX_AT_RESPONSE
      /\ NUL \notin Newlines /\ NUL \notin Chars
      /\ i \in Nat /\ end \in Nat /\ i <= end /\ end <= MAX_AT_RESPONSE
      /\ Len(s) \in Nat /\ base \in Int /\ base + i \in Nat /\ i \in Indexes
      /\ end - i <= Len(s)
  BY SizeAssumption, CharsAssumption DEF Indexes, NUL, Newlines, Holds
<1>1. \A j \in i .. end - 1 : buffer[j] = s[base + j + 1] /\ buffer[j] \in Chars
  <2>1. \A j \in i .. end - 1 : base + j + 1 \in 1 .. Len(s)
    BY <1>0
  <2> QED
    BY <2>1, <1>0 DEF Holds
<1>2. buffer[end] = NUL
  BY DEF Holds
<1>3. /\ cur \in i .. MAX_AT_RESPONSE
      /\ buffer[cur] \notin Newlines
      /\ \A j \in i .. cur - 1 : buffer[j] \in Newlines
      /\ eol # None => /\ eol \in cur + 1 .. MAX_AT_RESPONSE
                       /\ \A j \in cur .. eol - 1 : buffer[j] \in Chars
      /\ eol # None /\ ~ IsPrompt(buffer, cur) =>
            /\ buffer[eol] \in Newlines
            /\ \A j \in cur .. eol - 1 : buffer[j] \notin Newlines
      /\ eol = None =>
            \E z \in cur .. MAX_AT_RESPONSE :
               /\ buffer[z] = NUL
               /\ \A j \in cur .. z - 1 : buffer[j] \notin Newlines \cup {NUL}
  BY <1>0, Scanned
<1> HIDE DEF cur, eol
<1>4. cur \in Nat /\ i <= cur /\ cur <= end
  BY <1>0, <1>2, <1>3
<1>5. \A k \in base + i + 1 .. base + cur : s[k] \in Newlines
  <2>1. ASSUME NEW k \in base + i + 1 .. base + cur  PROVE s[k] \in Newlines
    <3>1. /\ k - base - 1 \in i .. cur - 1 /\ base + (k - base - 1) + 1 = k
          /\ k - base - 1 \in i .. end - 1
      BY <1>0, <1>4
    <3> QED
      BY <3>1, <1>1, <1>3
  <2> QED
    BY <2>1
<1>6. Holds(buffer, cur, end, s)
  BY <1>0, <1>4 DEF Holds
<1>7. ASSUME eol = None, NEW k \in base + cur + 1 .. Len(s)
      PROVE  s[k] \notin Newlines
  <2>1. PICK z \in cur .. MAX_AT_RESPONSE :
           /\ buffer[z] = NUL
           /\ \A j \in cur .. z - 1 : buffer[j] \notin Newlines \cup {NUL}
    BY <1>3, <1>7
  <2>2. end <= z
    BY <1>0, <1>1, <1>4, <2>1
  <2>3. k - base - 1 \in cur .. end - 1 /\ base + (k - base - 1) + 1 = k
    BY <1>0, <1>4
  <2>4. k - base - 1 \in cur .. z - 1 /\ k - base - 1 \in i .. end - 1
    BY <1>0, <1>4, <2>2, <2>3
  <2> QED
    BY <2>1, <2>3, <2>4, <1>1
<1>8. ASSUME eol # None, ~ IsPrompt(buffer, cur)
      PROVE  /\ eol \in cur + 1 .. end - 1
             /\ s[base + eol + 1] \in Newlines
             /\ \A k \in base + cur + 1 .. base + eol : s[k] \notin Newlines
             /\ Text(buffer, cur, eol) = Text(s, base + cur + 1, base + eol + 1)
             /\ Holds([buffer EXCEPT ![eol] = NUL], eol + 1, end, s)
  <2>1. /\ eol \in cur + 1 .. MAX_AT_RESPONSE
        /\ buffer[eol] \in Newlines
        /\ \A j \in cur .. eol - 1 : buffer[j] \in Chars /\ buffer[j] \notin Newlines
    BY <1>3, <1>8
  <2>2. eol \in cur + 1 .. end - 1
    <3>1. end \notin cur .. eol - 1 /\ end # eol
      BY <2>1, <1>0, <1>2
    <3> QED
      BY <1>0, <1>4, <2>1, <3>1
  <2>3. s[base + eol + 1] \in Newlines
    BY <1>0, <1>1, <1>4, <2>1, <2>2
  <2>4. \A k \in base + cur + 1 .. base + eol : s[k] \notin Newlines
    <3>1. ASSUME NEW k \in base + cur + 1 .. base + eol  PROVE s[k] \notin Newlines
      <4>1. /\ k - base - 1 \in cur .. eol - 1 /\ base + (k - base - 1) + 1 = k
            /\ k - base - 1 \in i .. end - 1
        BY <1>0, <1>4, <2>2
      <4> QED
        BY <4>1, <2>1, <1>1
    <3> QED
      BY <3>1
  <2>5. Text(buffer, cur, eol) = Text(s, base + cur + 1, base + eol + 1)
    <3>1. (base + eol + 1) - (base + cur + 1) = eol - cur
      BY <1>0, <1>4, <2>2
    <3>2. \A k \in 1 .. eol - cur :
             buffer[cur + k - 1] = s[(base + cur + 1) + k - 1]
      <4>1. ASSUME NEW k \in 1 .. eol - cur
            PROVE  buffer[cur + k - 1] = s[(base + cur + 1) + k - 1]
        <5>1. /\ cur + k - 1 \in i .. end - 1
              /\ base + (cur + k - 1) + 1 = (base + cur + 1) + k - 1
          BY <1>0, <1>4, <2>2
        <5> QED
          BY <5>1, <1>1
      <4> QED
        BY <4>1
    <3> QED
      BY <3>1, <3>2 DEF Text
  <2>6. Holds([buffer EXCEPT ![eol] = NUL], eol + 1, end, s)
    <3>1. eol + 1 \in 0 .. end /\ end - (eol + 1) <= Len(s) /\ end \in Indexes
      BY <1>0, <1>4, <2>2
    <3>2. \A j \in eol + 1 .. end : [buffer EXCEPT ![eol] = NUL][j] = buffer[j]
      BY <1>0, <1>4, <2>2
    <3>3. \A j \in eol + 1 .. end - 1 : j \in i .. end - 1
      BY <1>0, <1>4, <2>2
    <3>4. end \in eol + 1 .. end
      BY <1>0, <1>4, <2>2
    <3> QED
      BY <1>1, <1>2, <3>1, <3>2, <3>3, <3>4 DEF Holds
  <2> QED
    BY <2>2, <2>3, <2>4, <2>5, <2>6
<1> QED
  BY <1>4, <1>5, <1>6, <1>7, <1>8 DEF cur, eol

\* The rest of a line is moved to the front.
LEMMA RestMoved ==
    ASSUME NEW buffer \in [Indexes -> Chars \cup {NUL}],
           buffer[MAX_AT_RESPONSE] = NUL, NEW cur \in Indexes
    PROVE  LET len == First(buffer, cur, {NUL}) - cur
               moved == Moved(buffer, cur, len)
           IN /\ len \in Indexes
              /\ moved \in [Indexes -> Chars \cup {NUL}]
              /\ moved[MAX_AT_RESPONSE] = NUL
              /\ \A s \in Seq(Chars), end \in Indexes :
                    Holds(buffer, cur, end, s) =>
                        len = end - cur /\ Holds(moved, 0, len, s)
<1> DEFINE z == First(buffer, cur, {NUL})
           len == z - cur
           moved == Moved(buffer, cur, len)
<1>0. MAX_AT_RESPONSE \in Nat /\ Indexes = 0 .. MAX_AT_RESPONSE /\ NUL \notin Chars
  BY SizeAssumption, CharsAssumption DEF Indexes
<1>1. /\ z \in cur .. MAX_AT_RESPONSE
      /\ buffer[z] = NUL
      /\ \A j \in cur .. z - 1 : buffer[j] # NUL
  BY FirstFound
<1> HIDE DEF z
<1>2. len \in Indexes /\ cur \in Nat /\ cur + len = z /\ z <= MAX_AT_RESPONSE
  BY <1>0, <1>1
<1> HIDE DEF len
<1>3. \A i \in Indexes : i <= len => cur + i \in Indexes
  BY <1>0, <1>2
<1>4. moved \in [Indexes -> Chars \cup {NUL}]
  BY <1>3 DEF Moved
<1>5. moved[MAX_AT_RESPONSE] = NUL
  <2>1. CASE MAX_AT_RESPONSE <= len
    <3>1. cur + MAX_AT_RESPONSE = z
      BY <1>0, <1>2, <2>1
    <3> QED
      BY <1>0, <1>1, <2>1, <3>1 DEF Moved
  <2>2. CASE ~ (MAX_AT_RESPONSE <= len)
    BY <1>0, <2>2 DEF Moved
  <2> QED
    BY <2>1, <2>2
<1>6. ASSUME NEW s \in Seq(Chars), NEW end \in Indexes, Holds(buffer, cur, end, s)
      PROVE  len = end - cur /\ Holds(moved, 0, len, s)
  <2>1. /\ cur <= end /\ end \in Nat /\ end - cur <= Len(s) /\ Len(s) \in Nat
        /\ buffer[end] = NUL
        /\ \A j \in cur .. end - 1 : buffer[j] = s[Len(s) - end + j + 1]
    BY <1>0, <1>6 DEF Holds
  <2>2. \A j \in cur .. end - 1 : buffer[j] # NUL
    <3>1. \A j \in cur .. end - 1 : Len(s) - end + j + 1 \in 1 .. Len(s)
      BY <1>2, <2>1
    <3>2. \A j \in cur .. end - 1 : buffer[j] \in Chars
      BY <2>1, <3>1
    <3> QED
      BY <1>0, <3>2
  <2>3. z = end
    <3>1. z \in Nat /\ cur <= z
      BY <1>0, <1>1, <1>2
    <3>2. ~ (z < end)
      BY <1>1, <1>2, <2>1, <2>2, <3>1
    <3>3. ~ (end < z)
      BY <1>1, <1>2, <2>1, <3>1
    <3> QED
      BY <2>1, <3>1, <3>2, <3>3
  <2>4. len = end - cur
    BY <1>2, <2>3 DEF len
  <2>5. \A j \in 0 .. len - 1 : moved[j] = s[Len(s) - len + j + 1]
    <3>1. ASSUME NEW j \in 0 .. len - 1  PROVE moved[j] = s[Len(s) - len + j + 1]
      <4>1. j \in Indexes /\ j <= len /\ len \in Nat
        BY <1>0, <1>2
      <4>2. cur + j \in cur .. end - 1 /\ Len(s) - end + (cur + j) + 1 = Len(s) - len + j + 1
        BY <1>2, <2>1, <2>4, <4>1
      <4>3. moved[j] = buffer[cur + j]
        BY <4>1 DEF Moved
      <4> QED
        BY <2>1, <4>2, <4>3
    <3> QED
      BY <3>1
  <2>6. moved[len] = NUL
    BY <1>0, <1>1, <1>2 DEF Moved
  <2>7. 0 \in 0 .. len /\ len - 0 <= Len(s)
    BY <1>0, <1>2, <2>1, <2>4
  <2> HIDE DEF moved
  <2> QED
    BY <1>2, <2>4, <2>5, <2>6, <2>7 DEF Holds
<1> QED
  BY <1>2, <1>4, <1>5, <1>6 DEF len, z

\* A chunk is stored behind what the buffer holds.
LEMMA ChunkStored ==
    ASSUME NEW buffer \in [Indexes -> Chars \cup {NUL}],
           buffer[MAX_AT_RESPONSE] = NUL,
           NEW p \in Indexes, NEW count \in 1 .. MAX_AT_RESPONSE - p,
           NEW chunk \in [1 .. count -> Chars], NEW s \in Seq(Chars)
    PROVE  LET next == Stored(buffer, p, chunk, count)
               t == s \o chunk
           IN /\ next \in [Indexes -> Chars \cup {NUL}]
              /\ next[MAX_AT_RESPONSE] = NUL
              /\ t \in Seq(Chars) /\ Len(t) = Len(s) + count /\ Begins(s, t)
              /\ p + count \in Indexes
              /\ \A cur : Holds(buffer, cur, p, s) => Holds(next, cur, p + count, t)
<1> DEFINE next == Stored(buffer, p, chunk, count)
           t == s \o chunk
<1>0. /\ MAX_AT_RESPONSE \in Nat /\ Indexes = 0 .. MAX_AT_RESPONSE
      /\ p \in Nat /\ count \in Nat /\ 1 <= count /\ p + count <= MAX_AT_RESPONSE
      /\ p + count \in Indexes
  BY SizeAssumption DEF Indexes
<1>1. /\ t \in Seq(Chars) /\ Len(t) = Len(s) + count /\ Len(s) \in Nat
      /\ \A k \in 1 .. Len(s) : t[k] = s[k]
      /\ \A k \in 1 .. count : t[Len(s) + k] = chunk[k]
  <2>1. chunk \in Seq(Chars) /\ Len(chunk) = count
    BY <1>0
  <2> QED
    BY <2>1, <1>0, ConcatProperties
<1> HIDE DEF t
<1>2. \A i \in Indexes :
         /\ i \in p .. p + count - 1 => next[i] = chunk[i - p + 1] /\ next[i] \in Chars
         /\ i = p + count => next[i] = NUL
         /\ i \notin p .. p + count => next[i] = buffer[i]
  <2>1. \A i \in Indexes : i \in p .. p + count - 1 => i - p + 1 \in 1 .. count
    BY <1>0
  <2> QED
    BY <1>0, <2>1 DEF Stored
<1>3. next \in [Indexes -> Chars \cup {NUL}]
  <2>1. \A i \in Indexes :
           i \in p .. p + count - 1 \/ i = p + count \/ i \notin p .. p + count
    BY <1>0
  <2>2. \A i \in Indexes : next[i] \in Chars \cup {NUL}
    BY <1>2, <2>1
  <2>3. next = [i \in Indexes |-> next[i]]
    BY DEF Stored
  <2> HIDE DEF next
  <2> QED
    BY <2>2, <2>3
<1> HIDE DEF next
<1>4. next[MAX_AT_RESPONSE] = NUL
  BY <1>0, <1>2
<1>5. ASSUME NEW cur, Holds(buffer, cur, p, s)
      PROVE  Holds(next, cur, p + count, t)
  <2>1. /\ cur \in Nat /\ cur <= p /\ p - cur <= Len(s)
        /\ \A j \in cur .. p - 1 : buffer[j] = s[Len(s) - p + j + 1]
    BY <1>0, <1>5 DEF Holds
  <2>2. cur \in 0 .. p + count /\ (p + count) - cur <= Len(t)
    BY <1>0, <1>1, <2>1
  <2>3. next[p + count] = NUL
    BY <1>0, <1>2
  <2>4. ASSUME NEW j \in cur .. (p + count) - 1
        PROVE  next[j] = t[Len(t) - (p + count) + j + 1]
    <3>1. Len(t) - (p + count) + j + 1 = Len(s) - p + j + 1 /\ j \in Indexes
      BY <1>0, <1>1, <2>1
    <3>2. CASE j < p
      <4>1. j \notin p .. p + count /\ j \in cur .. p - 1
        BY <1>0, <2>1, <3>2
      <4>2. Len(s) - p + j + 1 \in 1 .. Len(s)
        BY <1>0, <1>1, <2>1, <4>1
      <4>3. next[j] = buffer[j]
        BY <1>2, <3>1, <4>1
      <4> QED
        BY <1>1, <2>1, <3>1, <4>1, <4>2, <4>3
    <3>3. CASE ~ (j < p)
      <4>1. j \in p .. p + count - 1 /\ j - p + 1 \in 1 .. count
            /\ Len(s) + (j - p + 1) = Len(s) - p + j + 1
        BY <1>0, <1>1, <2>1, <3>3
      <4>2. next[j] = chunk[j - p + 1]
        BY <1>2, <3>1, <4>1
      <4> QED
        BY <1>1, <3>1, <4>1, <4>2
    <3> QED
      BY <3>2, <3>3
  <2> QED
    BY <1>0, <2>2, <2>3, <2>4 DEF Holds
<1>6. Begins(s, t)
  BY <1>0, <1>1 DEF Begins
<1> QED
  BY <1>0, <1>1, <1>3, <1>4, <1>5, <1>6 DEF next, t

-----------------------------------------------------------------------------
(* The types, and with them the bounds of the buffer.                       *)

\* What the last read left is a buffer with room for a chunk.
LEMMA RoomToRead ==
    ASSUME Types, pc = "reading"
    PROVE  /\ Buffer \in [Indexes -> Chars \cup {NUL}]
           /\ Buffer[MAX_AT_RESPONSE] = NUL
           /\ Cursor \in Indexes /\ ReadAt \in Indexes
<1>1. 0 \in Indexes
  BY SizeAssumption DEF Indexes
<1> QED
  BY <1>1 DEF Types, TypeOK, Buffer, Cursor, ReadAt

\* Returning a line leaves the cursor in the buffer, but for a prompt.
LEMMA TypesOfReturn ==
    ASSUME Types, NEW buffer \in [Indexes -> Chars \cup {NUL}],
           buffer[MAX_AT_RESPONSE] = NUL, NEW i \in Indexes,
           NEW cur, cur = SkipNewlines(buffer, i),
           NEW eol, eol = findNextEOL(buffer, cur), eol # None,
           ReturnLine(buffer, cur, eol),
           p_read' \in Indexes, stream' \in Seq(Chars), Len(stream') <= MaxInput
    PROVE  Types'
<1>1. /\ cur \in i .. MAX_AT_RESPONSE
      /\ eol \in cur + 1 .. MAX_AT_RESPONSE
      /\ \A j \in cur .. eol - 1 : buffer[j] \in Chars
      /\ ~ IsPrompt(buffer, cur) => buffer[eol] \in Newlines
  BY Scanned
<1>2. /\ MAX_AT_RESPONSE \in Nat /\ Indexes = 0 .. MAX_AT_RESPONSE
      /\ NUL \notin Newlines /\ cur \in Nat /\ eol \in Nat /\ cur <= eol
      /\ eol \in Indexes
  BY <1>1, SizeAssumption DEF Indexes, NUL, Newlines
<1>3. s_ATBuffer' \in [Indexes -> Chars \cup {NUL}] /\ s_ATBuffer'[MAX_AT_RESPONSE] = NUL
  BY <1>2 DEF ReturnLine
<1>4. returned' \in Seq(Seq(Chars))
  <2>1. Text(buffer, cur, eol) \in Seq(Chars)
    BY <1>1, <1>2, TextFacts
  <2> QED
    BY <2>1 DEF ReturnLine, Types, TypeOK
<1>5. {prompted', behind'} \subseteq BOOLEAN /\ pc' = "call"
  BY DEF ReturnLine, Types, TypeOK
<1>6. s_ATBufferCur' \in Indexes \/ (behind' /\ s_ATBufferCur' = MAX_AT_RESPONSE + 1)
  <2>1. s_ATBufferCur' = eol + 1
    BY DEF ReturnLine
  <2>2. CASE eol = MAX_AT_RESPONSE
    <3>1. IsPrompt(buffer, cur)
      BY <1>1, <1>2, <2>2
    <3>2. behind'
      BY <3>1 DEF ReturnLine
    <3> QED
      BY <2>1, <2>2, <3>2
  <2>3. CASE eol # MAX_AT_RESPONSE
    BY <1>2, <2>1, <2>3
  <2> QED
    BY <2>2, <2>3
<1> QED
  BY <1>3, <1>4, <1>5, <1>6 DEF Types, TypeOK

\* Going on to read leaves the cursor in the buffer.
LEMMA TypesOfReading ==
    ASSUME Types, NEW buffer \in [Indexes -> Chars \cup {NUL}],
           buffer[MAX_AT_RESPONSE] = NUL, NEW cur \in Indexes, NEW p \in Indexes,
           KeepReading(buffer, cur, p),
           stream' \in Seq(Chars), Len(stream') <= MaxInput
    PROVE  Types'
  BY DEF Types, TypeOK, KeepReading

\* The empty buffer.
LEMMA TypesInit == Init => Types
<1> SUFFICES ASSUME Init PROVE Types
  OBVIOUS
<1>1. MAX_AT_RESPONSE \in Indexes /\ 0 \in Indexes
  BY SizeAssumption DEF Indexes
<1>2. << >> \in Seq(Chars) /\ Len(stream) <= MaxInput /\ << >> \in Seq(Seq(Chars))
  BY SizeAssumption DEF Init
<1> QED
  BY <1>1, <1>2 DEF Init, Types, TypeOK

\* Every action keeps the bounds.
LEMMA TypesNext == Types /\ [Next]_vars => Types'
<1> SUFFICES ASSUME Types, [Next]_vars PROVE Types'
  OBVIOUS
<1>0. /\ s_ATBuffer \in [Indexes -> Chars \cup {NUL}]
      /\ s_ATBuffer[MAX_AT_RESPONSE] = NUL
      /\ p_read \in Indexes
      /\ stream \in Seq(Chars) /\ Len(stream) <= MaxInput
  BY DEF Types, TypeOK
<1>1. CASE CallEmpty
  <2>1. 0 \in Indexes
    BY SizeAssumption DEF Indexes
  <2> DEFINE buffer == [s_ATBuffer EXCEPT ![0] = NUL]
  <2>2. buffer \in [Indexes -> Chars \cup {NUL}] /\ buffer[MAX_AT_RESPONSE] = NUL
    BY <1>0, SizeAssumption DEF Indexes
  <2>3. KeepReading(buffer, 0, 0) /\ UNCHANGED stream
    BY <1>1 DEF CallEmpty
  <2> HIDE DEF buffer
  <2> QED
    BY <1>0, <2>1, <2>2, <2>3, TypesOfReading
<1>2. CASE CallWithData
  <2> DEFINE cur == SkipNewlines(s_ATBuffer, s_ATBufferCur)
             eol == findNextEOL(s_ATBuffer, cur)
             len == First(s_ATBuffer, cur, {NUL}) - cur
             moved == Moved(s_ATBuffer, cur, len)
  <2>1. /\ s_ATBufferCur \in Indexes /\ UNCHANGED stream
        /\ IF eol = None THEN KeepReading(moved, 0, len)
           ELSE ReturnLine(s_ATBuffer, cur, eol) /\ UNCHANGED p_read
    BY <1>2 DEF CallWithData
  <2>2. cur \in Indexes /\ 0 \in Indexes
    <3>1. cur \in s_ATBufferCur .. MAX_AT_RESPONSE
      BY <1>0, <2>1, Scanned
    <3> QED
      BY <2>1, <3>1, SizeAssumption DEF Indexes
  <2> HIDE DEF cur
  <2>3. /\ len \in Indexes
        /\ moved \in [Indexes -> Chars \cup {NUL}] /\ moved[MAX_AT_RESPONSE] = NUL
    BY <1>0, <2>2, RestMoved
  <2> HIDE DEF eol, len, moved
  <2>4. CASE eol = None
    BY <1>0, <2>1, <2>2, <2>3, <2>4, TypesOfReading
  <2>5. CASE eol # None
    BY <1>0, <2>1, <2>5, TypesOfReturn DEF cur, eol
  <2> QED
    BY <2>4, <2>5
<1>3. CASE ReadChunk
  <2>0. PICK count \in 1 .. Space : \E chunk \in [1 .. count -> Chars] : Receive(chunk, count)
    BY <1>3 DEF ReadChunk
  <2>1. PICK chunk \in [1 .. count -> Chars] : Receive(chunk, count)
    BY <2>0
  <2>2. count \in 1 .. MAX_AT_RESPONSE - ReadAt
    BY DEF Space
  <2> DEFINE buffer == Stored(Buffer, ReadAt, chunk, count)
             cur == SkipNewlines(buffer, Cursor)
             eol == findNextEOL(buffer, cur)
  <2>3. /\ Buffer \in [Indexes -> Chars \cup {NUL}] /\ Buffer[MAX_AT_RESPONSE] = NUL
        /\ Cursor \in Indexes /\ ReadAt \in Indexes
    BY <1>3, RoomToRead DEF ReadChunk
  <2>4. /\ buffer \in [Indexes -> Chars \cup {NUL}] /\ buffer[MAX_AT_RESPONSE] = NUL
        /\ ReadAt + count \in Indexes
        /\ stream \o chunk \in Seq(Chars)
        /\ Len(stream \o chunk) = Len(stream) + count
    BY <1>0, <2>2, <2>3, ChunkStored
  <2>5. /\ stream' = stream \o chunk /\ Len(stream) + count <= MaxInput
        /\ IF eol = None THEN KeepReading(buffer, cur, ReadAt + count)
           ELSE ReturnLine(buffer, cur, eol) /\ p_read' = ReadAt + count
    BY <2>1 DEF Receive
  <2> HIDE DEF buffer
  <2>6. cur \in Indexes
    <3>1. cur \in Cursor .. MAX_AT_RESPONSE
      BY <2>3, <2>4, Scanned
    <3> QED
      BY <2>3, <3>1, SizeAssumption DEF Indexes
  <2> HIDE DEF cur, eol
  <2>7. stream' \in Seq(Chars) /\ Len(stream') <= MaxInput
    BY <2>4, <2>5
  <2>8. CASE eol = None
    BY <2>4, <2>5, <2>6, <2>7, <2>8, TypesOfReading
  <2>9. CASE eol # None
    BY <2>3, <2>4, <2>5, <2>7, <2>9, TypesOfReturn DEF cur, eol
  <2> QED
    BY <2>8, <2>9
<1>4. CASE ReadFails
  <2>1. /\ Buffer \in [Indexes -> Chars \cup {NUL}] /\ Buffer[MAX_AT_RESPONSE] = NUL
        /\ Cursor \in Indexes
    BY <1>4, RoomToRead DEF ReadFails
  <2> QED
    BY <1>4, <2>1 DEF ReadFails, Types, TypeOK
<1>5. CASE UNCHANGED vars
  BY <1>5 DEF vars, Types, TypeOK
<1> QED
  BY <1>1, <1>2, <1>3, <1>4, <1>5 DEF Next

-----------------------------------------------------------------------------
(* The cursor, as the comment on line 446 has it.                           *)

\* Unless the cursor is behind the data: the buffer holds the end of some
\* stream, up to where the next chunk would go.
Tracked ==
    /\ ~behind =>
          /\ \E s \in Seq(Chars) : Holds(s_ATBuffer, s_ATBufferCur, HeldEnd, s)
          /\ s_ATBufferCur <= p_read /\ s_ATBuffer[p_read] = NUL
    /\ behind => s_ATBufferCur > p_read /\ pc = "call"

\* Nothing is held when there is a zero at the cursor, and then only.
LEMMA NothingHeld ==
    ASSUME NEW buffer, NEW s \in Seq(Chars), NEW cur, NEW end, Holds(buffer, cur, end, s)
    PROVE  buffer[cur] = NUL <=> cur = end
<1>1. /\ cur \in Nat /\ end \in Nat /\ cur <= end /\ end - cur <= Len(s)
      /\ Len(s) \in Nat /\ buffer[end] = NUL
  BY DEF Holds, Indexes
<1>2. ASSUME cur # end  PROVE buffer[cur] # NUL
  <2>1. cur \in cur .. end - 1 /\ Len(s) - end + cur + 1 \in 1 .. Len(s)
    BY <1>1, <1>2
  <2>2. buffer[cur] \in Chars
    BY <2>1 DEF Holds
  <2> QED
    BY <2>2, CharsAssumption
<1> QED
  BY <1>1, <1>2

\* The end of a line is before the data's end, but for a prompt's, which is the
\* data's end itself; stale bytes only take the cursor further.
LEMMA TrackedReturn ==
    ASSUME NEW buffer \in [Indexes -> Chars \cup {NUL}],
           buffer[MAX_AT_RESPONSE] = NUL, NEW i \in Indexes, behind \in BOOLEAN,
           NEW cur, cur = SkipNewlines(buffer, i),
           NEW eol, eol = findNextEOL(buffer, cur), eol # None,
           ReturnLine(buffer, cur, eol), p_read' \in Indexes,
           ~behind => \E s \in Seq(Chars) : Holds(buffer, i, p_read', s),
           behind => i > p_read'
    PROVE  Tracked'
<1>1. /\ s_ATBuffer' = [buffer EXCEPT ![eol] = NUL] /\ s_ATBufferCur' = eol + 1
      /\ behind' = (behind \/ IsPrompt(buffer, cur)) /\ pc' = "call"
  BY DEF ReturnLine
<1>2. cur \in i .. MAX_AT_RESPONSE /\ eol \in cur + 1 .. MAX_AT_RESPONSE
  BY Scanned
<1>3. /\ i \in Nat /\ p_read' \in Nat /\ cur \in Nat /\ eol \in Nat /\ i <= cur /\ cur < eol
      /\ eol <= MAX_AT_RESPONSE /\ MAX_AT_RESPONSE \in Nat /\ Indexes = 0 .. MAX_AT_RESPONSE
  BY <1>2, SizeAssumption DEF Indexes
<1>4. CASE behind
  <2>1. behind' /\ s_ATBufferCur' > p_read'
    <3>1. behind'
      BY <1>1, <1>4
    <3>2. eol + 1 > p_read'
      BY <1>3, <1>4
    <3> QED
      BY <1>1, <3>1, <3>2
  <2> QED
    BY <1>1, <2>1 DEF Tracked
<1>5. CASE ~behind
  <2>1. PICK s \in Seq(Chars) : Holds(buffer, i, p_read', s)
    BY <1>5
  <2>2. CASE IsPrompt(buffer, cur)
    <3>1. eol = cur + 2 /\ buffer[cur + 2] = NUL
      BY <2>2, <1>2 DEF IsPrompt, findNextEOL
    <3>2. ASSUME cur + 2 < p_read'  PROVE FALSE
      <4>1. buffer[cur + 2] = s[Len(s) - p_read' + (cur + 2) + 1]
        <5>1. cur + 2 \in i .. p_read' - 1
          BY <1>3, <3>2
        <5> QED
          BY <2>1, <5>1 DEF Holds
      <4>2. Len(s) - p_read' + (cur + 2) + 1 \in 1 .. Len(s)
        BY <2>1, <1>3, <3>2 DEF Holds
      <4> QED
        BY <3>1, <4>1, <4>2, CharsAssumption
    <3>3. eol + 1 > p_read'
      BY <1>3, <3>1, <3>2
    <3>4. behind' /\ s_ATBufferCur' > p_read'
      BY <1>1, <2>2, <3>3
    <3> QED
      BY <1>1, <3>4 DEF Tracked
  <2>3. CASE ~IsPrompt(buffer, cur)
    <3>1. eol \in cur + 1 .. p_read' - 1 /\ Holds([buffer EXCEPT ![eol] = NUL], eol + 1, p_read', s)
      BY <2>1, <2>3, ScannedStream
    <3>2. Holds(s_ATBuffer', s_ATBufferCur', p_read', s) /\ ~behind'
      BY <1>1, <1>5, <2>3, <3>1
    <3>3. HeldEnd' = p_read'
      BY <1>1, <3>2, NothingHeld DEF HeldEnd
    <3>4. s_ATBuffer'[p_read'] = NUL
      BY <3>2 DEF Holds
    <3> QED
      BY <1>1, <1>3, <3>1, <3>2, <3>3, <3>4 DEF Tracked
  <2> QED
    BY <2>2, <2>3
<1> QED
  BY <1>4, <1>5

\* Going on to read, the cursor is in the data again.
LEMMA TrackedReading ==
    ASSUME NEW buffer, NEW cur, NEW p, KeepReading(buffer, cur, p),
           NEW s \in Seq(Chars), Holds(buffer, cur, p, s)
    PROVE  Tracked'
<1>1. /\ s_ATBuffer' = buffer /\ s_ATBufferCur' = cur /\ p_read' = p
      /\ pc' = "reading" /\ behind' = FALSE
  BY DEF KeepReading
<1>2. HeldEnd' = p_read'
  BY <1>1 DEF HeldEnd
<1>3. cur <= p /\ buffer[p] = NUL
  BY DEF Holds, Indexes
<1> QED
  BY <1>1, <1>2, <1>3 DEF Tracked

\* What is moved to the front of the buffer is the end of a stream.
LEMMA RestIsHeld ==
    ASSUME NEW buffer \in [Indexes -> Chars \cup {NUL}],
           buffer[MAX_AT_RESPONSE] = NUL, NEW cur \in Indexes
    PROVE  LET len == First(buffer, cur, {NUL}) - cur IN
           \E s \in Seq(Chars) : Holds(Moved(buffer, cur, len), 0, len, s)
<1> DEFINE z == First(buffer, cur, {NUL})
           len == z - cur
           s == Text(buffer, cur, z)
<1>1. /\ z \in cur .. MAX_AT_RESPONSE /\ buffer[z] \in {NUL}
      /\ \A j \in cur .. z - 1 : buffer[j] \notin {NUL}
  BY FirstFound
<1> HIDE DEF z
<1>2. /\ cur \in Nat /\ z \in Nat /\ cur <= z /\ z \in Indexes /\ buffer[z] = NUL
      /\ \A j \in cur .. z - 1 : buffer[j] \in Chars
  <2>1. cur \in Nat /\ z \in Nat /\ cur <= z /\ z \in Indexes /\ buffer[z] = NUL
    BY <1>1, SizeAssumption DEF Indexes
  <2>2. ASSUME NEW j \in cur .. z - 1  PROVE buffer[j] \in Chars
    <3>1. j \in Indexes
      BY <2>1, SizeAssumption DEF Indexes
    <3> QED
      BY <1>1, <3>1
  <2> QED
    BY <2>1, <2>2
<1>3. s \in Seq(Chars)
  BY <1>2, TextFacts
<1>4. Len(s) = z - cur /\ \A k \in 1 .. z - cur : s[k] = buffer[cur + k - 1]
  BY <1>2 DEF Text
<1>5. Holds(buffer, cur, z, s)
  <2>1. ASSUME NEW j \in cur .. z - 1  PROVE buffer[j] = s[Len(s) - z + j + 1]
    <3>1. Len(s) - z + j + 1 \in 1 .. z - cur /\ cur + (Len(s) - z + j + 1) - 1 = j
      BY <1>2, <1>4
    <3> QED
      BY <1>4, <3>1
  <2> HIDE DEF s
  <2> QED
    BY <1>2, <1>4, <2>1 DEF Holds
<1> HIDE DEF s
<1>6. Holds(Moved(buffer, cur, z - cur), 0, z - cur, s)
  BY <1>2, <1>3, <1>5, RestMoved DEF z
<1> QED
  BY <1>3, <1>6 DEF z

LEMMA TrackedInit == Init => Tracked
<1> SUFFICES ASSUME Init PROVE Tracked
  OBVIOUS
<1>1. /\ s_ATBuffer = [i \in Indexes |-> NUL] /\ s_ATBufferCur = 0 /\ p_read = 0
      /\ 0 \in Indexes /\ behind = FALSE
  BY SizeAssumption DEF Init, Indexes
<1>2. HeldEnd = 0 /\ << >> \in Seq(Chars) /\ Holds(s_ATBuffer, 0, 0, << >>)
  BY <1>1 DEF HeldEnd, Holds
<1> QED
  BY <1>1, <1>2 DEF Tracked

\* Every call and every chunk keeps track of the data.
LEMMA TrackedNext == Types /\ Tracked /\ [Next]_vars => Tracked'
<1> SUFFICES ASSUME Types, Tracked, [Next]_vars PROVE Tracked'
  OBVIOUS
<1>0. /\ s_ATBuffer \in [Indexes -> Chars \cup {NUL}]
      /\ s_ATBuffer[MAX_AT_RESPONSE] = NUL
      /\ p_read \in Indexes /\ behind \in BOOLEAN
      /\ MAX_AT_RESPONSE \in Nat /\ Indexes = 0 .. MAX_AT_RESPONSE /\ 0 \in Indexes
      /\ << >> \in Seq(Chars)
  BY SizeAssumption DEF Types, TypeOK, Indexes
<1>1. CASE CallEmpty
  <2> DEFINE buffer == [s_ATBuffer EXCEPT ![0] = NUL]
  <2>1. KeepReading(buffer, 0, 0)
    BY <1>1 DEF CallEmpty
  <2>2. Holds(buffer, 0, 0, << >>)
    BY <1>0 DEF Holds
  <2> HIDE DEF buffer
  <2> QED
    BY <1>0, <2>1, <2>2, TrackedReading
<1>2. CASE CallWithData
  <2> DEFINE cur == SkipNewlines(s_ATBuffer, s_ATBufferCur)
             eol == findNextEOL(s_ATBuffer, cur)
             len == First(s_ATBuffer, cur, {NUL}) - cur
             moved == Moved(s_ATBuffer, cur, len)
  <2>1. /\ s_ATBufferCur \in Indexes /\ s_ATBuffer[s_ATBufferCur] # NUL /\ pc = "call"
        /\ IF eol = None THEN KeepReading(moved, 0, len)
           ELSE ReturnLine(s_ATBuffer, cur, eol) /\ UNCHANGED p_read
    BY <1>2 DEF CallWithData
  <2>2. cur \in Indexes
    <3>1. cur \in s_ATBufferCur .. MAX_AT_RESPONSE
      BY <1>0, <2>1, Scanned
    <3> QED
      BY <1>0, <2>1, <3>1
  <2> HIDE DEF cur
  <2>3. CASE eol = None
    <3>1. PICK s \in Seq(Chars) : Holds(moved, 0, len, s)
      BY <1>0, <2>2, RestIsHeld
    <3> HIDE DEF moved, len
    <3> QED
      BY <2>1, <2>3, <3>1, TrackedReading
  <2>4. CASE eol # None
    <3>1. HeldEnd = p_read
      BY <2>1 DEF HeldEnd
    <3>2. /\ ~behind => \E s \in Seq(Chars) : Holds(s_ATBuffer, s_ATBufferCur, p_read', s)
          /\ behind => s_ATBufferCur > p_read'
          /\ p_read' \in Indexes
      BY <1>0, <2>1, <2>4, <3>1 DEF Tracked
    <3> QED
      BY <1>0, <2>1, <2>4, <3>2, TrackedReturn DEF cur
  <2> QED
    BY <2>3, <2>4
<1>3. ASSUME pc = "reading"
      PROVE  /\ behind = FALSE
             /\ \E s \in Seq(Chars) : Holds(Buffer, Cursor, ReadAt, s)
  <2>1. behind = FALSE /\ HeldEnd = p_read
    BY <1>0, <1>3 DEF Tracked, HeldEnd
  <2>2. PICK s \in Seq(Chars) : Holds(s_ATBuffer, s_ATBufferCur, p_read, s)
    BY <2>1 DEF Tracked
  <2>3. CASE ~Exceeded
    BY <2>1, <2>2, <2>3 DEF Buffer, Cursor, ReadAt
  <2>4. CASE Exceeded
    <3>1. Holds(Buffer, 0, 0, << >>)
      BY <1>0, <2>4 DEF Buffer, Holds
    <3> QED
      BY <1>0, <2>1, <2>4, <3>1 DEF Cursor, ReadAt
  <2> QED
    BY <2>3, <2>4
<1>4. CASE ReadChunk
  <2>0. PICK count \in 1 .. Space : \E chunk \in [1 .. count -> Chars] : Receive(chunk, count)
    BY <1>4 DEF ReadChunk
  <2>1. PICK chunk \in [1 .. count -> Chars] : Receive(chunk, count)
    BY <2>0
  <2>2. count \in 1 .. MAX_AT_RESPONSE - ReadAt /\ pc = "reading"
    BY <1>4 DEF Space, ReadChunk
  <2> DEFINE buffer == Stored(Buffer, ReadAt, chunk, count)
             cur == SkipNewlines(buffer, Cursor)
             eol == findNextEOL(buffer, cur)
  <2>3. /\ Buffer \in [Indexes -> Chars \cup {NUL}] /\ Buffer[MAX_AT_RESPONSE] = NUL
        /\ Cursor \in Indexes /\ ReadAt \in Indexes
    BY <2>2, RoomToRead
  <2>4. behind = FALSE /\ \E s \in Seq(Chars) : Holds(Buffer, Cursor, ReadAt, s)
    BY <1>3, <2>2
  <2>5. PICK s \in Seq(Chars) : Holds(Buffer, Cursor, ReadAt, s)
    BY <2>4
  <2> DEFINE t == s \o chunk
  <2>6. /\ buffer \in [Indexes -> Chars \cup {NUL}] /\ buffer[MAX_AT_RESPONSE] = NUL
        /\ ReadAt + count \in Indexes /\ t \in Seq(Chars)
        /\ Holds(buffer, Cursor, ReadAt + count, t)
    BY <2>2, <2>3, <2>5, ChunkStored
  <2>7. IF eol = None THEN KeepReading(buffer, cur, ReadAt + count)
        ELSE ReturnLine(buffer, cur, eol) /\ p_read' = ReadAt + count
    BY <2>1 DEF Receive
  <2> HIDE DEF buffer, t
  <2>8. CASE eol = None
    <3>1. Holds(buffer, cur, ReadAt + count, t)
      BY <2>6, ScannedStream
    <3> HIDE DEF cur, eol
    <3> QED
      BY <2>6, <2>7, <2>8, <3>1, TrackedReading
  <2>9. CASE eol # None
    <3> HIDE DEF cur, eol
    <3> QED
      BY <1>0, <2>3, <2>4, <2>6, <2>7, <2>9, TrackedReturn DEF cur, eol
  <2> QED
    BY <2>8, <2>9
<1>5. CASE ReadFails
  <2>1. /\ s_ATBuffer' = Buffer /\ s_ATBufferCur' = Cursor /\ pc' = "call"
        /\ p_read' = p_read /\ behind' = behind /\ pc = "reading"
    BY <1>5 DEF ReadFails
  <2>2. behind = FALSE /\ \E s \in Seq(Chars) : Holds(Buffer, Cursor, ReadAt, s)
    BY <1>3, <2>1
  <2>3. PICK s \in Seq(Chars) : Holds(Buffer, Cursor, ReadAt, s)
    BY <2>2
  <2>4. HeldEnd' = ReadAt
    <3>1. HeldEnd' = IF Buffer[Cursor] = NUL THEN Cursor ELSE p_read
      BY <2>1 DEF HeldEnd
    <3>2. Buffer[Cursor] = NUL <=> Cursor = ReadAt
      BY <2>3, NothingHeld
    <3> QED
      BY <3>1, <3>2 DEF Cursor, ReadAt
  <2>5. Cursor <= p_read /\ Buffer[p_read] = NUL
    <3>1. s_ATBufferCur <= p_read /\ s_ATBuffer[p_read] = NUL
      BY <2>2 DEF Tracked
    <3> QED
      BY <1>0, <3>1 DEF Cursor, Buffer
  <2> QED
    BY <2>1, <2>2, <2>3, <2>4, <2>5 DEF Tracked
<1>6. CASE UNCHANGED vars
  <2>1. UNCHANGED <<s_ATBuffer, s_ATBufferCur, p_read, pc, behind>>
    BY <1>6 DEF vars
  <2> QED
    BY <2>1 DEF Tracked, HeldEnd
<1> QED
  BY <1>1, <1>2, <1>4, <1>5, <1>6 DEF Next

\* The cursor is where line 446 says it is, and there is a zero at p_read,
\* for every size of the buffer, every stream and every division of it into
\* chunks, unless a prompt was returned with nothing behind it: from there to
\* the next read it is not.
THEOREM CursorTracked == Spec => []CursorInData
<1>1. Types /\ Tracked => CursorInData
  <2> SUFFICES ASSUME Types, Tracked PROVE CursorInData
    OBVIOUS
  <2>1. s_ATBufferCur \in Nat /\ p_read \in Nat /\ behind \in BOOLEAN
    BY SizeAssumption DEF Types, TypeOK, Indexes
  <2> QED
    BY <2>1 DEF Tracked, CursorInData
<1> QED
  BY <1>1, TypesInit, TypesNext, TrackedInit, TrackedNext, PTL DEF Spec

-----------------------------------------------------------------------------
(* The lines.                                                               *)

\* A line, or the rest of one, is returned from a buffer that holds the end of
\* the stream; what is behind it is held as before.
LEMMA Returned ==
    ASSUME NEW buffer \in [Indexes -> Chars \cup {NUL}],
           buffer[MAX_AT_RESPONSE] = NUL,
           NEW s \in Seq(Chars), NEW i, NEW end, Holds(buffer, i, end, s),
           NEW lines \in Seq(Seq(Chars)), NEW of,
           Dealt(s, lines, of, Len(s) - end + i),
           NEW cur, cur = SkipNewlines(buffer, i),
           NEW eol, eol = findNextEOL(buffer, cur),
           eol # None, ~ IsPrompt(buffer, cur)
    PROVE  /\ Holds([buffer EXCEPT ![eol] = NUL], eol + 1, end, s)
           /\ \E more : Dealt(s, Append(lines, Text(buffer, cur, eol)), more,
                              Len(s) - end + eol + 1)
<1> DEFINE base == Len(s) - end
           p == base + cur
           r == base + eol + 1
<1>1. /\ cur \in i .. end
      /\ \A k \in base + i + 1 .. base + cur : s[k] \in Newlines
      /\ eol \in cur + 1 .. end - 1
      /\ s[base + eol + 1] \in Newlines
      /\ \A k \in base + cur + 1 .. base + eol : s[k] \notin Newlines
      /\ Text(buffer, cur, eol) = Text(s, base + cur + 1, base + eol + 1)
      /\ Holds([buffer EXCEPT ![eol] = NUL], eol + 1, end, s)
  <2> DEFINE c == SkipNewlines(buffer, i)
             e == findNextEOL(buffer, c)
  <2>1. /\ c \in i .. end
        /\ \A k \in base + i + 1 .. base + c : s[k] \in Newlines
        /\ e # None /\ ~ IsPrompt(buffer, c) =>
              /\ e \in c + 1 .. end - 1
              /\ s[base + e + 1] \in Newlines
              /\ \A k \in base + c + 1 .. base + e : s[k] \notin Newlines
              /\ Text(buffer, c, e) = Text(s, base + c + 1, base + e + 1)
              /\ Holds([buffer EXCEPT ![e] = NUL], e + 1, end, s)
    BY ScannedStream
  <2>2. cur = c /\ eol = e
    OBVIOUS
  <2> HIDE DEF c, e
  <2> QED
    BY <2>1, <2>2
<1>2. /\ i \in Nat /\ end \in Nat /\ i <= end /\ end - i <= Len(s) /\ Len(s) \in Nat
      /\ base \in Int /\ base + i \in Nat
  BY DEF Holds, Indexes
<1>3. /\ p \in base + i .. Len(s) /\ p \in Nat
      /\ r \in p + 2 .. Len(s) /\ p + 1 = base + cur + 1 /\ r - 1 = base + eol
  <2>1. cur \in i .. end /\ eol \in cur + 1 .. end - 1
    BY <1>1
  <2>2. cur \in Nat /\ eol \in Nat
    BY <1>2, <2>1
  <2> QED
    BY <1>2, <2>1, <2>2
<1>4. Dealt(s, lines, of, p)
  <2>1. Dealt(s, lines, of, base + i) /\ \A k \in base + i + 1 .. p : s[k] \in Newlines
    BY <1>1
  <2> HIDE DEF p, base
  <2> QED
    BY <1>3, <2>1, NewlinesSkipped
<1>5. s[r] \in Newlines /\ \A k \in p + 1 .. r - 1 : s[k] \notin Newlines
  BY <1>1, <1>3
<1>6. Text(buffer, cur, eol) = Text(s, p + 1, r)
  BY <1>1
<1>7. \E more : Dealt(s, Append(lines, Text(s, p + 1, r)), more, r)
  <2> HIDE DEF p, r
  <2> QED
    BY <1>3, <1>4, <1>5, LineReturned
<1> QED
  BY <1>1, <1>6, <1>7

\* Before a chunk is read, a full buffer has been ditched.
LEMMA ServedRoom ==
    ASSUME Types, Served, pc = "reading"
    PROVE  /\ Holds(Buffer, Cursor, ReadAt, stream)
           /\ \E of : /\ Dealt(stream, returned, of, Len(stream) - ReadAt + Cursor)
                      /\ Partial(returned, of, stream, Cursor, ReadAt)
<1>1. HeldEnd = p_read
  BY DEF HeldEnd
<1>2. PICK of : /\ Dealt(stream, returned, of, Len(stream) - p_read + s_ATBufferCur)
                /\ Partial(returned, of, stream, s_ATBufferCur, p_read)
  BY <1>1 DEF Served
<1>3. Holds(s_ATBuffer, s_ATBufferCur, p_read, stream)
  BY <1>1 DEF Served
<1>4. CASE ~ Exceeded
  BY <1>2, <1>3, <1>4 DEF Buffer, Cursor, ReadAt
<1>5. CASE Exceeded
  <2>1. Buffer = [s_ATBuffer EXCEPT ![0] = NUL] /\ Cursor = 0 /\ ReadAt = 0
    BY <1>5 DEF Buffer, Cursor, ReadAt
  <2>2. 0 \in Indexes /\ MAX_AT_RESPONSE \in Nat /\ p_read = MAX_AT_RESPONSE
    BY <1>5, SizeAssumption DEF Indexes, Exceeded
  <2>3. stream \in Seq(Chars) /\ Len(stream) \in Nat
    BY DEF Types, TypeOK
  <2>4. Buffer[0] = NUL
    BY <2>1, <2>2 DEF Types, TypeOK
  <2>5. Holds(Buffer, 0, 0, stream)
    BY <2>2, <2>3, <2>4 DEF Holds
  <2> DEFINE n == Len(stream)
             q == n - p_read
             p == q + s_ATBufferCur
  <2>6. Dealt(stream, returned, of, n)
    <3>1. /\ p_read <= n
          /\ \A k \in q + 1 .. p : stream[k] \in Newlines
          /\ \A k \in p + 1 .. n : stream[k] \notin Newlines
          /\ \A i \in DOMAIN returned : of[i].end <= q
      BY <1>2 DEF Partial
    <3>2. q \in 0 .. p /\ n - q >= MAX_AT_RESPONSE
      BY <1>3, <2>2, <2>3, <3>1 DEF Holds
    <3>3. Dealt(stream, returned, of, p)
      BY <1>2
    <3> HIDE DEF p, q
    <3> QED
      BY <2>3, <3>1, <3>2, <3>3, LineDitched
  <2>7. Partial(returned, of, stream, 0, 0)
    <3>1. \A i \in DOMAIN returned : of[i].end <= n
      BY <2>6 DEF Dealt
    <3>2. n - 0 + 1 = n + 1 /\ n - 0 + 0 + 1 = n + 1 /\ n - 0 + 0 = n /\ n - 0 = n
      BY <2>3
    <3>3. \A k \in n + 1 .. n : FALSE
      BY <2>3
    <3> HIDE DEF n
    <3> QED
      BY <2>2, <2>3, <3>1, <3>2, <3>3 DEF Partial, n
  <2>8. n - 0 + 0 = n
    BY <2>3
  <2> QED
    BY <2>1, <2>5, <2>6, <2>7, <2>8
<1> QED
  BY <1>4, <1>5

\* A step that returns a line, other than a prompt.
LEMMA ServedReturn ==
    ASSUME Types, NEW buffer \in [Indexes -> Chars \cup {NUL}],
           buffer[MAX_AT_RESPONSE] = NUL,
           stream' \in Seq(Chars), NEW i, Holds(buffer, i, p_read', stream'),
           NEW of, Dealt(stream', returned, of, Len(stream') - p_read' + i),
           NEW cur, cur = SkipNewlines(buffer, i),
           NEW eol, eol = findNextEOL(buffer, cur), eol # None,
           ReturnLine(buffer, cur, eol), ~ prompted'
    PROVE  Served'
<1>1. /\ ~ IsPrompt(buffer, cur)
      /\ s_ATBuffer' = [buffer EXCEPT ![eol] = NUL] /\ s_ATBufferCur' = eol + 1
      /\ returned' = Append(returned, Text(buffer, cur, eol)) /\ pc' = "call"
  BY DEF ReturnLine
<1>2. returned \in Seq(Seq(Chars))
  BY DEF Types, TypeOK
<1>3. /\ Holds(s_ATBuffer', s_ATBufferCur', p_read', stream')
      /\ \E more : Dealt(stream', returned', more, Len(stream') - p_read' + s_ATBufferCur')
  <2>1. /\ Holds([buffer EXCEPT ![eol] = NUL], eol + 1, p_read', stream')
        /\ \E more : Dealt(stream', Append(returned, Text(buffer, cur, eol)), more,
                           Len(stream') - p_read' + eol + 1)
    BY <1>1, <1>2, Returned
  <2>2. Len(stream') - p_read' + eol + 1 = Len(stream') - p_read' + (eol + 1)
    <3>1. Len(stream') \in Int /\ p_read' \in Int
      BY DEF Holds, Indexes
    <3>2. eol \in Int
      <4>1. eol \in SkipNewlines(buffer, i) + 1 .. p_read' - 1
        BY <1>1, ScannedStream
      <4> QED
        BY <4>1
    <3> QED
      BY <3>1, <3>2
  <2> QED
    BY <1>1, <2>1, <2>2
<1>4. HeldEnd' = p_read'
  BY <1>1, <1>3, NothingHeld DEF HeldEnd
<1>5. PICK more : Dealt(stream', returned', more, Len(stream') - p_read' + s_ATBufferCur')
  BY <1>3
<1>6. more \in [DOMAIN returned' -> Lines(stream')]
  BY <1>5 DEF Dealt
<1> QED
  BY <1>1, <1>3, <1>4, <1>5, <1>6 DEF Served

\* A step that leaves a part of a line to be read.
LEMMA ServedReading ==
    ASSUME NEW buffer, NEW cur, NEW p, KeepReading(buffer, cur, p),
           Holds(buffer, cur, p, stream'), NEW of,
           Dealt(stream', returned, of, Len(stream') - p + cur),
           Partial(returned, of, stream', cur, p)
    PROVE  Served'
<1>1. /\ s_ATBuffer' = buffer /\ s_ATBufferCur' = cur /\ p_read' = p
      /\ pc' = "reading" /\ returned' = returned
  BY DEF KeepReading
<1>2. HeldEnd' = p_read'
  BY <1>1 DEF HeldEnd
<1>3. of \in [DOMAIN returned' -> Lines(stream')]
  BY <1>1 DEF Dealt
<1> QED
  BY <1>1, <1>2, <1>3 DEF Served

\* Nothing is held, and nothing need be returned.
LEMMA ServedInit == Init => Served
<1> SUFFICES ASSUME Init PROVE Served
  OBVIOUS
<1>1. /\ s_ATBuffer = [i \in Indexes |-> NUL] /\ s_ATBufferCur = 0 /\ pc = "call"
      /\ stream = << >> /\ returned = << >> /\ 0 \in Indexes
  BY SizeAssumption DEF Init, Indexes
<1>2. HeldEnd = 0
  BY <1>1 DEF HeldEnd
<1>3. Holds(s_ATBuffer, 0, 0, stream)
  BY <1>1 DEF Holds
<1> DEFINE of == [i \in DOMAIN returned |-> 0]
<1>4. DOMAIN returned = {} /\ Lines(stream) = {} /\ Len(stream) - 0 + 0 = 0
  BY <1>1 DEF Lines
<1>5. of \in [DOMAIN returned -> Lines(stream)]
  BY <1>4
<1>6. Dealt(stream, returned, of, 0)
  <2>1. 0 \in 0 .. Len(stream)
    BY <1>1
  <2>2. TooLong(stream, of, 0)
    BY DEF TooLong
  <2>3. Match(stream, returned, of)
    BY <1>4 DEF Match
  <2> HIDE DEF of
  <2> QED
    BY <1>4, <1>5, <2>1, <2>2, <2>3 DEF Dealt
<1> HIDE DEF of
<1> QED
  BY <1>1, <1>2, <1>3, <1>4, <1>5, <1>6 DEF Served

\* Once there was a prompt, nothing more is said.
LEMMA PromptStays ==
    ASSUME Types, [Next]_vars, prompted
    PROVE  prompted'
<1>1. CASE CallEmpty
  BY <1>1 DEF CallEmpty, KeepReading
<1>2. CASE CallWithData
  BY <1>2 DEF CallWithData, KeepReading, ReturnLine
<1>3. CASE ReadChunk
  BY <1>3 DEF ReadChunk, Receive, KeepReading, ReturnLine
<1>4. CASE ReadFails
  BY <1>4 DEF ReadFails
<1>5. CASE UNCHANGED vars
  BY <1>5 DEF vars
<1> QED
  BY <1>1, <1>2, <1>3, <1>4, <1>5 DEF Next

\* Every action is one or two of the moves in the stream.
LEMMA ServedNext ==
    ASSUME Types, prompted \/ Served, [Next]_vars
    PROVE  prompted' \/ Served'
<1> SUFFICES ASSUME ~ prompted' PROVE Served'
  OBVIOUS
<1>0. /\ Served
      /\ s_ATBuffer \in [Indexes -> Chars \cup {NUL}]
      /\ s_ATBuffer[MAX_AT_RESPONSE] = NUL
      /\ stream \in Seq(Chars) /\ Len(stream) \in Nat
  BY PromptStays DEF Types, TypeOK
<1>h. Holds(s_ATBuffer, s_ATBufferCur, HeldEnd, stream)
  BY <1>0 DEF Served
<1>1. CASE CallEmpty
  <2> DEFINE buffer == [s_ATBuffer EXCEPT ![0] = NUL]
             n == Len(stream)
  <2>1. KeepReading(buffer, 0, 0) /\ stream' = stream
    BY <1>1 DEF CallEmpty
  <2>2. HeldEnd = s_ATBufferCur
    BY <1>1 DEF CallEmpty, HeldEnd
  <2>3. PICK of : Dealt(stream, returned, of, n - s_ATBufferCur + s_ATBufferCur)
    BY <1>0, <2>2 DEF Served
  <2>4. /\ n - s_ATBufferCur + s_ATBufferCur = n
        /\ n - 0 + 0 = n /\ n - 0 = n /\ n - 0 + 1 = n + 1 /\ n - 0 + 0 + 1 = n + 1
        /\ \A k \in n + 1 .. n : FALSE
    BY <1>0, <1>h, <2>2 DEF Holds, Indexes
  <2>5. 0 \in Indexes /\ buffer[0] = NUL
    BY <1>0, SizeAssumption DEF Indexes
  <2>6. Holds(buffer, 0, 0, stream)
    BY <1>0, <2>5 DEF Holds
  <2> HIDE DEF buffer, n
  <2>7. Dealt(stream, returned, of, n - 0 + 0)
    BY <2>3, <2>4
  <2>8. \A i \in DOMAIN returned : of[i].end <= n
    BY <2>4, <2>7 DEF Dealt
  <2>9. Partial(returned, of, stream, 0, 0)
    BY <1>0, <2>4, <2>8 DEF Partial, n
  <2> QED
    BY <2>1, <2>6, <2>7, <2>9, ServedReading DEF n
<1>2. CASE CallWithData
  <2> DEFINE i == s_ATBufferCur
             cur == SkipNewlines(s_ATBuffer, i)
             eol == findNextEOL(s_ATBuffer, cur)
             len == First(s_ATBuffer, cur, {NUL}) - cur
             moved == Moved(s_ATBuffer, cur, len)
             n == Len(stream)
  <2>1. /\ stream' = stream
        /\ IF eol = None THEN KeepReading(moved, 0, len)
           ELSE ReturnLine(s_ATBuffer, cur, eol) /\ UNCHANGED p_read
    BY <1>2 DEF CallWithData
  <2>2. HeldEnd = p_read
    BY <1>2 DEF CallWithData, HeldEnd
  <2>3. Holds(s_ATBuffer, i, p_read, stream)
    BY <1>h, <2>2
  <2>4. PICK of : Dealt(stream, returned, of, n - p_read + i)
    BY <1>0, <2>2 DEF Served
  <2>5. CASE eol # None
    <3>1. ReturnLine(s_ATBuffer, cur, eol) /\ p_read' = p_read
      BY <2>1, <2>5
    <3> HIDE DEF cur, eol
    <3> QED
      BY <1>0, <2>1, <2>3, <2>4, <2>5, <3>1, ServedReturn DEF cur, eol
  <2>6. CASE eol = None
    <3>1. /\ cur \in i .. p_read
          /\ Holds(s_ATBuffer, cur, p_read, stream)
          /\ \A k \in n - p_read + i + 1 .. n - p_read + cur : stream[k] \in Newlines
          /\ \A k \in n - p_read + cur + 1 .. n : stream[k] \notin Newlines
      BY <1>0, <2>3, <2>6, ScannedStream
    <3> HIDE DEF cur, eol
    <3>2. cur \in Indexes /\ p_read \in Indexes
      <4>1. cur \in 0 .. p_read /\ p_read \in Indexes
        BY <3>1 DEF Holds
      <4> QED
        BY <4>1, SizeAssumption DEF Indexes
    <3>3. len = p_read - cur /\ Holds(moved, 0, len, stream)
      BY <1>0, <3>1, <3>2, RestMoved
    <3> HIDE DEF len, moved
    <3>4. /\ i \in Nat /\ p_read \in Nat /\ i <= p_read /\ p_read - i <= n
          /\ cur \in Nat /\ i <= cur /\ cur <= p_read /\ n \in Nat
      <4>1. i \in 0 .. p_read /\ p_read \in Nat /\ p_read - i <= n
        BY <2>3 DEF Holds, Indexes
      <4> QED
        BY <1>0, <3>1, <4>1
    <3>5. Dealt(stream, returned, of, n - p_read + cur)
      <4>1. n - p_read + cur \in n - p_read + i .. n
        BY <3>4
      <4> QED
        BY <1>0, <2>4, <3>1, <4>1, NewlinesSkipped
    <3>6. n - len + 0 = n - p_read + cur /\ n - len = n - p_read + cur /\ len <= n
          /\ len \in Nat
      BY <3>3, <3>4
    <3>7. Partial(returned, of, stream, 0, len)
      <4>1. \A k \in n - len + 1 .. n - len + 0 : FALSE
        BY <3>4, <3>6
      <4>2. \A k \in n - len + 0 + 1 .. n : stream[k] \notin Newlines
        BY <3>1, <3>6
      <4>3. \A j \in DOMAIN returned : of[j].end <= n - len
        BY <3>5, <3>6 DEF Dealt
      <4> QED
        BY <3>6, <4>1, <4>2, <4>3 DEF Partial
    <3>8. Dealt(stream, returned, of, n - len + 0)
      BY <3>5, <3>6
    <3>9. KeepReading(moved, 0, len)
      BY <2>1, <2>6
    <3> HIDE DEF n
    <3> QED
      BY <2>1, <3>3, <3>7, <3>8, <3>9, ServedReading DEF n
  <2> QED
    BY <2>5, <2>6
<1>3. CASE ReadChunk
  <2>0. PICK count \in 1 .. Space : \E chunk \in [1 .. count -> Chars] : Receive(chunk, count)
    BY <1>3 DEF ReadChunk
  <2>1. PICK chunk \in [1 .. count -> Chars] : Receive(chunk, count)
    BY <2>0
  <2>2. count \in 1 .. MAX_AT_RESPONSE - ReadAt
    BY DEF Space
  <2> DEFINE buffer == Stored(Buffer, ReadAt, chunk, count)
             cur == SkipNewlines(buffer, Cursor)
             eol == findNextEOL(buffer, cur)
             t == stream \o chunk
             p == ReadAt + count
             base == Len(t) - p
  <2>3. /\ Buffer \in [Indexes -> Chars \cup {NUL}] /\ Buffer[MAX_AT_RESPONSE] = NUL
        /\ Cursor \in Indexes /\ ReadAt \in Indexes
    BY <1>3, RoomToRead DEF ReadChunk
  <2>4. Holds(Buffer, Cursor, ReadAt, stream)
    BY <1>0, <1>3, ServedRoom DEF ReadChunk
  <2>5. PICK of : /\ Dealt(stream, returned, of, Len(stream) - ReadAt + Cursor)
                  /\ Partial(returned, of, stream, Cursor, ReadAt)
    BY <1>0, <1>3, ServedRoom DEF ReadChunk
  <2>6. /\ buffer \in [Indexes -> Chars \cup {NUL}] /\ buffer[MAX_AT_RESPONSE] = NUL
        /\ p \in Indexes
        /\ t \in Seq(Chars) /\ Len(t) = Len(stream) + count /\ Begins(stream, t)
        /\ Holds(buffer, Cursor, p, t)
    BY <1>0, <2>2, <2>3, <2>4, ChunkStored
  <2>7. /\ stream' = t
        /\ IF eol = None THEN KeepReading(buffer, cur, p)
           ELSE ReturnLine(buffer, cur, eol) /\ p_read' = p
    BY <2>1 DEF Receive
  <2> HIDE DEF buffer, t
  <2>8. /\ Cursor \in Nat /\ ReadAt \in Nat /\ p \in Nat /\ count \in Nat
        /\ base = Len(stream) - ReadAt /\ Len(t) \in Nat /\ Cursor <= p /\ ReadAt <= p
        /\ ReadAt <= Len(stream) /\ base \in Nat /\ Len(stream) <= Len(t) /\ p <= Len(t)
    <3>1. Cursor \in Nat /\ ReadAt \in Nat /\ Cursor <= ReadAt
      BY <2>3, <2>4 DEF Holds, Indexes
    <3>2. ReadAt <= Len(stream)
      BY <2>5 DEF Partial
    <3> QED
      BY <1>0, <2>2, <2>6, <3>1, <3>2, SizeAssumption
  <2>9. Dealt(t, returned, of, base + Cursor)
    <3>1. Dealt(stream, returned, of, base + Cursor)
      BY <2>5, <2>8
    <3> HIDE DEF base
    <3> QED
      BY <1>0, <2>6, <3>1, StreamGoesOn
  <2>10. CASE eol # None
    <3>1. ReturnLine(buffer, cur, eol) /\ p_read' = p
      BY <2>7, <2>10
    <3>2. Dealt(t, returned, of, Len(t) - p + Cursor)
      BY <2>9
    <3> HIDE DEF cur, eol, p
    <3> QED
      BY <2>6, <2>7, <2>10, <3>1, <3>2, ServedReturn DEF cur, eol
  <2>11. CASE eol = None
    <3>1. /\ cur \in Cursor .. p
          /\ Holds(buffer, cur, p, t)
          /\ \A k \in base + Cursor + 1 .. base + cur : t[k] \in Newlines
          /\ \A k \in base + cur + 1 .. Len(t) : t[k] \notin Newlines
      BY <2>6, <2>11, ScannedStream
    <3>2. KeepReading(buffer, cur, p)
      BY <2>7, <2>11
    <3> HIDE DEF cur, eol, p, base
    <3>3. cur \in Nat /\ Cursor <= cur /\ cur <= p
      BY <2>8, <3>1
    <3>4. Dealt(t, returned, of, base + cur)
      <4>1. base + cur \in base + Cursor .. Len(t)
        BY <2>8, <3>3 DEF base
      <4> QED
        BY <2>6, <2>9, <3>1, <4>1, NewlinesSkipped
    <3>5. Partial(returned, of, t, cur, p)
      <4>1. \A k \in base + 1 .. base + cur : t[k] \in Newlines
        <5>1. ASSUME NEW k \in base + 1 .. base + Cursor  PROVE t[k] \in Newlines
          <6>1. /\ k \in Len(stream) - ReadAt + 1 .. Len(stream) - ReadAt + Cursor
                /\ k \in 1 .. Len(stream)
            <7>1. Cursor <= ReadAt
              BY <2>3, <2>4 DEF Holds, Indexes
            <7> QED
              BY <1>0, <2>8, <7>1
          <6>2. stream[k] \in Newlines
            BY <2>5, <6>1 DEF Partial
          <6> QED
            BY <2>6, <6>1, <6>2 DEF Begins
        <5>2. \A k \in base + 1 .. base + cur :
                 k \in base + 1 .. base + Cursor \/ k \in base + Cursor + 1 .. base + cur
          BY <2>8, <3>3
        <5> QED
          BY <3>1, <5>1, <5>2
      <4>2. \A j \in DOMAIN returned : of[j].end <= base
        BY <2>5, <2>8 DEF Partial
      <4> QED
        BY <2>8, <3>1, <4>1, <4>2 DEF Partial, base
    <3> QED
      BY <2>7, <3>1, <3>2, <3>4, <3>5, ServedReading DEF base
  <2> QED
    BY <2>10, <2>11
<1>4. CASE ReadFails
  <2>1. /\ s_ATBuffer' = Buffer /\ s_ATBufferCur' = Cursor /\ pc' = "call"
        /\ p_read' = p_read /\ stream' = stream /\ returned' = returned
        /\ pc = "reading"
    BY <1>4 DEF ReadFails
  <2>2. Holds(Buffer, Cursor, ReadAt, stream)
    BY <1>0, <2>1, ServedRoom
  <2>3. PICK of : Dealt(stream, returned, of, Len(stream) - ReadAt + Cursor)
    BY <1>0, <2>1, ServedRoom
  <2>4. HeldEnd' = ReadAt
    <3>1. HeldEnd' = IF Buffer[Cursor] = NUL THEN Cursor ELSE p_read
      BY <2>1 DEF HeldEnd
    <3>2. Buffer[Cursor] = NUL <=> Cursor = ReadAt
      BY <1>0, <2>2, NothingHeld
    <3>3. Exceeded => Cursor = ReadAt
      BY DEF Cursor, ReadAt
    <3>4. ~ Exceeded => ReadAt = p_read
      BY DEF ReadAt
    <3> QED
      BY <3>1, <3>2, <3>3, <3>4
  <2>5. of \in [DOMAIN returned -> Lines(stream)]
    BY <2>3 DEF Dealt
  <2> QED
    BY <2>1, <2>2, <2>3, <2>4, <2>5 DEF Served
<1>5. CASE UNCHANGED vars
  <2>1. /\ UNCHANGED <<s_ATBuffer, s_ATBufferCur, p_read, pc, stream, returned>>
    BY <1>5 DEF vars
  <2>2. HeldEnd' = HeldEnd
    BY <2>1 DEF HeldEnd
  <2> QED
    BY <1>0, <2>1, <2>2 DEF Served
<1> QED
  BY <1>1, <1>2, <1>3, <1>4, <1>5 DEF Next

\* While a chunk is read there is no line in the buffer: each that fits has
\* been returned.
LEMMA ServedIsFaithful == Types /\ (prompted \/ Served) => Faithful
<1> SUFFICES ASSUME Types, Served PROVE Faithful
  BY DEF Faithful
<1>1. stream \in Seq(Chars) /\ Len(stream) \in Nat
  BY DEF Types, TypeOK
<1>2. PICK of \in [DOMAIN returned -> Lines(stream)] :
         /\ Dealt(stream, returned, of, Len(stream) - HeldEnd + s_ATBufferCur)
         /\ pc = "reading" => Partial(returned, of, stream, s_ATBufferCur, p_read)
  BY DEF Served
<1>3. Match(stream, returned, of)
  BY <1>2 DEF Dealt
<1>4. ASSUME pc = "reading", NEW line \in Lines(stream), Fits(stream, line, of)
      PROVE  \E i \in DOMAIN of : of[i] = line
  <2> DEFINE p == Len(stream) - p_read + s_ATBufferCur
  <2>1. HeldEnd = p_read
    BY <1>4 DEF HeldEnd
  <2>2. \A k \in p + 1 .. Len(stream) : stream[k] \notin Newlines
    BY <1>2, <1>4 DEF Partial
  <2>3. p \in Nat
    BY <1>1, <1>2, <2>1 DEF Dealt
  <2>4. IsLine(stream, line.begin, line.end)
    BY <1>1, LineFacts
  <2> HIDE DEF p
  <2>5. line.end <= p
    BY <1>1, <2>2, <2>3, <2>4 DEF IsLine
  <2> QED
    BY <1>2, <1>4, <2>1, <2>5 DEF Dealt, p
<1> QED
  BY <1>2, <1>3, <1>4 DEF Faithful

\* The lines readline returns are those of the stream, for every size of the
\* buffer, every stream and every division of it into chunks: in order, none
\* run together or returned twice, and each that fits returned whole, before
\* more is read, also after one that was ditched.  (Until a prompt, which
\* leaves the cursor behind the terminating zero.)
THEOREM LinesFaithful == Spec => []Faithful
<1>1. Init => Inv
  BY TypesInit, ServedInit DEF Inv
<1>2. Inv /\ [Next]_vars => Inv'
  BY TypesNext, ServedNext DEF Inv
<1>3. Inv => Faithful
  BY ServedIsFaithful DEF Inv
<1> QED
  BY <1>1, <1>2, <1>3, PTL DEF Spec

=============================================================================
