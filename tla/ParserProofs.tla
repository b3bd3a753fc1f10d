----------------------------- MODULE ParserProofs -----------------------------
(***************************************************************************)
(* What holds of the parser for texts of any length (module Parser).       *)
(***************************************************************************)
EXTENDS Parser, Inductions, FiniteSetTheorems

\* The provers do not know that "if" is a string.
Words == STRING \cup {Blank, Quote, "=", "alias"} \cup Operators \cup Keywords
Texts == Seq(Words)
-----------------------------------------------------------------------------
(* Texts and their parts.                                                  *)

LEMMA StringsAreTexts ==
  ASSUME NEW t \in Seq(STRING)
  PROVE  t \in Texts
BY DEF Texts, Words

LEMMA PartTyped ==
  ASSUME NEW V, NEW t \in Seq(V), NEW a \in Nat \ {0}, NEW b \in 0 .. Len(t)
  PROVE  /\ SubSeq(t, a, b) \in Seq(V)
         /\ Len(SubSeq(t, a, b)) = IF a <= b THEN b - a + 1 ELSE 0
         /\ \A k \in 1 .. Len(SubSeq(t, a, b)) : SubSeq(t, a, b)[k] = t[a + k - 1]
OBVIOUS

LEMMA CleanTyped ==
  ASSUME NEW t \in Texts
  PROVE  cleanCmd(t) \in Texts
<1> DEFINE words == {i \in DOMAIN t : t[i] # Blank}
<1>1. CASE words = {}
  BY <1>1 DEF cleanCmd, Texts
<1>2. CASE words # {}
  <2>1. DOMAIN t = 1 .. Len(t) /\ Len(t) \in Nat
    BY DEF Texts
  <2>2. words \subseteq Nat /\ \A i \in words : i \in 1 .. Len(t) /\ i <= Len(t)
    BY <2>1
  <2>3. cleanCmd(t) = SubSeq(t, Min(words), Max(words))
    BY <1>2 DEF cleanCmd
  <2> HIDE DEF words
  <2>4. Min(words) \in 1 .. Len(t)
    BY <1>2, <2>2, MinIsLeast
  <2>5. Max(words) \in 1 .. Len(t)
    BY <1>2, <2>1, <2>2, MaxIsGreatest
  <2> QED
    BY <2>1, <2>3, <2>4, <2>5, PartTyped DEF Texts
<1> QED
  BY <1>1, <1>2

\* How InOrder collects the places.
PlacesUpTo(c, P, n) ==
  /\ c[0] = <<>>
  /\ \A i \in 1 .. n : c[i] = IF i \in P THEN Append(c[i - 1], i) ELSE c[i - 1]

LEMMA InOrderUnfolds ==
  ASSUME NEW P, NEW n \in Nat
  PROVE  \E c \in [0 .. n -> Seq(1 .. n)] : PlacesUpTo(c, P, n) /\ InOrder(P, n) = c[n]
<1> DEFINE X == Seq(1 .. n)
           F == [x \in X \X (1 .. n) |-> IF x[2] \in P THEN Append(x[1], x[2]) ELSE x[1]]
           c == CHOOSE c : c = [i \in 0 .. n |-> IF i = 0 THEN <<>>
                                                ELSE IF i \in P THEN Append(c[i - 1], i) ELSE c[i - 1]]
<1>0. \A q \in X, i \in 1 .. n : Append(q, i) \in X
  OBVIOUS
<1>1. F \in [X \X (1 .. n) -> X] /\ <<>> \in X
  <2>1. <<>> \in X
    OBVIOUS
  <2> HIDE DEF X
  <2> QED BY <1>0, <2>1
<1>2. \A q \in X, i \in 1 .. n : F[<<q, i>>] = IF i \in P THEN Append(q, i) ELSE q
  BY DEF F
<1>3. InOrder(P, n) = c[n]
  BY DEF InOrder
<1> HIDE DEF X, F
<1>4. c \in [0 .. n -> X] /\ PlacesUpTo(c, P, n)
  <2>1. PICK f \in [0 .. n -> X] : Recurs(f, n, <<>>, F)
    BY <1>1, RecursiveFunction
  <2>2. ASSUME NEW i \in 0 .. n
        PROVE  f[i] = IF i = 0 THEN <<>> ELSE IF i \in P THEN Append(f[i - 1], i) ELSE f[i - 1]
    <3>1. f[i] = IF i = 0 THEN <<>> ELSE F[<<f[i - 1], i>>]
      BY <2>1 DEF Recurs
    <3>2. i # 0 => i \in 1 .. n /\ i - 1 \in 0 .. n
      OBVIOUS
    <3>3. i # 0 => F[<<f[i - 1], i>>] = IF i \in P THEN Append(f[i - 1], i) ELSE f[i - 1]
      BY <1>2, <2>1, <3>2
    <3> QED
      BY <3>1, <3>3
  <2>3. f = [i \in 0 .. n |-> IF i = 0 THEN <<>> ELSE IF i \in P THEN Append(f[i - 1], i) ELSE f[i - 1]]
    BY <2>1, <2>2
  <2>4. c = [i \in 0 .. n |-> IF i = 0 THEN <<>> ELSE IF i \in P THEN Append(c[i - 1], i) ELSE c[i - 1]]
    BY <2>3
  <2> HIDE DEF c
  <2>5. \A i \in 0 .. n : c[i] = IF i = 0 THEN <<>> ELSE IF i \in P THEN Append(c[i - 1], i) ELSE c[i - 1]
    BY <2>4
  <2>6. PlacesUpTo(c, P, n)
    BY <2>5 DEF PlacesUpTo
  <2> DEFINE S == {m \in Nat : m <= n => c[m] \in X}
  <2>7. 0 \in S
    BY <1>1, <2>6 DEF PlacesUpTo
  <2>8. ASSUME NEW m \in Nat, m \in S PROVE m + 1 \in S
    <3> SUFFICES ASSUME m + 1 <= n PROVE c[m + 1] \in X
      OBVIOUS
    <3>1. m + 1 \in 1 .. n /\ (m + 1) - 1 = m /\ c[m] \in X
      BY <2>8
    <3> QED
      BY <1>0, <2>6, <3>1 DEF PlacesUpTo
  <2>9. \A m \in Nat : m \in S
    <3> HIDE DEF S
    <3> QED BY <2>7, <2>8, Induction
  <2> QED
    BY <2>4, <2>6, <2>9
<1> QED
  BY <1>3, <1>4 DEF X

LEMMA InOrderTyped ==
  ASSUME NEW P, NEW n \in Nat
  PROVE  InOrder(P, n) \in Seq(1 .. n)
<1>1. PICK c \in [0 .. n -> Seq(1 .. n)] : InOrder(P, n) = c[n]
  BY InOrderUnfolds
<1> QED
  BY <1>1

LEMMA PickedTyped ==
  ASSUME NEW V, NEW t \in Seq(V), NEW P
  PROVE  Picked(t, P) \in Seq(V)
<1> DEFINE places == InOrder(P, Len(t))
<1>1. Len(t) \in Nat /\ \A i \in 1 .. Len(t) : t[i] \in V
  OBVIOUS
<1>2. places \in Seq(1 .. Len(t))
  BY <1>1, InOrderTyped
<1>3. Picked(t, P) = [k \in DOMAIN places |-> t[places[k]]]
  BY DEF Picked
<1> HIDE DEF places
<1>4. DOMAIN places = 1 .. Len(places) /\ Len(places) \in Nat /\ \A k \in DOMAIN places : places[k] \in 1 .. Len(t)
  BY <1>2
<1> QED
  BY <1>1, <1>3, <1>4

LEMMA ChunksTyped ==
  ASSUME NEW t \in Texts, NEW cuts
  PROVE  Chunks(t, cuts) \in Seq(Texts)
<1> DEFINE c == <<0>> \o InOrder(cuts, Len(t)) \o <<Len(t) + 1>>
<1>1. Len(t) \in Nat
  BY DEF Texts
<1>2. InOrder(cuts, Len(t)) \in Seq(0 .. Len(t) + 1)
  <2>1. InOrder(cuts, Len(t)) \in Seq(1 .. Len(t))
    BY <1>1, InOrderTyped
  <2> HIDE DEF c
  <2> QED BY <1>1, <2>1
<1>3. c \in Seq(0 .. Len(t) + 1) /\ Len(c) \in Nat /\ Len(c) >= 2
  BY <1>1, <1>2
<1>4. Chunks(t, cuts) = [k \in 1 .. Len(c) - 1 |-> SubSeq(t, c[k] + 1, c[k + 1] - 1)]
  BY DEF Chunks
<1> HIDE DEF c
<1>5. ASSUME NEW k \in 1 .. Len(c) - 1 PROVE SubSeq(t, c[k] + 1, c[k + 1] - 1) \in Texts
  <2>1. k \in 1 .. Len(c) /\ k + 1 \in 1 .. Len(c)
    BY <1>3
  <2>2. c[k] \in 0 .. Len(t) + 1 /\ c[k + 1] \in 0 .. Len(t) + 1
    BY <1>3, <2>1
  <2>3. CASE c[k + 1] = 0
    <3>1. SubSeq(t, c[k] + 1, c[k + 1] - 1) = <<>>
      BY <1>1, <2>2, <2>3 DEF Texts
    <3>2. <<>> \in Texts
      BY DEF Texts
    <3> QED
      BY <3>1, <3>2
  <2>4. CASE c[k + 1] # 0
    <3>1. c[k] + 1 \in Nat \ {0} /\ c[k + 1] - 1 \in 0 .. Len(t)
      BY <1>1, <2>2, <2>4
    <3>2. \A a \in Nat \ {0}, b \in 0 .. Len(t) : SubSeq(t, a, b) \in Texts
      BY PartTyped DEF Texts
    <3> QED
      BY <3>1, <3>2
  <2> QED
    BY <2>3, <2>4
<1>6. Len(c) - 1 \in Nat
  BY <1>3
<1> QED
  BY <1>4, <1>5, <1>6

LEMMA DequotedTyped ==
  ASSUME NEW p \in Texts
  PROVE  Dequoted(p) \in Texts
<1>1. \A q \in Texts : Quote \in ToSet(q) => q # <<>> /\ Len(q) \in Nat \ {0} /\ Tail(q) \in Texts
  BY DEF Texts, ToSet
<1>2. \A q \in Texts : q # <<>> => Front(q) \in Texts
  <2> SUFFICES ASSUME NEW q \in Texts, q # <<>> PROVE Front(q) \in Texts
    OBVIOUS
  <2>1. Len(q) - 1 \in 0 .. Len(q)
    BY DEF Texts
  <2> QED
    BY <2>1, PartTyped DEF Front, Texts
<1> QED
  BY <1>1, <1>2 DEF Dequoted

LEMMA AliasCmdTyped ==
  ASSUME NEW t \in Texts, IsAliasCmd(t)
  PROVE  aliasCmd(t) \in Seq(Texts)
<1> DEFINE rest == SubSeq(t, 3, Len(t))
           parts == NonEmpty(Chunks(rest, {i \in DOMAIN rest : rest[i] = "="}))
<1>1. Len(t) \in Nat /\ Len(t) > 1
  BY DEF IsAliasCmd, StartsWith, Texts
<1>2. rest \in Texts
  BY <1>1, PartTyped DEF Texts
<1>3. parts \in Seq(Texts)
  <2>1. Chunks(rest, {i \in DOMAIN rest : rest[i] = "="}) \in Seq(Texts)
    BY <1>2, ChunksTyped
  <2> HIDE DEF rest
  <2> QED BY <2>1, PickedTyped DEF NonEmpty
<1>4. aliasCmd(t) = <<<<t[1]>>>> \o [k \in DOMAIN parts |-> Dequoted(parts[k])]
  BY DEF aliasCmd
<1> HIDE DEF rest, parts
<1>5. [k \in DOMAIN parts |-> Dequoted(parts[k])] \in Seq(Texts)
  <2>1. DOMAIN parts = 1 .. Len(parts) /\ Len(parts) \in Nat /\ \A k \in 1 .. Len(parts) : parts[k] \in Texts
    BY <1>3
  <2> QED
    BY <2>1, DequotedTyped
<1>6. <<t[1]>> \in Texts
  BY <1>1 DEF Texts
<1>7. <<<<t[1]>>>> \in Seq(Texts)
  BY <1>6
<1> QED
  BY <1>4, <1>5, <1>7
-----------------------------------------------------------------------------
(* The scan.                                                               *)

ScanStates == [toks : Seq(Texts), param : Texts, q_st : BOOLEAN, space_encountered : BOOLEAN, char_count : Nat]

LEMMA StartTyped == Start \in ScanStates
<1>1. <<>> \in Seq(Texts) /\ <<>> \in Texts
  BY DEF Texts
<1> QED
  BY <1>1 DEF Start, ScanStates

LEMMA OccurrencesInside ==
  ASSUME NEW p, Len(p) \in Nat \ {0}, NEW t \in Texts
  PROVE  Occurrences(p, t) \subseteq 1 .. Len(t)
<1>1. Len(t) \in Nat
  BY DEF Texts
<1> QED
  BY <1>1 DEF Occurrences

LEMMA SplitTyped ==
  ASSUME NEW s \in ScanStates
  PROVE  SplitAtKeyword(s) \in ScanStates
<1> DEFINE hits == {k \in DOMAIN Pattern : Occurrences(Pattern[k], s.param) # {}}
           h == Min(hits)
           places == Occurrences(Pattern[h], s.param)
           pLoc == Min(places)
           before == IF pLoc > 1 THEN <<SubSeq(s.param, 1, pLoc - 1)>> ELSE <<>>
<1>1. s.param \in Texts /\ s.toks \in Seq(Texts) /\ Len(s.param) \in Nat
  BY DEF ScanStates, Texts
<1>2. CASE hits = {}
  BY <1>2 DEF SplitAtKeyword
<1>3. CASE hits # {}
  <2>1. DOMAIN Pattern = 1 .. 4 /\ \A k \in 1 .. 4 : Len(Pattern[k]) \in Nat \ {0} /\ Found[k] \in Keywords
    BY DEF Pattern, Found, Keywords
  <2>2. hits \subseteq Nat /\ hits \subseteq 1 .. 4
    BY <2>1
  <2>3. h \in hits
    <3> HIDE DEF hits
    <3> QED BY <1>3, <2>2, MinIsLeast
  <2>4. h \in 1 .. 4 /\ places # {} /\ places \subseteq 1 .. Len(s.param)
    <3>1. h \in 1 .. 4 /\ places # {}
      BY <2>2, <2>3
    <3> HIDE DEF hits, h
    <3> QED BY <1>1, <2>1, <3>1, OccurrencesInside
  <2>5. pLoc \in 1 .. Len(s.param)
    <3> HIDE DEF h, places
    <3>1. places \subseteq Nat
      BY <1>1, <2>4
    <3> QED BY <2>4, <3>1, MinIsLeast
  <2>6. SplitAtKeyword(s) = [s EXCEPT !.toks = s.toks \o before \o <<<<Found[h]>>>>, !.param = <<>>]
    BY <1>3 DEF SplitAtKeyword
  <2>7. before \in Seq(Texts)
    <3> HIDE DEF pLoc
    <3>1. pLoc - 1 \in 0 .. Len(s.param)
      BY <1>1, <2>5
    <3>2. SubSeq(s.param, 1, pLoc - 1) \in Texts
      BY <1>1, <3>1, PartTyped DEF Texts
    <3> QED
      BY <3>2
  <2>8. <<<<Found[h]>>>> \in Seq(Texts)
    <3>1. Found[h] \in Words
      BY <2>1, <2>4 DEF Words
    <3>2. <<Found[h]>> \in Texts
      BY <3>1 DEF Texts
    <3> QED
      BY <3>2
  <2>9. s.toks \o before \o <<<<Found[h]>>>> \in Seq(Texts) /\ <<>> \in Texts
    <3> HIDE DEF before, h
    <3>1. <<>> \in Texts
      BY DEF Texts
    <3> QED BY <1>1, <2>7, <2>8, <3>1
  <2> HIDE DEF before, h
  <2> QED
    BY <2>6, <2>9 DEF ScanStates
<1> QED
  BY <1>2, <1>3

LEMMA ScanTyped ==
  ASSUME NEW s \in ScanStates, NEW c \in Words
  PROVE  Scan(s, c) \in ScanStates
<1>1. s.param \in Texts /\ s.toks \in Seq(Texts) /\ s.char_count \in Nat /\ s.q_st \in BOOLEAN
      /\ s.space_encountered \in BOOLEAN
  BY DEF ScanStates
<1>2. Append(s.param, c) \in Texts /\ <<c>> \in Texts /\ <<>> \in Texts
  BY <1>1 DEF Texts
<1>3. Kept(s, c) = [s EXCEPT !.param = Append(s.param, c), !.char_count = s.char_count + 1]
  BY DEF Kept
<1>4. Kept(s, c) \in ScanStates
  <2>1. s = [toks |-> s.toks, param |-> s.param, q_st |-> s.q_st, space_encountered |-> s.space_encountered,
             char_count |-> s.char_count]
    BY DEF ScanStates
  <2>2. Kept(s, c) = [toks |-> s.toks, param |-> Append(s.param, c), q_st |-> s.q_st,
                      space_encountered |-> s.space_encountered, char_count |-> s.char_count + 1]
    BY <1>3, <2>1
  <2>3. s.char_count + 1 \in Nat
    BY <1>1
  <2> QED
    BY <1>1, <1>2, <2>2, <2>3 DEF ScanStates
<1>5. CASE c = Quote
  <2>1. Scan(s, c) = [Kept(s, c) EXCEPT !.q_st = ~ Kept(s, c).q_st,
                                        !.space_encountered = Kept(s, c).space_encountered /\ ~ s.q_st]
    BY <1>5 DEF Scan, Quote, Blank, Operators
  <2> QED
    BY <1>4, <2>1 DEF ScanStates
<1>6. CASE c # Quote /\ s.q_st
  BY <1>4, <1>6 DEF Scan
<1>7. CASE c \in Operators /\ c # Quote /\ ~ s.q_st /\ s.char_count # 0
  <2>1. Scan(s, c) = [s EXCEPT !.toks = s.toks \o <<s.param, <<c>>>>, !.param = <<>>, !.char_count = 0]
    BY <1>7 DEF Scan, Quote, Blank, Operators
  <2>2. s.toks \o <<s.param, <<c>>>> \in Seq(Texts) /\ 0 \in Nat
    BY <1>1, <1>2
  <2>3. Scan(s, c) = [toks |-> s.toks \o <<s.param, <<c>>>>, param |-> <<>>, q_st |-> s.q_st,
                      space_encountered |-> s.space_encountered, char_count |-> 0]
    BY <2>1 DEF ScanStates
  <2> QED
    BY <1>1, <1>2, <2>2, <2>3 DEF ScanStates
<1>8. CASE c # Quote /\ ~ s.q_st /\ ~ (c \in Operators /\ s.char_count # 0) /\ c = Blank /\ s.space_encountered
  <2>1. Scan(s, c) = s
    BY <1>8 DEF Scan
  <2> QED
    BY <2>1
<1>9. CASE c # Quote /\ ~ s.q_st /\ ~ (c \in Operators /\ s.char_count # 0) /\ ~ (c = Blank /\ s.space_encountered)
  <2>1. Scan(s, c) = SplitAtKeyword([Kept(s, c) EXCEPT !.space_encountered = (c = Blank)])
    BY <1>9 DEF Scan
  <2>2. [Kept(s, c) EXCEPT !.space_encountered = (c = Blank)] \in ScanStates
    BY <1>4 DEF ScanStates
  <2> QED
    BY <2>1, <2>2, SplitTyped
<1> QED
  BY <1>5, <1>6, <1>7, <1>8, <1>9

LEMMA ScannedTyped ==
  ASSUME NEW t \in Texts
  PROVE  scanned(t) \in Seq(Texts)
<1> DEFINE n == Len(t)
           F == [x \in ScanStates \X (1 .. n) |-> Scan(x[1], t[x[2]])]
           c == CHOOSE c : c = [i \in 0 .. Len(t) |-> IF i = 0 THEN Start ELSE Scan(c[i - 1], t[i])]
           s == c[Len(t)]
           toks == IF s.char_count # 0 /\ ~ s.q_st THEN Append(s.toks, s.param) ELSE s.toks
<1>1. n \in Nat /\ \A i \in 1 .. n : t[i] \in Words
  BY DEF Texts
<1>2. \A x \in ScanStates, i \in 1 .. n : Scan(x, t[i]) \in ScanStates
  BY <1>1, ScanTyped
<1>3. F \in [ScanStates \X (1 .. n) -> ScanStates]
  BY <1>2
<1>4. \A x \in ScanStates, i \in 1 .. n : F[<<x, i>>] = Scan(x, t[i])
  BY DEF F
<1>5. scanned(t) = [k \in DOMAIN toks |-> cleanCmd(toks[k])]
  BY DEF scanned
<1> HIDE DEF F
<1>6. c = [i \in 0 .. n |-> IF i = 0 THEN Start ELSE Scan(c[i - 1], t[i])]
  <2> HIDE DEF n
  <2>1. PICK f \in [0 .. n -> ScanStates] : Recurs(f, n, Start, F)
    BY <1>1, <1>3, StartTyped, RecursiveFunction
  <2>2. ASSUME NEW i \in 0 .. n PROVE f[i] = IF i = 0 THEN Start ELSE Scan(f[i - 1], t[i])
    <3>1. f[i] = IF i = 0 THEN Start ELSE F[<<f[i - 1], i>>]
      BY <2>1 DEF Recurs
    <3>2. i # 0 => i \in 1 .. n /\ i - 1 \in 0 .. n
      BY <1>1
    <3>3. i # 0 => F[<<f[i - 1], i>>] = Scan(f[i - 1], t[i])
      BY <1>4, <2>1, <3>2
    <3> QED
      BY <3>1, <3>3
  <2>3. f = [i \in 0 .. n |-> IF i = 0 THEN Start ELSE Scan(f[i - 1], t[i])]
    BY <2>1, <2>2
  <2> QED
    BY <2>3 DEF n
<1> HIDE DEF c, n
<1> DEFINE S == {m \in Nat : m <= n => c[m] \in ScanStates}
<1>7. 0 \in S
  BY <1>1, <1>6, StartTyped
<1>8. ASSUME NEW m \in Nat, m <= n => c[m] \in ScanStates, m + 1 <= n PROVE c[m + 1] \in ScanStates
  <2>1. m + 1 \in 0 .. n /\ m + 1 # 0 /\ (m + 1) - 1 = m /\ m + 1 \in 1 .. n
    BY <1>1, <1>8
  <2>2. c[m + 1] = Scan(c[m], t[m + 1])
    BY <1>6, <2>1
  <2>3. c[m] \in ScanStates
    BY <1>1, <1>8
  <2> QED
    BY <1>2, <2>1, <2>2, <2>3
<1>9. \A m \in Nat : m \in S => m + 1 \in S
  BY <1>8
<1>10. s \in ScanStates
  <2>1. n \in S
    <3> HIDE DEF S
    <3> QED BY <1>1, <1>7, <1>9, Induction
  <2> QED
    BY <1>1, <2>1 DEF n
<1> HIDE DEF s
<1>11. toks \in Seq(Texts)
  <2>1. s.toks \in Seq(Texts) /\ s.param \in Texts
    BY <1>10 DEF ScanStates
  <2> QED
    BY <2>1
<1> HIDE DEF toks
<1>12. DOMAIN toks = 1 .. Len(toks) /\ Len(toks) \in Nat /\ \A k \in DOMAIN toks : cleanCmd(toks[k]) \in Texts
  BY <1>11, CleanTyped
<1> QED
  BY <1>5, <1>12

(* A line is split into texts.                                             *)
LEMMA ParseTyped ==
  ASSUME NEW t \in Texts
  PROVE  parseCmd(t) \in Seq(Texts)
<1>1. cleanCmd(t) \in Texts
  BY CleanTyped
<1> QED
  BY <1>1, AliasCmdTyped, ScannedTyped DEF parseCmd
-----------------------------------------------------------------------------
(* Places and texts, one piece at a time.                                  *)

\* The places up to one more.
LEMMA InOrderStep ==
  ASSUME NEW P, NEW n \in Nat
  PROVE  /\ InOrder(P, 0) = <<>>
         /\ InOrder(P, n + 1) = IF n + 1 \in P THEN Append(InOrder(P, n), n + 1) ELSE InOrder(P, n)
<1>1. PICK a \in [0 .. 0 -> Seq(1 .. 0)] : PlacesUpTo(a, P, 0) /\ InOrder(P, 0) = a[0]
  BY InOrderUnfolds
<1>2. PICK c \in [0 .. n -> Seq(1 .. n)] : PlacesUpTo(c, P, n) /\ InOrder(P, n) = c[n]
  BY InOrderUnfolds
<1>3. PICK d \in [0 .. n + 1 -> Seq(1 .. n + 1)] : PlacesUpTo(d, P, n + 1) /\ InOrder(P, n + 1) = d[n + 1]
  <2>1. n + 1 \in Nat
    OBVIOUS
  <2> QED
    BY <2>1, InOrderUnfolds
<1> DEFINE S == {m \in Nat : m <= n => c[m] = d[m]}
<1>4. 0 \in S
  BY <1>2, <1>3 DEF PlacesUpTo
<1>5. ASSUME NEW m \in Nat, m \in S PROVE m + 1 \in S
  <2> SUFFICES ASSUME m + 1 <= n PROVE c[m + 1] = d[m + 1]
    OBVIOUS
  <2>1. m + 1 \in 1 .. n /\ m + 1 \in 1 .. n + 1 /\ (m + 1) - 1 = m /\ c[m] = d[m]
    BY <1>5
  <2> QED
    BY <1>2, <1>3, <2>1 DEF PlacesUpTo
<1>6. c[n] = d[n]
  <2>1. n \in S
    <3> HIDE DEF S
    <3> QED BY <1>4, <1>5, Induction
  <2> QED
    BY <2>1
<1>7. d[n + 1] = IF n + 1 \in P THEN Append(d[n], n + 1) ELSE d[n]
  <2>1. n + 1 \in 1 .. n + 1 /\ (n + 1) - 1 = n
    OBVIOUS
  <2> QED
    BY <1>3, <2>1 DEF PlacesUpTo
<1> QED
  BY <1>1, <1>2, <1>3, <1>6, <1>7 DEF PlacesUpTo

\* What is not among the first n makes no difference.
LEMMA InOrderSame ==
  ASSUME NEW P, NEW Q, NEW n \in Nat, \A i \in 1 .. n : i \in P <=> i \in Q
  PROVE  InOrder(P, n) = InOrder(Q, n)
<1> DEFINE S == {m \in Nat : m <= n => InOrder(P, m) = InOrder(Q, m)}
<1>1. 0 \in S
  BY InOrderStep
<1>2. ASSUME NEW m \in Nat, m \in S PROVE m + 1 \in S
  <2> SUFFICES ASSUME m + 1 <= n PROVE InOrder(P, m + 1) = InOrder(Q, m + 1)
    OBVIOUS
  <2>1. (m + 1 \in P <=> m + 1 \in Q) /\ InOrder(P, m) = InOrder(Q, m)
    BY <1>2
  <2> QED
    BY <2>1, InOrderStep
<1>3. n \in S
  <2> HIDE DEF S
  <2> QED BY <1>1, <1>2, Induction
<1> QED
  BY <1>3
\* Texts are what they have at each place.
LEMMA SameText ==
  ASSUME NEW V, NEW t \in Seq(V), NEW u \in Seq(V), Len(t) = Len(u), \A k \in 1 .. Len(t) : t[k] = u[k]
  PROVE  t = u
OBVIOUS
-----------------------------------------------------------------------------
(* Without quotes.                                                         *)

LEMMA UnquotedTyped ==
  ASSUME NEW t \in Texts
  PROVE  Unquoted(t) \in Texts
BY PickedTyped DEF Unquoted, Texts

LEMMA UnquotedStep ==
  /\ Unquoted(<<>>) = <<>>
  /\ \A t \in Texts, w \in Words :
       Unquoted(Append(t, w)) = IF w = Quote THEN Unquoted(t) ELSE Append(Unquoted(t), w)
<1>1. Unquoted(<<>>) = <<>>
  <2>1. InOrder({i \in DOMAIN <<>> : <<>>[i] # Quote}, 0) = <<>> /\ Len(<<>>) = 0
    BY InOrderStep
  <2> QED
    BY <2>1 DEF Unquoted, Picked
<1>2. ASSUME NEW t \in Texts, NEW w \in Words
      PROVE  Unquoted(Append(t, w)) = IF w = Quote THEN Unquoted(t) ELSE Append(Unquoted(t), w)
  <2> DEFINE n == Len(t)
             u == Append(t, w)
             P == {i \in DOMAIN t : t[i] # Quote}
             Q == {i \in DOMAIN u : u[i] # Quote}
             p == InOrder(P, n)
             q == InOrder(Q, n + 1)
  <2>1. n \in Nat /\ Len(u) = n + 1 /\ \A i \in 1 .. n : u[i] = t[i]
    BY DEF Texts
  <2>2. u[n + 1] = w
    BY DEF Texts
  <2>3. DOMAIN t = 1 .. n /\ DOMAIN u = 1 .. n + 1
    BY DEF Texts
  <2>4. Unquoted(u) = [k \in DOMAIN q |-> u[q[k]]] /\ Unquoted(t) = [k \in DOMAIN p |-> t[p[k]]]
    BY <2>1 DEF Unquoted, Picked
  <2>5. \A i \in 1 .. n : i \in P <=> i \in Q
    BY <2>1, <2>3
  <2>6. n + 1 \in Q <=> w # Quote
    BY <2>1, <2>2, <2>3
  <2>7. p \in Seq(1 .. n)
    BY <2>1, InOrderTyped
  <2>8. q = IF n + 1 \in Q THEN Append(p, n + 1) ELSE p
    <3> HIDE DEF P, Q
    <3>1. InOrder(Q, n) = p
      BY <2>1, <2>5, InOrderSame
    <3> QED
      BY <2>1, <3>1, InOrderStep
  <2> HIDE DEF n, u, P, Q, p, q
  <2>9. DOMAIN p = 1 .. Len(p) /\ Len(p) \in Nat /\ \A k \in 1 .. Len(p) : p[k] \in 1 .. n
    BY <2>1, <2>7
  <2>10. \A k \in 1 .. Len(p) : u[p[k]] = t[p[k]]
    BY <2>1, <2>9
  <2>11. CASE w = Quote
    <3>1. q = p
      BY <2>6, <2>8, <2>11
    <3>2. Unquoted(u) = Unquoted(t)
      BY <2>4, <2>9, <2>10, <3>1
    <3> QED
      BY <2>11, <3>2 DEF u
  <2>12. CASE w # Quote
    <3>1. q = Append(p, n + 1)
      BY <2>6, <2>8, <2>12
    <3>2. DOMAIN q = 1 .. Len(p) + 1 /\ q[Len(p) + 1] = n + 1 /\ \A k \in 1 .. Len(p) : q[k] = p[k]
      BY <2>7, <3>1
    <3>3. Unquoted(u) = [k \in 1 .. Len(p) + 1 |-> u[q[k]]]
      BY <2>4, <3>2
    <3>4. Unquoted(t) \in Texts /\ Len(Unquoted(t)) = Len(p) /\ \A k \in 1 .. Len(p) : Unquoted(t)[k] = t[p[k]]
      <4>1. Unquoted(t) \in Texts
        BY UnquotedTyped
      <4>2. DOMAIN Unquoted(t) = 1 .. Len(p)
        BY <2>4, <2>9
      <4>3. Len(Unquoted(t)) = Len(p)
        BY <2>9, <4>1, <4>2 DEF Texts
      <4> QED
        BY <2>4, <2>9, <4>1, <4>3
    <3>5. Unquoted(u) \in Texts /\ Append(Unquoted(t), w) \in Texts
      <4>1. u \in Texts
        BY DEF u, Texts
      <4> QED
        BY <3>4, <4>1, UnquotedTyped DEF Texts
    <3>6. Len(Unquoted(u)) = Len(p) + 1
      <4>1. DOMAIN Unquoted(u) = 1 .. Len(p) + 1
        BY <3>3
      <4> QED
        BY <2>9, <3>5, <4>1 DEF Texts
    <3>7. /\ Len(Append(Unquoted(t), w)) = Len(p) + 1
          /\ \A k \in 1 .. Len(p) + 1 : Append(Unquoted(t), w)[k] = IF k = Len(p) + 1 THEN w ELSE t[p[k]]
      <4> DEFINE v == Unquoted(t)
      <4>1. v \in Seq(Words) /\ Len(v) = Len(p) /\ \A k \in 1 .. Len(p) : v[k] = t[p[k]]
        BY <3>4 DEF Texts
      <4> HIDE DEF v
      <4>2. Len(Append(v, w)) = Len(p) + 1
            /\ \A k \in 1 .. Len(p) + 1 : Append(v, w)[k] = IF k = Len(p) + 1 THEN w ELSE t[p[k]]
        BY <2>9, <4>1
      <4> QED
        BY <4>2 DEF v
    <3>8. \A k \in 1 .. Len(p) + 1 : Unquoted(u)[k] = IF k = Len(p) + 1 THEN w ELSE t[p[k]]
      BY <2>2, <2>9, <2>10, <3>2, <3>3
    <3>9. Unquoted(u) = Append(Unquoted(t), w)
      <4> DEFINE v == Append(Unquoted(t), w)
      <4>1. v \in Texts /\ Len(v) = Len(p) + 1 /\ \A k \in 1 .. Len(p) + 1 : v[k] = Unquoted(u)[k]
        BY <3>5, <3>7, <3>8
      <4> HIDE DEF v
      <4>2. Unquoted(u) = v
        BY <3>5, <3>6, <4>1, SameText DEF Texts
      <4> QED
        BY <4>2 DEF v
    <3> QED
      BY <2>12, <3>9 DEF u
  <2> QED
    BY <2>11, <2>12
<1> QED
  BY <1>1, <1>2

-----------------------------------------------------------------------------
(* split.                                                                  *)

SplitStates == [str_list : Seq(Texts), tstr : Texts, skip : BOOLEAN]
SplitStart == [str_list |-> <<>>, tstr |-> <<>>, skip |-> FALSE]

LEMMA SplitStepTyped ==
  /\ SplitStart \in SplitStates
  /\ \A s \in SplitStates, w \in Words : SplitStep(s, w) \in SplitStates
<1>1. <<>> \in Seq(Texts) /\ <<>> \in Texts
  BY DEF Texts
<1>2. ASSUME NEW s \in SplitStates, NEW w \in Words PROVE SplitStep(s, w) \in SplitStates
  <2>1. s.str_list \in Seq(Texts) /\ s.tstr \in Texts /\ s.skip \in BOOLEAN
    BY DEF SplitStates
  <2>2. Append(s.str_list, s.tstr) \in Seq(Texts) /\ Append(s.tstr, w) \in Texts
    BY <2>1 DEF Texts
  <2>3. CASE w = Quote
    <3>1. SplitStep(s, w) = [s EXCEPT !.skip = ~ s.skip]
      BY <2>3 DEF SplitStep, Quote, Blank
    <3> QED
      BY <2>1, <3>1 DEF SplitStates
  <2>4. CASE w # Quote /\ w = Blank /\ ~ s.skip
    <3>1. SplitStep(s, w) = [s EXCEPT !.str_list = Append(s.str_list, s.tstr), !.tstr = <<>>]
      BY <2>4 DEF SplitStep
    <3>2. SplitStep(s, w) = [str_list |-> Append(s.str_list, s.tstr), tstr |-> <<>>, skip |-> s.skip]
      BY <3>1 DEF SplitStates
    <3> QED
      BY <1>1, <2>1, <2>2, <3>2 DEF SplitStates
  <2>5. CASE w # Quote /\ ~ (w = Blank /\ ~ s.skip)
    <3>1. SplitStep(s, w) = [s EXCEPT !.tstr = Append(s.tstr, w)]
      BY <2>5 DEF SplitStep
    <3>2. SplitStep(s, w) = [str_list |-> s.str_list, tstr |-> Append(s.tstr, w), skip |-> s.skip]
      BY <3>1 DEF SplitStates
    <3> QED
      BY <2>1, <2>2, <3>2 DEF SplitStates
  <2> QED
    BY <2>3, <2>4, <2>5
<1> QED
  BY <1>1, <1>2 DEF SplitStart, SplitStates

\* The states of split after each piece.
SplitsUpTo(f, t, n) == f[0] = SplitStart /\ \A i \in 1 .. n : f[i] = SplitStep(f[i - 1], t[i])
SplitEnd(s, t) == IF t = <<>> \/ (Last(t) = Blank /\ ~ s.skip) THEN s.str_list ELSE Append(s.str_list, s.tstr)

LEMMA SplitUnfolds ==
  ASSUME NEW t \in Texts
  PROVE  \E f \in [0 .. Len(t) -> SplitStates] : SplitsUpTo(f, t, Len(t)) /\ split(t) = SplitEnd(f[Len(t)], t)
<1> DEFINE n == Len(t)
           F == [x \in SplitStates \X (1 .. n) |-> SplitStep(x[1], t[x[2]])]
           c == CHOOSE c : c = [i \in 0 .. Len(t) |-> IF i = 0 THEN [str_list |-> <<>>, tstr |-> <<>>, skip |-> FALSE]
                                                     ELSE SplitStep(c[i - 1], t[i])]
<1>1. n \in Nat /\ \A i \in 1 .. n : t[i] \in Words
  BY DEF Texts
<1>2. \A x \in SplitStates, i \in 1 .. n : SplitStep(x, t[i]) \in SplitStates
  BY <1>1, SplitStepTyped
<1>3. F \in [SplitStates \X (1 .. n) -> SplitStates]
  BY <1>2
<1>4. \A x \in SplitStates, i \in 1 .. n : F[<<x, i>>] = SplitStep(x, t[i])
  BY DEF F
<1>5. split(t) = SplitEnd(c[n], t)
  BY DEF split, SplitEnd
<1> HIDE DEF F
<1>6. PICK f \in [0 .. n -> SplitStates] : Unfolds(f, n, SplitStart, F)
  <2>1. SplitStart \in SplitStates /\ n \in Nat
    BY <1>1, SplitStepTyped
  <2> HIDE DEF n, c
  <2> QED
    BY <1>3, <2>1, Recursion
<1>7. ASSUME NEW i \in 0 .. n PROVE f[i] = IF i = 0 THEN SplitStart ELSE SplitStep(f[i - 1], t[i])
  <2>1. f[0] = SplitStart
    BY <1>6 DEF Unfolds
  <2>2. CASE i # 0
    <3>1. i \in 1 .. n /\ i - 1 \in 0 .. n /\ i - 1 \in 0 .. n - 1 /\ (i - 1) + 1 = i
      BY <1>1, <2>2
    <3>2. f[i] = F[<<f[i - 1], i>>]
      BY <1>6, <3>1 DEF Unfolds
    <3>3. F[<<f[i - 1], i>>] = SplitStep(f[i - 1], t[i])
      BY <1>4, <1>6, <3>1
    <3> QED
      BY <2>2, <3>2, <3>3
  <2> QED
    BY <2>1, <2>2
<1>8. f = [i \in 0 .. n |-> IF i = 0 THEN SplitStart ELSE SplitStep(f[i - 1], t[i])]
  BY <1>6, <1>7
<1>9. c = [i \in 0 .. n |-> IF i = 0 THEN SplitStart ELSE SplitStep(c[i - 1], t[i])]
  BY <1>8 DEF SplitStart
<1> HIDE DEF c
<1>10. \A i \in 0 .. n : c[i] = IF i = 0 THEN SplitStart ELSE SplitStep(c[i - 1], t[i])
  BY <1>9
<1>11. SplitsUpTo(c, t, n)
  BY <1>1, <1>10 DEF SplitsUpTo
<1> DEFINE S == {m \in Nat : m <= n => c[m] \in SplitStates}
<1>12. 0 \in S
  BY <1>1, <1>11, SplitStepTyped DEF SplitsUpTo
<1>13. ASSUME NEW m \in Nat, m \in S PROVE m + 1 \in S
  <2> SUFFICES ASSUME m + 1 <= n PROVE c[m + 1] \in SplitStates
    OBVIOUS
  <2>1. m + 1 \in 1 .. n /\ (m + 1) - 1 = m /\ c[m] \in SplitStates
    BY <1>1, <1>13
  <2> QED
    BY <1>2, <1>11, <2>1 DEF SplitsUpTo
<1>14. \A m \in Nat : m \in S
  <2> HIDE DEF S
  <2> QED BY <1>12, <1>13, Induction
<1>15. c \in [0 .. n -> SplitStates]
  BY <1>9, <1>14
<1> QED
  BY <1>5, <1>11, <1>15 DEF n

\* The quotes among the first n pieces.
QuotesUpTo(t, n) == {j \in Quotes(t) : j < n + 1}

LEMMA QuotesStep ==
  ASSUME NEW t \in Texts, NEW n \in Nat, n < Len(t)
  PROVE  /\ Cardinality(QuotesUpTo(t, 0)) = 0
         /\ Cardinality(QuotesUpTo(t, n)) \in Nat
         /\ Cardinality(QuotesUpTo(t, n + 1)) = Cardinality(QuotesUpTo(t, n)) + (IF t[n + 1] = Quote THEN 1 ELSE 0)
         /\ n + 1 \in Quoted(t) <=> t[n + 1] # Quote /\ Cardinality(QuotesUpTo(t, n)) % 2 = 1
<1>1. DOMAIN t = 1 .. Len(t) /\ Len(t) \in Nat
  BY DEF Texts
<1>2. Cardinality(QuotesUpTo(t, 0)) = 0
  <2>1. QuotesUpTo(t, 0) = {}
    BY <1>1 DEF QuotesUpTo, Quotes
  <2> QED
    BY <2>1, FS_EmptySet
<1>3. IsFiniteSet(QuotesUpTo(t, n))
  <2>1. IsFiniteSet(1 .. n) /\ QuotesUpTo(t, n) \subseteq 1 .. n
    BY <1>1, FS_Interval DEF QuotesUpTo, Quotes
  <2> QED
    BY <2>1, FS_Subset
<1>4. Cardinality(QuotesUpTo(t, n)) \in Nat
  BY <1>3, FS_CardinalityType
<1>5. CASE t[n + 1] = Quote
  <2>1. QuotesUpTo(t, n + 1) = QuotesUpTo(t, n) \cup {n + 1} /\ n + 1 \notin QuotesUpTo(t, n)
    BY <1>1, <1>5 DEF QuotesUpTo, Quotes
  <2>2. Cardinality(QuotesUpTo(t, n + 1)) = Cardinality(QuotesUpTo(t, n)) + 1
    BY <1>3, <2>1, FS_AddElement
  <2>3. n + 1 \notin Quoted(t)
    BY <1>5 DEF Quoted
  <2> QED
    BY <1>2, <1>4, <1>5, <2>2, <2>3
<1>6. CASE t[n + 1] # Quote
  <2>1. QuotesUpTo(t, n + 1) = QuotesUpTo(t, n)
    BY <1>1, <1>6 DEF QuotesUpTo, Quotes
  <2>2. n + 1 \in Quoted(t) <=> Cardinality(QuotesUpTo(t, n)) % 2 = 1
    BY <1>1, <1>6 DEF Quoted, QuotesUpTo
  <2>3. Cardinality(QuotesUpTo(t, n + 1)) = Cardinality(QuotesUpTo(t, n))
    BY <2>1
  <2>4. Cardinality(QuotesUpTo(t, n + 1)) = Cardinality(QuotesUpTo(t, n)) + 0
    BY <1>4, <2>3
  <2>5. n + 1 \in Quoted(t) <=> t[n + 1] # Quote /\ Cardinality(QuotesUpTo(t, n)) % 2 = 1
    BY <1>6, <2>2, Zenon
  <2> QED
    BY <1>2, <1>4, <1>6, <2>4, <2>5
<1> QED
  BY <1>5, <1>6

\* Where the k-th word of t begins when c are the breaks so far, and where the last does.
WordStart(c, k) == IF k = 1 THEN 1 ELSE c[k - 1] + 1

\* What split has after n pieces.
SplitSoFar(t, s, n) ==
  LET c == InOrder(WordBreaks(t), n)
  IN  /\ s.skip <=> Cardinality(QuotesUpTo(t, n)) % 2 = 1
      /\ Len(s.str_list) = Len(c)
      /\ \A k \in 1 .. Len(c) : s.str_list[k] = Unquoted(SubSeq(t, WordStart(c, k), c[k] - 1))
      /\ s.tstr = Unquoted(SubSeq(t, WordStart(c, Len(c) + 1), n))

LEMMA AppendedTyped ==
  ASSUME NEW V, NEW p \in Seq(V), NEW w \in V
  PROVE  /\ Append(p, w) \in Seq(V) /\ Len(Append(p, w)) = Len(p) + 1
         /\ \A k \in 1 .. Len(p) + 1 : Append(p, w)[k] = IF k = Len(p) + 1 THEN w ELSE p[k]
OBVIOUS

LEMMA PartGrows ==
  ASSUME NEW t \in Texts, NEW n \in Nat, n < Len(t), NEW a \in 1 .. n + 1
  PROVE  /\ SubSeq(t, a, n) \in Texts
         /\ SubSeq(t, a, n + 1) = Append(SubSeq(t, a, n), t[n + 1])
         /\ SubSeq(t, n + 1, n) = <<>>
<1> USE DEF Texts
<1>1. Len(t) \in Nat /\ n \in 0 .. Len(t) /\ n + 1 \in 0 .. Len(t) /\ a \in Nat \ {0} /\ n + 1 \in Nat \ {0}
  OBVIOUS
<1> DEFINE p == SubSeq(t, a, n)
           q == SubSeq(t, a, n + 1)
           w == t[n + 1]
<1>2. p \in Seq(Words) /\ Len(p) = n - a + 1 /\ \A k \in 1 .. Len(p) : p[k] = t[a + k - 1]
  BY <1>1, PartTyped
<1>3. q \in Seq(Words) /\ Len(q) = n + 1 - a + 1 /\ \A k \in 1 .. Len(q) : q[k] = t[a + k - 1]
  BY <1>1, PartTyped
<1>4. SubSeq(t, n + 1, n) = <<>>
  BY <1>1
<1>5. w \in Words
  BY <1>1
<1> DEFINE r == Append(p, w)
<1> HIDE DEF p, q, w
<1>6. r \in Seq(Words) /\ Len(r) = Len(p) + 1
      /\ \A k \in 1 .. Len(p) + 1 : r[k] = IF k = Len(p) + 1 THEN w ELSE p[k]
  BY <1>2, <1>5, AppendedTyped
<1> HIDE DEF r
<1>7. Len(r) = Len(q)
  BY <1>1, <1>2, <1>3, <1>6
<1>8. q = r
  <2> SUFFICES ASSUME NEW k \in 1 .. Len(q) PROVE q[k] = r[k]
    BY <1>3, <1>6, <1>7, SameText
  <2>1. CASE k = Len(p) + 1
    <3>1. a + k - 1 = n + 1
      BY <1>1, <1>2, <2>1
    <3> QED
      BY <1>3, <1>6, <1>7, <2>1, <3>1 DEF w
  <2>2. CASE k # Len(p) + 1
    <3>1. k \in 1 .. Len(p)
      BY <1>2, <1>6, <1>7, <2>2
    <3>2. r[k] = p[k]
      BY <1>6, <1>7, <2>2
    <3> QED
      BY <1>2, <1>3, <3>1, <3>2
  <2> QED
    BY <2>1, <2>2
<1> QED
  BY <1>2, <1>4, <1>8 DEF p, q, r, w

\* The last break is where the text ends if it ends in a break.
LEMMA LastWordStart ==
  ASSUME NEW P, NEW n \in Nat
  PROVE  LET c == InOrder(P, n)
             a == WordStart(c, Len(c) + 1)
         IN  /\ c \in Seq(1 .. n) /\ a \in 1 .. n + 1
             /\ a = n + 1 <=> n = 0 \/ n \in P
<1> DEFINE c == InOrder(P, n)
           a == WordStart(c, Len(c) + 1)
<1>1. c \in Seq(1 .. n)
  BY InOrderTyped
<1>2. a = (IF Len(c) = 0 THEN 1 ELSE c[Len(c)] + 1) /\ Len(c) \in Nat
  BY <1>1 DEF WordStart
<1>3. CASE n = 0
  <2>1. c = <<>>
    BY <1>3, InOrderStep
  <2> QED
    BY <1>1, <1>2, <1>3, <2>1
<1>4. CASE n # 0
  <2>1. n - 1 \in Nat /\ (n - 1) + 1 = n
    BY <1>4
  <2>2. c = IF n \in P THEN Append(InOrder(P, n - 1), n) ELSE InOrder(P, n - 1)
    <3> HIDE DEF c
    <3>1. InOrder(P, (n - 1) + 1) = IF (n - 1) + 1 \in P THEN Append(InOrder(P, n - 1), (n - 1) + 1) ELSE InOrder(P, n - 1)
      BY <2>1, InOrderStep
    <3> QED
      BY <2>1, <3>1 DEF c
  <2>3. InOrder(P, n - 1) \in Seq(1 .. n - 1)
    BY <2>1, InOrderTyped
  <2> HIDE DEF c
  <2>4. CASE n \in P
    <3>1. Len(c) # 0 /\ c[Len(c)] = n
      BY <2>2, <2>3, <2>4
    <3> QED
      BY <1>1, <1>2, <1>4, <2>4, <3>1 DEF c
  <2>5. CASE n \notin P
    <3>1. c \in Seq(1 .. n - 1)
      BY <2>2, <2>3, <2>5
    <3>2. Len(c) # 0 => c[Len(c)] \in 1 .. n - 1
      BY <3>1
    <3>3. a \in 1 .. n
      BY <1>2, <1>4, <3>2
    <3>4. a # n + 1
      BY <3>3
    <3> QED
      BY <1>1, <1>4, <2>5, <3>3, <3>4 DEF c
  <2> QED
    BY <2>4, <2>5
<1> QED
  BY <1>3, <1>4

LEMMA SplitInvStep ==
  ASSUME NEW t \in Texts, NEW n \in Nat, n < Len(t), NEW s \in SplitStates, SplitSoFar(t, s, n)
  PROVE  SplitSoFar(t, SplitStep(s, t[n + 1]), n + 1)
<1> DEFINE w == t[n + 1]
           P == WordBreaks(t)
           c == InOrder(P, n)
           d == InOrder(P, n + 1)
           a == WordStart(c, Len(c) + 1)
           u == SplitStep(s, w)
           odd(m) == Cardinality(QuotesUpTo(t, m)) % 2 = 1
<1> SUFFICES SplitSoFar(t, u, n + 1)
  OBVIOUS
<1>1. w \in Words /\ n + 1 \in DOMAIN t
  BY DEF Texts
<1>2. s.str_list \in Seq(Texts) /\ s.tstr \in Texts /\ s.skip \in BOOLEAN
  BY DEF SplitStates
<1>3. /\ s.skip <=> odd(n)
      /\ Len(s.str_list) = Len(c)
      /\ \A k \in 1 .. Len(c) : s.str_list[k] = Unquoted(SubSeq(t, WordStart(c, k), c[k] - 1))
      /\ s.tstr = Unquoted(SubSeq(t, a, n))
  BY DEF SplitSoFar
<1>4. c \in Seq(1 .. n) /\ a \in 1 .. n + 1 /\ d = IF n + 1 \in P THEN Append(c, n + 1) ELSE c
  BY LastWordStart, InOrderStep
<1>5. /\ odd(n + 1) <=> (odd(n) <=> w # Quote)
      /\ n + 1 \in P <=> w = Blank /\ ~ s.skip
  <2>1. /\ Cardinality(QuotesUpTo(t, n)) \in Nat
        /\ Cardinality(QuotesUpTo(t, n + 1)) = Cardinality(QuotesUpTo(t, n)) + (IF w = Quote THEN 1 ELSE 0)
        /\ n + 1 \in Quoted(t) <=> w # Quote /\ odd(n)
    BY QuotesStep
  <2>2. odd(n + 1) <=> (odd(n) <=> w # Quote)
    BY <2>1
  <2>3. n + 1 \in P <=> w = Blank /\ n + 1 \notin Quoted(t)
    BY <1>1 DEF WordBreaks
  <2>4. Blank # Quote
    BY DEF Blank, Quote
  <2>5. n + 1 \in P <=> w = Blank /\ ~ s.skip
    <3> HIDE DEF odd, w, P, c, a
    <3> QED BY <1>3, <2>1, <2>3, <2>4
  <2> QED
    BY <2>2, <2>5
<1>6. /\ SubSeq(t, a, n) \in Texts
      /\ SubSeq(t, a, n + 1) = Append(SubSeq(t, a, n), w)
  <2> HIDE DEF a
  <2> QED BY <1>4, PartGrows
<1>7. Unquoted(SubSeq(t, a, n + 1)) = IF w = Quote THEN s.tstr ELSE Append(s.tstr, w)
  <2> DEFINE p == SubSeq(t, a, n)
  <2>1. p \in Texts /\ SubSeq(t, a, n + 1) = Append(p, w) /\ s.tstr = Unquoted(p)
    BY <1>3, <1>6
  <2> HIDE DEF a, w, c, p
  <2>2. Unquoted(Append(p, w)) = IF w = Quote THEN Unquoted(p) ELSE Append(Unquoted(p), w)
    BY <1>1, <2>1, UnquotedStep
  <2> QED BY <2>1, <2>2, Zenon
<1>8. SplitSoFar(t, u, n + 1) <=>
        /\ u.skip <=> odd(n + 1)
        /\ Len(u.str_list) = Len(d)
        /\ \A k \in 1 .. Len(d) : u.str_list[k] = Unquoted(SubSeq(t, WordStart(d, k), d[k] - 1))
        /\ u.tstr = Unquoted(SubSeq(t, WordStart(d, Len(d) + 1), n + 1))
  BY DEF SplitSoFar
<1>9. CASE w = Quote
  <2>1. u = [s EXCEPT !.skip = ~ s.skip]
    BY <1>9 DEF SplitStep, Quote, Blank
  <2>2. u.skip = (~ s.skip) /\ u.str_list = s.str_list /\ u.tstr = s.tstr
    BY <2>1 DEF SplitStates
  <2>3. d = c
    BY <1>4, <1>5, <1>9 DEF Quote, Blank
  <2>4. u.skip <=> odd(n + 1)
    <3> HIDE DEF odd, u, w, c, a, d, P
    <3> QED BY <1>3, <1>5, <1>9, <2>2
  <2>5. u.tstr = Unquoted(SubSeq(t, a, n + 1))
    BY <1>7, <1>9, <2>2
  <2> HIDE DEF u, d, c, a, w, odd
  <2> QED
    BY <1>3, <1>8, <2>2, <2>3, <2>4, <2>5 DEF a
<1>10. CASE w # Quote /\ w = Blank /\ ~ s.skip
  <2>1. u = [s EXCEPT !.str_list = Append(s.str_list, s.tstr), !.tstr = <<>>]
    BY <1>10 DEF SplitStep
  <2>2. u.skip = s.skip /\ u.str_list = Append(s.str_list, s.tstr) /\ u.tstr = <<>>
    BY <2>1 DEF SplitStates
  <2>3. d = Append(c, n + 1)
    <3> HIDE DEF P, c, d, a, w
    <3> QED BY <1>4, <1>5, <1>10
  <2>4. u.skip <=> odd(n + 1)
    <3> HIDE DEF odd, u, w, c, a, d, P
    <3> QED BY <1>3, <1>5, <1>10, <2>2
  <2> HIDE DEF u, d, P, c, a, w, odd
  <2>5. Len(c) \in Nat /\ Len(d) = Len(c) + 1 /\ d[Len(c) + 1] = n + 1 /\ \A k \in 1 .. Len(c) : d[k] = c[k]
    BY <1>4, <2>3
  <2>6. \A k \in 1 .. Len(c) + 1 : WordStart(d, k) = WordStart(c, k)
    BY <2>5 DEF WordStart
  <2>7. Len(u.str_list) = Len(d) /\ u.str_list[Len(c) + 1] = s.tstr
        /\ \A k \in 1 .. Len(c) : u.str_list[k] = s.str_list[k]
    BY <1>2, <1>3, <2>2, <2>5
  <2>8. ASSUME NEW k \in 1 .. Len(d)
        PROVE  u.str_list[k] = Unquoted(SubSeq(t, WordStart(d, k), d[k] - 1))
    <3>1. CASE k \in 1 .. Len(c)
      BY <1>3, <2>5, <2>6, <2>7, <3>1
    <3>2. CASE k = Len(c) + 1
      <4>1. WordStart(d, k) = a /\ d[k] - 1 = n /\ u.str_list[k] = s.tstr
        BY <2>5, <2>6, <2>7, <3>2 DEF a
      <4> QED
        BY <1>3, <4>1
    <3> QED
      BY <2>5, <3>1, <3>2
  <2>9. u.tstr = Unquoted(SubSeq(t, WordStart(d, Len(d) + 1), n + 1))
    <3>1. WordStart(d, Len(d) + 1) = (n + 1) + 1
      BY <2>5 DEF WordStart
    <3>2. SubSeq(t, (n + 1) + 1, n + 1) = <<>>
      BY DEF Texts
    <3> QED
      BY <2>2, <3>1, <3>2, UnquotedStep
  <2> QED
    BY <1>8, <2>4, <2>7, <2>8, <2>9
<1>11. CASE w # Quote /\ ~ (w = Blank /\ ~ s.skip)
  <2>1. u = [s EXCEPT !.tstr = Append(s.tstr, w)]
    BY <1>11 DEF SplitStep
  <2>2. u.skip = s.skip /\ u.str_list = s.str_list /\ u.tstr = Append(s.tstr, w)
    BY <2>1 DEF SplitStates
  <2>3. d = c
    <3> HIDE DEF P, c, d, a, w
    <3> QED BY <1>4, <1>5, <1>11
  <2>4. u.skip <=> odd(n + 1)
    <3> HIDE DEF odd, u, w, c, a, d, P
    <3> QED BY <1>3, <1>5, <1>11, <2>2
  <2>5. u.tstr = Unquoted(SubSeq(t, a, n + 1))
    BY <1>7, <1>11, <2>2
  <2> HIDE DEF u, d, c, a, w, odd
  <2> QED
    BY <1>3, <1>8, <2>2, <2>3, <2>4, <2>5 DEF a
<1> QED
  BY <1>9, <1>10, <1>11

(* The arguments split makes of any text are its words.                    *)
LEMMA SplitIsArguments ==
  ASSUME NEW t \in Texts
  PROVE  split(t) = Arguments(t)
<1> DEFINE n == Len(t)
           P == WordBreaks(t)
           c == InOrder(P, n)
           a == WordStart(c, Len(c) + 1)
           b == <<0>> \o c \o <<n + 1>>
           chunks == Chunks(t, P)
           words == IF Last(chunks) = <<>> THEN Front(chunks) ELSE chunks
<1>1. n \in Nat /\ DOMAIN t = 1 .. n /\ (t = <<>> <=> n = 0)
  BY DEF Texts
<1>2. PICK f \in [0 .. n -> SplitStates] : SplitsUpTo(f, t, n) /\ split(t) = SplitEnd(f[n], t)
  BY SplitUnfolds
<1>3. SplitSoFar(t, f[n], n)
  <2> DEFINE S == {m \in Nat : m <= n => SplitSoFar(t, f[m], m)}
  <2>1. 0 \in S
    <3>1. InOrder(P, 0) = <<>> /\ Cardinality(QuotesUpTo(t, 0)) = 0
      <4>1. QuotesUpTo(t, 0) = {}
        BY <1>1 DEF QuotesUpTo, Quotes
      <4> QED
        BY <4>1, InOrderStep, FS_EmptySet
    <3>2. f[0].skip = FALSE /\ f[0].str_list = <<>> /\ f[0].tstr = <<>>
      BY <1>2 DEF SplitsUpTo, SplitStart
    <3>3. SubSeq(t, WordStart(<<>>, Len(<<>>) + 1), 0) = <<>>
      BY DEF WordStart, Texts
    <3> HIDE DEF P
    <3>4. SplitSoFar(t, f[0], 0)
      <4>1. Len(<<>>) = 0 /\ 0 % 2 # 1
        OBVIOUS
      <4>2. f[0].tstr = Unquoted(SubSeq(t, WordStart(<<>>, Len(<<>>) + 1), 0))
        BY <3>2, <3>3, UnquotedStep
      <4>3. f[0].skip <=> Cardinality(QuotesUpTo(t, 0)) % 2 = 1
        BY <3>1, <3>2, <4>1
      <4> QED
        BY <3>1, <3>2, <4>1, <4>2, <4>3 DEF SplitSoFar, P
    <3> QED
      BY <3>4
  <2>2. ASSUME NEW m \in Nat, m \in S PROVE m + 1 \in S
    <3> SUFFICES ASSUME m + 1 <= n PROVE SplitSoFar(t, f[m + 1], m + 1)
      OBVIOUS
    <3>1. m + 1 \in 1 .. n /\ (m + 1) - 1 = m /\ m < n /\ m \in 0 .. n /\ SplitSoFar(t, f[m], m)
      BY <1>1, <2>2
    <3>2. f[m + 1] = SplitStep(f[m], t[m + 1]) /\ f[m] \in SplitStates
      BY <1>2, <3>1 DEF SplitsUpTo
    <3> QED
      BY <3>1, <3>2, SplitInvStep
  <2>3. n \in S
    <3> HIDE DEF S, n
    <3> QED BY <1>1, <2>1, <2>2, Induction
  <2> QED
    BY <1>1, <2>3
<1> DEFINE s == f[n]
<1>4. s \in SplitStates
  BY <1>1, <1>2
<1>5. /\ s.skip <=> Cardinality(QuotesUpTo(t, n)) % 2 = 1
      /\ Len(s.str_list) = Len(c)
      /\ \A k \in 1 .. Len(c) : s.str_list[k] = Unquoted(SubSeq(t, WordStart(c, k), c[k] - 1))
      /\ s.tstr = Unquoted(SubSeq(t, a, n))
  BY <1>3 DEF SplitSoFar
<1>6. c \in Seq(1 .. n) /\ a \in 1 .. n + 1 /\ (a = n + 1 <=> n = 0 \/ n \in P)
  BY <1>1, LastWordStart
<1>7. n # 0 => (n \in P <=> Last(t) = Blank /\ ~ s.skip)
  <2> SUFFICES ASSUME n # 0 PROVE n \in P <=> t[n] = Blank /\ ~ s.skip
    BY DEF Last
  <2>1. n - 1 \in Nat /\ n - 1 < Len(t) /\ (n - 1) + 1 = n
    BY <1>1
  <2>2. /\ Cardinality(QuotesUpTo(t, n - 1)) \in Nat
        /\ Cardinality(QuotesUpTo(t, n)) = Cardinality(QuotesUpTo(t, n - 1)) + (IF t[n] = Quote THEN 1 ELSE 0)
        /\ n \in Quoted(t) <=> t[n] # Quote /\ Cardinality(QuotesUpTo(t, n - 1)) % 2 = 1
    <3> HIDE DEF n
    <3>1. /\ Cardinality(QuotesUpTo(t, n - 1)) \in Nat
          /\ Cardinality(QuotesUpTo(t, (n - 1) + 1))
               = Cardinality(QuotesUpTo(t, n - 1)) + (IF t[(n - 1) + 1] = Quote THEN 1 ELSE 0)
          /\ (n - 1) + 1 \in Quoted(t) <=> t[(n - 1) + 1] # Quote /\ Cardinality(QuotesUpTo(t, n - 1)) % 2 = 1
      BY <2>1, QuotesStep
    <3> QED
      BY <2>1, <3>1
  <2>3. n \in P <=> t[n] = Blank /\ n \notin Quoted(t)
    BY <1>1 DEF WordBreaks
  <2>4. Blank # Quote
    BY DEF Blank, Quote
  <2>5. CASE t[n] = Blank
    <3>1. Cardinality(QuotesUpTo(t, n)) = Cardinality(QuotesUpTo(t, n - 1))
      BY <2>2, <2>4, <2>5
    <3> HIDE DEF s, P, n
    <3> QED BY <1>5, <2>2, <2>3, <2>4, <2>5, <3>1
  <2> QED
    BY <2>3, <2>5
<1>8. chunks = [k \in 1 .. Len(b) - 1 |-> SubSeq(t, b[k] + 1, b[k + 1] - 1)]
  BY DEF Chunks
<1>9. Arguments(t) = [k \in DOMAIN words |-> Unquoted(words[k])]
  BY DEF Arguments
<1>10. Len(c) \in Nat /\ \A k \in 1 .. Len(c) : c[k] \in 1 .. n
  BY <1>1, <1>6
<1>11. /\ Len(b) = Len(c) + 2 /\ b[Len(c) + 2] = n + 1 /\ b[1] = 0
       /\ \A k \in 1 .. Len(c) : b[k + 1] = c[k]
  <2> HIDE DEF c, n, P
  <2> QED BY <1>1, <1>6, <1>10
<1> HIDE DEF b, chunks, c, P, a, s
<1>12. /\ DOMAIN chunks = 1 .. Len(c) + 1
       /\ \A k \in 1 .. Len(c) : chunks[k] = SubSeq(t, WordStart(c, k), c[k] - 1)
       /\ chunks[Len(c) + 1] = SubSeq(t, a, n)
  <2>1. \A k \in 1 .. Len(c) + 1 : b[k] + 1 = WordStart(c, k)
    <3> SUFFICES ASSUME NEW k \in 1 .. Len(c) + 1 PROVE b[k] + 1 = WordStart(c, k)
      OBVIOUS
    <3>1. CASE k = 1
      BY <1>11, <3>1 DEF WordStart
    <3>2. CASE k # 1
      <4>1. k - 1 \in 1 .. Len(c) /\ (k - 1) + 1 = k
        BY <1>10, <3>2
      <4>2. b[k] = c[k - 1]
        BY <1>11, <4>1
      <4> QED
        BY <3>2, <4>2 DEF WordStart
    <3> QED
      BY <3>1, <3>2
  <2>2. ASSUME NEW k \in 1 .. Len(c) + 1
        PROVE  chunks[k] = SubSeq(t, WordStart(c, k), b[k + 1] - 1)
    <3>1. k \in 1 .. Len(b) - 1
      BY <1>10, <1>11
    <3>2. chunks[k] = SubSeq(t, b[k] + 1, b[k + 1] - 1)
      BY <1>8, <3>1, Zenon
    <3>3. b[k] + 1 = WordStart(c, k)
      BY <2>1
    <3> QED
      BY <3>2, <3>3, Zenon
  <2>3. chunks[Len(c) + 1] = SubSeq(t, a, n)
    <3>1. chunks[Len(c) + 1] = SubSeq(t, WordStart(c, Len(c) + 1), b[(Len(c) + 1) + 1] - 1)
      BY <1>10, <2>2
    <3>2. b[(Len(c) + 1) + 1] - 1 = n
      BY <1>1, <1>10, <1>11
    <3> QED
      BY <3>1, <3>2 DEF a
  <2>4. DOMAIN chunks = 1 .. Len(c) + 1
    BY <1>8, <1>10, <1>11
  <2>5. ASSUME NEW k \in 1 .. Len(c) PROVE chunks[k] = SubSeq(t, WordStart(c, k), c[k] - 1)
    BY <1>10, <1>11, <2>2
  <2> QED
    BY <2>3, <2>4, <2>5
<1>13. chunks \in Seq(Texts) /\ Len(chunks) = Len(c) + 1 /\ Last(chunks) = SubSeq(t, a, n)
  <2>1. chunks \in Seq(Texts)
    BY ChunksTyped DEF chunks
  <2>2. Len(chunks) = Len(c) + 1
    BY <1>10, <1>12, <2>1
  <2> QED
    BY <1>12, <2>1, <2>2 DEF Last
<1>14. Last(chunks) = <<>> <=> n = 0 \/ n \in P
  <2>1. Len(SubSeq(t, a, n)) = IF a <= n THEN n - a + 1 ELSE 0
    BY <1>1, <1>6, PartTyped DEF Texts
  <2>2. SubSeq(t, a, n) \in Seq(Words)
    BY <1>1, <1>6, PartTyped DEF Texts
  <2>3. SubSeq(t, a, n) = <<>> <=> Len(SubSeq(t, a, n)) = 0
    BY <2>2
  <2>4. Len(SubSeq(t, a, n)) = 0 <=> a = n + 1
    BY <1>1, <1>6, <2>1
  <2> QED
    BY <1>6, <1>13, <2>3, <2>4, Zenon
<1>15. s.str_list \in Seq(Texts) /\ s.tstr \in Texts
  BY <1>4 DEF SplitStates
<1>16. CASE n = 0 \/ n \in P
  <2>1. split(t) = s.str_list
    BY <1>1, <1>2, <1>7, <1>16 DEF SplitEnd, s
  <2>2. words = Front(chunks)
    BY <1>14, <1>16
  <2>3. DOMAIN words = 1 .. Len(c) /\ \A k \in 1 .. Len(c) : words[k] = chunks[k]
    <3>1. Front(chunks) = SubSeq(chunks, 1, Len(chunks) - 1)
      BY DEF Front
    <3>2. Len(chunks) - 1 \in 0 .. Len(chunks) /\ Len(chunks) - 1 = Len(c)
      BY <1>10, <1>13
    <3>3. /\ SubSeq(chunks, 1, Len(c)) \in Seq(Texts)
          /\ Len(SubSeq(chunks, 1, Len(c))) = Len(c)
          /\ \A k \in 1 .. Len(c) : SubSeq(chunks, 1, Len(c))[k] = chunks[k]
      BY <1>10, <1>13
    <3> QED
      BY <1>10, <2>2, <3>1, <3>2, <3>3
  <2> HIDE DEF words
  <2>4. Arguments(t) = [k \in 1 .. Len(c) |-> s.str_list[k]]
    <3>1. ASSUME NEW k \in 1 .. Len(c) PROVE Unquoted(words[k]) = s.str_list[k]
      <4>1. words[k] = SubSeq(t, WordStart(c, k), c[k] - 1)
        BY <1>12, <2>3
      <4>2. s.str_list[k] = Unquoted(SubSeq(t, WordStart(c, k), c[k] - 1))
        BY <1>5, Zenon
      <4> QED
        BY <4>1, <4>2, Zenon
    <3> QED
      BY <1>9, <2>3, <3>1
  <2>5. s.str_list = [k \in 1 .. Len(c) |-> s.str_list[k]]
    BY <1>5, <1>15
  <2> QED
    BY <2>1, <2>4, <2>5
<1>17. CASE ~ (n = 0 \/ n \in P)
  <2>1. split(t) = Append(s.str_list, s.tstr)
    BY <1>1, <1>2, <1>7, <1>17 DEF SplitEnd, s
  <2>2. words = chunks
    BY <1>14, <1>17
  <2> DEFINE l == s.str_list
             r == Append(l, s.tstr)
  <2>3. r \in Seq(Texts) /\ Len(r) = Len(c) + 1 /\ r[Len(c) + 1] = s.tstr /\ \A k \in 1 .. Len(c) : r[k] = l[k]
    <3>1. l \in Seq(Texts) /\ Len(l) = Len(c)
      BY <1>5, <1>15
    <3> HIDE DEF l
    <3> QED BY <1>10, <1>15, <3>1 DEF r
  <2> HIDE DEF words, r
  <2>4. r = [k \in 1 .. Len(c) + 1 |-> r[k]]
    BY <1>10, <2>3
  <2>5. \A k \in 1 .. Len(c) + 1 : Unquoted(chunks[k]) = r[k]
    <3>1. ASSUME NEW k \in 1 .. Len(c) PROVE Unquoted(chunks[k]) = r[k]
      <4>1. chunks[k] = SubSeq(t, WordStart(c, k), c[k] - 1)
        BY <1>12, Zenon
      <4>2. s.str_list[k] = Unquoted(SubSeq(t, WordStart(c, k), c[k] - 1))
        BY <1>5, Zenon
      <4>3. r[k] = s.str_list[k]
        BY <2>3
      <4> QED
        BY <4>1, <4>2, <4>3, Zenon
    <3>2. Unquoted(chunks[Len(c) + 1]) = r[Len(c) + 1]
      BY <1>5, <1>12, <2>3, Zenon
    <3> QED
      BY <1>10, <3>1, <3>2
  <2>6. Arguments(t) = [k \in 1 .. Len(c) + 1 |-> r[k]]
    BY <1>9, <1>12, <2>2, <2>5
  <2> QED
    BY <2>1, <2>4, <2>6 DEF r
<1> QED
  BY <1>16, <1>17

-----------------------------------------------------------------------------
(* What write_alias saves.                                                 *)

\* Short sequences.
LEMMA PairAppended ==
  ASSUME NEW V, NEW a \in V, NEW b \in V
  PROVE  Append(<<a>>, b) = <<a, b>>
<1> DEFINE s == Append(<<a>>, b)
           t == <<a, b>>
<1>1. s \in Seq(V) /\ t \in Seq(V) /\ Len(s) = 2 /\ Len(t) = 2
  OBVIOUS
<1>2. s[1] = t[1] /\ s[2] = t[2]
  OBVIOUS
<1> HIDE DEF s, t
<1>3. \A k \in 1 .. 2 : s[k] = t[k]
  BY <1>2
<1>4. s = t
  BY <1>1, <1>3, SameText
<1> QED
  BY <1>4 DEF s, t

LEMMA TripleJoined ==
  ASSUME NEW V, NEW a \in V, NEW b \in V, NEW c \in V
  PROVE  <<a>> \o <<b, c>> = <<a, b, c>>
<1> DEFINE s == <<a>> \o <<b, c>>
           t == <<a, b, c>>
<1>1. s \in Seq(V) /\ t \in Seq(V) /\ Len(s) = 3 /\ Len(t) = 3
  OBVIOUS
<1>2. s[1] = t[1] /\ s[2] = t[2] /\ s[3] = t[3]
  OBVIOUS
<1> HIDE DEF s, t
<1>3. \A k \in 1 .. 3 : s[k] = t[k]
  BY <1>2
<1>4. s = t
  BY <1>1, <1>3, SameText
<1> QED
  BY <1>4 DEF s, t

LEMMA ThreeJoined ==
  ASSUME NEW V, NEW a \in V, NEW b \in V, NEW c \in V
  PROVE  LET t == <<a>> \o <<b>> \o <<c>> IN Len(t) = 3 /\ t[1] = a /\ t[2] = b /\ t[3] = c
OBVIOUS

LEMMA InOrderOne ==
  ASSUME NEW n \in Nat, NEW e \in 1 .. n
  PROVE  InOrder({e}, n) = <<e>>
<1> DEFINE S == {m \in Nat : InOrder({e}, m) = IF m < e THEN <<>> ELSE <<e>>}
<1>1. 0 \in S
  BY InOrderStep
<1>2. ASSUME NEW m \in Nat, m \in S PROVE m + 1 \in S
  <2>1. InOrder({e}, m + 1) = IF m + 1 \in {e} THEN Append(InOrder({e}, m), m + 1) ELSE InOrder({e}, m)
    BY InOrderStep
  <2>2. CASE m + 1 = e
    <3>1. InOrder({e}, m) = <<>>
      BY <1>2, <2>2
    <3> QED
      BY <2>1, <2>2, <3>1
  <2>3. CASE m + 1 # e
    <3>1. InOrder({e}, m + 1) = InOrder({e}, m)
      BY <2>1, <2>3
    <3>2. m < e <=> m + 1 < e
      BY <2>3
    <3> QED
      BY <1>2, <3>1, <3>2
  <2> QED
    BY <2>2, <2>3
<1>3. n \in S
  <2> HIDE DEF S
  <2> QED BY <1>1, <1>2, Induction
<1> QED
  BY <1>3

LEMMA InOrderMore ==
  ASSUME NEW P, NEW n \in Nat, NEW m, m = n + 1, m \in P
  PROVE  InOrder(P, m) = Append(InOrder(P, n), m)
BY InOrderStep

LEMMA BothKept ==
  ASSUME NEW x \in Texts, NEW y \in Texts, x # <<>>, y # <<>>
  PROVE  NonEmpty(<<x, y>>) = <<x, y>>
<1> DEFINE both == <<x, y>>
           P == {k \in DOMAIN both : both[k] # <<>>}
<1>1. 1 \in P /\ 2 \in P /\ Len(both) = 2 /\ both[1] = x /\ both[2] = y
  OBVIOUS
<1>2. InOrder(P, 2) = <<1, 2>>
  <2> HIDE DEF P
  <2>1. InOrder(P, 0) = <<>>
    BY 0 \in Nat, InOrderStep
  <2>2. InOrder(P, 1) = Append(InOrder(P, 0), 1)
    BY <1>1, 0 \in Nat, 1 = 0 + 1, InOrderMore
  <2>3. InOrder(P, 2) = Append(InOrder(P, 1), 2)
    BY <1>1, 1 \in Nat, 2 = 1 + 1, InOrderMore
  <2>4. Append(<<>>, 1) = <<1>>
    OBVIOUS
  <2>5. Append(<<1>>, 2) = <<1, 2>>
    BY 1 \in Int, 2 \in Int, PairAppended
  <2> QED
    BY <2>1, <2>2, <2>3, <2>4, <2>5
<1>3. NonEmpty(both) = [k \in DOMAIN <<1, 2>> |-> both[<<1, 2>>[k]]]
  <2> HIDE DEF both
  <2> QED BY <1>1, <1>2 DEF NonEmpty, Picked, P
<1> HIDE DEF P
<1> QED
  BY <1>3

\* A line that sets one name is split at its equals sign.
AliasText(w, x, y) == <<w, Blank>> \o x \o <<"=">> \o y
Unequal(x) == \A i \in DOMAIN x : x[i] # "="

Consists(t, w, x, y) ==
  /\ t \in Texts /\ Len(t) = Len(x) + Len(y) + 3 /\ Len(x) \in Nat /\ Len(y) \in Nat
  /\ t[1] = w /\ t[2] = Blank /\ t[Len(x) + 3] = "="
  /\ \A i \in 1 .. Len(x) : t[i + 2] = x[i]
  /\ \A i \in 1 .. Len(y) : t[Len(x) + 3 + i] = y[i]

LEMMA AliasTextPlaces ==
  ASSUME NEW w \in Words, NEW x \in Texts, NEW y \in Texts
  PROVE  Consists(AliasText(w, x, y), w, x, y)
BY DEF AliasText, Consists, Texts, Words

LEMMA AliasTextSplit ==
  ASSUME NEW w \in Words, NEW x \in Texts, NEW y \in Texts, x # <<>>, y # <<>>, Unequal(x), Unequal(y)
  PROVE  aliasCmd(AliasText(w, x, y)) = <<<<w>>, Dequoted(x), Dequoted(y)>>
<1> DEFINE t == AliasText(w, x, y)
           n == Len(t)
           rest == SubSeq(t, 3, n)
           m == Len(rest)
           e == Len(x) + 1
           E == {i \in DOMAIN rest : rest[i] = "="}
           c == <<0>> \o InOrder(E, m) \o <<m + 1>>
<1>1. /\ t \in Texts /\ n = Len(x) + Len(y) + 3 /\ Len(x) \in Nat /\ Len(y) \in Nat
      /\ t[1] = w /\ t[2] = Blank /\ t[Len(x) + 3] = "="
      /\ \A i \in 1 .. Len(x) : t[i + 2] = x[i]
      /\ \A i \in 1 .. Len(y) : t[Len(x) + 3 + i] = y[i]
  <2>1. Consists(t, w, x, y)
    BY AliasTextPlaces
  <2> HIDE DEF t
  <2> QED BY <2>1 DEF Consists
<1> HIDE DEF t
<1>2. rest \in Texts /\ m = Len(x) + Len(y) + 1 /\ \A k \in 1 .. m : rest[k] = t[k + 2]
  <2>1. /\ rest \in Seq(Words) /\ Len(rest) = (IF 3 <= n THEN n - 3 + 1 ELSE 0)
        /\ \A k \in 1 .. Len(rest) : rest[k] = t[3 + k - 1]
    <3>1. n \in 0 .. Len(t) /\ t \in Seq(Words) /\ 3 \in Nat \ {0}
      BY <1>1 DEF Texts
    <3> HIDE DEF n
    <3> QED BY <3>1, PartTyped
  <2> QED
    BY <1>1, <2>1 DEF Texts
<1> HIDE DEF rest, n
<1>3. m \in Nat /\ DOMAIN rest = 1 .. m
  BY <1>1, <1>2 DEF Texts
<1>4. E = {e}
  <2>1. ASSUME NEW i \in 1 .. m PROVE rest[i] = "=" <=> i = e
    <3>1. rest[i] = t[i + 2]
      BY <1>2
    <3>2. CASE i \in 1 .. Len(x)
      BY <1>1, <3>1, <3>2 DEF Unequal, Texts
    <3>3. CASE i = e
      BY <1>1, <3>1, <3>3
    <3>4. CASE i > e
      <4>1. i - e \in 1 .. Len(y) /\ Len(x) + 3 + (i - e) = i + 2
        BY <1>1, <1>2, <3>4
      <4>2. t[i + 2] = y[i - e]
        BY <1>1, <4>1
      <4> QED
        BY <1>1, <3>1, <3>4, <4>1, <4>2 DEF Unequal, Texts
    <3> QED
      BY <1>1, <3>2, <3>3, <3>4
  <2>2. e \in 1 .. m
    BY <1>1, <1>2
  <2> QED
    BY <1>3, <2>1, <2>2
<1>5. InOrder(E, m) = <<e>>
  <2>1. e \in 1 .. m
    BY <1>1, <1>2
  <2> HIDE DEF m, e, E
  <2> QED BY <1>3, <1>4, <2>1, InOrderOne
<1>6. Len(c) = 3 /\ c[1] = 0 /\ c[2] = e /\ c[3] = m + 1
  <2>1. 0 \in Int /\ e \in Int /\ m + 1 \in Int
    BY <1>1, <1>3
  <2> HIDE DEF e, m, E
  <2>2. c = <<0>> \o <<e>> \o <<m + 1>>
    BY <1>5
  <2> QED
    BY <2>1, <2>2, ThreeJoined
<1>7. Chunks(rest, E) = [k \in 1 .. Len(c) - 1 |-> SubSeq(rest, c[k] + 1, c[k + 1] - 1)]
  BY DEF Chunks
<1>8. SubSeq(rest, 1, e - 1) = x
  <2> DEFINE q == SubSeq(rest, 1, e - 1)
  <2>1. q \in Seq(Words) /\ Len(q) = Len(x) /\ \A k \in 1 .. Len(q) : q[k] = rest[1 + k - 1]
    BY <1>1, <1>2, PartTyped DEF Texts
  <2> HIDE DEF q
  <2>2. ASSUME NEW k \in 1 .. Len(q) PROVE q[k] = x[k]
    <3>1. k \in 1 .. m /\ 1 + k - 1 = k /\ k \in 1 .. Len(x)
      BY <1>1, <1>2, <2>1
    <3> QED
      BY <1>1, <1>2, <2>1, <3>1
  <2>3. q = x
    BY <2>1, <2>2, SameText DEF Texts
  <2> QED
    BY <2>3 DEF q
<1>9. SubSeq(rest, e + 1, m) = y
  <2> DEFINE q == SubSeq(rest, e + 1, m)
  <2>1. q \in Seq(Words) /\ Len(q) = Len(y) /\ \A k \in 1 .. Len(q) : q[k] = rest[e + 1 + k - 1]
    BY <1>1, <1>2, PartTyped DEF Texts
  <2> HIDE DEF q
  <2>2. ASSUME NEW k \in 1 .. Len(q) PROVE q[k] = y[k]
    <3>1. e + 1 + k - 1 \in 1 .. m /\ (e + 1 + k - 1) + 2 = Len(x) + 3 + k
      BY <1>1, <1>2, <2>1
    <3> QED
      BY <1>1, <1>2, <2>1, <3>1
  <2>3. q = y
    BY <2>1, <2>2, SameText DEF Texts
  <2> QED
    BY <2>3 DEF q
<1>10. Chunks(rest, E) = <<x, y>>
  <2> DEFINE f == [k \in 1 .. Len(c) - 1 |-> SubSeq(rest, c[k] + 1, c[k + 1] - 1)]
  <2> HIDE DEF c, E
  <2>1. c[1] + 1 = 1 /\ c[1 + 1] - 1 = e - 1 /\ c[2] + 1 = e + 1 /\ c[2 + 1] - 1 = m
    BY <1>1, <1>3, <1>6
  <2>2. 1 .. Len(c) - 1 = {1, 2}
    BY <1>6
  <2>3. f[1] = x /\ f[2] = y
    BY <1>8, <1>9, <2>1, <2>2
  <2>4. f = [k \in {1, 2} |-> f[k]]
    BY <2>2
  <2> HIDE DEF f
  <2>5. f = <<x, y>>
    <3>1. f = [k \in 1 .. 2 |-> <<x, y>>[k]]
      BY <2>3, <2>4
    <3> QED
      BY <3>1
  <2> QED
    BY <1>7, <2>5 DEF f
<1>11. NonEmpty(Chunks(rest, E)) = <<x, y>>
  BY <1>10, BothKept
<1>12. aliasCmd(t) = <<<<w>>>> \o [k \in DOMAIN <<x, y>> |-> Dequoted(<<x, y>>[k])]
  BY <1>1, <1>11 DEF aliasCmd, rest, n
<1>13. aliasCmd(t) = <<<<w>>>> \o <<Dequoted(x), Dequoted(y)>>
  BY <1>12
<1>14. <<<<w>>>> \o <<Dequoted(x), Dequoted(y)>> = <<<<w>>, Dequoted(x), Dequoted(y)>>
  <2>1. <<w>> \in Texts /\ Dequoted(x) \in Texts /\ Dequoted(y) \in Texts
    BY DequotedTyped DEF Texts
  <2> QED
    BY <2>1, TripleJoined
<1> QED
  BY <1>13, <1>14 DEF t

\* A text with words at both ends is clean, and a clean text ends in a word.
LEMMA CleanIsSame ==
  ASSUME NEW t \in Texts, t # <<>>, t[1] # Blank, t[Len(t)] # Blank
  PROVE  cleanCmd(t) = t
<1> DEFINE words == {i \in DOMAIN t : t[i] # Blank}
           n == Len(t)
<1>1. DOMAIN t = 1 .. n /\ n \in Nat \ {0} /\ t \in Seq(Words)
  BY DEF Texts
<1>2. 1 \in words /\ n \in words /\ words \subseteq Nat /\ \A i \in words : 1 <= i /\ i <= n
  BY <1>1
<1>3. cleanCmd(t) = SubSeq(t, Min(words), Max(words))
  BY <1>2 DEF cleanCmd
<1> HIDE DEF words
<1>4. Min(words) = 1
  <2>1. Min(words) \in words /\ \A i \in words : Min(words) <= i
    BY <1>2, MinIsLeast
  <2>2. Min(words) \in Nat /\ 1 <= Min(words) /\ Min(words) <= 1
    BY <1>2, <2>1
  <2> QED
    BY <2>2
<1>5. Max(words) = n
  <2>1. Max(words) \in words /\ \A i \in words : Max(words) >= i
    BY <1>1, <1>2, MaxIsGreatest
  <2>2. Max(words) \in Nat /\ Max(words) <= n /\ Max(words) >= n
    BY <1>1, <1>2, <2>1
  <2> QED
    BY <1>1, <2>2
<1>6. SubSeq(t, 1, n) = t
  BY <1>1
<1> QED
  BY <1>3, <1>4, <1>5, <1>6

LEMMA CleanEnds ==
  ASSUME NEW t \in Texts, cleanCmd(t) # <<>>
  PROVE  cleanCmd(t)[Len(cleanCmd(t))] # Blank
<1> DEFINE words == {i \in DOMAIN t : t[i] # Blank}
           a == Min(words)
           b == Max(words)
<1>1. words # {}
  BY DEF cleanCmd
<1>2. cleanCmd(t) = SubSeq(t, a, b)
  BY <1>1 DEF cleanCmd
<1>3. DOMAIN t = 1 .. Len(t) /\ Len(t) \in Nat /\ t \in Seq(Words)
  BY DEF Texts
<1>4. words \subseteq Nat /\ \A i \in words : i \in 1 .. Len(t) /\ i <= Len(t) /\ t[i] # Blank
  BY <1>3
<1> HIDE DEF words
<1>5. a \in words /\ b \in words /\ a <= b
  BY <1>1, <1>3, <1>4, MinIsLeast, MaxIsGreatest
<1> HIDE DEF a, b
<1>6. /\ Len(SubSeq(t, a, b)) = b - a + 1
      /\ \A k \in 1 .. Len(SubSeq(t, a, b)) : SubSeq(t, a, b)[k] = t[a + k - 1]
  <2>1. a \in Nat \ {0} /\ b \in 0 .. Len(t)
    BY <1>3, <1>4, <1>5
  <2> QED
    BY <1>3, <1>5, <2>1, PartTyped
<1>7. b - a + 1 \in 1 .. Len(SubSeq(t, a, b)) /\ a + (b - a + 1) - 1 = b
  BY <1>4, <1>5, <1>6
<1> QED
  BY <1>2, <1>4, <1>5, <1>6, <1>7

\* What an alias is set to: the quotes around its value are dropped.
LEMMA DequotedPlain ==
  ASSUME NEW p \in Texts, \A i \in DOMAIN p : p[i] # Quote
  PROVE  Dequoted(p) = p
BY DEF Dequoted, ToSet

LEMMA DequotedBoth ==
  ASSUME NEW p \in Texts, Len(p) > 1, p[1] = Quote, p[Len(p)] = Quote
  PROVE  Dequoted(p) = SubSeq(p, 2, Len(p) - 1)
<1> DEFINE n == Len(p)
<1>1. p \in Seq(Words) /\ n \in Nat /\ n > 1 /\ DOMAIN p = 1 .. n /\ p # <<>>
  BY DEF Texts
<1>2. Tail(p) = SubSeq(p, 2, n)
  BY <1>1
<1>3. Len(Tail(p)) = n - 1 /\ Tail(p)[n - 1] = Quote /\ n - 1 \in DOMAIN Tail(p) /\ Tail(p) \in Seq(Words)
  BY <1>1
<1>4. Dequoted(p) = Front(Tail(p))
  <2>1. Quote \in ToSet(p)
    BY <1>1 DEF ToSet
  <2>2. Quote \in ToSet(Tail(p))
    <3> DEFINE u == Tail(p)
    <3>1. n - 1 \in DOMAIN u /\ u[n - 1] = Quote
      BY <1>3
    <3> HIDE DEF u
    <3>2. Quote \in ToSet(u)
      BY <3>1 DEF ToSet
    <3> QED
      BY <3>2 DEF u
  <2> QED
    BY <2>1, <2>2 DEF Dequoted
<1> DEFINE q == SubSeq(Tail(p), 1, n - 2)
           r == SubSeq(p, 2, n - 1)
<1>5. Front(Tail(p)) = q
  BY <1>1, <1>3 DEF Front
<1>6. q \in Seq(Words) /\ Len(q) = n - 2 /\ \A k \in 1 .. n - 2 : q[k] = p[k + 1]
  <2>1. 1 \in Nat \ {0} /\ n - 2 \in 0 .. Len(Tail(p))
    BY <1>1, <1>3
  <2>2. q \in Seq(Words) /\ Len(q) = n - 2 /\ \A k \in 1 .. Len(q) : q[k] = Tail(p)[1 + k - 1]
    BY <1>1, <1>3, <2>1, PartTyped
  <2>3. \A k \in 1 .. n - 1 : Tail(p)[k] = p[k + 1]
    BY <1>1
  <2> HIDE DEF q
  <2> QED
    BY <1>1, <2>2, <2>3
<1>7. r \in Seq(Words) /\ Len(r) = n - 2 /\ \A k \in 1 .. n - 2 : r[k] = p[k + 1]
  <2>1. 2 \in Nat \ {0} /\ n - 1 \in 0 .. Len(p)
    BY <1>1
  <2>2. r \in Seq(Words) /\ Len(r) = n - 2 /\ \A k \in 1 .. Len(r) : r[k] = p[2 + k - 1]
    BY <1>1, <2>1, PartTyped
  <2> HIDE DEF r
  <2>3. \A k \in 1 .. n - 2 : 2 + k - 1 = k + 1
    BY <1>1
  <2> QED
    BY <1>1, <2>2, <2>3
<1> HIDE DEF q, r
<1>8. q = r
  BY <1>6, <1>7, SameText
<1> QED
  BY <1>4, <1>5, <1>8 DEF r

\* A line with one equals sign is the text of an alias, its name and its value.
LEMMA IsAliasText ==
  ASSUME NEW w \in Words, NEW t \in Texts, NEW e \in DOMAIN t, t[1] = w, t[2] = Blank,
         {i \in DOMAIN t : t[i] = "="} = {e}, 3 < e, e < Len(t)
  PROVE  LET x == SubSeq(t, 3, e - 1)
             y == SubSeq(t, e + 1, Len(t))
         IN  /\ x \in Texts /\ y \in Texts /\ Unequal(x) /\ Unequal(y)
             /\ Len(x) = e - 3 /\ \A i \in 1 .. Len(x) : x[i] = t[i + 2]
             /\ Len(y) = Len(t) - e /\ \A i \in 1 .. Len(y) : y[i] = t[e + i]
             /\ t = AliasText(w, x, y)
<1> DEFINE n == Len(t)
           x == SubSeq(t, 3, e - 1)
           y == SubSeq(t, e + 1, n)
<1>1. t \in Seq(Words) /\ n \in Nat /\ DOMAIN t = 1 .. n /\ e \in 1 .. n /\ t[e] = "="
  BY DEF Texts
<1>2. x \in Texts /\ Len(x) = e - 3 /\ \A i \in 1 .. Len(x) : x[i] = t[i + 2]
  <2>1. 3 \in Nat \ {0} /\ e - 1 \in 0 .. Len(t) /\ 3 <= e - 1
    BY <1>1
  <2>2. x \in Seq(Words) /\ Len(x) = e - 1 - 3 + 1 /\ \A i \in 1 .. Len(x) : x[i] = t[3 + i - 1]
    BY <1>1, <2>1, PartTyped
  <2> HIDE DEF x
  <2>3. \A i \in 1 .. Len(x) : 3 + i - 1 = i + 2
    BY <1>1, <2>2
  <2> QED
    BY <1>1, <2>2, <2>3 DEF Texts
<1>3. y \in Texts /\ Len(y) = n - e /\ \A i \in 1 .. Len(y) : y[i] = t[e + i]
  <2>1. e + 1 \in Nat \ {0} /\ n \in 0 .. Len(t) /\ e + 1 <= n
    BY <1>1
  <2>2. y \in Seq(Words) /\ Len(y) = n - (e + 1) + 1 /\ \A i \in 1 .. Len(y) : y[i] = t[e + 1 + i - 1]
    BY <1>1, <2>1, PartTyped
  <2> HIDE DEF y
  <2>3. \A i \in 1 .. Len(y) : e + 1 + i - 1 = e + i
    BY <1>1, <2>2
  <2> QED
    BY <1>1, <2>2, <2>3 DEF Texts
<1> HIDE DEF x, y
<1>4. Unequal(x) /\ Unequal(y)
  <2>1. \A i \in 1 .. n : i # e => t[i] # "="
    BY <1>1
  <2>2. ASSUME NEW i \in 1 .. Len(x) PROVE x[i] # "="
    BY <1>1, <1>2, <2>1
  <2>3. ASSUME NEW i \in 1 .. Len(y) PROVE y[i] # "="
    BY <1>1, <1>3, <2>1
  <2> QED
    BY <1>2, <1>3, <2>2, <2>3 DEF Unequal, Texts
<1> DEFINE u == AliasText(w, x, y)
<1>5. /\ u \in Texts /\ Len(u) = Len(x) + Len(y) + 3 /\ Len(x) \in Nat /\ Len(y) \in Nat
      /\ u[1] = w /\ u[2] = Blank /\ u[Len(x) + 3] = "="
      /\ \A i \in 1 .. Len(x) : u[i + 2] = x[i]
      /\ \A i \in 1 .. Len(y) : u[Len(x) + 3 + i] = y[i]
  <2>1. Consists(u, w, x, y)
    BY <1>2, <1>3, AliasTextPlaces
  <2> HIDE DEF u
  <2> QED BY <2>1 DEF Consists
<1> HIDE DEF u
<1>6. Len(u) = n
  BY <1>1, <1>2, <1>3, <1>5
<1>7. ASSUME NEW k \in 1 .. n PROVE t[k] = u[k]
  <2>1. CASE k \in {1, 2, e}
    BY <1>1, <1>2, <1>5, <2>1
  <2>2. CASE k \in 3 .. e - 1
    <3>1. k - 2 \in 1 .. Len(x) /\ (k - 2) + 2 = k
      BY <1>1, <1>2, <2>2
    <3> QED
      BY <1>2, <1>5, <3>1
  <2>3. CASE k \in e + 1 .. n
    <3>1. k - e \in 1 .. Len(y) /\ Len(x) + 3 + (k - e) = k /\ e + (k - e) = k
      BY <1>1, <1>2, <1>3, <2>3
    <3> QED
      BY <1>3, <1>5, <3>1
  <2> QED
    BY <1>1, <2>1, <2>2, <2>3
<1>8. t = u
  BY <1>1, <1>5, <1>6, <1>7, SameText DEF Texts
<1> QED
  BY <1>2, <1>3, <1>4, <1>8 DEF u, x, y

\* A saved line is read as an alias.
LEMMA SavedIsRead ==
  ASSUME NEW x \in Texts, NEW v \in Texts, x # <<>>, v # <<>>, Unequal(x), Unequal(v),
         \A i \in DOMAIN x : x[i] # Quote, \A i \in DOMAIN v : v[i] # Quote, v[Len(v)] # Blank
  PROVE  parseCmd(Saved(x, v)) = <<<<"alias">>, x, v>>
<1> DEFINE t == Saved(x, v)
<1>1. "alias" \in Words /\ t = AliasText("alias", x, v)
  BY DEF Words, Saved, AliasText
<1>2. Len(v) \in Nat \ {0} /\ Len(x) \in Nat
  BY DEF Texts
<1> HIDE DEF t
<1>3. t \in Texts /\ Len(t) = Len(x) + Len(v) + 3 /\ t[1] = "alias" /\ t[2] = Blank /\ t[Len(t)] # Blank
  <2>1. Consists(t, "alias", x, v)
    BY <1>1, AliasTextPlaces
  <2>2. Len(v) \in 1 .. Len(v) /\ Len(x) + 3 + Len(v) = Len(t)
    BY <1>2, <2>1 DEF Consists
  <2> QED
    BY <2>1, <2>2 DEF Consists
<1>4. cleanCmd(t) = t
  <2>1. t # <<>> /\ t[1] # Blank
    <3>1. "alias" # Blank
      BY DEF Blank
    <3>2. Len(t) > 0
      BY <1>2, <1>3
    <3> QED
      BY <1>3, <3>1, <3>2
  <2> QED
    BY <1>3, <2>1, CleanIsSame
<1>5. IsAliasCmd(t)
  BY <1>2, <1>3 DEF IsAliasCmd, StartsWith
<1>6. aliasCmd(t) = <<<<"alias">>, x, v>>
  BY <1>1, AliasTextSplit, DequotedPlain
<1> QED
  BY <1>4, <1>5, <1>6 DEF parseCmd, t
-----------------------------------------------------------------------------
(* What is picked from a sequence, one element at a time.                  *)

\* A sequence that is not empty is its front with its last element after it.
LEMMA LastAndRest ==
  ASSUME NEW V, NEW t \in Seq(V), t # <<>>
  PROVE  /\ Front(t) \in Seq(V) /\ Last(t) \in V /\ t = Append(Front(t), Last(t))
         /\ Len(t) \in Nat \ {0} /\ Len(Front(t)) = Len(t) - 1
<1>1. Len(t) \in Nat \ {0} /\ Last(t) \in V /\ Last(t) = t[Len(t)]
  BY DEF Last
<1> DEFINE n == Len(t) - 1
           f == SubSeq(t, 1, n)
<1>2. n \in 0 .. Len(t) /\ Len(t) = n + 1
  BY <1>1
<1>3. f \in Seq(V) /\ Len(f) = n /\ \A k \in 1 .. n : f[k] = t[k]
  <2> HIDE DEF n
  <2> QED BY <1>1, <1>2
<1>4. Front(t) = f
  BY DEF Front
<1> HIDE DEF f, n
<1>5. /\ Append(f, Last(t)) \in Seq(V) /\ Len(Append(f, Last(t))) = n + 1
      /\ \A k \in 1 .. n + 1 : Append(f, Last(t))[k] = IF k = n + 1 THEN Last(t) ELSE f[k]
  BY <1>1, <1>3, AppendedTyped
<1>6. t = Append(f, Last(t))
  <2> DEFINE g == Append(f, Last(t))
  <2>1. \A k \in 1 .. Len(t) : t[k] = g[k]
    BY <1>1, <1>2, <1>3, <1>5
  <2>2. g \in Seq(V) /\ Len(t) = Len(g)
    BY <1>2, <1>5
  <2> HIDE DEF g
  <2>3. t = g
    BY <2>1, <2>2, SameText
  <2> QED
    BY <2>3 DEF g
<1> QED
  BY <1>1, <1>2, <1>3, <1>4, <1>6 DEF n

\* Whatever holds of the empty sequence and goes on holding as a sequence grows.
LEMMA Growing ==
  ASSUME NEW V, NEW S, <<>> \in S, \A t \in Seq(V), w \in V : t \in S => Append(t, w) \in S
  PROVE  \A t \in Seq(V) : t \in S
<1> DEFINE N == {n \in Nat : \A t \in Seq(V) : Len(t) = n => t \in S}
<1>1. 0 \in N
  OBVIOUS
<1>2. ASSUME NEW n \in Nat, n \in N PROVE n + 1 \in N
  <2> SUFFICES ASSUME NEW t \in Seq(V), Len(t) = n + 1 PROVE t \in S
    OBVIOUS
  <2>1. t # <<>>
    OBVIOUS
  <2>2. /\ Front(t) \in Seq(V) /\ Last(t) \in V /\ t = Append(Front(t), Last(t))
        /\ Len(Front(t)) = n
    BY <2>1, LastAndRest
  <2>3. Front(t) \in S
    BY <1>2, <2>2
  <2>4. Append(Front(t), Last(t)) \in S
    BY <2>2, <2>3
  <2> QED
    BY <2>2, <2>4, Zenon
<1>3. \A n \in Nat : n \in N
  <2> HIDE DEF N
  <2> QED BY <1>1, <1>2, Induction
<1> QED
  BY <1>3

\* With one element more, it is picked if its place is one of the places.
LEMMA PickedStep ==
  ASSUME NEW V, NEW t \in Seq(V), NEW w \in V, NEW P, NEW Q,
         \A i \in 1 .. Len(t) : i \in P <=> i \in Q
  PROVE  Picked(Append(t, w), Q) = IF Len(t) + 1 \in Q THEN Append(Picked(t, P), w) ELSE Picked(t, P)
<1> DEFINE n == Len(t)
           u == Append(t, w)
           p == InOrder(P, n)
           q == InOrder(Q, n + 1)
<1>1. n \in Nat /\ u \in Seq(V) /\ Len(u) = n + 1 /\ u[n + 1] = w /\ \A i \in 1 .. n : u[i] = t[i]
  BY AppendedTyped
<1>2. Picked(u, Q) = [k \in DOMAIN q |-> u[q[k]]] /\ Picked(t, P) = [k \in DOMAIN p |-> t[p[k]]]
  BY <1>1 DEF Picked
<1>3. p \in Seq(1 .. n)
  BY <1>1, InOrderTyped
<1>4. q = IF n + 1 \in Q THEN Append(p, n + 1) ELSE p
  <2>1. InOrder(Q, n) = p
    BY <1>1, InOrderSame
  <2> HIDE DEF n
  <2> QED
    BY <1>1, <2>1, InOrderStep
<1>5. Picked(t, P) \in Seq(V) /\ Picked(u, Q) \in Seq(V)
  BY <1>1, PickedTyped
<1>6. \A i \in 1 .. n : i \in P <=> i \in Q
  OBVIOUS
<1> HIDE DEF n, u, p, q
<1>7. DOMAIN p = 1 .. Len(p) /\ Len(p) \in Nat /\ \A k \in 1 .. Len(p) : p[k] \in 1 .. n /\ u[p[k]] = t[p[k]]
  BY <1>1, <1>3
<1>8. CASE n + 1 \notin Q
  <2>1. Picked(u, Q) = Picked(t, P)
    BY <1>2, <1>4, <1>7, <1>8
  <2> QED
    BY <1>8, <2>1 DEF n, u
<1>9. CASE n + 1 \in Q
  <2> DEFINE x == Picked(t, P)
             y == Picked(u, Q)
             z == Append(x, w)
  <2>1. q = Append(p, n + 1)
    BY <1>4, <1>9
  <2>2. DOMAIN q = 1 .. Len(p) + 1 /\ q[Len(p) + 1] = n + 1 /\ \A k \in 1 .. Len(p) : q[k] = p[k]
    BY <1>3, <2>1
  <2>3. Len(x) = Len(p) /\ \A k \in 1 .. Len(p) : x[k] = t[p[k]]
    <3>1. DOMAIN x = 1 .. Len(p) /\ \A k \in 1 .. Len(p) : x[k] = t[p[k]]
      BY <1>2, <1>7
    <3> HIDE DEF x
    <3> QED
      BY <1>5, <1>7, <3>1 DEF x
  <2>4. Len(y) = Len(p) + 1 /\ \A k \in 1 .. Len(p) + 1 : y[k] = IF k = Len(p) + 1 THEN w ELSE t[p[k]]
    <3>1. DOMAIN y = 1 .. Len(p) + 1 /\ \A k \in 1 .. Len(p) + 1 : y[k] = u[q[k]]
      BY <1>2, <2>2
    <3>2. \A k \in 1 .. Len(p) + 1 : y[k] = IF k = Len(p) + 1 THEN w ELSE t[p[k]]
      BY <1>1, <1>7, <2>2, <3>1
    <3>3. y \in Seq(V)
      BY <1>5
    <3> HIDE DEF y
    <3> QED
      BY <1>7, <3>1, <3>2, <3>3
  <2>5. x \in Seq(V) /\ y \in Seq(V)
    BY <1>5
  <2> HIDE DEF x, y
  <2>6. z \in Seq(V) /\ Len(z) = Len(x) + 1 /\ \A k \in 1 .. Len(x) + 1 : z[k] = IF k = Len(x) + 1 THEN w ELSE x[k]
    BY <2>5, AppendedTyped
  <2> HIDE DEF z
  <2>7. y = z
    <3>1. \A k \in 1 .. Len(y) : y[k] = z[k]
      BY <1>7, <2>3, <2>4, <2>6
    <3> QED
      BY <2>3, <2>4, <2>5, <2>6, <3>1, SameText
  <2> QED
    BY <1>9, <2>7 DEF n, u, x, y, z
<1> QED
  BY <1>8, <1>9

\* From nothing nothing is picked.
LEMMA PickedNone ==
  ASSUME NEW P
  PROVE  Picked(<<>>, P) = <<>>
<1>1. InOrder(P, 0) = <<>> /\ Len(<<>>) = 0
  BY InOrderStep
<1> QED
  BY <1>1 DEF Picked

\* What a sequence has of a set.
Those(t, X) == Picked(t, {i \in DOMAIN t : t[i] \in X})

\* With one element more, it is taken if it is in the set.
LEMMA ThoseStep ==
  ASSUME NEW V, NEW X, NEW t \in Seq(V), NEW w \in V
  PROVE  /\ Those(<<>>, X) = <<>> /\ Those(t, X) \in Seq(V)
         /\ Those(Append(t, w), X) = IF w \in X THEN Append(Those(t, X), w) ELSE Those(t, X)
<1> DEFINE u == Append(t, w)
           P == {i \in DOMAIN t : t[i] \in X}
           Q == {i \in DOMAIN u : u[i] \in X}
<1>1. /\ u \in Seq(V) /\ Len(u) = Len(t) + 1 /\ Len(t) \in Nat /\ u[Len(t) + 1] = w
      /\ \A i \in 1 .. Len(t) : u[i] = t[i]
  BY AppendedTyped
<1>2. DOMAIN t = 1 .. Len(t) /\ DOMAIN u = 1 .. Len(t) + 1
  BY <1>1
<1> HIDE DEF u
<1>3. (\A i \in 1 .. Len(t) : i \in P <=> i \in Q) /\ (Len(t) + 1 \in Q <=> w \in X)
  BY <1>1, <1>2
<1> HIDE DEF P, Q
<1>4. Picked(Append(t, w), Q) = IF Len(t) + 1 \in Q THEN Append(Picked(t, P), w) ELSE Picked(t, P)
  BY <1>3, PickedStep
<1>5. Those(t, X) = Picked(t, P) /\ Those(u, X) = Picked(u, Q) /\ Those(<<>>, X) = <<>>
  BY PickedNone DEF Those, P, Q
<1>6. Picked(t, P) \in Seq(V)
  BY PickedTyped
<1> QED
  BY <1>3, <1>4, <1>5, <1>6 DEF u

\* Joining sequences, one element of the second at a time.
LEMMA JoinedStep ==
  ASSUME NEW V, NEW t \in Seq(V), NEW u \in Seq(V), NEW w \in V
  PROVE  /\ t \o u \in Seq(V) /\ t \o <<>> = t
         /\ t \o Append(u, w) = Append(t \o u, w)
OBVIOUS

\* What two joined sequences have of a set is what the first has, then what the second has.
LEMMA ThoseJoined ==
  ASSUME NEW V, NEW X, NEW t \in Seq(V)
  PROVE  \A u \in Seq(V) : Those(t \o u, X) = Those(t, X) \o Those(u, X)
<1> DEFINE S == {u \in Seq(V) : Those(t \o u, X) = Those(t, X) \o Those(u, X)}
<1>1. <<>> \in S
  <2>1. Those(<<>>, X) = <<>> /\ t \o <<>> = t /\ Those(t, X) \o <<>> = Those(t, X) /\ <<>> \in Seq(V)
    <3>1. Those(<<>>, X) = <<>>
      BY PickedNone DEF Those
    <3>2. Those(t, X) \in Seq(V)
      BY PickedTyped DEF Those
    <3> HIDE DEF S
    <3> QED
      BY <3>1, <3>2
  <2> QED
    BY <2>1
<1>2. ASSUME NEW u \in Seq(V), NEW w \in V, u \in S PROVE Append(u, w) \in S
  <2>1. Those(t \o u, X) = Those(t, X) \o Those(u, X)
    BY <1>2
  <2>2. /\ t \o u \in Seq(V) /\ t \o Append(u, w) = Append(t \o u, w) /\ Append(u, w) \in Seq(V)
    BY JoinedStep
  <2>3. Those(Append(t \o u, w), X) = IF w \in X THEN Append(Those(t \o u, X), w) ELSE Those(t \o u, X)
    <3> DEFINE v == t \o u
    <3>1. v \in Seq(V)
      BY <2>2
    <3> HIDE DEF v
    <3>2. Those(Append(v, w), X) = IF w \in X THEN Append(Those(v, X), w) ELSE Those(v, X)
      BY <3>1, ThoseStep
    <3> QED
      BY <3>2 DEF v
  <2>4. /\ Those(Append(u, w), X) = IF w \in X THEN Append(Those(u, X), w) ELSE Those(u, X)
        /\ Those(u, X) \in Seq(V) /\ Those(t, X) \in Seq(V)
    BY ThoseStep
  <2>5. Those(t, X) \o Append(Those(u, X), w) = Append(Those(t, X) \o Those(u, X), w)
    BY <2>4, JoinedStep
  <2>6. Those(t \o Append(u, w), X) = Those(t, X) \o Those(Append(u, w), X)
    <3>1. CASE w \in X
      BY <2>1, <2>2, <2>3, <2>4, <2>5, <3>1, Zenon
    <3>2. CASE w \notin X
      BY <2>1, <2>2, <2>3, <2>4, <3>2, Zenon
    <3> QED
      BY <3>1, <3>2
  <2> QED
    BY <2>2, <2>6
<1>3. \A u \in Seq(V) : u \in S
  <2> HIDE DEF S
  <2> QED BY <1>1, <1>2, Growing
<1> QED
  BY <1>3

\* A sequence without an element of a set has nothing of it.
LEMMA NoneOfThose ==
  ASSUME NEW V, NEW X
  PROVE  \A t \in Seq(V) : (\A i \in 1 .. Len(t) : t[i] \notin X) => Those(t, X) = <<>>
<1> DEFINE S == {t \in Seq(V) : (\A i \in 1 .. Len(t) : t[i] \notin X) => Those(t, X) = <<>>}
<1>1. <<>> \in S
  BY PickedNone DEF Those
<1>2. ASSUME NEW t \in Seq(V), NEW w \in V, t \in S PROVE Append(t, w) \in S
  <2> DEFINE u == Append(t, w)
  <2>1. /\ u \in Seq(V) /\ Len(u) = Len(t) + 1 /\ Len(t) \in Nat /\ u[Len(t) + 1] = w
        /\ \A i \in 1 .. Len(t) : u[i] = t[i]
    BY AppendedTyped
  <2>2. Those(u, X) = IF w \in X THEN Append(Those(t, X), w) ELSE Those(t, X)
    BY ThoseStep
  <2> HIDE DEF u
  <2>3. ASSUME \A i \in 1 .. Len(u) : u[i] \notin X PROVE Those(u, X) = <<>>
    <3>1. w \notin X /\ \A i \in 1 .. Len(t) : t[i] \notin X
      BY <2>1, <2>3
    <3> QED
      BY <1>2, <2>2, <3>1
  <2> QED
    BY <2>1, <2>3 DEF u
<1>3. \A t \in Seq(V) : t \in S
  <2> HIDE DEF S
  <2> QED BY <1>1, <1>2, Growing
<1> QED
  BY <1>3

-----------------------------------------------------------------------------
(* Texts without blanks.                                                   *)

\* NoBlank takes the pieces that are not blanks.
LEMMA NoBlankIs ==
  ASSUME NEW t \in Texts
  PROVE  NoBlank(t) = Those(t, Words \ {Blank})
<1>1. DOMAIN t = 1 .. Len(t) /\ \A i \in 1 .. Len(t) : t[i] \in Words
  BY DEF Texts
<1>2. {i \in DOMAIN t : t[i] # Blank} = {i \in DOMAIN t : t[i] \in Words \ {Blank}}
  BY <1>1
<1> QED
  BY <1>2 DEF NoBlank, Those

\* NoBlank, one piece more.
LEMMA NoBlankStep ==
  ASSUME NEW t \in Texts, NEW w \in Words
  PROVE  /\ NoBlank(<<>>) = <<>> /\ NoBlank(t) \in Texts
         /\ NoBlank(Append(t, w)) = IF w = Blank THEN NoBlank(t) ELSE Append(NoBlank(t), w)
<1>1. t \in Seq(Words) /\ Append(t, w) \in Texts /\ <<>> \in Texts
  BY DEF Texts
<1>2. /\ NoBlank(t) = Those(t, Words \ {Blank}) /\ NoBlank(<<>>) = Those(<<>>, Words \ {Blank})
      /\ NoBlank(Append(t, w)) = Those(Append(t, w), Words \ {Blank})
  BY <1>1, NoBlankIs
<1> QED
  BY <1>1, <1>2, ThoseStep DEF Texts

\* NoBlank of a text in two parts.
LEMMA NoBlankJoined ==
  ASSUME NEW t \in Texts, NEW u \in Texts
  PROVE  t \o u \in Texts /\ NoBlank(t \o u) = NoBlank(t) \o NoBlank(u)
<1>1. t \o u \in Texts
  BY DEF Texts
<1>2. /\ NoBlank(t) = Those(t, Words \ {Blank}) /\ NoBlank(u) = Those(u, Words \ {Blank})
      /\ NoBlank(t \o u) = Those(t \o u, Words \ {Blank})
  BY <1>1, NoBlankIs
<1>3. t \in Seq(Words) /\ u \in Seq(Words)
  BY DEF Texts
<1>4. Those(t \o u, Words \ {Blank}) = Those(t, Words \ {Blank}) \o Those(u, Words \ {Blank})
  BY <1>3, ThoseJoined
<1> QED
  BY <1>1, <1>2, <1>4, Zenon

\* A text in two parts.
LEMMA TwoParts ==
  ASSUME NEW V, NEW t \in Seq(V), NEW n \in 0 .. Len(t)
  PROVE  /\ SubSeq(t, 1, n) \in Seq(V) /\ SubSeq(t, n + 1, Len(t)) \in Seq(V)
         /\ t = SubSeq(t, 1, n) \o SubSeq(t, n + 1, Len(t))
<1> DEFINE a == SubSeq(t, 1, n)
           b == SubSeq(t, n + 1, Len(t))
<1>1. Len(t) \in Nat /\ n + 1 \in Nat \ {0} /\ Len(t) \in 0 .. Len(t)
  OBVIOUS
<1>2. a \in Seq(V) /\ Len(a) = n /\ \A k \in 1 .. n : a[k] = t[k]
  BY <1>1
<1>3. b \in Seq(V) /\ Len(b) = Len(t) - n /\ \A k \in 1 .. Len(b) : b[k] = t[n + k]
  <2>1. /\ b \in Seq(V) /\ Len(b) = (IF n + 1 <= Len(t) THEN Len(t) - (n + 1) + 1 ELSE 0)
        /\ \A k \in 1 .. Len(b) : b[k] = t[(n + 1) + k - 1]
    BY <1>1, PartTyped
  <2>2. Len(b) = Len(t) - n
    BY <1>1, <2>1
  <2> HIDE DEF b
  <2>3. ASSUME NEW k \in 1 .. Len(b) PROVE b[k] = t[n + k]
    <3>1. (n + 1) + k - 1 = n + k
      BY <1>1, <2>2
    <3> QED
      BY <2>1, <3>1
  <2> QED
    BY <2>1, <2>2, <2>3
<1> HIDE DEF a, b
<1> DEFINE c == a \o b
<1>4. c \in Seq(V) /\ Len(c) = Len(t) /\ \A k \in 1 .. Len(t) : c[k] = IF k <= n THEN a[k] ELSE b[k - n]
  BY <1>1, <1>2, <1>3
<1> HIDE DEF c
<1>5. \A k \in 1 .. Len(t) : t[k] = c[k]
  BY <1>1, <1>2, <1>3, <1>4
<1>6. t = c
  BY <1>4, <1>5, SameText
<1> QED
  BY <1>2, <1>3, <1>6 DEF a, b, c

\* Blanks are nothing.
LEMMA AllBlank ==
  ASSUME NEW t \in Texts, \A i \in 1 .. Len(t) : t[i] = Blank
  PROVE  NoBlank(t) = <<>>
<1>1. \A i \in 1 .. Len(t) : t[i] \notin Words \ {Blank}
  OBVIOUS
<1>2. Those(t, Words \ {Blank}) = <<>>
  BY <1>1, NoneOfThose DEF Texts
<1> QED
  BY <1>2, NoBlankIs

\* cleanCmd takes away blanks only.
LEMMA CleanKeepsWords ==
  ASSUME NEW t \in Texts
  PROVE  NoBlank(cleanCmd(t)) = NoBlank(t)
<1> DEFINE words == {i \in DOMAIN t : t[i] # Blank}
           n == Len(t)
<1>1. n \in Nat /\ DOMAIN t = 1 .. n /\ words \subseteq Nat /\ \A i \in words : i \in 1 .. n /\ i <= n
  BY DEF Texts
<1>2. CASE words = {}
  <2>1. cleanCmd(t) = <<>>
    BY <1>2 DEF cleanCmd
  <2>2. \A i \in 1 .. Len(t) : t[i] = Blank
    BY <1>1, <1>2
  <2>3. NoBlank(<<>>) = <<>>
    BY PickedNone DEF NoBlank
  <2> QED
    BY <2>1, <2>2, <2>3, AllBlank
<1>3. CASE words # {}
  <2> DEFINE a == Min(words)
             b == Max(words)
             x == SubSeq(t, 1, b)
             y == SubSeq(t, b + 1, n)
             u == SubSeq(x, 1, a - 1)
             v == SubSeq(x, (a - 1) + 1, Len(x))
  <2>1. cleanCmd(t) = SubSeq(t, a, b)
    BY <1>3 DEF cleanCmd
  <2>2. a \in words /\ b \in words /\ \A i \in words : a <= i /\ i <= b
    <3> HIDE DEF words
    <3>1. a \in words /\ \A i \in words : a <= i
      BY <1>1, <1>3, MinIsLeast
    <3>2. b \in words /\ \A i \in words : b >= i
      BY <1>1, <1>3, MaxIsGreatest
    <3>3. ASSUME NEW i \in words PROVE i <= b
      BY <1>1, <3>2
    <3> QED
      BY <3>1, <3>2, <3>3
  <2> HIDE DEF a, b
  <2>3. a \in 1 .. n /\ b \in 1 .. n /\ a <= b /\ b \in 0 .. n
    BY <1>1, <2>2
  <2>4. x \in Seq(Words) /\ y \in Seq(Words) /\ t = x \o y
    <3> HIDE DEF n
    <3> QED BY <2>3, TwoParts DEF Texts, n
  <2>5. Len(x) = b /\ \A k \in 1 .. b : x[k] = t[k]
    BY <1>1, <2>3 DEF Texts
  <2>6. Len(y) = n - b /\ \A k \in 1 .. Len(y) : y[k] = t[b + k]
    <3>1. /\ Len(y) = (IF b + 1 <= n THEN n - (b + 1) + 1 ELSE 0)
          /\ \A k \in 1 .. Len(y) : y[k] = t[(b + 1) + k - 1]
      <4>1. b + 1 \in Nat \ {0} /\ n \in 0 .. Len(t)
        BY <1>1, <2>3
      <4> HIDE DEF n, words
      <4> QED BY <4>1, PartTyped DEF Texts
    <3> HIDE DEF y, n, words
    <3>2. Len(y) = n - b
      BY <1>1, <2>3, <3>1
    <3>3. ASSUME NEW k \in 1 .. Len(y) PROVE y[k] = t[b + k]
      <4>1. (b + 1) + k - 1 = b + k
        BY <2>3, <1>1
      <4> QED
        BY <3>1, <4>1
    <3> QED
      BY <3>2, <3>3
  <2>7. y \in Texts /\ \A k \in 1 .. Len(y) : y[k] = Blank
    <3> SUFFICES ASSUME NEW k \in 1 .. Len(y) PROVE y[k] = Blank
      BY <2>4 DEF Texts
    <3> HIDE DEF y, n
    <3>1. y[k] = t[b + k] /\ b + k \in 1 .. n /\ ~ (b + k <= b)
      BY <1>1, <2>3, <2>6
    <3>2. b + k \notin words
      <4> HIDE DEF words
      <4> QED BY <2>2, <3>1
    <3> QED
      BY <1>1, <3>1, <3>2
  <2> HIDE DEF x, y
  <2>8. a - 1 \in 0 .. Len(x) /\ (a - 1) + 1 = a
    BY <1>1, <2>3, <2>5
  <2>9. u \in Seq(Words) /\ v \in Seq(Words) /\ x = u \o v
    BY <2>4, <2>8, TwoParts
  <2>10. Len(u) = a - 1 /\ \A k \in 1 .. a - 1 : u[k] = x[k]
    BY <2>4, <2>8
  <2>11. u \in Texts /\ \A k \in 1 .. Len(u) : u[k] = Blank
    <3> SUFFICES ASSUME NEW k \in 1 .. Len(u) PROVE u[k] = Blank
      BY <2>9 DEF Texts
    <3>1. u[k] = t[k] /\ k \in 1 .. n /\ ~ (a <= k)
      BY <1>1, <2>3, <2>5, <2>8, <2>10
    <3>2. k \notin words
      BY <2>2, <3>1
    <3> QED
      BY <1>1, <3>1, <3>2
  <2>12. v = SubSeq(t, a, b)
    <3> DEFINE w == SubSeq(t, a, b)
    <3>1. w \in Seq(Words) /\ Len(w) = b - a + 1 /\ \A k \in 1 .. Len(w) : w[k] = t[a + k - 1]
      BY <1>1, <2>3, PartTyped DEF Texts
    <3>2. v \in Seq(Words) /\ Len(v) = b - a + 1 /\ \A k \in 1 .. Len(v) : v[k] = x[a + k - 1]
      <4>1. v = SubSeq(x, a, b) /\ b \in 0 .. Len(x) /\ a \in Nat \ {0}
        BY <1>1, <2>3, <2>5, <2>8
      <4> HIDE DEF v
      <4> QED BY <2>3, <2>4, <4>1, PartTyped
    <3> HIDE DEF v, w, words
    <3>3. ASSUME NEW k \in 1 .. Len(v) PROVE v[k] = w[k]
      <4>1. a + k - 1 \in 1 .. b /\ k \in 1 .. Len(w)
        BY <1>1, <2>3, <3>1, <3>2
      <4> QED
        BY <2>5, <3>1, <3>2, <4>1
    <3>4. v = w
      BY <3>1, <3>2, <3>3, SameText
    <3> QED
      BY <3>4 DEF w
  <2> HIDE DEF u, v
  <2>13. NoBlank(u) = <<>> /\ NoBlank(y) = <<>>
    BY <2>7, <2>11, AllBlank
  <2>14. NoBlank(t) = NoBlank(x) \o NoBlank(y) /\ NoBlank(x) = NoBlank(u) \o NoBlank(v)
    BY <2>4, <2>7, <2>9, NoBlankJoined DEF Texts
  <2>15. NoBlank(v) \in Seq(Words)
    BY <2>9, PickedTyped DEF NoBlank
  <2>16. <<>> \o NoBlank(v) = NoBlank(v) /\ NoBlank(v) \o <<>> = NoBlank(v)
    BY <2>15
  <2> QED
    BY <2>1, <2>12, <2>13, <2>14, <2>16
<1> QED
  BY <1>2, <1>3
-----------------------------------------------------------------------------
(* Where keywords are found.                                               *)

EndsWith(p, w) == Len(w) <= Len(p) /\ SubSeq(p, Len(p) - Len(w) + 1, Len(p)) = w
NoHit(p) == \A k \in 1 .. 4 : Occurrences(Pattern[k], p) = {}

\* What is not in a text can only be at its end when one more piece has come.
LEMMA OnlyAtEnd ==
  ASSUME NEW p \in Texts, NEW c \in Words, NEW w, Len(w) \in Nat \ {0}, Occurrences(w, p) = {}
  PROVE  Occurrences(w, Append(p, c)) = IF EndsWith(Append(p, c), w) THEN {Len(p) - Len(w) + 2} ELSE {}
<1> DEFINE q == Append(p, c)
           n == Len(p)
           m == Len(w)
           S == {i \in 1 .. Len(q) - m + 1 : SubSeq(q, i, i + m - 1) = w}
<1>1. /\ q \in Texts /\ n \in Nat /\ m \in Nat \ {0} /\ Len(q) = n + 1
      /\ \A i \in 1 .. n : q[i] = p[i]
  BY DEF Texts
<1>2. Occurrences(w, q) = S /\ Occurrences(w, p) = {i \in 1 .. n - m + 1 : SubSeq(p, i, i + m - 1) = w}
  BY DEF Occurrences
<1>3. EndsWith(q, w) <=> m <= Len(q) /\ SubSeq(q, Len(q) - m + 1, Len(q)) = w
  BY DEF EndsWith
<1> HIDE DEF q, n, m, S
<1>4. ASSUME NEW i \in 1 .. n - m + 1 PROVE SubSeq(q, i, i + m - 1) # w
  <2>1. i \in Nat \ {0} /\ i + m - 1 \in 0 .. n /\ i + m - 1 \in 0 .. Len(q)
    BY <1>1
  <2> DEFINE a == SubSeq(q, i, i + m - 1)
             b == SubSeq(p, i, i + m - 1)
             e == i + m - 1
  <2>2. /\ a \in Seq(Words) /\ Len(a) = (IF i <= e THEN e - i + 1 ELSE 0)
        /\ \A k \in 1 .. Len(a) : a[k] = q[i + k - 1]
    BY <1>1, <2>1, PartTyped DEF Texts
  <2>3. /\ b \in Seq(Words) /\ Len(b) = (IF i <= e THEN e - i + 1 ELSE 0)
        /\ \A k \in 1 .. Len(b) : b[k] = p[i + k - 1]
    BY <1>1, <2>1, PartTyped DEF Texts, n
  <2>4. e \in 0 .. n
    BY <2>1
  <2> HIDE DEF a, b, e
  <2>5. ASSUME NEW k \in 1 .. Len(a) PROVE a[k] = b[k]
    <3>1. i + k - 1 \in 1 .. n /\ k \in 1 .. Len(b)
      BY <1>1, <2>2, <2>3, <2>4
    <3> QED
      BY <1>1, <2>2, <2>3, <3>1
  <2>6. a = b
    BY <2>2, <2>3, <2>5, SameText
  <2>7. b # w
    BY <1>2 DEF b
  <2> QED
    BY <2>6, <2>7 DEF a
<1>5. \A i \in S : i = n - m + 2
  <2> SUFFICES ASSUME NEW i \in S PROVE i = n - m + 2
    OBVIOUS
  <2>1. i \in 1 .. n - m + 2 /\ SubSeq(q, i, i + m - 1) = w
    BY <1>1 DEF S
  <2>2. i \notin 1 .. n - m + 1
    BY <1>4, <2>1
  <2> QED
    BY <1>1, <2>1, <2>2
<1>6. n - m + 2 \in S <=> EndsWith(q, w)
  <2>1. Len(q) - m + 1 = n - m + 2 /\ (n - m + 2) + m - 1 = Len(q)
    BY <1>1
  <2>2. n - m + 2 \in 1 .. Len(q) - m + 1 <=> m <= Len(q)
    BY <1>1
  <2> QED
    BY <1>3, <2>1, <2>2 DEF S
<1> QED
  BY <1>2, <1>5, <1>6 DEF q, n, m

\* A text that ends with w is the text before it, then w.
LEMMA EndOf ==
  ASSUME NEW q \in Texts, NEW w, Len(w) \in Nat \ {0}, EndsWith(q, w)
  PROVE  /\ Len(q) - Len(w) \in 0 .. Len(q)
         /\ \A i \in 1 .. Len(w) : q[Len(q) - Len(w) + i] = w[i]
         /\ SubSeq(q, 1, Len(q) - Len(w)) \in Texts
         /\ Len(SubSeq(q, 1, Len(q) - Len(w))) = Len(q) - Len(w)
         /\ q = SubSeq(q, 1, Len(q) - Len(w)) \o w
<1> DEFINE n == Len(q) - Len(w)
           v == SubSeq(q, n + 1, Len(q))
<1>1. n \in 0 .. Len(q) /\ v = w /\ Len(q) \in Nat /\ Len(w) = Len(q) - n
  BY DEF EndsWith, Texts
<1>2. q = SubSeq(q, 1, n) \o v /\ SubSeq(q, 1, n) \in Texts
  <2> HIDE DEF n
  <2> QED BY <1>1, TwoParts DEF Texts
<1>3. Len(SubSeq(q, 1, n)) = n
  <2> HIDE DEF n
  <2> QED BY <1>1 DEF Texts
<1>4. \A i \in 1 .. Len(w) : w[i] = q[n + i]
  <2> HIDE DEF n
  <2>1. \A k \in 1 .. Len(v) : v[k] = q[(n + 1) + k - 1]
    <3>1. n + 1 \in Nat \ {0} /\ Len(q) \in 0 .. Len(q)
      BY <1>1
    <3> QED
      BY <3>1, PartTyped DEF Texts
  <2> SUFFICES ASSUME NEW i \in 1 .. Len(w) PROVE w[i] = q[n + i]
    OBVIOUS
  <2>2. (n + 1) + i - 1 = n + i
    BY <1>1
  <2> HIDE DEF v
  <2> QED
    BY <1>1, <2>1, <2>2
<1> QED
  BY <1>1, <1>2, <1>3, <1>4 DEF n

PatternEnd(k, w) ==
  /\ Len(w) = IF k \in {2, 3} THEN 3 ELSE 2
  /\ w[Len(w) - 1] = IF k = 4 THEN Blank ELSE Found[k]
  /\ w[Len(w)] = IF k = 4 THEN "fi" ELSE Blank
  /\ k \in {2, 3} => w[1] = Blank
PatternEnds ==
  /\ DOMAIN Pattern = 1 .. 4
  /\ \A k \in 1 .. 4 : PatternEnd(k, Pattern[k]) /\ Len(Pattern[k]) \in {2, 3} /\ Found[k] \in Keywords

\* The four patterns of parseCmd, by their last pieces.
LEMMA PatternsEnd == PatternEnds
<1>1. /\ DOMAIN Pattern = 1 .. 4 /\ DOMAIN Found = 1 .. 4
      /\ Found[1] = "if" /\ Found[2] = "then" /\ Found[3] = "else" /\ Found[4] = "fi"
  BY DEF Pattern, Found
<1>2. Pattern[1] = <<"if", Blank>> /\ Pattern[2] = <<Blank, "then", Blank>>
      /\ Pattern[3] = <<Blank, "else", Blank>> /\ Pattern[4] = <<Blank, "fi">>
  BY DEF Pattern
<1>3. \A k \in 1 .. 4 : Found[k] \in Keywords
  BY <1>1 DEF Keywords
<1>6. Len(Pattern[1]) = 2 /\ Pattern[1][1] = "if" /\ Pattern[1][2] = Blank
  BY <1>2
<1>7. Len(Pattern[2]) = 3 /\ Pattern[2][1] = Blank /\ Pattern[2][2] = "then" /\ Pattern[2][3] = Blank
  BY <1>2
<1>8. Len(Pattern[3]) = 3 /\ Pattern[3][1] = Blank /\ Pattern[3][2] = "else" /\ Pattern[3][3] = Blank
  BY <1>2
<1>9. Len(Pattern[4]) = 2 /\ Pattern[4][1] = Blank /\ Pattern[4][2] = "fi"
  BY <1>2
<1>10. PatternEnd(1, Pattern[1]) /\ PatternEnd(2, Pattern[2]) /\ PatternEnd(3, Pattern[3])
  <2>1. \A w : Len(w) = 2 /\ w[1] = "if" /\ w[2] = Blank => PatternEnd(1, w)
    BY <1>1 DEF PatternEnd
  <2>2. \A w : Len(w) = 3 /\ w[1] = Blank /\ w[2] = "then" /\ w[3] = Blank => PatternEnd(2, w)
    BY <1>1 DEF PatternEnd
  <2>3. \A w : Len(w) = 3 /\ w[1] = Blank /\ w[2] = "else" /\ w[3] = Blank => PatternEnd(3, w)
    BY <1>1 DEF PatternEnd
  <2> QED
    BY <1>6, <1>7, <1>8, <2>1, <2>2, <2>3, Zenon
<1>11. PatternEnd(4, Pattern[4])
  <2>1. \A w : Len(w) = 2 /\ w[1] = Blank /\ w[2] = "fi" => PatternEnd(4, w)
    BY <1>1 DEF PatternEnd
  <2> QED
    BY <1>9, <2>1, Zenon
<1>12. \A k \in 1 .. 4 : PatternEnd(k, Pattern[k]) /\ Len(Pattern[k]) \in {2, 3}
  <2>1. \A k \in 1 .. 4 : k = 1 \/ k = 2 \/ k = 3 \/ k = 4
    OBVIOUS
  <2> QED
    BY <1>6, <1>7, <1>8, <1>9, <1>10, <1>11, <2>1, Zenon
<1> QED
  BY <1>1, <1>3, <1>12, Zenon DEF PatternEnds

\* No pattern is empty.
LEMMA PatternLengths ==
  DOMAIN Pattern = 1 .. 4 /\ \A k \in 1 .. 4 : Len(Pattern[k]) \in Nat \ {0}
<1>1. \A k \in {2, 3} : k \in Nat \ {0}
  OBVIOUS
<1>2. \A k \in 1 .. 4 : Len(Pattern[k]) \in {2, 3}
  BY PatternsEnd DEF PatternEnds
<1> QED
  BY <1>1, <1>2, PatternsEnd, Zenon DEF PatternEnds

\* The least number of a set of one.
LEMMA OnlyNumber ==
  ASSUME NEW i \in Nat
  PROVE  Min({i}) = i
<1>1. {i} \subseteq Nat /\ {i} # {}
  OBVIOUS
<1>2. Min({i}) \in {i}
  BY <1>1, MinIsLeast
<1> QED
  BY <1>2

\* The last pieces of a text, if it ends with a keyword.
LEMMA EndPieces ==
  ASSUME NEW q \in Texts, NEW k \in 1 .. 4, EndsWith(q, Pattern[k])
  PROVE  /\ Len(q) \in Nat /\ Len(q) >= 2
         /\ q[Len(q) - 1] = IF k = 4 THEN Blank ELSE Found[k]
         /\ q[Len(q)] = IF k = 4 THEN "fi" ELSE Blank
<1> DEFINE w == Pattern[k]
<1>1. Len(w) \in Nat /\ Len(w) \in {2, 3} /\ w[Len(w) - 1] = (IF k = 4 THEN Blank ELSE Found[k])
      /\ w[Len(w)] = (IF k = 4 THEN "fi" ELSE Blank)
  BY PatternsEnd, PatternLengths DEF PatternEnds, PatternEnd
<1> HIDE DEF w
<1>2. /\ Len(q) - Len(w) \in 0 .. Len(q) /\ Len(q) \in Nat
      /\ \A i \in 1 .. Len(w) : q[Len(q) - Len(w) + i] = w[i]
  <2>1. EndsWith(q, w)
    BY DEF w
  <2>2. Len(w) \in Nat \ {0}
    BY PatternLengths DEF w
  <2>3. Len(q) \in Nat
    BY DEF Texts
  <2> QED
    BY <2>1, <2>2, <2>3, EndOf
<1>3. Len(w) \in 1 .. Len(w) /\ Len(w) - 1 \in 1 .. Len(w) /\ Len(q) >= 2
  <2> DEFINE l == Len(w)
  <2>1. l = 2 \/ l = 3
    BY <1>1
  <2> HIDE DEF l
  <2>2. l \in 1 .. l /\ l - 1 \in 1 .. l /\ l \in Nat /\ l >= 2
    BY <2>1
  <2>3. Len(q) - l \in 0 .. Len(q) /\ Len(q) \in Nat
    BY <1>2 DEF l
  <2> QED
    BY <2>2, <2>3 DEF l
<1>4. Len(q) - Len(w) + Len(w) = Len(q) /\ Len(q) - Len(w) + (Len(w) - 1) = Len(q) - 1
  BY <1>1, <1>2
<1> QED
  BY <1>1, <1>2, <1>3, <1>4

\* A text ends with one pattern at most.
LEMMA OneKeyword ==
  ASSUME NEW q \in Texts, NEW k \in 1 .. 4, NEW j \in 1 .. 4, EndsWith(q, Pattern[k]), EndsWith(q, Pattern[j])
  PROVE  k = j
<1>1. /\ q[Len(q) - 1] = (IF k = 4 THEN Blank ELSE Found[k]) /\ q[Len(q)] = (IF k = 4 THEN "fi" ELSE Blank)
      /\ q[Len(q) - 1] = (IF j = 4 THEN Blank ELSE Found[j]) /\ q[Len(q)] = (IF j = 4 THEN "fi" ELSE Blank)
  BY EndPieces
<1>2. "fi" # Blank
  BY DEF Blank
<1>3. Found[1] = "if" /\ Found[2] = "then" /\ Found[3] = "else"
  BY DEF Found
<1>4. "if" # "then" /\ "then" # "else" /\ "if" # "else"
  OBVIOUS
<1>5. k = 4 <=> j = 4
  BY <1>1, <1>2
<1>6. k # 4 => Found[k] = Found[j]
  BY <1>1, <1>5
<1> QED
  BY <1>3, <1>4, <1>5, <1>6

\* What SplitAtKeyword makes of a token that ends with keyword k.
CutAt(s, k) ==
  LET n == Len(s.param) - Len(Pattern[k])
  IN  [s EXCEPT !.toks = Append(IF n > 0 THEN Append(s.toks, SubSeq(s.param, 1, n)) ELSE s.toks, <<Found[k]>>),
                !.param = <<>>]

\* If there was no keyword before the last piece, one is cut off at the end or none at all.
LEMMA SplitCuts ==
  ASSUME NEW s \in ScanStates, NEW p \in Texts, NEW c \in Words, s.param = Append(p, c), NoHit(p)
  PROVE  \/ NoHit(s.param) /\ SplitAtKeyword(s) = s /\ \A k \in 1 .. 4 : ~ EndsWith(s.param, Pattern[k])
         \/ \E k \in 1 .. 4 : EndsWith(s.param, Pattern[k]) /\ SplitAtKeyword(s) = CutAt(s, k)
<1> DEFINE hits == {k \in DOMAIN Pattern : Occurrences(Pattern[k], s.param) # {}}
<1>1. DOMAIN Pattern = 1 .. 4 /\ \A k \in 1 .. 4 : Len(Pattern[k]) \in Nat \ {0}
  BY PatternLengths
<1>2. ASSUME NEW k \in 1 .. 4
      PROVE  Occurrences(Pattern[k], s.param)
               = IF EndsWith(s.param, Pattern[k]) THEN {Len(p) - Len(Pattern[k]) + 2} ELSE {}
  <2>1. Occurrences(Pattern[k], p) = {} /\ Len(Pattern[k]) \in Nat \ {0}
    BY <1>1 DEF NoHit
  <2>2. Occurrences(Pattern[k], Append(p, c))
               = IF EndsWith(Append(p, c), Pattern[k]) THEN {Len(p) - Len(Pattern[k]) + 2} ELSE {}
    BY <2>1, OnlyAtEnd
  <2> QED
    BY <2>2
<1>3. hits = {k \in 1 .. 4 : EndsWith(s.param, Pattern[k])}
  BY <1>1, <1>2
<1>4. s.param \in Texts /\ Len(s.param) = Len(p) + 1 /\ Len(p) \in Nat /\ s.toks \in Seq(Texts)
  BY DEF Texts, ScanStates
<1>5. CASE hits = {}
  <2>1. SplitAtKeyword(s) = s
    BY <1>5 DEF SplitAtKeyword
  <2>2. NoHit(s.param) /\ \A k \in 1 .. 4 : ~ EndsWith(s.param, Pattern[k])
    BY <1>1, <1>3, <1>5 DEF NoHit
  <2> QED
    BY <2>1, <2>2
<1>6. CASE hits # {}
  <2>1. PICK k \in 1 .. 4 : EndsWith(s.param, Pattern[k]) /\ k \in hits
    BY <1>3, <1>6
  <2>2. hits = {k}
    BY <1>3, <1>4, <2>1, OneKeyword
  <2>3. Min(hits) = k /\ Min(Occurrences(Pattern[k], s.param)) = Len(p) - Len(Pattern[k]) + 2
    <3>1. Min({k}) = k
      <4>1. k \in Nat
        OBVIOUS
      <4> QED
        BY <4>1, OnlyNumber
    <3> DEFINE i == Len(p) - Len(Pattern[k]) + 2
    <3>2. Occurrences(Pattern[k], s.param) = {i}
      BY <1>2, <2>1
    <3>3. i \in Nat
      <4>1. Len(s.param) - Len(Pattern[k]) \in 0 .. Len(s.param)
        BY <1>1, <1>4, <2>1, EndOf
      <4> QED
        BY <1>1, <1>4, <4>1
    <3> HIDE DEF i
    <3>4. Min({i}) = i
      BY <3>3, OnlyNumber
    <3> QED
      BY <2>2, <3>1, <3>2, <3>4 DEF i
  <2> DEFINE m == Min(hits)
             pLoc == Min(Occurrences(Pattern[m], s.param))
             before == IF pLoc > 1 THEN <<SubSeq(s.param, 1, pLoc - 1)>> ELSE <<>>
             n == Len(s.param) - Len(Pattern[k])
  <2>4. SplitAtKeyword(s) = [s EXCEPT !.toks = s.toks \o before \o <<<<Found[m]>>>>, !.param = <<>>]
    BY <1>6 DEF SplitAtKeyword
  <2>5. m = k /\ pLoc = Len(p) - Len(Pattern[k]) + 2
    BY <2>3
  <2>6. pLoc - 1 = n /\ (pLoc > 1 <=> n > 0)
    <3> DEFINE l == Len(Pattern[k])
    <3>1. l \in Nat /\ pLoc = Len(p) - l + 2 /\ n = Len(p) + 1 - l
      BY <1>1, <1>4, <2>5
    <3> HIDE DEF pLoc, n, l
    <3> QED
      BY <1>4, <3>1
  <2> HIDE DEF hits, m, pLoc, n
  <2>7. s.toks \o before \o <<<<Found[m]>>>>
          = Append(IF n > 0 THEN Append(s.toks, SubSeq(s.param, 1, n)) ELSE s.toks, <<Found[k]>>)
    <3>1. CASE n > 0
      <4> DEFINE x == SubSeq(s.param, 1, n)
      <4>1. before = <<x>>
        BY <2>6, <3>1
      <4>2. x \in Texts
        BY <1>1, <1>4, <2>1, EndOf DEF n
      <4> HIDE DEF x
      <4>3. s.toks \o <<x>> = Append(s.toks, x) /\ Append(s.toks, x) \in Seq(Texts)
        BY <1>4, <4>2
      <4>4. Append(s.toks, x) \o <<<<Found[m]>>>> = Append(Append(s.toks, x), <<Found[k]>>)
        BY <2>5, <4>3
      <4> QED
        BY <3>1, <4>1, <4>3, <4>4 DEF x
    <3>2. CASE ~ (n > 0)
      <4>1. before = <<>>
        BY <2>6, <3>2
      <4>2. s.toks \o <<>> = s.toks
        BY <1>4
      <4>3. s.toks \o <<<<Found[m]>>>> = Append(s.toks, <<Found[k]>>)
        BY <1>4, <2>5
      <4> QED
        BY <3>2, <4>1, <4>2, <4>3
    <3> QED
      BY <3>1, <3>2
  <2>8. SplitAtKeyword(s) = CutAt(s, k)
    BY <2>4, <2>7 DEF CutAt, n
  <2> QED
    BY <2>1, <2>8
<1> QED
  BY <1>5, <1>6
-----------------------------------------------------------------------------
(* One piece more, by what it is.                                          *)

\* The piece goes to the token that is being filled.
Keeps(s, c, r) == /\ r.toks = s.toks /\ r.param = Append(s.param, c) /\ NoHit(r.param)
                  /\ r.char_count = s.char_count + 1
QuoteKept(s, c, r) ==
  c = Quote /\ Keeps(s, c, r) /\ r.q_st = ~ s.q_st /\ r.space_encountered = (s.space_encountered /\ ~ s.q_st)
QuotedKept(s, c, r) ==
  c # Quote /\ s.q_st = TRUE /\ Keeps(s, c, r) /\ r.q_st = TRUE
OperatorCuts(s, c, r) ==
  /\ c \in Operators /\ s.q_st = FALSE /\ r.q_st = FALSE /\ s.char_count # 0
  /\ r.toks = Append(Append(s.toks, s.param), <<c>>) /\ r.param = <<>> /\ r.char_count = 0
  /\ r.space_encountered = s.space_encountered
BlankDropped(s, c, r) == c = Blank /\ s.q_st = FALSE /\ s.space_encountered = TRUE /\ r = s
PieceKept(s, c, r) ==
  /\ c # Quote /\ s.q_st = FALSE /\ r.q_st = FALSE
  /\ ~ (c \in Operators /\ s.char_count # 0) /\ ~ (c = Blank /\ s.space_encountered)
  /\ Keeps(s, c, r) /\ r.space_encountered = (c = Blank)
  /\ \A k \in 1 .. 4 : ~ EndsWith(r.param, Pattern[k])
KeywordCuts(s, c, r, k) ==
  LET p == Append(s.param, c)
      n == Len(p) - Len(Pattern[k])
  IN  /\ c # Quote /\ s.q_st = FALSE /\ r.q_st = FALSE
      /\ ~ (c = Blank /\ s.space_encountered)
      /\ EndsWith(p, Pattern[k])
      /\ r.toks = Append(IF n > 0 THEN Append(s.toks, SubSeq(p, 1, n)) ELSE s.toks, <<Found[k]>>)
      /\ r.param = <<>> /\ r.char_count = s.char_count + 1 /\ r.space_encountered = (c = Blank)

\* The state after a piece was kept.
LEMMA KeptIs ==
  ASSUME NEW s \in ScanStates, NEW c \in Words
  PROVE  /\ Kept(s, c) \in ScanStates
         /\ Kept(s, c).toks = s.toks /\ Kept(s, c).param = Append(s.param, c) /\ Kept(s, c).q_st = s.q_st
         /\ Kept(s, c).space_encountered = s.space_encountered /\ Kept(s, c).char_count = s.char_count + 1
<1>1. s.param \in Texts /\ s.toks \in Seq(Texts) /\ s.char_count \in Nat /\ s.q_st \in BOOLEAN
      /\ s.space_encountered \in BOOLEAN
  BY DEF ScanStates
<1> DEFINE p == Append(s.param, c)
           m == s.char_count + 1
<1>2. p \in Texts /\ m \in Nat
  BY <1>1 DEF Texts
<1>3. Kept(s, c) = [s EXCEPT !.param = p, !.char_count = m]
  BY DEF Kept
<1> HIDE DEF p, m
<1>4. /\ [s EXCEPT !.param = p, !.char_count = m] \in ScanStates
      /\ [s EXCEPT !.param = p, !.char_count = m].toks = s.toks
      /\ [s EXCEPT !.param = p, !.char_count = m].param = p
      /\ [s EXCEPT !.param = p, !.char_count = m].q_st = s.q_st
      /\ [s EXCEPT !.param = p, !.char_count = m].space_encountered = s.space_encountered
      /\ [s EXCEPT !.param = p, !.char_count = m].char_count = m
  BY <1>2 DEF ScanStates
<1> QED
  BY <1>3, <1>4, Zenon DEF p, m

\* A piece without which a text has no keyword, and which ends none, makes none.
LEMMA NoNewHit ==
  ASSUME NEW p \in Texts, NEW c \in Words, NoHit(p), \A k \in 1 .. 4 : ~ EndsWith(Append(p, c), Pattern[k])
  PROVE  NoHit(Append(p, c))
<1> SUFFICES ASSUME NEW k \in 1 .. 4 PROVE Occurrences(Pattern[k], Append(p, c)) = {}
  BY DEF NoHit
<1>1. Len(Pattern[k]) \in Nat \ {0} /\ Occurrences(Pattern[k], p) = {}
  BY PatternLengths DEF NoHit
<1> QED
  BY <1>1, OnlyAtEnd

\* What is neither a blank after a keyword nor fi ends no pattern.
LEMMA NeitherEnds ==
  ASSUME NEW p \in Texts, NEW c \in Words, c # Blank \/ p = <<>> \/ Last(p) \notin Keywords, c # "fi"
  PROVE  \A k \in 1 .. 4 : ~ EndsWith(Append(p, c), Pattern[k])
<1> SUFFICES ASSUME NEW k \in 1 .. 4, EndsWith(Append(p, c), Pattern[k]) PROVE FALSE
  OBVIOUS
<1> DEFINE q == Append(p, c)
<1>1. /\ q \in Texts /\ Len(q) = Len(p) + 1 /\ q[Len(p) + 1] = c /\ Len(p) \in Nat
      /\ \A i \in 1 .. Len(p) : q[i] = p[i]
  BY DEF Texts
<1>2. EndsWith(q, Pattern[k])
  OBVIOUS
<1> HIDE DEF q
<1>3. /\ Len(q) \in Nat /\ Len(q) >= 2
      /\ q[Len(q) - 1] = (IF k = 4 THEN Blank ELSE Found[k])
      /\ q[Len(q)] = (IF k = 4 THEN "fi" ELSE Blank)
  BY <1>1, <1>2, EndPieces
<1>4. k # 4 /\ c = Blank
  BY <1>1, <1>3
<1>5. Len(p) >= 1 /\ Last(p) = Found[k]
  BY <1>1, <1>3, <1>4 DEF Last
<1>6. Found[k] \in Keywords
  BY PatternsEnd DEF PatternEnds
<1>7. p # <<>>
  BY <1>5
<1> QED
  BY <1>4, <1>5, <1>6, <1>7

\* What a piece does to the scan is one of six things.
LEMMA ScanSays ==
  ASSUME NEW s \in ScanStates, NEW c \in Words, NoHit(s.param),
         s.q_st = TRUE => c \notin Keywords /\ s.param # <<>> /\ Last(s.param) \notin Keywords
  PROVE  LET r == Scan(s, c)
         IN  \/ QuoteKept(s, c, r) \/ QuotedKept(s, c, r) \/ OperatorCuts(s, c, r)
             \/ BlankDropped(s, c, r) \/ PieceKept(s, c, r)
             \/ \E k \in 1 .. 4 : KeywordCuts(s, c, r, k)
<1> DEFINE r == Scan(s, c)
<1>1. s.param \in Texts /\ s.toks \in Seq(Texts) /\ s.char_count \in Nat /\ s.q_st \in BOOLEAN
      /\ s.space_encountered \in BOOLEAN
  BY DEF ScanStates
<1>2. /\ Kept(s, c) \in ScanStates
      /\ Kept(s, c).toks = s.toks /\ Kept(s, c).param = Append(s.param, c) /\ Kept(s, c).q_st = s.q_st
      /\ Kept(s, c).space_encountered = s.space_encountered /\ Kept(s, c).char_count = s.char_count + 1
  BY KeptIs
<1>3. Quote # Blank /\ Quote # "fi" /\ "fi" \in Keywords /\ Quote \notin Operators
  BY DEF Quote, Blank, Keywords, Operators
<1> DEFINE x == Kept(s, c)
<1> HIDE DEF x
<1>4. /\ x \in ScanStates /\ x.toks = s.toks /\ x.param = Append(s.param, c) /\ x.q_st = s.q_st
      /\ x.space_encountered = s.space_encountered /\ x.char_count = s.char_count + 1
  BY <1>2 DEF x
<1>5. CASE c = Quote
  <2>1. r = [x EXCEPT !.q_st = ~ x.q_st, !.space_encountered = x.space_encountered /\ ~ s.q_st]
    BY <1>5 DEF Scan, Quote, Blank, Operators, x
  <2>2. /\ r.toks = s.toks /\ r.param = Append(s.param, c) /\ r.char_count = s.char_count + 1
        /\ r.q_st = ~ s.q_st /\ r.space_encountered = (s.space_encountered /\ ~ s.q_st)
    BY <1>4, <2>1 DEF ScanStates
  <2>3. NoHit(Append(s.param, c))
    BY <1>1, <1>3, <1>5, NeitherEnds, NoNewHit
  <2> HIDE DEF r
  <2>4. QuoteKept(s, c, r)
    BY <1>5, <2>2, <2>3 DEF QuoteKept, Keeps
  <2> QED
    BY <2>4 DEF r
<1>6. CASE c # Quote /\ s.q_st = TRUE
  <2>1. r = x
    BY <1>6 DEF Scan, x
  <2>2. NoHit(Append(s.param, c))
    BY <1>1, <1>3, <1>6, NeitherEnds, NoNewHit
  <2> HIDE DEF r
  <2>3. QuotedKept(s, c, r)
    BY <1>4, <1>6, <2>1, <2>2 DEF QuotedKept, Keeps
  <2> QED
    BY <2>3 DEF r
<1>7. CASE c \in Operators /\ c # Quote /\ s.q_st = FALSE /\ s.char_count # 0
  <2>1. r = [s EXCEPT !.toks = s.toks \o <<s.param, <<c>>>>, !.param = <<>>, !.char_count = 0]
    BY <1>7 DEF Scan, Quote, Blank, Operators
  <2>2. s.toks \o <<s.param, <<c>>>> = Append(Append(s.toks, s.param), <<c>>)
    <3>1. <<c>> \in Texts
      BY DEF Texts
    <3> QED
      BY <1>1, <3>1
  <2>3. /\ r.toks = Append(Append(s.toks, s.param), <<c>>) /\ r.param = <<>> /\ r.char_count = 0
        /\ r.q_st = s.q_st /\ r.space_encountered = s.space_encountered
    BY <2>1, <2>2 DEF ScanStates
  <2> HIDE DEF r
  <2>4. OperatorCuts(s, c, r)
    BY <1>7, <2>3 DEF OperatorCuts
  <2> QED
    BY <2>4 DEF r
<1>8. CASE c # Quote /\ s.q_st = FALSE /\ ~ (c \in Operators /\ s.char_count # 0) /\ c = Blank /\ s.space_encountered
  <2>1. r = s
    BY <1>8 DEF Scan
  <2> HIDE DEF r
  <2>2. BlankDropped(s, c, r)
    BY <1>1, <1>8, <2>1 DEF BlankDropped
  <2> QED
    BY <2>2 DEF r
<1>9. CASE c # Quote /\ s.q_st = FALSE /\ ~ (c \in Operators /\ s.char_count # 0) /\ ~ (c = Blank /\ s.space_encountered)
  <2> DEFINE y == [x EXCEPT !.space_encountered = (c = Blank)]
  <2>1. r = SplitAtKeyword(y)
    BY <1>9 DEF Scan, x
  <2>2. /\ y \in ScanStates /\ y.toks = s.toks /\ y.param = Append(s.param, c) /\ y.q_st = s.q_st
        /\ y.space_encountered = (c = Blank) /\ y.char_count = s.char_count + 1
    BY <1>4 DEF ScanStates
  <2> HIDE DEF y, r
  <2>3. \/ NoHit(y.param) /\ SplitAtKeyword(y) = y /\ \A k \in 1 .. 4 : ~ EndsWith(y.param, Pattern[k])
        \/ \E k \in 1 .. 4 : EndsWith(y.param, Pattern[k]) /\ SplitAtKeyword(y) = CutAt(y, k)
    BY <1>1, <2>2, SplitCuts
  <2>4. CASE NoHit(y.param) /\ SplitAtKeyword(y) = y /\ \A k \in 1 .. 4 : ~ EndsWith(y.param, Pattern[k])
    <3>1. PieceKept(s, c, r)
      BY <1>9, <2>1, <2>2, <2>4 DEF PieceKept, Keeps
    <3> QED
      BY <3>1 DEF r
  <2>5. ASSUME NEW k \in 1 .. 4, EndsWith(y.param, Pattern[k]), SplitAtKeyword(y) = CutAt(y, k)
        PROVE  KeywordCuts(s, c, r, k)
    <3> DEFINE n == Len(y.param) - Len(Pattern[k])
               l == Append(IF n > 0 THEN Append(y.toks, SubSeq(y.param, 1, n)) ELSE y.toks, <<Found[k]>>)
    <3>1. r = [y EXCEPT !.toks = l, !.param = <<>>]
      BY <2>1, <2>5 DEF CutAt
    <3>2. l = Append(IF n > 0 THEN Append(s.toks, SubSeq(Append(s.param, c), 1, n)) ELSE s.toks, <<Found[k]>>)
          /\ n = Len(Append(s.param, c)) - Len(Pattern[k])
      BY <2>2
    <3> HIDE DEF l
    <3>3. /\ r.toks = l /\ r.param = <<>> /\ r.q_st = s.q_st /\ r.space_encountered = (c = Blank)
          /\ r.char_count = s.char_count + 1
      BY <2>2, <3>1 DEF ScanStates
    <3> QED
      BY <1>9, <2>2, <2>5, <3>2, <3>3 DEF KeywordCuts
  <2> QED
    BY <2>3, <2>4, <2>5 DEF r
<1> QED
  BY <1>1, <1>5, <1>6, <1>7, <1>8, <1>9
-----------------------------------------------------------------------------
(* No word is lost.                                                        *)

\* The pieces of all tokens that are not blanks.
Told(toks) == FlattenSeq([k \in DOMAIN toks |-> NoBlank(toks[k])])

\* The pieces of the tokens, with one token more.
LEMMA ToldStep ==
  ASSUME NEW l \in Seq(Texts), NEW x \in Texts
  PROVE  /\ Told(<<>>) = <<>> /\ Told(l) \in Texts
         /\ Told(Append(l, x)) = Told(l) \o NoBlank(x)
<1> DEFINE m == Append(l, x)
           a == [k \in DOMAIN l |-> NoBlank(l[k])]
           b == [k \in DOMAIN m |-> NoBlank(m[k])]
           y == NoBlank(x)
<1>1. \A u \in Texts : NoBlank(u) \in Seq(Words)
  BY PickedTyped DEF NoBlank, Texts
<1>2. /\ m \in Seq(Texts) /\ Len(m) = Len(l) + 1 /\ Len(l) \in Nat
      /\ \A k \in 1 .. Len(l) + 1 : m[k] = IF k = Len(l) + 1 THEN x ELSE l[k]
  BY AppendedTyped
<1>3. DOMAIN l = 1 .. Len(l) /\ DOMAIN m = 1 .. Len(l) + 1 /\ \A k \in 1 .. Len(l) : l[k] \in Texts
  BY <1>2
<1>4. y \in Seq(Words)
  BY <1>1
<1> HIDE DEF m
<1>5. /\ a \in Seq(Seq(Words)) /\ Len(a) = Len(l) /\ \A k \in 1 .. Len(l) : a[k] = NoBlank(l[k])
  <2>1. a = [k \in 1 .. Len(l) |-> NoBlank(l[k])] /\ \A k \in 1 .. Len(l) : NoBlank(l[k]) \in Seq(Words)
    BY <1>1, <1>3
  <2> HIDE DEF a
  <2> QED
    BY <1>2, <2>1
<1>6. b = Append(a, y)
  <2> DEFINE c == Append(a, y)
  <2>1. /\ c \in Seq(Seq(Words)) /\ Len(c) = Len(l) + 1
        /\ \A k \in 1 .. Len(l) + 1 : c[k] = IF k = Len(l) + 1 THEN y ELSE a[k]
    <3> HIDE DEF a, y
    <3> QED BY <1>4, <1>5, AppendedTyped
  <2>2. \A k \in 1 .. Len(l) + 1 : NoBlank(m[k]) \in Seq(Words)
    <3>1. \A k \in 1 .. Len(l) + 1 : m[k] \in Texts
      BY <1>2
    <3> QED
      BY <1>1, <3>1
  <2>3. b \in Seq(Seq(Words)) /\ Len(b) = Len(l) + 1 /\ \A k \in 1 .. Len(l) + 1 : b[k] = NoBlank(m[k])
    <3>1. b = [k \in 1 .. Len(l) + 1 |-> NoBlank(m[k])]
      BY <1>3
    <3> HIDE DEF b
    <3> QED
      BY <1>2, <2>2, <3>1
  <2> HIDE DEF b, c
  <2>4. ASSUME NEW k \in 1 .. Len(l) + 1 PROVE b[k] = c[k]
    <3>1. CASE k = Len(l) + 1
      <4>1. m[k] = x
        BY <1>2, <3>1
      <4>2. b[k] = NoBlank(m[k]) /\ c[k] = y
        BY <2>1, <2>3, <3>1
      <4> QED
        BY <4>1, <4>2
    <3>2. CASE k # Len(l) + 1
      <4>1. m[k] = l[k] /\ k \in 1 .. Len(l)
        BY <1>2, <3>2
      <4>2. b[k] = NoBlank(m[k]) /\ c[k] = a[k]
        BY <2>1, <2>3, <3>2
      <4>3. a[k] = NoBlank(l[k])
        BY <1>5, <4>1
      <4> QED
        BY <4>1, <4>2, <4>3
    <3> QED
      BY <3>1, <3>2
  <2>5. b = c
    <3>1. Len(b) = Len(c) /\ \A k \in 1 .. Len(b) : b[k] = c[k]
      BY <2>1, <2>3, <2>4
    <3> QED
      BY <2>1, <2>3, <3>1, SameText
  <2> QED
    BY <2>5 DEF c
<1>7. FlattenSeq(a) \in Seq(Words) /\ FlattenSeq(Append(a, y)) = FlattenSeq(a) \o y
  <2> HIDE DEF a, y
  <2> QED BY <1>4, <1>5, FlattenAppend
<1>8. Told(<<>>) = <<>>
  <2>1. [k \in DOMAIN <<>> |-> NoBlank(<<>>[k])] = <<>>
    OBVIOUS
  <2>2. FlattenSeq(<<>>) = <<>>
    BY DEF FlattenSeq
  <2> QED
    BY <2>1, <2>2 DEF Told
<1>9. Told(l) = FlattenSeq(a) /\ Told(m) = FlattenSeq(b)
  BY DEF Told
<1> QED
  BY <1>6, <1>7, <1>8, <1>9 DEF Texts, m, y

\* What the scan has read is in the tokens and in the one that is being filled.
ToldSoFar(t, s, n) ==
  /\ s.q_st <=> Cardinality(QuotesUpTo(t, n)) % 2 = 1
  /\ s.char_count = 0 => s.param = <<>>
  /\ NoHit(s.param)
  /\ s.q_st = TRUE => s.param # <<>> /\ Last(s.param) \notin Keywords
  /\ Told(s.toks) \o NoBlank(s.param) = NoBlank(SubSeq(t, 1, n))

\* A text of one piece.
LEMMA OneWord ==
  ASSUME NEW w \in Words
  PROVE  <<w>> \in Texts /\ NoBlank(<<w>>) = IF w = Blank THEN <<>> ELSE <<w>>
<1>1. <<>> \in Texts /\ Append(<<>>, w) = <<w>> /\ <<w>> \in Texts
  BY DEF Texts
<1>2. NoBlank(<<>>) = <<>> /\ NoBlank(Append(<<>>, w)) = IF w = Blank THEN NoBlank(<<>>) ELSE Append(NoBlank(<<>>), w)
  BY <1>1, NoBlankStep
<1> QED
  BY <1>1, <1>2

\* A pattern is its keyword between blanks.
LEMMA PatternWords ==
  ASSUME NEW k \in 1 .. 4
  PROVE  Pattern[k] \in Texts /\ NoBlank(Pattern[k]) = <<Found[k]>> /\ Found[k] # Blank
<1>1. /\ "if" \in Words /\ "then" \in Words /\ "else" \in Words /\ "fi" \in Words /\ Blank \in Words
      /\ "if" # Blank /\ "then" # Blank /\ "else" # Blank /\ "fi" # Blank
  BY DEF Words, Keywords, Blank
<1>2. ASSUME NEW a \in Words, NEW b \in Words
      PROVE  <<a, b>> \in Texts /\ NoBlank(<<a, b>>) = IF b = Blank THEN NoBlank(<<a>>) ELSE Append(NoBlank(<<a>>), b)
  <2>1. <<a>> \in Texts /\ <<a, b>> = Append(<<a>>, b) /\ <<a, b>> \in Texts
    BY DEF Texts
  <2> QED
    BY <2>1, NoBlankStep, Zenon
<1>3. ASSUME NEW a \in Words, NEW b \in Words, NEW d \in Words
      PROVE  <<a, b, d>> \in Texts /\ NoBlank(<<a, b, d>>) = IF d = Blank THEN NoBlank(<<a, b>>) ELSE Append(NoBlank(<<a, b>>), d)
  <2>1. <<a, b>> \in Texts /\ <<a, b, d>> = Append(<<a, b>>, d) /\ <<a, b, d>> \in Texts
    BY DEF Texts
  <2> QED
    BY <2>1, NoBlankStep, Zenon
<1>4. \A w : Append(<<>>, w) = <<w>>
  OBVIOUS
<1>5. NoBlank(<<Blank>>) = <<>> /\ \A w \in Words : w # Blank => NoBlank(<<w>>) = <<w>>
  BY <1>1, OneWord
<1>6. ASSUME NEW w \in Words, w # Blank
      PROVE  /\ <<w, Blank>> \in Texts /\ NoBlank(<<w, Blank>>) = <<w>>
             /\ <<Blank, w>> \in Texts /\ NoBlank(<<Blank, w>>) = <<w>>
             /\ <<Blank, w, Blank>> \in Texts /\ NoBlank(<<Blank, w, Blank>>) = <<w>>
  <2>1. <<w, Blank>> \in Texts /\ NoBlank(<<w, Blank>>) = <<w>>
    BY <1>1, <1>2, <1>5, <1>6, Zenon
  <2>2. <<Blank, w>> \in Texts /\ NoBlank(<<Blank, w>>) = <<w>>
    BY <1>1, <1>2, <1>4, <1>5, <1>6, Zenon
  <2>3. <<Blank, w, Blank>> \in Texts /\ NoBlank(<<Blank, w, Blank>>) = <<w>>
    BY <1>1, <1>3, <1>6, <2>2, Zenon
  <2> QED
    BY <2>1, <2>2, <2>3
<1>7. /\ Pattern[1] = <<"if", Blank>> /\ Pattern[2] = <<Blank, "then", Blank>>
      /\ Pattern[3] = <<Blank, "else", Blank>> /\ Pattern[4] = <<Blank, "fi">>
      /\ Found[1] = "if" /\ Found[2] = "then" /\ Found[3] = "else" /\ Found[4] = "fi"
  BY DEF Pattern, Found
<1>8. k = 1 \/ k = 2 \/ k = 3 \/ k = 4
  OBVIOUS
<1> QED
  BY <1>1, <1>6, <1>7, <1>8, Zenon

\* Cutting a keyword off loses nothing.
LEMMA CutLosesNothing ==
  ASSUME NEW s \in ScanStates, NEW c \in Words, NEW r, NEW k \in 1 .. 4, KeywordCuts(s, c, r, k)
  PROVE  Told(r.toks) \o NoBlank(r.param) = Told(s.toks) \o NoBlank(Append(s.param, c))
<1> DEFINE p == Append(s.param, c)
           n == Len(p) - Len(Pattern[k])
           x == SubSeq(p, 1, n)
           l == IF n > 0 THEN Append(s.toks, x) ELSE s.toks
<1>1. p \in Texts /\ s.toks \in Seq(Texts)
  BY DEF ScanStates, Texts
<1>2. EndsWith(p, Pattern[k]) /\ r.toks = Append(l, <<Found[k]>>) /\ r.param = <<>>
  BY DEF KeywordCuts
<1> HIDE DEF p
<1>3. n \in 0 .. Len(p) /\ x \in Texts /\ Len(x) = n /\ p = x \o Pattern[k]
  BY <1>1, <1>2, PatternLengths, EndOf
<1>4. Pattern[k] \in Texts /\ NoBlank(Pattern[k]) = <<Found[k]>> /\ Found[k] # Blank /\ Found[k] \in Words
  <2>1. Found[k] \in Keywords
    BY PatternsEnd DEF PatternEnds
  <2> QED
    BY <2>1, PatternWords DEF Words
<1>5. NoBlank(p) = NoBlank(x) \o <<Found[k]>>
  <2> HIDE DEF x
  <2>1. NoBlank(x \o Pattern[k]) = NoBlank(x) \o NoBlank(Pattern[k])
    BY <1>3, <1>4, NoBlankJoined
  <2> QED
    BY <1>3, <1>4, <2>1
<1>6. Told(l) = Told(s.toks) \o NoBlank(x) /\ l \in Seq(Texts) /\ Told(s.toks) \in Texts
  <2> HIDE DEF n, x
  <2>1. Told(s.toks) \in Texts /\ Told(Append(s.toks, x)) = Told(s.toks) \o NoBlank(x)
    BY <1>1, <1>3, ToldStep
  <2>2. CASE n > 0
    BY <1>1, <1>3, <2>1, <2>2
  <2>3. CASE ~ (n > 0)
    <3>1. x = <<>>
      BY <1>3, <2>3 DEF Texts
    <3>2. NoBlank(x) = <<>>
      BY <3>1, PickedNone DEF NoBlank
    <3>3. Told(s.toks) \o <<>> = Told(s.toks)
      BY <2>1 DEF Texts
    <3> QED
      BY <1>1, <2>1, <2>3, <3>2, <3>3
  <2> QED
    BY <2>2, <2>3
<1> HIDE DEF l, x, n
<1>7. Told(r.toks) = Told(l) \o <<Found[k]>>
  <2>1. <<Found[k]>> \in Texts /\ NoBlank(<<Found[k]>>) = <<Found[k]>>
    BY <1>4, OneWord
  <2> QED
    BY <1>2, <1>6, <2>1, ToldStep
<1>8. NoBlank(r.param) = <<>>
  BY <1>2, PickedNone DEF NoBlank
<1>9. \A a, b, d \in Seq(Words) : ((a \o b) \o d) \o <<>> = a \o (b \o d)
  OBVIOUS
<1>10. Told(s.toks) \in Seq(Words) /\ NoBlank(x) \in Seq(Words) /\ <<Found[k]>> \in Seq(Words)
  <2>1. NoBlank(x) \in Seq(Words)
    BY <1>3, PickedTyped DEF NoBlank, Texts
  <2> QED
    BY <1>4, <1>6, <2>1 DEF Texts
<1>11. ((Told(s.toks) \o NoBlank(x)) \o <<Found[k]>>) \o <<>> = Told(s.toks) \o (NoBlank(x) \o <<Found[k]>>)
  BY <1>9, <1>10, Zenon
<1> QED
  BY <1>5, <1>6, <1>7, <1>8, <1>11 DEF p

\* The states of the scan, and what is made of the last one.
ScansUpTo(f, t, n) == f[0] = Start /\ \A i \in 1 .. n : f[i] = Scan(f[i - 1], t[i])
ScanEnd(s) == LET toks == IF s.char_count # 0 /\ ~ s.q_st THEN Append(s.toks, s.param) ELSE s.toks
              IN  [k \in DOMAIN toks |-> cleanCmd(toks[k])]

\* The scan is the scan of the pieces one after another, from Start.
LEMMA ScannedUnfolds ==
  ASSUME NEW t \in Texts
  PROVE  \E f \in [0 .. Len(t) -> ScanStates] : ScansUpTo(f, t, Len(t)) /\ scanned(t) = ScanEnd(f[Len(t)])
<1> DEFINE n == Len(t)
           F == [x \in ScanStates \X (1 .. n) |-> Scan(x[1], t[x[2]])]
           c == CHOOSE c : c = [i \in 0 .. Len(t) |-> IF i = 0 THEN Start ELSE Scan(c[i - 1], t[i])]
<1>1. n \in Nat /\ \A i \in 1 .. n : t[i] \in Words
  BY DEF Texts
<1>2. \A x \in ScanStates, i \in 1 .. n : Scan(x, t[i]) \in ScanStates
  BY <1>1, ScanTyped
<1>3. F \in [ScanStates \X (1 .. n) -> ScanStates]
  BY <1>2
<1>4. \A x \in ScanStates, i \in 1 .. n : F[<<x, i>>] = Scan(x, t[i])
  BY DEF F
<1>5. scanned(t) = ScanEnd(c[Len(t)])
  BY DEF scanned, ScanEnd
<1> HIDE DEF F
<1>6. c = [i \in 0 .. n |-> IF i = 0 THEN Start ELSE Scan(c[i - 1], t[i])]
  <2> HIDE DEF n
  <2>1. PICK f \in [0 .. n -> ScanStates] : Recurs(f, n, Start, F)
    BY <1>1, <1>3, StartTyped, RecursiveFunction
  <2>2. ASSUME NEW i \in 0 .. n PROVE f[i] = IF i = 0 THEN Start ELSE Scan(f[i - 1], t[i])
    <3>1. f[i] = IF i = 0 THEN Start ELSE F[<<f[i - 1], i>>]
      BY <2>1 DEF Recurs
    <3>2. i # 0 => i \in 1 .. n /\ i - 1 \in 0 .. n
      BY <1>1
    <3>3. i # 0 => F[<<f[i - 1], i>>] = Scan(f[i - 1], t[i])
      BY <1>4, <2>1, <3>2
    <3> QED
      BY <3>1, <3>3
  <2>3. f = [i \in 0 .. n |-> IF i = 0 THEN Start ELSE Scan(f[i - 1], t[i])]
    BY <2>1, <2>2
  <2> QED
    BY <2>3 DEF n
<1> HIDE DEF c, n
<1>7. ScansUpTo(c, t, n)
  <2>1. c[0] = Start
    BY <1>1, <1>6
  <2>2. ASSUME NEW i \in 1 .. n PROVE c[i] = Scan(c[i - 1], t[i])
    <3>1. i \in 0 .. n /\ i # 0
      BY <1>1
    <3> QED
      BY <1>6, <3>1
  <2> QED
    BY <2>1, <2>2 DEF ScansUpTo
<1> DEFINE S == {m \in Nat : m <= n => c[m] \in ScanStates}
<1>8. 0 \in S
  BY <1>7, StartTyped DEF ScansUpTo
<1>9. ASSUME NEW m \in Nat, m \in S PROVE m + 1 \in S
  <2> SUFFICES ASSUME m + 1 <= n PROVE c[m + 1] \in ScanStates
    OBVIOUS
  <2>1. m + 1 \in 1 .. n /\ (m + 1) - 1 = m /\ c[m] \in ScanStates
    BY <1>1, <1>9
  <2>2. c[m + 1] = Scan(c[m], t[m + 1])
    BY <1>7, <2>1 DEF ScansUpTo
  <2> QED
    BY <1>2, <2>1, <2>2
<1>10. \A m \in Nat : m \in S
  <2> HIDE DEF S
  <2> QED BY <1>8, <1>9, Induction
<1>11. c \in [0 .. n -> ScanStates]
  <2>1. \A i \in 0 .. n : c[i] \in ScanStates
    BY <1>1, <1>10
  <2> DEFINE g == [i \in 0 .. n |-> IF i = 0 THEN Start ELSE Scan(c[i - 1], t[i])]
  <2>2. c = g /\ DOMAIN g = 0 .. n /\ g = [i \in DOMAIN g |-> g[i]]
    BY <1>6
  <2> HIDE DEF g
  <2> QED
    BY <2>1, <2>2
<1> QED
  BY <1>5, <1>7, <1>11 DEF n

\* No keyword is in an empty text.
LEMMA NothingHits == NoHit(<<>>)
<1> SUFFICES ASSUME NEW k \in 1 .. 4 PROVE Occurrences(Pattern[k], <<>>) = {}
  BY DEF NoHit
<1> DEFINE m == Len(Pattern[k])
<1>1. m \in Nat \ {0}
  BY PatternLengths
<1>2. Occurrences(Pattern[k], <<>>) = {i \in 1 .. 0 - m + 1 : SubSeq(<<>>, i, i + m - 1) = Pattern[k]}
  BY DEF Occurrences
<1> HIDE DEF m
<1>3. 1 .. 0 - m + 1 = {} \/ m = 1
  BY <1>1
<1>4. m # 1
  BY PatternsEnd DEF PatternEnds, m
<1> QED
  BY <1>2, <1>3, <1>4

\* A piece more loses nothing: the invariant behind ScanLosesNothing.
LEMMA ToldMore ==
  ASSUME NEW t \in Texts, Balanced(t), NEW n \in Nat, n < Len(t), NEW s \in ScanStates, ToldSoFar(t, s, n)
  PROVE  ToldSoFar(t, Scan(s, t[n + 1]), n + 1)
<1> DEFINE r == Scan(s, t[n + 1])
           c == t[n + 1]
<1>1. c \in Words /\ n + 1 \in 1 .. Len(t) /\ DOMAIN t = 1 .. Len(t)
  BY DEF Texts
<1>2. s.param \in Texts /\ s.toks \in Seq(Texts) /\ s.char_count \in Nat /\ s.q_st \in BOOLEAN
  BY DEF ScanStates
<1>3. /\ s.q_st <=> Cardinality(QuotesUpTo(t, n)) % 2 = 1
      /\ s.char_count = 0 => s.param = <<>>
      /\ NoHit(s.param)
      /\ s.q_st = TRUE => s.param # <<>> /\ Last(s.param) \notin Keywords
      /\ Told(s.toks) \o NoBlank(s.param) = NoBlank(SubSeq(t, 1, n))
  BY DEF ToldSoFar
<1>4. /\ Cardinality(QuotesUpTo(t, n)) \in Nat
      /\ Cardinality(QuotesUpTo(t, n + 1)) = Cardinality(QuotesUpTo(t, n)) + (IF c = Quote THEN 1 ELSE 0)
      /\ n + 1 \in Quoted(t) <=> c # Quote /\ Cardinality(QuotesUpTo(t, n)) % 2 = 1
  BY QuotesStep
<1>5. s.q_st = TRUE => c \notin Keywords
  <2>1. Quote \notin Keywords
    BY DEF Quote, Keywords
  <2>2. CASE s.q_st = TRUE /\ c # Quote
    <3>1. n + 1 \in Quoted(t)
      BY <1>3, <1>4, <2>2
    <3> QED
      BY <3>1 DEF Balanced
  <2> QED
    BY <2>1, <2>2
<1>6. NoBlank(SubSeq(t, 1, n + 1)) = IF c = Blank THEN NoBlank(SubSeq(t, 1, n)) ELSE Append(NoBlank(SubSeq(t, 1, n)), c)
  <2>1. 1 \in 1 .. n + 1
    OBVIOUS
  <2>2. SubSeq(t, 1, n) \in Texts /\ SubSeq(t, 1, n + 1) = Append(SubSeq(t, 1, n), c)
    BY <2>1, PartGrows
  <2> QED
    BY <1>1, <2>2, NoBlankStep
<1>7. NoBlank(Append(s.param, c)) = IF c = Blank THEN NoBlank(s.param) ELSE Append(NoBlank(s.param), c)
  BY <1>1, <1>2, NoBlankStep
<1> DEFINE a == Told(s.toks)
           b == NoBlank(s.param)
           d == NoBlank(SubSeq(t, 1, n))
           e == NoBlank(SubSeq(t, 1, n + 1))
<1>8. a \in Seq(Words) /\ b \in Seq(Words)
  <2>1. <<>> \in Texts
    BY DEF Texts
  <2>2. a \in Texts
    BY <1>2, <2>1, ToldStep
  <2>3. b \in Texts
    BY <1>1, <1>2, NoBlankStep
  <2> QED
    BY <2>2, <2>3 DEF Texts
<1>9. a \o NoBlank(Append(s.param, c)) = e
  <2> HIDE DEF a, b, d, e
  <2>1. a \o b = d /\ e = (IF c = Blank THEN d ELSE Append(d, c))
        /\ NoBlank(Append(s.param, c)) = (IF c = Blank THEN b ELSE Append(b, c))
    BY <1>3, <1>6, <1>7 DEF a, b, d, e
  <2>2. a \o Append(b, c) = Append(a \o b, c)
    BY <1>1, <1>8, JoinedStep
  <2> QED
    BY <2>1, <2>2
<1>10. \/ QuoteKept(s, c, r) \/ QuotedKept(s, c, r) \/ OperatorCuts(s, c, r)
       \/ BlankDropped(s, c, r) \/ PieceKept(s, c, r)
       \/ \E k \in 1 .. 4 : KeywordCuts(s, c, r, k)
  BY <1>1, <1>3, <1>5, ScanSays
<1> HIDE DEF r
\* The quotes, and what the pieces leave behind.
<1>11. r.q_st <=> Cardinality(QuotesUpTo(t, n + 1)) % 2 = 1
  <2> DEFINE q == Cardinality(QuotesUpTo(t, n))
             h == Cardinality(QuotesUpTo(t, n + 1))
  <2>1. q \in Nat /\ h = q + (IF c = Quote THEN 1 ELSE 0) /\ (s.q_st <=> q % 2 = 1)
    BY <1>3, <1>4
  <2> HIDE DEF q, h, c
  <2>2. CASE c = Quote
    <3>1. QuoteKept(s, c, r)
      BY <1>10, <2>2 DEF QuotedKept, OperatorCuts, BlankDropped, PieceKept, KeywordCuts, Operators, Quote, Blank
    <3>2. r.q_st <=> ~ (q % 2 = 1)
      BY <2>1, <3>1, Zenon DEF QuoteKept
    <3>3. (q + 1) % 2 = 1 <=> ~ (q % 2 = 1)
      BY <2>1
    <3>4. h = q + 1
      BY <2>1, <2>2
    <3> QED
      BY <3>2, <3>3, <3>4 DEF h
  <2>3. CASE c # Quote
    <3>1. r.q_st <=> s.q_st
      <4>1. ~ QuoteKept(s, c, r)
        BY <2>3 DEF QuoteKept
      <4> QED
        BY <1>10, <4>1, Zenon DEF QuotedKept, OperatorCuts, BlankDropped, PieceKept, KeywordCuts
    <3>2. h = q
      BY <2>1, <2>3
    <3> QED
      BY <2>1, <3>1, <3>2, Zenon DEF h
  <2> QED
    BY <2>2, <2>3
<1>12. CASE Keeps(s, c, r)
  <2>1. r.param = Append(s.param, c) /\ NoHit(r.param) /\ r.char_count = s.char_count + 1 /\ r.toks = s.toks
    BY <1>12 DEF Keeps
  <2>2. r.char_count # 0
    BY <1>2, <2>1
  <2>3. r.param # <<>> /\ Last(r.param) = c
    <3>1. /\ Len(Append(s.param, c)) = Len(s.param) + 1 /\ Len(s.param) \in Nat
          /\ Append(s.param, c)[Len(s.param) + 1] = c
      BY <1>1, <1>2 DEF Texts
    <3> QED
      BY <2>1, <3>1 DEF Last
  <2>4. r.q_st = TRUE => c \notin Keywords
    <3>1. Quote \notin Keywords
      BY DEF Quote, Keywords
    <3>2. s.q_st = TRUE \/ c = Quote \/ r.q_st = FALSE
      <4> HIDE DEF c
      <4> QED
        BY <1>10, <1>12, Zenon DEF QuoteKept, QuotedKept, OperatorCuts, BlankDropped, PieceKept, KeywordCuts
    <3> QED
      BY <1>5, <3>1, <3>2
  <2>5. Told(r.toks) \o NoBlank(r.param) = NoBlank(SubSeq(t, 1, n + 1))
    BY <1>9, <2>1
  <2> QED
    BY <1>11, <2>1, <2>2, <2>3, <2>4, <2>5 DEF ToldSoFar, r
<1>13. CASE OperatorCuts(s, c, r)
  <2>1. /\ r.toks = Append(Append(s.toks, s.param), <<c>>) /\ r.param = <<>> /\ r.q_st = FALSE /\ c # Blank
    <3>1. c \in Operators => c # Blank
      BY DEF Operators, Blank
    <3> QED
      BY <1>13, <3>1 DEF OperatorCuts
  <2>2. NoHit(<<>>)
    BY NothingHits
  <2>3. Told(r.toks) \o NoBlank(r.param) = NoBlank(SubSeq(t, 1, n + 1))
    <3>1. <<c>> \in Texts /\ NoBlank(<<c>>) = <<c>>
      BY <1>1, <2>1, OneWord
    <3>2. Append(s.toks, s.param) \in Seq(Texts) /\ Told(Append(s.toks, s.param)) = a \o b
      BY <1>2, ToldStep
    <3>3. Told(r.toks) = (a \o b) \o <<c>>
      BY <2>1, <3>1, <3>2, ToldStep
    <3>4. NoBlank(r.param) = <<>>
      BY <2>1, PickedNone DEF NoBlank
    <3> HIDE DEF a, b, d, e, c
    <3>5. (a \o b) \o <<c>> = Append(a \o b, c) /\ Append(a \o b, c) \o <<>> = Append(a \o b, c)
      <4>1. a \o b \in Seq(Words)
        BY <1>8
      <4> QED
        BY <1>1, <4>1
    <3>6. e = Append(a \o b, c)
      BY <1>3, <1>6, <2>1 DEF a, b, d, e, c
    <3> QED
      BY <3>3, <3>4, <3>5, <3>6 DEF e
  <2> QED
    BY <1>11, <2>1, <2>2, <2>3 DEF ToldSoFar, r
<1>14. CASE BlankDropped(s, c, r)
  <2>1. r = s /\ c = Blank /\ s.q_st = FALSE
    BY <1>14 DEF BlankDropped
  <2>2. NoBlank(SubSeq(t, 1, n + 1)) = NoBlank(SubSeq(t, 1, n))
    BY <1>6, <2>1
  <2> QED
    BY <1>3, <1>11, <2>1, <2>2 DEF ToldSoFar, r
<1>15. ASSUME NEW k \in 1 .. 4, KeywordCuts(s, c, r, k) PROVE ToldSoFar(t, r, n + 1)
  <2>1. r.param = <<>> /\ r.q_st = FALSE
    BY <1>15 DEF KeywordCuts
  <2>2. Told(r.toks) \o NoBlank(r.param) = NoBlank(SubSeq(t, 1, n + 1))
    BY <1>1, <1>9, <1>15, CutLosesNothing
  <2> QED
    BY <1>11, <2>1, <2>2, NothingHits DEF ToldSoFar
<1> QED
  BY <1>10, <1>12, <1>13, <1>14, <1>15 DEF QuoteKept, QuotedKept, PieceKept, r

Cleaned(toks) == [k \in DOMAIN toks |-> cleanCmd(toks[k])]

\* Cleaning the tokens loses nothing either.
LEMMA CleanedTyped ==
  ASSUME NEW l \in Seq(Texts)
  PROVE  /\ Cleaned(l) \in Seq(Texts) /\ Len(Cleaned(l)) = Len(l) /\ Told(Cleaned(l)) = Told(l)
         /\ \A k \in 1 .. Len(l) : Cleaned(l)[k] = cleanCmd(l[k])
<1> DEFINE m == Cleaned(l)
<1>1. DOMAIN l = 1 .. Len(l) /\ Len(l) \in Nat /\ \A k \in 1 .. Len(l) : l[k] \in Texts /\ cleanCmd(l[k]) \in Texts
  BY CleanTyped
<1>2. m = [k \in 1 .. Len(l) |-> cleanCmd(l[k])]
  BY <1>1 DEF Cleaned
<1> HIDE DEF m
<1>3. m \in Seq(Texts) /\ Len(m) = Len(l) /\ DOMAIN m = 1 .. Len(l) /\ \A k \in 1 .. Len(l) : m[k] = cleanCmd(l[k])
  BY <1>1, <1>2
<1>4. ASSUME NEW k \in 1 .. Len(l) PROVE NoBlank(m[k]) = NoBlank(l[k])
  BY <1>1, <1>3, CleanKeepsWords
<1>5. [k \in DOMAIN m |-> NoBlank(m[k])] = [k \in DOMAIN l |-> NoBlank(l[k])]
  BY <1>1, <1>3, <1>4
<1>6. Told(m) = Told(l)
  BY <1>5 DEF Told
<1> QED
  BY <1>3, <1>6 DEF m

(* No word is lost or moved, whatever is typed with its quotes closed and  *)
(* no keyword in them.                                                     *)
LEMMA ScanLosesNothing ==
  ASSUME NEW t \in Texts, Balanced(t)
  PROVE  Told(scanned(t)) = NoBlank(t)
<1> DEFINE n == Len(t)
<1>1. n \in Nat /\ DOMAIN t = 1 .. n
  BY DEF Texts
<1>2. PICK f \in [0 .. n -> ScanStates] : ScansUpTo(f, t, n) /\ scanned(t) = ScanEnd(f[n])
  BY ScannedUnfolds
<1> DEFINE S == {m \in Nat : m <= n => ToldSoFar(t, f[m], m)}
<1>3. 0 \in S
  <2>1. f[0] = Start
    BY <1>2 DEF ScansUpTo
  <2>2. Start.q_st = FALSE /\ Start.param = <<>> /\ Start.toks = <<>>
    BY DEF Start
  <2>3. Cardinality(QuotesUpTo(t, 0)) = 0
    <3>1. QuotesUpTo(t, 0) = {}
      BY <1>1 DEF QuotesUpTo, Quotes
    <3> QED
      BY <3>1, FS_EmptySet
  <2>4. 0 % 2 # 1
    OBVIOUS
  <2>5. Told(<<>>) = <<>> /\ NoBlank(<<>>) = <<>> /\ SubSeq(t, 1, 0) = <<>> /\ <<>> \o <<>> = <<>>
    <3>1. <<>> \in Seq(Texts) /\ <<>> \in Texts /\ SubSeq(t, 1, 0) = <<>> /\ <<>> \o <<>> = <<>>
      BY DEF Texts
    <3> QED
      BY <3>1, ToldStep, PickedNone DEF NoBlank
  <2>6. Told(Start.toks) \o NoBlank(Start.param) = NoBlank(SubSeq(t, 1, 0))
    BY <2>2, <2>5
  <2>7. ToldSoFar(t, Start, 0)
    BY <2>2, <2>3, <2>4, <2>6, NothingHits DEF ToldSoFar
  <2> QED
    BY <2>1, <2>7
<1>4. ASSUME NEW m \in Nat, m \in S PROVE m + 1 \in S
  <2> SUFFICES ASSUME m + 1 <= n PROVE ToldSoFar(t, f[m + 1], m + 1)
    OBVIOUS
  <2>1. m + 1 \in 1 .. n /\ (m + 1) - 1 = m /\ m < n /\ m \in 0 .. n /\ ToldSoFar(t, f[m], m)
    BY <1>1, <1>4
  <2>2. f[m + 1] = Scan(f[m], t[m + 1]) /\ f[m] \in ScanStates
    BY <1>2, <2>1 DEF ScansUpTo
  <2> QED
    BY <2>1, <2>2, ToldMore
<1>5. ToldSoFar(t, f[n], n)
  <2>1. \A m \in Nat : m \in S
    <3> HIDE DEF S
    <3> QED BY <1>3, <1>4, Induction
  <2>2. n \in S
    BY <1>1, <2>1
  <2> QED
    BY <1>1, <2>2
<1> DEFINE s == f[n]
           toks == IF s.char_count # 0 /\ ~ s.q_st THEN Append(s.toks, s.param) ELSE s.toks
<1>6. s \in ScanStates /\ s.toks \in Seq(Texts) /\ s.param \in Texts /\ s.q_st \in BOOLEAN
  BY <1>1, <1>2 DEF ScanStates
<1>7. SubSeq(t, 1, n) = t
  BY DEF Texts
<1> HIDE DEF s
<1>8. /\ s.char_count = 0 => s.param = <<>>
      /\ s.q_st <=> Cardinality(QuotesUpTo(t, n)) % 2 = 1
      /\ Told(s.toks) \o NoBlank(s.param) = NoBlank(t)
  BY <1>5, <1>7 DEF ToldSoFar, s
<1>9. s.q_st = FALSE
  <2>1. QuotesUpTo(t, n) = Quotes(t)
    BY <1>1 DEF QuotesUpTo, Quotes
  <2>2. Cardinality(Quotes(t)) % 2 = 0
    BY DEF Balanced
  <2> QED
    BY <1>6, <1>8, <2>1, <2>2
<1>10. toks \in Seq(Texts) /\ Told(toks) = NoBlank(t)
  <2>1. Told(Append(s.toks, s.param)) = Told(s.toks) \o NoBlank(s.param) /\ Append(s.toks, s.param) \in Seq(Texts)
        /\ Told(s.toks) \in Texts
    BY <1>6, ToldStep
  <2>2. CASE s.char_count # 0
    BY <1>8, <1>9, <2>1, <2>2
  <2>3. CASE s.char_count = 0
    <3>1. NoBlank(s.param) = <<>>
      BY <1>8, <2>3, PickedNone DEF NoBlank
    <3>2. Told(s.toks) \o <<>> = Told(s.toks)
      BY <2>1 DEF Texts
    <3> QED
      BY <1>6, <1>8, <2>3, <3>1, <3>2
  <2> QED
    BY <2>2, <2>3
<1>11. scanned(t) = Cleaned(toks)
  BY <1>2 DEF ScanEnd, Cleaned, s
<1> HIDE DEF toks
<1> QED
  BY <1>10, <1>11, CleanedTyped
-----------------------------------------------------------------------------
(* A text as it is written, one piece at a time.                           *)

\* What lies between cuts, from the places of the cuts.
LEMMA ChunksAre ==
  ASSUME NEW t \in Texts, NEW P
  PROVE  LET c == InOrder(P, Len(t))
             chunks == Chunks(t, P)
         IN  /\ c \in Seq(1 .. Len(t)) /\ chunks \in Seq(Texts) /\ Len(chunks) = Len(c) + 1
             /\ \A k \in 1 .. Len(c) : chunks[k] = SubSeq(t, WordStart(c, k), c[k] - 1)
             /\ chunks[Len(c) + 1] = SubSeq(t, WordStart(c, Len(c) + 1), Len(t))
<1> DEFINE n == Len(t)
           c == InOrder(P, n)
           b == <<0>> \o c \o <<n + 1>>
           chunks == Chunks(t, P)
<1>1. n \in Nat
  BY DEF Texts
<1>2. c \in Seq(1 .. n)
  BY <1>1, InOrderTyped
<1>3. chunks = [k \in 1 .. Len(b) - 1 |-> SubSeq(t, b[k] + 1, b[k + 1] - 1)]
  BY DEF Chunks
<1>4. /\ Len(b) = Len(c) + 2 /\ b[Len(c) + 2] = n + 1 /\ b[1] = 0 /\ Len(c) \in Nat
      /\ \A k \in 1 .. Len(c) : b[k + 1] = c[k]
  <2> HIDE DEF c, n
  <2> QED BY <1>1, <1>2
<1> HIDE DEF b, chunks, c
<1>5. \A k \in 1 .. Len(c) + 1 : b[k] + 1 = WordStart(c, k)
  <2> SUFFICES ASSUME NEW k \in 1 .. Len(c) + 1 PROVE b[k] + 1 = WordStart(c, k)
    OBVIOUS
  <2>1. CASE k = 1
    BY <1>4, <2>1 DEF WordStart
  <2>2. CASE k # 1
    <3>1. k - 1 \in 1 .. Len(c) /\ (k - 1) + 1 = k
      BY <1>4, <2>2
    <3>2. b[k] = c[k - 1]
      BY <1>4, <3>1
    <3> QED
      BY <2>2, <3>2 DEF WordStart
  <2> QED
    BY <2>1, <2>2
<1>6. ASSUME NEW k \in 1 .. Len(c) + 1
      PROVE  chunks[k] = SubSeq(t, WordStart(c, k), b[k + 1] - 1)
  <2>1. k \in 1 .. Len(b) - 1
    BY <1>4
  <2>2. chunks[k] = SubSeq(t, b[k] + 1, b[k + 1] - 1)
    BY <1>3, <2>1, Zenon
  <2>3. b[k] + 1 = WordStart(c, k)
    BY <1>5
  <2> QED
    BY <2>2, <2>3, Zenon
<1>7. chunks[Len(c) + 1] = SubSeq(t, WordStart(c, Len(c) + 1), n)
  <2>1. chunks[Len(c) + 1] = SubSeq(t, WordStart(c, Len(c) + 1), b[(Len(c) + 1) + 1] - 1)
    BY <1>4, <1>6
  <2>2. b[(Len(c) + 1) + 1] - 1 = n
    BY <1>1, <1>4
  <2> QED
    BY <2>1, <2>2, Zenon
<1>8. ASSUME NEW k \in 1 .. Len(c) PROVE chunks[k] = SubSeq(t, WordStart(c, k), c[k] - 1)
  <2>1. k \in 1 .. Len(c) + 1 /\ b[k + 1] = c[k]
    BY <1>4
  <2> QED
    BY <1>6, <2>1, Zenon
<1>9. chunks \in Seq(Texts) /\ Len(chunks) = Len(c) + 1
  <2>1. chunks \in Seq(Texts)
    BY ChunksTyped DEF chunks
  <2>2. DOMAIN chunks = 1 .. Len(c) + 1
    BY <1>3, <1>4
  <2> QED
    BY <1>4, <2>1, <2>2
<1> QED
  BY <1>2, <1>7, <1>8, <1>9 DEF c, chunks, n

\* The places up to m are the first of those up to n.
LEMMA InOrderPrefix ==
  ASSUME NEW P, NEW m \in Nat, NEW n \in Nat, m <= n
  PROVE  /\ Len(InOrder(P, m)) \in Nat /\ Len(InOrder(P, n)) \in Nat
         /\ Len(InOrder(P, m)) <= Len(InOrder(P, n))
         /\ \A k \in 1 .. Len(InOrder(P, m)) : InOrder(P, n)[k] = InOrder(P, m)[k]
<1> DEFINE a == InOrder(P, m)
           Same(b) == /\ Len(a) \in Nat /\ Len(b) \in Nat /\ Len(a) <= Len(b)
                      /\ \A k \in 1 .. Len(a) : b[k] = a[k]
           S == {d \in Nat : Same(InOrder(P, m + d))}
<1>1. a \in Seq(1 .. m) /\ m + 0 = m
  BY InOrderTyped
<1>2. 0 \in S
  BY <1>1
<1>3. ASSUME NEW d \in Nat, d \in S PROVE d + 1 \in S
  <2> DEFINE b == InOrder(P, m + d)
             e == InOrder(P, (m + d) + 1)
  <2>1. b \in Seq(1 .. m + d) /\ m + d \in Nat /\ m + (d + 1) = (m + d) + 1
    BY InOrderTyped
  <2>2. e = IF (m + d) + 1 \in P THEN Append(b, (m + d) + 1) ELSE b
    BY <2>1, InOrderStep
  <2>3. Same(b)
    BY <1>3
  <2> HIDE DEF a, b, e
  <2>4. Same(e)
    BY <2>1, <2>2, <2>3
  <2> QED
    BY <2>1, <2>4 DEF e
<1>4. \A d \in Nat : d \in S
  <2> HIDE DEF S
  <2> QED BY <1>2, <1>3, Induction
<1>5. n - m \in Nat /\ m + (n - m) = n
  OBVIOUS
<1>6. n - m \in S
  BY <1>4, <1>5
<1> QED
  BY <1>5, <1>6

\* What is written up to the last cut among the first m pieces, and since.
PieceOf(t, c, k) == <<cleanCmd(SubSeq(t, WordStart(c, k), c[k] - 1)), <<t[c[k]]>>>>
Written(t, P, m) == LET c == InOrder(P, m) IN FlattenSeq([k \in 1 .. Len(c) |-> PieceOf(t, c, k)])
RestOf(t, P, m) == LET c == InOrder(P, m) IN SubSeq(t, WordStart(c, Len(c) + 1), m)

\* What is before a cut and the cut itself are tokens.
LEMMA PieceTyped ==
  ASSUME NEW t \in Texts, NEW m \in 0 .. Len(t), NEW c \in Seq(1 .. m), NEW k \in 1 .. Len(c)
  PROVE  PieceOf(t, c, k) \in Seq(Texts)
<1>1. Len(t) \in Nat /\ Len(c) \in Nat /\ c[k] \in 1 .. m /\ c[k] \in 1 .. Len(t)
  BY DEF Texts
<1>2. c[k] - 1 \in 0 .. Len(t)
  BY <1>1
<1>3. WordStart(c, k) \in Nat \ {0}
  <2>1. CASE k = 1
    BY <2>1 DEF WordStart
  <2>2. CASE k # 1
    <3>1. k - 1 \in 1 .. Len(c)
      BY <1>1, <2>2
    <3>2. c[k - 1] \in 1 .. m
      BY <3>1
    <3> QED
      BY <2>2, <3>2 DEF WordStart
  <2> QED
    BY <2>1, <2>2
<1> DEFINE a == WordStart(c, k)
           b == c[k] - 1
<1>4. SubSeq(t, a, b) \in Texts
  <2> HIDE DEF a, b
  <2> QED BY <1>2, <1>3, PartTyped DEF Texts, a, b
<1>5. cleanCmd(SubSeq(t, a, b)) \in Texts
  BY <1>4, CleanTyped
<1>6. <<t[c[k]]>> \in Texts
  BY <1>1 DEF Texts
<1> QED
  BY <1>5, <1>6 DEF PieceOf

\* What is written up to a place is tokens, the rest a text.
LEMMA WrittenTyped ==
  ASSUME NEW t \in Texts, NEW P, NEW m \in 0 .. Len(t)
  PROVE  /\ [k \in 1 .. Len(InOrder(P, m)) |-> PieceOf(t, InOrder(P, m), k)] \in Seq(Seq(Texts))
         /\ Written(t, P, m) \in Seq(Texts) /\ RestOf(t, P, m) \in Texts
<1> DEFINE c == InOrder(P, m)
           l == [k \in 1 .. Len(c) |-> PieceOf(t, c, k)]
           a == WordStart(c, Len(c) + 1)
<1>1. m \in Nat /\ c \in Seq(1 .. m) /\ a \in 1 .. m + 1 /\ Len(c) \in Nat
  BY LastWordStart DEF Texts
<1>2. l \in Seq(Seq(Texts))
  <2>1. \A k \in 1 .. Len(c) : PieceOf(t, c, k) \in Seq(Texts)
    <3> HIDE DEF c
    <3> QED BY <1>1, PieceTyped
  <2> HIDE DEF c
  <2> QED
    BY <1>1, <2>1
<1>3. Written(t, P, m) \in Seq(Texts)
  <2> HIDE DEF l
  <2>1. <<>> \in Seq(Texts)
    OBVIOUS
  <2>2. FlattenSeq(l) \in Seq(Texts)
    BY <1>2, <2>1, FlattenAppend
  <2> QED
    BY <2>2 DEF Written, l
<1>4. RestOf(t, P, m) \in Texts
  <2> HIDE DEF a
  <2>1. SubSeq(t, a, m) \in Texts
    BY <1>1, PartTyped DEF Texts
  <2> QED
    BY <2>1 DEF RestOf, a
<1> QED
  BY <1>2, <1>3, <1>4

\* One piece more: a cut closes a token, anything else is more of the rest.
LEMMA WrittenStep ==
  ASSUME NEW t \in Texts, NEW P, NEW m \in Nat, m < Len(t)
  PROVE  /\ Written(t, P, m + 1) = IF m + 1 \in P THEN Written(t, P, m) \o <<cleanCmd(RestOf(t, P, m)), <<t[m + 1]>>>>
                                   ELSE Written(t, P, m)
         /\ RestOf(t, P, m + 1) = IF m + 1 \in P THEN <<>> ELSE Append(RestOf(t, P, m), t[m + 1])
<1> DEFINE c == InOrder(P, m)
           d == InOrder(P, m + 1)
           l == [k \in 1 .. Len(c) |-> PieceOf(t, c, k)]
           e == [k \in 1 .. Len(d) |-> PieceOf(t, d, k)]
           a == WordStart(c, Len(c) + 1)
<1>1. /\ c \in Seq(1 .. m) /\ a \in 1 .. m + 1 /\ Len(c) \in Nat /\ Len(t) \in Nat
      /\ m \in 0 .. Len(t) /\ m + 1 \in 0 .. Len(t)
  BY LastWordStart DEF Texts
<1>2. d = IF m + 1 \in P THEN Append(c, m + 1) ELSE c
  BY InOrderStep
<1>3. Written(t, P, m) = FlattenSeq(l) /\ Written(t, P, m + 1) = FlattenSeq(e)
  BY DEF Written
<1>4. RestOf(t, P, m) = SubSeq(t, a, m) /\ RestOf(t, P, m + 1) = SubSeq(t, WordStart(d, Len(d) + 1), m + 1)
  BY DEF RestOf
<1>5. l \in Seq(Seq(Texts)) /\ e \in Seq(Seq(Texts))
  BY <1>1, WrittenTyped
<1> HIDE DEF c, d
<1>6. CASE m + 1 \notin P
  <2>1. d = c
    BY <1>2, <1>6
  <2>2. SubSeq(t, a, m + 1) = Append(SubSeq(t, a, m), t[m + 1])
    <3> HIDE DEF a
    <3> QED BY <1>1, PartGrows
  <2> QED
    BY <1>3, <1>4, <1>6, <2>1, <2>2
<1>7. CASE m + 1 \in P
  <2>1. d = Append(c, m + 1)
    BY <1>2, <1>7
  <2>2. /\ Len(d) = Len(c) + 1 /\ d[Len(c) + 1] = m + 1 /\ \A k \in 1 .. Len(c) : d[k] = c[k]
    BY <1>1, <2>1
  <2>3. ASSUME NEW k \in 1 .. Len(c) + 1 PROVE WordStart(d, k) = WordStart(c, k)
    <3>1. CASE k = 1
      BY <3>1 DEF WordStart
    <3>2. CASE k # 1
      <4>1. k - 1 \in 1 .. Len(c)
        BY <1>1, <3>2
      <4> QED
        BY <2>2, <3>2, <4>1 DEF WordStart
    <3> QED
      BY <3>1, <3>2
  <2> DEFINE x == <<cleanCmd(RestOf(t, P, m)), <<t[m + 1]>>>>
  <2>4. x \in Seq(Texts)
    <3>1. cleanCmd(RestOf(t, P, m)) \in Texts
      BY <1>1, WrittenTyped, CleanTyped
    <3>2. <<t[m + 1]>> \in Texts
      BY <1>1 DEF Texts
    <3> QED
      BY <3>1, <3>2
  <2>5. e = Append(l, x)
    <3> DEFINE f == Append(l, x)
    <3>1. Len(l) = Len(c) /\ \A k \in 1 .. Len(c) : l[k] = PieceOf(t, c, k)
      BY <1>1
    <3>2. Len(e) = Len(c) + 1 /\ \A k \in 1 .. Len(c) + 1 : e[k] = PieceOf(t, d, k)
      BY <1>1, <2>2
    <3> HIDE DEF l, e, x
    <3>3. /\ f \in Seq(Seq(Texts)) /\ Len(f) = Len(c) + 1
          /\ \A k \in 1 .. Len(c) + 1 : f[k] = IF k = Len(c) + 1 THEN x ELSE l[k]
      BY <1>5, <2>4, <3>1, AppendedTyped
    <3> HIDE DEF f
    <3>4. ASSUME NEW k \in 1 .. Len(c) + 1 PROVE e[k] = f[k]
      <4>1. CASE k = Len(c) + 1
        <5>1. d[k] = m + 1 /\ WordStart(d, k) = a /\ d[k] - 1 = m
          BY <2>2, <2>3, <4>1
        <5>2. PieceOf(t, d, k) = x
          BY <1>4, <5>1 DEF PieceOf, x
        <5> QED
          BY <3>2, <3>3, <4>1, <5>2
      <4>2. CASE k # Len(c) + 1
        <5>1. k \in 1 .. Len(c)
          BY <1>1, <4>2
        <5>2. d[k] = c[k] /\ WordStart(d, k) = WordStart(c, k)
          BY <2>2, <2>3, <5>1
        <5>3. PieceOf(t, d, k) = PieceOf(t, c, k)
          BY <5>2, Zenon DEF PieceOf
        <5>4. e[k] = PieceOf(t, d, k) /\ f[k] = l[k] /\ l[k] = PieceOf(t, c, k)
          BY <3>1, <3>2, <3>3, <4>2, <5>1
        <5> QED
          BY <5>3, <5>4
      <4> QED
        BY <4>1, <4>2
    <3>5. e = f
      <4>1. Len(e) = Len(f) /\ \A k \in 1 .. Len(e) : e[k] = f[k]
        BY <3>2, <3>3, <3>4
      <4> QED
        BY <1>5, <3>3, <4>1, SameText
    <3> QED
      BY <3>5 DEF f
  <2>6. FlattenSeq(Append(l, x)) = FlattenSeq(l) \o x
    <3> HIDE DEF l, x
    <3> QED BY <1>5, <2>4, FlattenAppend
  <2>7. SubSeq(t, WordStart(d, Len(d) + 1), m + 1) = <<>>
    <3>1. WordStart(d, Len(d) + 1) = m + 2
      BY <1>1, <2>2 DEF WordStart
    <3> QED
      BY <3>1 DEF Texts
  <2> QED
    BY <1>3, <1>4, <1>7, <2>5, <2>6, <2>7
<1> QED
  BY <1>6, <1>7
-----------------------------------------------------------------------------
(* What is written up to each place of a text, blanks squeezed.            *)

Stays(t) == {i \in DOMAIN t : t[i] # Blank \/ i \in Quoted(t) \/ i = 1 \/ t[i - 1] # Blank}
Stayed(t, n) == Len(InOrder(Stays(t), n))
WrittenAt(t, n) == LET u == Squeezed(t) IN Written(u, Separators(u), Stayed(t, n))
RestAt(t, n) == LET u == Squeezed(t) IN RestOf(u, Separators(u), Stayed(t, n))

\* A piece that is not squeezed away is the next one of the squeezed text.
LEMMA StaysStep ==
  ASSUME NEW t \in Texts, NEW n \in Nat, n < Len(t)
  PROVE  LET u == Squeezed(t)
             m == Stayed(t, n)
         IN  /\ u \in Texts /\ Len(u) \in Nat /\ m \in Nat /\ m <= Len(u)
             /\ n + 1 \in Stays(t) => m < Len(u) /\ u[m + 1] = t[n + 1] /\ Stayed(t, n + 1) = m + 1
             /\ n + 1 \notin Stays(t) => Stayed(t, n + 1) = m
<1> DEFINE P == Stays(t)
           u == Squeezed(t)
           m == Stayed(t, n)
           a == InOrder(P, n)
           b == InOrder(P, n + 1)
           c == InOrder(P, Len(t))
<1>1. Len(t) \in Nat /\ n + 1 <= Len(t) /\ n <= Len(t) /\ n + 1 \in Nat
  BY DEF Texts
<1>2. u = [k \in DOMAIN c |-> t[c[k]]]
  BY DEF Squeezed, Picked, Stays
<1>3. u \in Texts
  <2>1. t \in Seq(Words)
    BY DEF Texts
  <2>2. Picked(t, P) \in Seq(Words)
    BY <2>1, PickedTyped
  <2> QED
    BY <2>2 DEF Squeezed, Stays, Texts
<1>4. m = Len(a) /\ Stayed(t, n + 1) = Len(b)
  BY DEF Stayed
<1>5. a \in Seq(1 .. n) /\ c \in Seq(1 .. Len(t))
  BY <1>1, InOrderTyped
<1>6. b = IF n + 1 \in P THEN Append(a, n + 1) ELSE a
  BY InOrderStep
<1> HIDE DEF P
<1>7. Len(a) <= Len(c) /\ Len(b) <= Len(c) /\ \A k \in 1 .. Len(b) : c[k] = b[k]
  <2>1. Len(a) <= Len(c)
    BY <1>1, InOrderPrefix
  <2>2. Len(b) <= Len(c) /\ \A k \in 1 .. Len(b) : c[k] = b[k]
    <3> DEFINE j == n + 1
    <3>1. j \in Nat /\ j <= Len(t)
      BY <1>1
    <3> HIDE DEF j
    <3>2. Len(InOrder(P, j)) <= Len(c) /\ \A k \in 1 .. Len(InOrder(P, j)) : c[k] = InOrder(P, j)[k]
      BY <1>1, <3>1, InOrderPrefix
    <3> QED
      BY <3>2 DEF j
  <2> QED
    BY <2>1, <2>2
<1> HIDE DEF a, b, c, u, m
<1>8. Len(u) = Len(c) /\ Len(u) \in Nat /\ \A k \in 1 .. Len(c) : u[k] = t[c[k]]
  <2>1. DOMAIN c = 1 .. Len(c) /\ Len(c) \in Nat
    BY <1>5
  <2>2. DOMAIN u = 1 .. Len(c) /\ \A k \in 1 .. Len(c) : u[k] = t[c[k]]
    BY <1>2, <2>1
  <2>3. u \in Seq(Words)
    BY <1>3 DEF Texts
  <2> QED
    BY <2>1, <2>2, <2>3
<1>9. CASE n + 1 \in P
  <2>1. Len(b) = Len(a) + 1 /\ b[Len(a) + 1] = n + 1 /\ Len(a) \in Nat
    BY <1>5, <1>6, <1>9
  <2>2. Len(a) + 1 \in 1 .. Len(c) /\ c[Len(a) + 1] = n + 1
    BY <1>7, <1>8, <2>1
  <2> QED
    BY <1>3, <1>4, <1>7, <1>8, <1>9, <2>1, <2>2 DEF P, u, m
<1>10. CASE n + 1 \notin P
  <2>1. b = a /\ Len(a) \in Nat
    BY <1>5, <1>6, <1>10
  <2> QED
    BY <1>3, <1>4, <1>7, <1>8, <1>10, <2>1 DEF P, u, m
<1> QED
  BY <1>9, <1>10

\* The squeezed text up to the ends.
LEMMA StayedEnds ==
  ASSUME NEW t \in Texts
  PROVE  Stayed(t, 0) = 0 /\ Stayed(t, Len(t)) = Len(Squeezed(t))
<1> DEFINE P == Stays(t)
           u == Squeezed(t)
           c == InOrder(P, Len(t))
<1>1. InOrder(P, 0) = <<>>
  BY InOrderStep
<1>2. u = [k \in DOMAIN c |-> t[c[k]]]
  BY DEF Squeezed, Picked, Stays
<1>3. Len(t) \in Nat /\ u \in Seq(Words)
  <2>1. t \in Seq(Words)
    BY DEF Texts
  <2>2. Picked(t, P) \in Seq(Words)
    BY <2>1, PickedTyped
  <2> QED
    BY <2>2 DEF Squeezed, Stays, Texts
<1>4. c \in Seq(1 .. Len(t))
  BY <1>3, InOrderTyped
<1> HIDE DEF P, c, u
<1>5. Len(u) = Len(c)
  <2>1. DOMAIN u = DOMAIN c
    BY <1>2
  <2> QED
    BY <1>3, <1>4, <2>1
<1> QED
  BY <1>1, <1>5 DEF P, c, u, Stayed

\* Squeezing drops no quote.
LEMMA StayedQuotes ==
  ASSUME NEW t \in Texts
  PROVE  \A n \in Nat : n <= Len(t) =>
           Cardinality(QuotesUpTo(Squeezed(t), Stayed(t, n))) = Cardinality(QuotesUpTo(t, n))
<1> DEFINE u == Squeezed(t)
           Same(n) == Cardinality(QuotesUpTo(u, Stayed(t, n))) = Cardinality(QuotesUpTo(t, n))
           S == {n \in Nat : n <= Len(t) => Same(n)}
<1>1. 0 \in S
  <2>1. QuotesUpTo(t, 0) = {} /\ QuotesUpTo(u, 0) = {}
    <3>1. u \in Seq(Words)
      <4>1. t \in Seq(Words)
        BY DEF Texts
      <4> QED
        BY <4>1, PickedTyped DEF Squeezed
    <3> HIDE DEF u
    <3>2. (\A j \in DOMAIN t : ~ (j < 0 + 1)) /\ (\A j \in DOMAIN u : ~ (j < 0 + 1))
      BY <3>1 DEF Texts
    <3> QED
      BY <3>2 DEF QuotesUpTo, Quotes
  <2> HIDE DEF u
  <2>2. Same(0)
    BY <2>1, StayedEnds
  <2> QED
    BY <2>2
<1>2. ASSUME NEW n \in Nat, n \in S PROVE n + 1 \in S
  <2> SUFFICES ASSUME n + 1 <= Len(t) PROVE Same(n + 1)
    OBVIOUS
  <2> DEFINE m == Stayed(t, n)
  <2>1. Len(t) \in Nat
    BY DEF Texts
  <2>2. n < Len(t) /\ Cardinality(QuotesUpTo(u, m)) = Cardinality(QuotesUpTo(t, n))
    BY <1>2, <2>1
  <2>3. /\ u \in Texts /\ Len(u) \in Nat /\ m \in Nat
        /\ n + 1 \in Stays(t) => m < Len(u) /\ u[m + 1] = t[n + 1] /\ Stayed(t, n + 1) = m + 1
        /\ n + 1 \notin Stays(t) => Stayed(t, n + 1) = m
    BY <2>2, StaysStep
  <2>4. Cardinality(QuotesUpTo(t, n + 1)) = Cardinality(QuotesUpTo(t, n)) + (IF t[n + 1] = Quote THEN 1 ELSE 0)
        /\ Cardinality(QuotesUpTo(t, n)) \in Nat
    BY <2>2, QuotesStep
  <2> HIDE DEF u, m
  <2>5. CASE n + 1 \in Stays(t)
    <3>1. Cardinality(QuotesUpTo(u, m + 1)) = Cardinality(QuotesUpTo(u, m)) + (IF u[m + 1] = Quote THEN 1 ELSE 0)
      BY <2>3, <2>5, QuotesStep
    <3>2. u[m + 1] = t[n + 1] /\ Stayed(t, n + 1) = m + 1
      BY <2>3, <2>5
    <3> QED
      BY <2>2, <2>4, <3>1, <3>2
  <2>6. CASE n + 1 \notin Stays(t)
    <3>1. t[n + 1] = Blank
      BY <2>1, <2>2, <2>6 DEF Stays, Texts
    <3>2. t[n + 1] # Quote
      BY <3>1 DEF Blank, Quote
    <3>3. Stayed(t, n + 1) = m
      BY <2>3, <2>6
    <3> QED
      BY <2>2, <2>4, <3>2, <3>3
  <2> QED
    BY <2>5, <2>6
<1>3. \A n \in Nat : n \in S
  <2> HIDE DEF S
  <2> QED BY <1>1, <1>2, Induction
<1> QED
  BY <1>3

\* Separators stay, and stay separators.
LEMMA StayedSeparators ==
  ASSUME NEW t \in Texts, NEW n \in Nat, n < Len(t)
  PROVE  /\ n + 1 \in Separators(t) => n + 1 \in Stays(t)
         /\ n + 1 \in Stays(t) => (Stayed(t, n) + 1 \in Separators(Squeezed(t)) <=> n + 1 \in Separators(t))
<1> DEFINE u == Squeezed(t)
           m == Stayed(t, n)
<1>1. Len(t) \in Nat /\ DOMAIN t = 1 .. Len(t) /\ n + 1 \in DOMAIN t /\ n <= Len(t)
  BY DEF Texts
<1>2. Blank \notin Operators /\ Blank \notin Keywords
  BY DEF Blank, Operators, Keywords
<1>3. n + 1 \in Separators(t) => n + 1 \in Stays(t)
  BY <1>1, <1>2 DEF Separators, Stays
<1>4. ASSUME n + 1 \in Stays(t) PROVE m + 1 \in Separators(u) <=> n + 1 \in Separators(t)
  <2>1. u \in Texts /\ Len(u) \in Nat /\ m \in Nat /\ m < Len(u) /\ u[m + 1] = t[n + 1]
    BY <1>4, StaysStep
  <2>2. Cardinality(QuotesUpTo(u, m)) = Cardinality(QuotesUpTo(t, n))
    BY <1>1, StayedQuotes
  <2> HIDE DEF u, m
  <2>3. n + 1 \in Quoted(t) <=> t[n + 1] # Quote /\ Cardinality(QuotesUpTo(t, n)) % 2 = 1
    BY QuotesStep
  <2>4. m + 1 \in Quoted(u) <=> u[m + 1] # Quote /\ Cardinality(QuotesUpTo(u, m)) % 2 = 1
    BY <2>1, QuotesStep
  <2>5. m + 1 \in DOMAIN u
    BY <2>1 DEF Texts
  <2>6. m + 1 \in Quoted(u) <=> n + 1 \in Quoted(t)
    BY <2>1, <2>2, <2>3, <2>4, Zenon
  <2> QED
    BY <1>1, <2>1, <2>5, <2>6 DEF Separators
<1> QED
  BY <1>3, <1>4

\* What is written up to a place of the text itself.
LEMMA WrittenAtTyped ==
  ASSUME NEW t \in Texts, NEW n \in Nat, n <= Len(t)
  PROVE  /\ WrittenAt(t, n) \in Seq(Texts) /\ RestAt(t, n) \in Texts
         /\ n = 0 => WrittenAt(t, n) = <<>> /\ RestAt(t, n) = <<>>
<1> DEFINE u == Squeezed(t)
           m == Stayed(t, n)
<1>1. Len(t) \in Nat
  BY DEF Texts
<1>2. u \in Texts
  <2>1. t \in Seq(Words)
    BY DEF Texts
  <2> QED
    BY <2>1, PickedTyped DEF Squeezed, Texts
<1>3. m \in 0 .. Len(u)
  <2>1. CASE n = Len(t)
    <3>1. m = Len(u)
      BY <2>1, StayedEnds
    <3> HIDE DEF m, u
    <3> QED
      BY <1>2, <3>1 DEF Texts
  <2>2. CASE n # Len(t)
    <3>1. n < Len(t)
      BY <1>1, <2>2
    <3>2. m \in Nat /\ m <= Len(u) /\ Len(u) \in Nat
      BY <3>1, StaysStep
    <3> HIDE DEF m, u
    <3> QED
      BY <3>2
  <2> QED
    BY <2>1, <2>2
<1>4. WrittenAt(t, n) = Written(u, Separators(u), m) /\ RestAt(t, n) = RestOf(u, Separators(u), m)
  BY DEF WrittenAt, RestAt
<1>5. ASSUME n = 0 PROVE WrittenAt(t, n) = <<>> /\ RestAt(t, n) = <<>>
  <2>1. m = 0
    BY <1>5, StayedEnds
  <2>2. InOrder(Separators(u), 0) = <<>>
    BY InOrderStep
  <2>3. WordStart(<<>>, 1) = 1
    BY DEF WordStart
  <2>4. RestOf(u, Separators(u), 0) = <<>>
    <3> HIDE DEF u
    <3>1. RestOf(u, Separators(u), 0) = SubSeq(u, 1, 0)
      BY <2>2, <2>3 DEF RestOf
    <3> QED
      BY <1>2, <3>1 DEF Texts
  <2>5. Written(u, Separators(u), 0) = <<>>
    <3>1. [k \in 1 .. Len(<<>>) |-> PieceOf(u, <<>>, k)] = <<>>
      OBVIOUS
    <3> HIDE DEF u
    <3>2. Written(u, Separators(u), 0) = FlattenSeq(<<>>)
      BY <2>2, <3>1 DEF Written
    <3>3. FlattenSeq(<<>>) = <<>>
      BY DEF FlattenSeq
    <3> QED
      BY <3>2, <3>3
  <2> QED
    BY <1>4, <2>1, <2>4, <2>5
<1> HIDE DEF u, m
<1> QED
  BY <1>2, <1>3, <1>4, <1>5, WrittenTyped

\* One piece of the text itself more.
LEMMA WrittenAtStep ==
  ASSUME NEW t \in Texts, NEW n \in Nat, n < Len(t)
  PROVE  LET c == t[n + 1]
             cut == n + 1 \in Separators(t)
         IN  /\ WrittenAt(t, n + 1) = IF cut THEN WrittenAt(t, n) \o <<cleanCmd(RestAt(t, n)), <<c>>>>
                                      ELSE WrittenAt(t, n)
             /\ RestAt(t, n + 1) = IF cut THEN <<>> ELSE IF n + 1 \in Stays(t) THEN Append(RestAt(t, n), c)
                                                         ELSE RestAt(t, n)
<1> DEFINE u == Squeezed(t)
           m == Stayed(t, n)
           P == Separators(u)
<1>1. /\ WrittenAt(t, n) = Written(u, P, m) /\ RestAt(t, n) = RestOf(u, P, m)
      /\ WrittenAt(t, n + 1) = Written(u, P, Stayed(t, n + 1)) /\ RestAt(t, n + 1) = RestOf(u, P, Stayed(t, n + 1))
  BY DEF WrittenAt, RestAt
<1>2. /\ u \in Texts /\ Len(u) \in Nat /\ m \in Nat
      /\ n + 1 \in Stays(t) => m < Len(u) /\ u[m + 1] = t[n + 1] /\ Stayed(t, n + 1) = m + 1
      /\ n + 1 \notin Stays(t) => Stayed(t, n + 1) = m
  BY StaysStep
<1>3. /\ n + 1 \in Separators(t) => n + 1 \in Stays(t)
      /\ n + 1 \in Stays(t) => (m + 1 \in P <=> n + 1 \in Separators(t))
  BY StayedSeparators
<1> HIDE DEF u, m, P
<1>4. CASE n + 1 \in Stays(t)
  <2>1. /\ Written(u, P, m + 1) = IF m + 1 \in P THEN Written(u, P, m) \o <<cleanCmd(RestOf(u, P, m)), <<u[m + 1]>>>>
                                  ELSE Written(u, P, m)
        /\ RestOf(u, P, m + 1) = IF m + 1 \in P THEN <<>> ELSE Append(RestOf(u, P, m), u[m + 1])
    BY <1>2, <1>4, WrittenStep
  <2>2. u[m + 1] = t[n + 1] /\ Stayed(t, n + 1) = m + 1 /\ (m + 1 \in P <=> n + 1 \in Separators(t))
    BY <1>2, <1>3, <1>4
  <2>3. CASE n + 1 \in Separators(t)
    BY <1>1, <2>1, <2>2, <2>3
  <2>4. CASE n + 1 \notin Separators(t)
    BY <1>1, <1>4, <2>1, <2>2, <2>4
  <2> QED
    BY <2>3, <2>4
<1>5. CASE n + 1 \notin Stays(t)
  BY <1>1, <1>2, <1>3, <1>5
<1> QED
  BY <1>4, <1>5

\* A text as it is written is what is written up to its end, and the rest.
LEMMA AsWrittenUnfolds ==
  ASSUME NEW t \in Texts
  PROVE  AsWritten(t) = NonEmpty(WrittenAt(t, Len(t)) \o <<cleanCmd(RestAt(t, Len(t))), <<>>>>)
<1> DEFINE u == Squeezed(t)
           n == Len(u)
           P == Separators(u)
           c == InOrder(P, n)
           chunks == Chunks(u, P)
           l == [k \in 1 .. Len(c) |-> PieceOf(u, c, k)]
           x == <<cleanCmd(RestOf(u, P, n)), <<>>>>
           e == [k \in DOMAIN chunks |-> <<cleanCmd(chunks[k]), IF k \in DOMAIN c THEN <<u[c[k]]>> ELSE <<>>>>]
<1>1. u \in Texts
  <2>1. t \in Seq(Words)
    BY DEF Texts
  <2> QED
    BY <2>1, PickedTyped DEF Squeezed, Texts
<1>2. AsWritten(t) = NonEmpty(FlattenSeq(e))
  BY DEF AsWritten
<1>3. Stayed(t, Len(t)) = n
  BY StayedEnds
<1>4. WrittenAt(t, Len(t)) = Written(u, P, n) /\ RestAt(t, Len(t)) = RestOf(u, P, n)
  BY <1>3 DEF WrittenAt, RestAt
<1> HIDE DEF u
<1>5. n \in Nat /\ n \in 0 .. n
  BY <1>1 DEF Texts
<1>6. /\ c \in Seq(1 .. n) /\ chunks \in Seq(Texts) /\ Len(chunks) = Len(c) + 1
      /\ \A k \in 1 .. Len(c) : chunks[k] = SubSeq(u, WordStart(c, k), c[k] - 1)
      /\ chunks[Len(c) + 1] = SubSeq(u, WordStart(c, Len(c) + 1), n)
  BY <1>1, ChunksAre
<1>7. l \in Seq(Seq(Texts)) /\ Written(u, P, n) = FlattenSeq(l) /\ RestOf(u, P, n) \in Texts
      /\ RestOf(u, P, n) = chunks[Len(c) + 1]
  <2>1. Written(u, P, n) = FlattenSeq(l)
    BY DEF Written
  <2>2. RestOf(u, P, n) = SubSeq(u, WordStart(c, Len(c) + 1), n)
    BY DEF RestOf
  <2>3. l \in Seq(Seq(Texts)) /\ RestOf(u, P, n) \in Texts
    <3>1. n \in 0 .. Len(u)
      BY <1>5
    <3> HIDE DEF n, P
    <3> QED BY <1>1, <3>1, WrittenTyped
  <2> QED
    BY <1>6, <2>1, <2>2, <2>3, Zenon
<1>8. x \in Seq(Texts)
  <2>1. cleanCmd(RestOf(u, P, n)) \in Texts /\ <<>> \in Texts
    BY <1>7, CleanTyped DEF Texts
  <2> HIDE DEF n, P
  <2> QED
    BY <2>1
<1>9. e = Append(l, x)
  <2> DEFINE f == Append(l, x)
  <2>1. Len(l) = Len(c) /\ Len(c) \in Nat /\ \A k \in 1 .. Len(c) : l[k] = PieceOf(u, c, k)
    <3> HIDE DEF c
    <3> QED BY <1>6
  <2>2. DOMAIN chunks = 1 .. Len(c) + 1 /\ DOMAIN c = 1 .. Len(c)
    <3> HIDE DEF chunks, c
    <3> QED BY <1>6
  <2> HIDE DEF l, x, c, chunks
  <2>3. /\ f \in Seq(Seq(Texts)) /\ Len(f) = Len(c) + 1
        /\ \A k \in 1 .. Len(c) + 1 : f[k] = IF k = Len(c) + 1 THEN x ELSE l[k]
    BY <1>7, <1>8, <2>1, AppendedTyped
  <2>4. DOMAIN e = 1 .. Len(c) + 1
    BY <2>2
  <2>5. DOMAIN f = 1 .. Len(c) + 1
    <3> HIDE DEF f
    <3> QED BY <2>3
  <2>6. ASSUME NEW k \in 1 .. Len(c) + 1 PROVE e[k] = f[k]
    <3>1. e[k] = <<cleanCmd(chunks[k]), IF k \in DOMAIN c THEN <<u[c[k]]>> ELSE <<>>>>
      BY <2>2
    <3>2. f[k] = IF k = Len(c) + 1 THEN x ELSE l[k]
      BY <2>3
    <3> HIDE DEF e, f
    <3>3. CASE k = Len(c) + 1
      <4>1. k \notin DOMAIN c /\ chunks[k] = RestOf(u, P, n)
        BY <1>7, <2>1, <2>2, <3>3
      <4>2. e[k] = <<cleanCmd(RestOf(u, P, n)), <<>>>>
        BY <3>1, <4>1
      <4> QED
        BY <3>2, <3>3, <4>2 DEF x
    <3>4. CASE k # Len(c) + 1
      <4>1. k \in 1 .. Len(c) /\ k \in DOMAIN c
        BY <2>1, <2>2, <3>4
      <4>2. chunks[k] = SubSeq(u, WordStart(c, k), c[k] - 1)
        BY <1>6, <4>1
      <4>3. e[k] = <<cleanCmd(SubSeq(u, WordStart(c, k), c[k] - 1)), <<u[c[k]]>>>>
        BY <3>1, <4>1, <4>2
      <4>4. f[k] = PieceOf(u, c, k)
        BY <2>1, <3>2, <3>4, <4>1
      <4> QED
        BY <4>3, <4>4 DEF PieceOf
    <3> QED
      BY <3>3, <3>4
  <2>7. e = f
    <3>1. e = [k \in 1 .. Len(c) + 1 |-> e[k]]
      BY <2>4
    <3>2. f = [k \in 1 .. Len(c) + 1 |-> f[k]]
      <4> HIDE DEF f
      <4> QED BY <2>3, <2>5
    <3> HIDE DEF e, f
    <3> QED
      BY <2>6, <3>1, <3>2
  <2> QED
    BY <2>7 DEF f
<1>10. FlattenSeq(Append(l, x)) = FlattenSeq(l) \o x
  <2> HIDE DEF l, x
  <2> QED BY <1>7, <1>8, FlattenAppend
<1> HIDE DEF e, l
<1> QED
  BY <1>2, <1>4, <1>7, <1>9, <1>10 DEF x
-----------------------------------------------------------------------------
(* Blanks at the ends make no difference.                                  *)

\* A text is cleaned by going from its first word to its last.
LEMMA CleanIs ==
  ASSUME NEW t \in Texts, NEW a \in 1 .. Len(t), NEW b \in 1 .. Len(t), a <= b,
         t[a] # Blank, t[b] # Blank, \A i \in 1 .. Len(t) : t[i] # Blank => a <= i /\ i <= b
  PROVE  cleanCmd(t) = SubSeq(t, a, b)
<1> DEFINE words == {i \in DOMAIN t : t[i] # Blank}
<1>1. DOMAIN t = 1 .. Len(t) /\ Len(t) \in Nat
  BY DEF Texts
<1>2. words \subseteq Nat /\ a \in words /\ b \in words /\ \A i \in words : a <= i /\ i <= b
  BY <1>1
<1>3. cleanCmd(t) = SubSeq(t, Min(words), Max(words))
  BY <1>2 DEF cleanCmd
<1> HIDE DEF words
<1>4. Min(words) = a
  <2>1. Min(words) \in words /\ \A i \in words : Min(words) <= i
    BY <1>2, MinIsLeast
  <2>2. Min(words) \in Nat /\ a <= Min(words) /\ Min(words) <= a
    BY <1>2, <2>1
  <2> QED
    BY <2>2
<1>5. Max(words) = b
  <2>1. b \in Nat
    BY <1>1
  <2>2. Max(words) \in words /\ \A i \in words : Max(words) >= i
    BY <1>2, <2>1, MaxIsGreatest
  <2>3. Max(words) \in Nat /\ Max(words) <= b /\ Max(words) >= b
    BY <1>2, <2>2
  <2> QED
    BY <2>1, <2>3
<1> QED
  BY <1>3, <1>4, <1>5

\* Blanks are cleaned away.
LEMMA CleanNothing ==
  ASSUME NEW t \in Texts, \A i \in 1 .. Len(t) : t[i] = Blank
  PROVE  cleanCmd(t) = <<>>
<1>1. DOMAIN t = 1 .. Len(t)
  BY DEF Texts
<1>2. {i \in DOMAIN t : t[i] # Blank} = {}
  BY <1>1
<1> QED
  BY <1>2 DEF cleanCmd

\* The words of a text that has one.
LEMMA WordsAt ==
  ASSUME NEW t \in Texts, ~ \A i \in 1 .. Len(t) : t[i] = Blank
  PROVE  \E a, b \in 1 .. Len(t) : /\ a <= b /\ t[a] # Blank /\ t[b] # Blank
                                   /\ \A i \in 1 .. Len(t) : t[i] # Blank => a <= i /\ i <= b
<1> DEFINE words == {i \in 1 .. Len(t) : t[i] # Blank}
<1>1. Len(t) \in Nat
  BY DEF Texts
<1>2. words # {} /\ words \subseteq Nat /\ \A i \in words : i <= Len(t) /\ i \in 1 .. Len(t)
  BY <1>1
<1>3. Min(words) \in words /\ \A i \in words : Min(words) <= i
  <2> HIDE DEF words
  <2> QED BY <1>2, MinIsLeast
<1>4. Max(words) \in words /\ \A i \in words : i <= Max(words)
  <2> HIDE DEF words
  <2>1. Max(words) \in words /\ \A i \in words : Max(words) >= i
    BY <1>1, <1>2, MaxIsGreatest
  <2> QED
    BY <1>2, <2>1
<1> DEFINE a == Min(words)
           b == Max(words)
<1>5. a \in words /\ b \in words /\ a <= b /\ \A i \in words : a <= i /\ i <= b
  <2> HIDE DEF words
  <2> QED BY <1>3, <1>4
<1> HIDE DEF a, b
<1> QED
  BY <1>5

\* A blank after a text makes no difference.
LEMMA CleanDropsLast ==
  ASSUME NEW t \in Texts
  PROVE  Append(t, Blank) \in Texts /\ cleanCmd(Append(t, Blank)) = cleanCmd(t)
<1> DEFINE u == Append(t, Blank)
<1>1. Blank \in Words
  BY DEF Words
<1>2. /\ u \in Texts /\ Len(u) = Len(t) + 1 /\ Len(t) \in Nat
      /\ \A k \in 1 .. Len(t) + 1 : u[k] = IF k = Len(t) + 1 THEN Blank ELSE t[k]
  BY <1>1, AppendedTyped DEF Texts
<1> HIDE DEF u
<1>3. \A k \in 1 .. Len(t) : u[k] = t[k]
  BY <1>2
<1>4. CASE \A i \in 1 .. Len(t) : t[i] = Blank
  <2>1. \A i \in 1 .. Len(u) : u[i] = Blank
    BY <1>2, <1>4
  <2> QED
    BY <1>2, <1>4, <2>1, CleanNothing DEF u
<1>5. CASE ~ \A i \in 1 .. Len(t) : t[i] = Blank
  <2>1. PICK a, b \in 1 .. Len(t) : /\ a <= b /\ t[a] # Blank /\ t[b] # Blank
                                    /\ \A i \in 1 .. Len(t) : t[i] # Blank => a <= i /\ i <= b
    BY <1>5, WordsAt
  <2>2. a \in 1 .. Len(u) /\ b \in 1 .. Len(u) /\ u[a] # Blank /\ u[b] # Blank
    BY <1>2, <1>3, <2>1
  <2>3. \A i \in 1 .. Len(u) : u[i] # Blank => a <= i /\ i <= b
    BY <1>2, <2>1
  <2>4. cleanCmd(t) = SubSeq(t, a, b)
    BY <2>1, CleanIs
  <2>5. cleanCmd(u) = SubSeq(u, a, b)
    BY <1>2, <2>1, <2>2, <2>3, CleanIs
  <2>6. SubSeq(u, a, b) = SubSeq(t, a, b)
    <3> DEFINE x == SubSeq(u, a, b)
               y == SubSeq(t, a, b)
    <3>1. x \in Seq(Words) /\ Len(x) = b - a + 1 /\ \A k \in 1 .. Len(x) : x[k] = u[a + k - 1]
      BY <1>2, <2>1, <2>2, PartTyped DEF Texts
    <3>2. y \in Seq(Words) /\ Len(y) = b - a + 1 /\ \A k \in 1 .. Len(y) : y[k] = t[a + k - 1]
      BY <1>2, <2>1, PartTyped DEF Texts
    <3> HIDE DEF x, y
    <3>3. ASSUME NEW k \in 1 .. Len(x) PROVE x[k] = y[k]
      <4>1. a + k - 1 \in 1 .. Len(t)
        BY <1>2, <2>1, <3>1
      <4> QED
        BY <1>3, <3>1, <3>2, <4>1
    <3>4. x = y
      BY <3>1, <3>2, <3>3, SameText
    <3> QED
      BY <3>4 DEF x, y
  <2> QED
    BY <1>2, <2>4, <2>5, <2>6 DEF u
<1> QED
  BY <1>4, <1>5

\* Nor does a blank before it.
LEMMA CleanDropsFirst ==
  ASSUME NEW t \in Texts
  PROVE  <<Blank>> \o t \in Texts /\ cleanCmd(<<Blank>> \o t) = cleanCmd(t)
<1> DEFINE u == <<Blank>> \o t
<1>1. <<Blank>> \in Seq(Words) /\ Len(<<Blank>>) = 1 /\ <<Blank>>[1] = Blank
  BY DEF Words
<1>2. /\ u \in Texts /\ Len(u) = Len(t) + 1 /\ Len(t) \in Nat
      /\ \A k \in 1 .. Len(t) + 1 : u[k] = IF k = 1 THEN Blank ELSE t[k - 1]
  BY <1>1 DEF Texts
<1> HIDE DEF u
<1>3. \A k \in 1 .. Len(t) : u[k + 1] = t[k]
  <2> SUFFICES ASSUME NEW k \in 1 .. Len(t) PROVE u[k + 1] = t[k]
    OBVIOUS
  <2>1. k + 1 \in 1 .. Len(t) + 1 /\ k + 1 # 1 /\ (k + 1) - 1 = k
    BY <1>2
  <2> QED
    BY <1>2, <2>1
<1>4. CASE \A i \in 1 .. Len(t) : t[i] = Blank
  <2>1. \A i \in 1 .. Len(u) : u[i] = Blank
    BY <1>2, <1>4
  <2> QED
    BY <1>2, <1>4, <2>1, CleanNothing DEF u
<1>5. CASE ~ \A i \in 1 .. Len(t) : t[i] = Blank
  <2>1. PICK a, b \in 1 .. Len(t) : /\ a <= b /\ t[a] # Blank /\ t[b] # Blank
                                    /\ \A i \in 1 .. Len(t) : t[i] # Blank => a <= i /\ i <= b
    BY <1>5, WordsAt
  <2> DEFINE c == a + 1
             d == b + 1
  <2>2. c \in 1 .. Len(u) /\ d \in 1 .. Len(u) /\ c <= d /\ u[c] # Blank /\ u[d] # Blank
    BY <1>2, <1>3, <2>1
  <2>3. \A i \in 1 .. Len(u) : u[i] # Blank => c <= i /\ i <= d
    <3> SUFFICES ASSUME NEW i \in 1 .. Len(u), u[i] # Blank PROVE c <= i /\ i <= d
      OBVIOUS
    <3>1. i # 1 /\ i - 1 \in 1 .. Len(t) /\ t[i - 1] # Blank
      BY <1>2
    <3>2. a <= i - 1 /\ i - 1 <= b
      BY <2>1, <3>1
    <3> QED
      BY <1>2, <3>2
  <2>4. cleanCmd(t) = SubSeq(t, a, b)
    BY <2>1, CleanIs
  <2>5. cleanCmd(u) = SubSeq(u, c, d)
    <3> HIDE DEF c, d
    <3> QED BY <1>2, <2>2, <2>3, CleanIs
  <2>6. SubSeq(u, c, d) = SubSeq(t, a, b)
    <3> DEFINE x == SubSeq(u, c, d)
               y == SubSeq(t, a, b)
    <3>1. x \in Seq(Words) /\ Len(x) = b - a + 1 /\ \A k \in 1 .. Len(x) : x[k] = u[c + k - 1]
      <4>1. c \in Nat \ {0} /\ d \in 0 .. Len(u) /\ c <= d /\ d - c + 1 = b - a + 1
        BY <1>2, <2>1
      <4> HIDE DEF c, d
      <4> QED BY <1>2, <4>1, PartTyped DEF Texts
    <3>2. y \in Seq(Words) /\ Len(y) = b - a + 1 /\ \A k \in 1 .. Len(y) : y[k] = t[a + k - 1]
      BY <1>2, <2>1, PartTyped DEF Texts
    <3> HIDE DEF x, y
    <3>3. ASSUME NEW k \in 1 .. Len(x) PROVE x[k] = y[k]
      <4>1. a + k - 1 \in 1 .. Len(t) /\ c + k - 1 = (a + k - 1) + 1
        BY <1>2, <2>1, <3>1
      <4> DEFINE j == a + k - 1
      <4>2. u[j + 1] = t[j] /\ x[k] = u[j + 1]
        BY <1>3, <3>1, <4>1
      <4> QED
        BY <3>1, <3>2, <4>2
    <3>4. x = y
      BY <3>1, <3>2, <3>3, SameText
    <3> QED
      BY <3>4 DEF x, y
  <2> QED
    BY <1>2, <2>4, <2>5, <2>6 DEF u
<1> QED
  BY <1>4, <1>5

\* A word by itself is clean.
LEMMA CleanOne ==
  ASSUME NEW w \in Words, w # Blank
  PROVE  <<w>> \in Texts /\ cleanCmd(<<w>>) = <<w>> /\ <<w>> # <<>>
<1>1. <<w>> \in Texts /\ <<w>> # <<>> /\ <<w>>[1] = w /\ Len(<<w>>) = 1
  BY DEF Texts
<1> QED
  BY <1>1, CleanIsSame
-----------------------------------------------------------------------------
(* Tokens that are empty make no difference.                               *)

\* One token more counts if there is something in it.
LEMMA NonEmptyStep ==
  ASSUME NEW l \in Seq(Texts), NEW x \in Texts
  PROVE  /\ NonEmpty(<<>>) = <<>> /\ NonEmpty(l) \in Seq(Texts)
         /\ NonEmpty(Append(l, x)) = IF x = <<>> THEN NonEmpty(l) ELSE Append(NonEmpty(l), x)
<1> DEFINE X == Texts \ {<<>>}
<1>1. \A m \in Seq(Texts) : NonEmpty(m) = Those(m, X)
  <2> SUFFICES ASSUME NEW m \in Seq(Texts) PROVE NonEmpty(m) = Those(m, X)
    OBVIOUS
  <2>1. {k \in DOMAIN m : m[k] # <<>>} = {k \in DOMAIN m : m[k] \in X}
    OBVIOUS
  <2> QED
    BY <2>1 DEF NonEmpty, Those
<1>2. Append(l, x) \in Seq(Texts) /\ <<>> \in Seq(Texts)
  OBVIOUS
<1>3. x \in X <=> x # <<>>
  OBVIOUS
<1> HIDE DEF X
<1>4. /\ Those(<<>>, X) = <<>> /\ Those(l, X) \in Seq(Texts)
      /\ Those(Append(l, x), X) = IF x \in X THEN Append(Those(l, X), x) ELSE Those(l, X)
  BY ThoseStep
<1>5. NonEmpty(l) = Those(l, X) /\ NonEmpty(<<>>) = Those(<<>>, X) /\ NonEmpty(Append(l, x)) = Those(Append(l, x), X)
  BY <1>1, <1>2
<1> QED
  BY <1>3, <1>4, <1>5

\* Cleaning tokens, one more.
LEMMA CleanedStep ==
  ASSUME NEW l \in Seq(Texts), NEW x \in Texts
  PROVE  Cleaned(Append(l, x)) = Append(Cleaned(l), cleanCmd(x))
<1> DEFINE m == Append(l, x)
           y == cleanCmd(x)
           a == Cleaned(l)
           b == Cleaned(m)
           c == Append(a, y)
<1>1. /\ m \in Seq(Texts) /\ Len(m) = Len(l) + 1 /\ Len(l) \in Nat
      /\ \A k \in 1 .. Len(l) + 1 : m[k] = IF k = Len(l) + 1 THEN x ELSE l[k]
  BY AppendedTyped
<1>2. y \in Texts
  BY CleanTyped
<1>3. a \in Seq(Texts) /\ Len(a) = Len(l) /\ \A k \in 1 .. Len(l) : a[k] = cleanCmd(l[k])
  BY CleanedTyped
<1> HIDE DEF m
<1>4. b \in Seq(Texts) /\ Len(b) = Len(m) /\ \A k \in 1 .. Len(m) : b[k] = cleanCmd(m[k])
  BY <1>1, CleanedTyped
<1> HIDE DEF a, b
<1>5. /\ c \in Seq(Texts) /\ Len(c) = Len(l) + 1
      /\ \A k \in 1 .. Len(l) + 1 : c[k] = IF k = Len(l) + 1 THEN cleanCmd(x) ELSE a[k]
  <2> HIDE DEF y
  <2>1. /\ c \in Seq(Texts) /\ Len(c) = Len(l) + 1
        /\ \A k \in 1 .. Len(l) + 1 : c[k] = IF k = Len(l) + 1 THEN y ELSE a[k]
    BY <1>2, <1>3, AppendedTyped
  <2> QED
    BY <2>1 DEF y
<1> HIDE DEF c
<1>6. ASSUME NEW k \in 1 .. Len(b) PROVE b[k] = c[k]
  <2>1. k \in 1 .. Len(l) + 1
    BY <1>1, <1>4
  <2>2. CASE k = Len(l) + 1
    BY <1>1, <1>4, <1>5, <2>1, <2>2
  <2>3. CASE k # Len(l) + 1
    <3>1. k \in 1 .. Len(l)
      BY <1>1, <2>1, <2>3
    <3>2. b[k] = cleanCmd(m[k]) /\ m[k] = l[k] /\ c[k] = a[k] /\ a[k] = cleanCmd(l[k])
      BY <1>1, <1>3, <1>4, <1>5, <2>1, <2>3, <3>1
    <3> QED
      BY <3>2
  <2> QED
    BY <2>2, <2>3
<1>7. b = c
  BY <1>1, <1>4, <1>5, <1>6, SameText
<1> QED
  BY <1>7 DEF a, b, c, m, y
-----------------------------------------------------------------------------
(* The tokens say what is written.                                         *)

Shows(toks, w) == NonEmpty(Cleaned(toks)) = NonEmpty(w)

\* A token more is the cleaned token more, and an empty one none.
LEMMA ShowsMore ==
  ASSUME NEW toks \in Seq(Texts), NEW w \in Seq(Texts), Shows(toks, w), NEW x \in Texts
  PROVE  /\ Append(toks, x) \in Seq(Texts) /\ Append(w, cleanCmd(x)) \in Seq(Texts)
         /\ Shows(Append(toks, x), Append(w, cleanCmd(x)))
         /\ cleanCmd(x) = <<>> => Shows(toks, Append(w, cleanCmd(x)))
<1> DEFINE y == cleanCmd(x)
           a == Cleaned(toks)
<1>1. y \in Texts /\ a \in Seq(Texts)
  BY CleanTyped, CleanedTyped
<1>2. Cleaned(Append(toks, x)) = Append(a, y)
  BY CleanedStep
<1>3. NonEmpty(a) = NonEmpty(w)
  BY DEF Shows
<1> HIDE DEF y, a
<1>4. /\ NonEmpty(Append(a, y)) = IF y = <<>> THEN NonEmpty(a) ELSE Append(NonEmpty(a), y)
      /\ NonEmpty(Append(w, y)) = IF y = <<>> THEN NonEmpty(w) ELSE Append(NonEmpty(w), y)
  BY <1>1, NonEmptyStep
<1>5. NonEmpty(Append(a, y)) = NonEmpty(Append(w, y))
  BY <1>3, <1>4
<1>6. y = <<>> => NonEmpty(a) = NonEmpty(Append(w, y))
  BY <1>3, <1>4
<1>7. Append(toks, x) \in Seq(Texts) /\ Append(w, y) \in Seq(Texts)
  BY <1>1
<1> QED
  BY <1>2, <1>5, <1>6, <1>7 DEF Shows, y, a

\* A cut: what was being filled, of which the scan may have dropped blanks, and what cut it.
LEMMA ShowsCut ==
  ASSUME NEW toks \in Seq(Texts), NEW w \in Seq(Texts), Shows(toks, w),
         NEW g \in Texts, NEW r \in Texts, cleanCmd(g) = cleanCmd(r), NEW c \in Words, c # Blank
  PROVE  /\ w \o <<cleanCmd(r), <<c>>>> \in Seq(Texts)
         /\ Shows(Append(Append(toks, g), <<c>>), w \o <<cleanCmd(r), <<c>>>>)
         /\ g = <<>> => Shows(Append(toks, <<c>>), w \o <<cleanCmd(r), <<c>>>>)
<1> DEFINE y == cleanCmd(r)
           v == Append(w, y)
           x == <<c>>
<1>1. y \in Texts /\ x \in Texts /\ cleanCmd(x) = x
  BY CleanTyped, CleanOne
<1>2. Append(toks, g) \in Seq(Texts) /\ v \in Seq(Texts) /\ Shows(Append(toks, g), v)
  <2>1. /\ Append(toks, g) \in Seq(Texts) /\ Append(w, cleanCmd(g)) \in Seq(Texts)
        /\ Shows(Append(toks, g), Append(w, cleanCmd(g)))
    BY ShowsMore
  <2> QED
    BY <2>1
<1>3. g = <<>> => Shows(toks, v)
  <2>1. cleanCmd(g) = <<>> => Shows(toks, Append(w, cleanCmd(g)))
    BY ShowsMore
  <2>2. g = <<>> => cleanCmd(g) = <<>>
    BY CleanNothing
  <2> QED
    BY <2>1, <2>2
<1>4. w \o <<y, x>> = Append(v, x)
  <2> HIDE DEF x, y
  <2> QED BY <1>1
<1> HIDE DEF v, x, y
<1>5. Shows(Append(Append(toks, g), x), Append(v, x)) /\ Append(v, x) \in Seq(Texts)
  <2> DEFINE l == Append(toks, g)
  <2> HIDE DEF l
  <2>1. l \in Seq(Texts) /\ Shows(l, v)
    BY <1>2 DEF l
  <2>2. Shows(Append(l, x), Append(v, cleanCmd(x))) /\ Append(v, cleanCmd(x)) \in Seq(Texts)
    BY <1>1, <1>2, <2>1, ShowsMore
  <2> QED
    BY <1>1, <2>2 DEF l
<1>6. g = <<>> => Shows(Append(toks, x), Append(v, x))
  <2> SUFFICES ASSUME g = <<>> PROVE Shows(Append(toks, x), Append(v, x))
    OBVIOUS
  <2>1. Shows(toks, v)
    BY <1>3
  <2>2. Shows(Append(toks, x), Append(v, cleanCmd(x)))
    BY <1>1, <1>2, <2>1, ShowsMore
  <2> QED
    BY <1>1, <2>2
<1> QED
  BY <1>4, <1>5, <1>6 DEF x, y
-----------------------------------------------------------------------------
(* What is not a blank before a place.                                     *)

\* The last word before a place, one place further on.
LEMMA PreviousStep ==
  ASSUME NEW t \in Texts, NEW n \in Nat, n < Len(t)
  PROVE  /\ Previous(t, 0 + 1) = Blank /\ Previous(t, n + 1) \in Words
         /\ Previous(t, (n + 1) + 1) = IF t[n + 1] # Blank THEN t[n + 1] ELSE Previous(t, n + 1)
<1> DEFINE B(m) == {j \in 1 .. (m + 1) - 1 : t[j] # Blank}
<1>1. Len(t) \in Nat /\ \A j \in 1 .. Len(t) : t[j] \in Words
  BY DEF Texts
<1>2. \A m \in Nat : B(m) = {j \in 1 .. m : t[j] # Blank}
  <2> SUFFICES ASSUME NEW m \in Nat PROVE B(m) = {j \in 1 .. m : t[j] # Blank}
    OBVIOUS
  <2>1. (m + 1) - 1 = m
    OBVIOUS
  <2> QED
    BY <2>1
<1>3. \A m \in Nat : Previous(t, m + 1) = IF B(m) = {} THEN Blank ELSE t[Max(B(m))]
  BY DEF Previous
<1> HIDE DEF B
<1>4. B(0) = {}
  BY <1>2
<1>5. Previous(t, 0 + 1) = Blank
  BY <1>3, <1>4
<1>6. Previous(t, n + 1) \in Words
  <2>1. CASE B(n) = {}
    BY <1>3, <2>1 DEF Words
  <2>2. CASE B(n) # {}
    <3>1. B(n) \subseteq Nat /\ n \in Nat /\ \A j \in B(n) : j <= n /\ j \in 1 .. Len(t)
      BY <1>1, <1>2
    <3>2. Max(B(n)) \in B(n)
      BY <2>2, <3>1, MaxIsGreatest
    <3> QED
      BY <1>1, <1>3, <2>2, <3>1, <3>2
  <2> QED
    BY <2>1, <2>2
<1>7. CASE t[n + 1] # Blank
  <2>1. n + 1 \in B(n + 1) /\ B(n + 1) \subseteq Nat /\ n + 1 \in Nat /\ \A j \in B(n + 1) : j <= n + 1
    BY <1>2, <1>7
  <2>2. Max(B(n + 1)) \in B(n + 1) /\ \A j \in B(n + 1) : Max(B(n + 1)) >= j
    BY <2>1, MaxIsGreatest
  <2>3. Max(B(n + 1)) = n + 1
    <3>1. Max(B(n + 1)) \in Nat /\ Max(B(n + 1)) >= n + 1 /\ Max(B(n + 1)) <= n + 1
      BY <2>1, <2>2
    <3> QED
      BY <3>1
  <2> QED
    BY <1>3, <1>5, <1>6, <1>7, <2>1, <2>3
<1>8. CASE t[n + 1] = Blank
  <2>1. B(n + 1) = B(n)
    BY <1>2, <1>8
  <2>2. Previous(t, (n + 1) + 1) = Previous(t, n + 1)
    <3>1. n + 1 \in Nat
      OBVIOUS
    <3> DEFINE p == B(n)
               q == B(n + 1)
    <3>2. Previous(t, (n + 1) + 1) = IF q = {} THEN Blank ELSE t[Max(q)]
      BY <1>3, <3>1
    <3>3. Previous(t, n + 1) = IF p = {} THEN Blank ELSE t[Max(p)]
      BY <1>3
    <3>4. p = q
      BY <2>1
    <3> HIDE DEF p, q
    <3> QED
      BY <3>2, <3>3, <3>4
  <2> QED
    BY <1>5, <1>6, <1>8, <2>2
<1> QED
  BY <1>7, <1>8
-----------------------------------------------------------------------------
(* A plain text, place by place.                                           *)

\* What a keyword must be followed by a blank for, and what no keyword but if may follow.
Closing == {"if", "then", "else"}
Needs == Operators \cup Closing \cup {Blank}

\* The next place after n, when s is what the scan has so far.
Place(t, n, s) ==
  LET c == t[n + 1]
  IN  /\ n + 1 \in Separators(t) <=> s.q_st = FALSE /\ c \in Operators \cup Keywords
      /\ n + 1 \in Stays(t) <=> c # Blank \/ s.q_st = TRUE \/ n = 0 \/ t[n] # Blank
      /\ n + 1 \in Quoted(t) <=> c # Quote /\ s.q_st = TRUE
      /\ n > 0 /\ t[n] = Blank /\ s.q_st = FALSE => n \notin Quoted(t)
      /\ c \in Keywords => s.q_st = FALSE
      /\ s.q_st = FALSE /\ c \in Operators => Previous(t, n + 1) \notin Operators \cup {Blank}
      /\ c \in {"then", "else", "fi"} => n > 0 /\ t[n] = Blank /\ Previous(t, n + 1) \notin Needs
      /\ n > 0 /\ t[n] \in Closing => c = Blank
      /\ Previous(t, (n + 1) + 1) = IF c # Blank THEN c ELSE Previous(t, n + 1)
      /\ n > 0 => Previous(t, n + 1) = IF t[n] # Blank THEN t[n] ELSE Previous(t, n)

\* In a plain text operators and keywords are where they may be.
LEMMA SeparatorPlain ==
  ASSUME NEW t \in Texts, Plain(t), NEW i \in Separators(t)
  PROVE  /\ t[i] \in Operators => Previous(t, i) \notin Operators \cup {Blank}
         /\ t[i] = "if" => i < Len(t) /\ t[i + 1] = Blank
         /\ t[i] \in {"then", "else", "fi"} => i > 1 /\ t[i - 1] = Blank /\ Previous(t, i) \notin Needs
         /\ t[i] \in {"then", "else"} => i < Len(t) /\ t[i + 1] = Blank
<1>1. DOMAIN t = 1 .. Len(t) /\ Len(t) \in Nat /\ i \in DOMAIN t
  BY DEF Texts, Separators
<1>2. (CASE t[i] \in Operators -> Previous(t, i) \notin Operators \cup {Blank}
         [] t[i] = "if" -> At(t, i - 1) \in Operators \cup {Blank} /\ i < Len(t) /\ t[i + 1] = Blank
         [] OTHER -> /\ i > 1 /\ t[i - 1] = Blank
                     /\ Previous(t, i) \notin Operators \cup {"if", "then", "else", Blank}
                     /\ At(t, i + 1) \in {Blank} \cup IF t[i] = "fi" THEN Operators ELSE {}
                     /\ t[i] = "fi" \/ i < Len(t))
  BY DEF Plain
<1>3. t[i] \in Operators => t[i] \notin {"if", "then", "else", "fi"}
  BY DEF Operators
<1>4. ASSUME t[i] \in Operators PROVE Previous(t, i) \notin Operators \cup {Blank}
  BY <1>2, <1>3, <1>4
<1>5. ASSUME t[i] = "if" PROVE i < Len(t) /\ t[i + 1] = Blank
  BY <1>2, <1>3, <1>5
<1>6. ASSUME t[i] \in {"then", "else", "fi"}
      PROVE  /\ i > 1 /\ t[i - 1] = Blank
             /\ Previous(t, i) \notin Operators \cup {"if", "then", "else", Blank}
             /\ At(t, i + 1) \in {Blank} \cup IF t[i] = "fi" THEN Operators ELSE {}
             /\ t[i] = "fi" \/ i < Len(t)
  BY <1>2, <1>3, <1>6
<1>7. ASSUME t[i] \in {"then", "else"} PROVE i < Len(t) /\ t[i + 1] = Blank
  <2>1. t[i] # "fi"
    BY <1>7
  <2>2. i < Len(t) /\ At(t, i + 1) = Blank
    BY <1>6, <1>7, <2>1
  <2> QED
    BY <1>1, <2>2 DEF At
<1> QED
  BY <1>4, <1>5, <1>6, <1>7 DEF Needs, Closing

\* What is known of the next place of a plain text.
LEMMA NextPlace ==
  ASSUME NEW t \in Texts, Plain(t), NEW n \in Nat, n < Len(t), NEW s \in ScanStates, ToldSoFar(t, s, n)
  PROVE  Place(t, n, s)
<1> DEFINE c == t[n + 1]
           q == Cardinality(QuotesUpTo(t, n))
<1>1. DOMAIN t = 1 .. Len(t) /\ Len(t) \in Nat /\ n + 1 \in 1 .. Len(t) /\ c \in Words
  BY DEF Texts
<1>2. s.q_st \in BOOLEAN /\ (s.q_st = TRUE <=> q % 2 = 1) /\ (s.q_st = FALSE <=> ~ (q % 2 = 1))
  BY DEF ScanStates, ToldSoFar
<1>3. n + 1 \in Quoted(t) <=> c # Quote /\ s.q_st = TRUE
  BY <1>2, QuotesStep
<1>4. c \in Operators \cup Keywords => c # Quote /\ c # Blank
  BY DEF Operators, Keywords, Quote, Blank
<1>5. n + 1 \in Separators(t) <=> s.q_st = FALSE /\ c \in Operators \cup Keywords
  BY <1>1, <1>2, <1>3, <1>4 DEF Separators
<1>6. Blank # Quote
  BY DEF Blank, Quote
<1>7. n + 1 \in Stays(t) <=> c # Blank \/ s.q_st = TRUE \/ n = 0 \/ t[n] # Blank
  <2>1. n + 1 = 1 <=> n = 0
    OBVIOUS
  <2>2. (n + 1) - 1 = n
    OBVIOUS
  <2> QED
    BY <1>1, <1>3, <1>6, <2>1, <2>2 DEF Stays
<1>8. ASSUME n > 0
      PROVE  /\ n - 1 \in Nat /\ n - 1 < Len(t) /\ (n - 1) + 1 = n
             /\ Cardinality(QuotesUpTo(t, n - 1)) \in Nat
             /\ q = Cardinality(QuotesUpTo(t, n - 1)) + (IF t[n] = Quote THEN 1 ELSE 0)
             /\ n \in Quoted(t) <=> t[n] # Quote /\ Cardinality(QuotesUpTo(t, n - 1)) % 2 = 1
             /\ Previous(t, n + 1) = IF t[n] # Blank THEN t[n] ELSE Previous(t, n)
  <2> DEFINE m == n - 1
  <2>1. m \in Nat /\ m < Len(t) /\ m + 1 = n
    BY <1>1, <1>8
  <2> HIDE DEF m
  <2>2. /\ Cardinality(QuotesUpTo(t, m)) \in Nat
        /\ Cardinality(QuotesUpTo(t, m + 1)) = Cardinality(QuotesUpTo(t, m)) + (IF t[m + 1] = Quote THEN 1 ELSE 0)
        /\ m + 1 \in Quoted(t) <=> t[m + 1] # Quote /\ Cardinality(QuotesUpTo(t, m)) % 2 = 1
    BY <2>1, QuotesStep
  <2>3. Previous(t, (m + 1) + 1) = IF t[m + 1] # Blank THEN t[m + 1] ELSE Previous(t, m + 1)
    BY <2>1, PreviousStep
  <2> QED
    BY <2>1, <2>2, <2>3 DEF m
<1>9. n > 0 /\ t[n] # Quote => (n \in Quoted(t) <=> s.q_st = TRUE)
  <2> SUFFICES ASSUME n > 0, t[n] # Quote PROVE n \in Quoted(t) <=> s.q_st = TRUE
    OBVIOUS
  <2>1. q = Cardinality(QuotesUpTo(t, n - 1))
    BY <1>8
  <2> QED
    BY <1>2, <1>8, <2>1
<1>10. c \in Keywords => s.q_st = FALSE
  <2>1. n + 1 \in Quoted(t) => c \notin Keywords
    BY DEF Plain, Balanced
  <2> QED
    BY <1>2, <1>3, <1>4, <2>1
<1>11. s.q_st = FALSE /\ c \in Operators => Previous(t, n + 1) \notin Operators \cup {Blank}
  BY <1>5, SeparatorPlain
<1>12. c \in {"then", "else", "fi"} => n > 0 /\ t[n] = Blank /\ Previous(t, n + 1) \notin Needs
  <2> SUFFICES ASSUME c \in {"then", "else", "fi"} PROVE n > 0 /\ t[n] = Blank /\ Previous(t, n + 1) \notin Needs
    OBVIOUS
  <2>1. c \in Keywords
    BY DEF Keywords
  <2>2. n + 1 \in Separators(t)
    BY <1>5, <1>10, <2>1
  <2>3. n + 1 > 1 /\ t[(n + 1) - 1] = Blank /\ Previous(t, n + 1) \notin Needs
    BY <2>2, SeparatorPlain
  <2>4. (n + 1) - 1 = n
    OBVIOUS
  <2> QED
    BY <2>3, <2>4
<1>13. n > 0 /\ t[n] \in Closing => c = Blank
  <2> SUFFICES ASSUME n > 0, t[n] \in Closing PROVE c = Blank
    OBVIOUS
  <2>1. t[n] \in Keywords /\ n \in DOMAIN t
    BY <1>1 DEF Closing, Keywords
  <2>2. n \notin Quoted(t)
    BY <2>1 DEF Plain, Balanced
  <2>3. n \in Separators(t)
    BY <2>1, <2>2 DEF Separators
  <2>4. t[n] = "if" \/ t[n] \in {"then", "else"}
    BY DEF Closing
  <2> QED
    BY <2>3, <2>4, SeparatorPlain
<1>14. Previous(t, (n + 1) + 1) = IF c # Blank THEN c ELSE Previous(t, n + 1)
  BY PreviousStep
<1>15. n > 0 /\ t[n] = Blank /\ s.q_st = FALSE => n \notin Quoted(t)
  BY <1>6, <1>9
<1> QED
  BY <1>3, <1>5, <1>7, <1>8, <1>10, <1>11, <1>12, <1>13, <1>14, <1>15 DEF Place
-----------------------------------------------------------------------------
(* What a keyword is cut from.                                             *)

\* A text whose last pieces are those of w ends with it.
LEMMA EndsIfSame ==
  ASSUME NEW q \in Texts, NEW w \in Texts, Len(w) > 0, Len(w) <= Len(q),
         \A i \in 1 .. Len(w) : q[Len(q) - Len(w) + i] = w[i]
  PROVE  EndsWith(q, w)
<1> DEFINE a == Len(q) - Len(w) + 1
           v == SubSeq(q, a, Len(q))
<1>1. q \in Seq(Words) /\ w \in Seq(Words) /\ Len(q) \in Nat /\ Len(w) \in Nat
  BY DEF Texts
<1>2. a \in Nat \ {0} /\ Len(q) \in 0 .. Len(q) /\ a <= Len(q) /\ Len(q) - a + 1 = Len(w)
  BY <1>1
<1>3. v \in Seq(Words) /\ Len(v) = Len(w) /\ \A k \in 1 .. Len(w) : v[k] = q[a + k - 1]
  <2>1. /\ v \in Seq(Words) /\ Len(v) = IF a <= Len(q) THEN Len(q) - a + 1 ELSE 0
        /\ \A k \in 1 .. Len(v) : v[k] = q[a + k - 1]
    <3> HIDE DEF a
    <3> QED BY <1>1, <1>2, PartTyped
  <2> HIDE DEF v, a
  <2> QED
    BY <1>2, <2>1
<1>4. ASSUME NEW k \in 1 .. Len(v) PROVE v[k] = w[k]
  <2>1. a + k - 1 = Len(q) - Len(w) + k /\ k \in 1 .. Len(w)
    BY <1>1, <1>3
  <2> HIDE DEF a, v
  <2> QED
    BY <1>3, <2>1
<1>5. v = w
  <2> HIDE DEF v
  <2> QED BY <1>1, <1>3, <1>4, SameText
<1> QED
  BY <1>1, <1>5 DEF EndsWith

\* A part of a text does not change as the text grows.
LEMMA PartOfMore ==
  ASSUME NEW p \in Texts, NEW c \in Words, NEW m \in 0 .. Len(p)
  PROVE  SubSeq(Append(p, c), 1, m) = SubSeq(p, 1, m)
<1> DEFINE q == Append(p, c)
           x == SubSeq(q, 1, m)
           y == SubSeq(p, 1, m)
<1>1. /\ q \in Seq(Words) /\ p \in Seq(Words) /\ Len(p) \in Nat /\ Len(q) = Len(p) + 1
      /\ \A i \in 1 .. Len(p) : q[i] = p[i]
  BY DEF Texts
<1> HIDE DEF q
<1>2. x \in Seq(Words) /\ Len(x) = m /\ \A i \in 1 .. m : x[i] = q[i]
  BY <1>1
<1>3. y \in Seq(Words) /\ Len(y) = m /\ \A i \in 1 .. m : y[i] = p[i]
  BY <1>1
<1> HIDE DEF x, y
<1>4. \A i \in 1 .. Len(x) : x[i] = y[i]
  BY <1>1, <1>2, <1>3
<1>5. x = y
  BY <1>2, <1>3, <1>4, SameText
<1> QED
  BY <1>5 DEF q, x, y

\* The last two pieces and one more.
LEMMA LastTwo ==
  ASSUME NEW p \in Texts, p # <<>>, NEW c \in Words
  PROVE  LET q == Append(p, c)
         IN  /\ q \in Texts /\ Len(q) = Len(p) + 1 /\ Len(p) \in Nat \ {0}
             /\ q[Len(p) + 1] = c /\ q[Len(p)] = Last(p)
             /\ Front(p) \in Texts /\ p = Append(Front(p), Last(p)) /\ Len(Front(p)) = Len(p) - 1
             /\ Front(p) = SubSeq(q, 1, Len(p) - 1)
             /\ Front(p) # <<>> => /\ Len(p) > 1 /\ q[Len(p) - 1] = Last(Front(p))
                                   /\ Front(Front(p)) = SubSeq(q, 1, Len(p) - 2)
             /\ Front(p) = <<>> => Len(p) = 1
<1> DEFINE q == Append(p, c)
           f == Front(p)
<1>1. p \in Seq(Words)
  BY DEF Texts
<1>2. /\ f \in Texts /\ Last(p) \in Words /\ p = Append(f, Last(p)) /\ Len(p) \in Nat \ {0} /\ Len(f) = Len(p) - 1
  BY <1>1, LastAndRest DEF Texts
<1>3. /\ q \in Texts /\ Len(q) = Len(p) + 1 /\ \A i \in 1 .. Len(p) + 1 : q[i] = IF i = Len(p) + 1 THEN c ELSE p[i]
  BY <1>1, AppendedTyped DEF Texts
<1>4. q[Len(p) + 1] = c /\ q[Len(p)] = Last(p) /\ Last(p) = p[Len(p)]
  BY <1>2, <1>3 DEF Last
<1>5. f = SubSeq(p, 1, Len(p) - 1) /\ Len(p) - 1 \in 0 .. Len(p)
  BY <1>2 DEF Front
<1>6. f = SubSeq(q, 1, Len(p) - 1)
  BY <1>5, PartOfMore
<1>7. ASSUME f # <<>> PROVE Len(p) > 1 /\ q[Len(p) - 1] = Last(f) /\ Front(f) = SubSeq(q, 1, Len(p) - 2)
  <2>1. Len(f) \in Nat \ {0} /\ Last(f) = f[Len(f)] /\ Front(f) = SubSeq(f, 1, Len(f) - 1)
    <3> HIDE DEF f
    <3> QED BY <1>2, <1>7 DEF Last, Front, Texts
  <2>2. Len(p) > 1 /\ Len(f) - 1 = Len(p) - 2 /\ Len(f) - 1 \in 0 .. Len(f) /\ Len(p) - 2 \in 0 .. Len(p)
    BY <1>2, <2>1
  <2>3. p[Len(f)] = f[Len(f)]
    <3> DEFINE l == Last(p)
    <3> HIDE DEF f, l
    <3>1. Append(f, l)[Len(f)] = f[Len(f)]
      BY <1>2, <2>1 DEF l, Texts
    <3> QED
      BY <1>2, <3>1 DEF l
  <2>4. q[Len(p) - 1] = p[Len(f)]
    BY <1>2, <1>3, <2>2
  <2>5. Front(f) = SubSeq(p, 1, Len(p) - 2)
    <3> DEFINE l == Last(p)
               m == Len(p) - 2
    <3>1. m \in 0 .. Len(f) /\ Front(f) = SubSeq(f, 1, m)
      BY <2>1, <2>2
    <3> HIDE DEF f, l, m
    <3>2. SubSeq(Append(f, l), 1, m) = SubSeq(f, 1, m)
      BY <1>2, <3>1, PartOfMore DEF l
    <3> QED
      BY <1>2, <3>1, <3>2 DEF l, m
  <2>6. SubSeq(p, 1, Len(p) - 2) = SubSeq(q, 1, Len(p) - 2)
    BY <2>2, PartOfMore
  <2> QED
    BY <2>1, <2>2, <2>3, <2>4, <2>5, <2>6
<1>8. ASSUME f = <<>> PROVE Len(p) = 1
  <2>1. Len(f) = 0
    BY <1>8
  <2> QED
    BY <1>2, <2>1
<1> QED
  BY <1>2, <1>3, <1>4, <1>6, <1>7, <1>8

\* The four patterns of parseCmd, piece by piece.
LEMMA PatternIs ==
  /\ \A k \in 1 .. 4 : Pattern[k] \in Texts
  /\ Len(Pattern[1]) = 2 /\ Pattern[1][1] = "if" /\ Pattern[1][2] = Blank
  /\ Len(Pattern[2]) = 3 /\ Pattern[2][1] = Blank /\ Pattern[2][2] = "then" /\ Pattern[2][3] = Blank
  /\ Len(Pattern[3]) = 3 /\ Pattern[3][1] = Blank /\ Pattern[3][2] = "else" /\ Pattern[3][3] = Blank
  /\ Len(Pattern[4]) = 2 /\ Pattern[4][1] = Blank /\ Pattern[4][2] = "fi"
<1>1. \A k \in 1 .. 4 : Pattern[k] \in Texts
  BY PatternWords
<1> QED
  BY <1>1 DEF Pattern

\* Where a keyword ends.
LEMMA KeywordEnds ==
  ASSUME NEW p \in Texts, p # <<>>
  PROVE  /\ Last(p) = "if" => EndsWith(Append(p, Blank), Pattern[1])
         /\ Last(p) = "then" /\ Front(p) # <<>> /\ Last(Front(p)) = Blank => EndsWith(Append(p, Blank), Pattern[2])
         /\ Last(p) = "else" /\ Front(p) # <<>> /\ Last(Front(p)) = Blank => EndsWith(Append(p, Blank), Pattern[3])
         /\ Last(p) = Blank => EndsWith(Append(p, "fi"), Pattern[4])
<1>1. Blank \in Words /\ "fi" \in Words
  BY DEF Words, Keywords
<1>2. ASSUME NEW c \in Words, NEW w \in Texts, Len(w) = 2, w[1] = Last(p), w[2] = c
      PROVE  EndsWith(Append(p, c), w)
  <2> DEFINE q == Append(p, c)
  <2>1. q \in Texts /\ Len(q) = Len(p) + 1 /\ Len(p) \in Nat \ {0} /\ q[Len(p) + 1] = c /\ q[Len(p)] = Last(p)
    BY LastTwo
  <2> HIDE DEF q
  <2>2. \A i \in 1 .. 2 : i = 1 \/ i = 2
    OBVIOUS
  <2>3. \A i \in 1 .. Len(w) : q[Len(q) - Len(w) + i] = w[i]
    BY <1>2, <2>1, <2>2
  <2>4. Len(w) > 0 /\ Len(w) <= Len(q)
    BY <1>2, <2>1
  <2> QED
    BY <2>1, <2>3, <2>4, EndsIfSame DEF q
<1>3. ASSUME NEW w \in Texts, Len(w) = 3, Front(p) # <<>>, w[1] = Last(Front(p)), w[2] = Last(p), w[3] = Blank
      PROVE  EndsWith(Append(p, Blank), w)
  <2> DEFINE q == Append(p, Blank)
  <2>1. q \in Texts /\ Len(q) = Len(p) + 1 /\ Len(p) \in Nat \ {0} /\ q[Len(p) + 1] = Blank /\ q[Len(p)] = Last(p)
        /\ Len(p) > 1 /\ q[Len(p) - 1] = Last(Front(p))
    BY <1>1, <1>3, LastTwo
  <2> HIDE DEF q
  <2>2. \A i \in 1 .. 3 : i = 1 \/ i = 2 \/ i = 3
    OBVIOUS
  <2>3. \A i \in 1 .. Len(w) : q[Len(q) - Len(w) + i] = w[i]
    BY <1>3, <2>1, <2>2
  <2>4. Len(w) > 0 /\ Len(w) <= Len(q)
    BY <1>3, <2>1
  <2> QED
    BY <2>1, <2>3, <2>4, EndsIfSame DEF q
<1> QED
  BY <1>1, <1>2, <1>3, PatternIs

\* What is before a keyword that is cut: blanks apart, all that was being filled before it.
LEMMA CutParts ==
  ASSUME NEW p \in Texts, NEW c \in Words, NEW k \in 1 .. 4, EndsWith(Append(p, c), Pattern[k])
  PROVE  LET q == Append(p, c)
             n == Len(q) - Len(Pattern[k])
             g == SubSeq(q, 1, n)
         IN  /\ p # <<>> /\ Front(p) \in Texts /\ p = Append(Front(p), Last(p))
             /\ c = IF k = 4 THEN "fi" ELSE Blank
             /\ Last(p) = IF k = 4 THEN Blank ELSE Found[k]
             /\ g \in Texts /\ (n > 0 <=> g # <<>>) /\ cleanCmd(g) = cleanCmd(Front(p))
<1> DEFINE q == Append(p, c)
           n == Len(q) - Len(Pattern[k])
           g == SubSeq(q, 1, n)
<1>1. q \in Texts /\ Len(q) = Len(p) + 1 /\ Len(p) \in Nat
  BY DEF Texts
<1>2. Len(q) >= 2 /\ q[Len(q) - 1] = (IF k = 4 THEN Blank ELSE Found[k]) /\ q[Len(q)] = (IF k = 4 THEN "fi" ELSE Blank)
  BY <1>1, EndPieces
<1>3. p # <<>>
  <2>1. Len(p) # 0
    BY <1>1, <1>2
  <2> QED
    BY <2>1
<1>4. /\ q[Len(p) + 1] = c /\ q[Len(p)] = Last(p)
      /\ Front(p) \in Texts /\ p = Append(Front(p), Last(p)) /\ Len(Front(p)) = Len(p) - 1
      /\ Front(p) = SubSeq(q, 1, Len(p) - 1)
      /\ Front(p) # <<>> => /\ Len(p) > 1 /\ q[Len(p) - 1] = Last(Front(p))
                            /\ Front(Front(p)) = SubSeq(q, 1, Len(p) - 2)
      /\ Front(p) = <<>> => Len(p) = 1
  BY <1>3, LastTwo
<1>5. c = (IF k = 4 THEN "fi" ELSE Blank) /\ Last(p) = (IF k = 4 THEN Blank ELSE Found[k])
  <2>1. Len(q) - 1 = Len(p)
    BY <1>1
  <2> QED
    BY <1>1, <1>2, <1>4, <2>1
<1>6. g \in Texts /\ Len(g) = n /\ n \in 0 .. Len(q) /\ \A i \in 1 .. Len(Pattern[k]) : q[n + i] = Pattern[k][i]
  BY <1>1, PatternLengths, EndOf
<1>7. n > 0 <=> g # <<>>
  <2> HIDE DEF g, n
  <2>1. g = <<>> <=> Len(g) = 0
    BY <1>6 DEF Texts
  <2> QED
    BY <1>1, <1>6, <2>1
<1>8. cleanCmd(g) = cleanCmd(Front(p))
  <2>1. CASE k \in {1, 4}
    <3>1. n = Len(p) - 1
      <4>1. Len(Pattern[k]) = 2
        BY <2>1, PatternIs
      <4> HIDE DEF q
      <4> QED
        BY <1>1, <4>1
    <3> HIDE DEF n
    <3> QED
      BY <1>4, <3>1
  <2>2. CASE k \in {2, 3}
    <3>1. n = Len(p) - 2 /\ Pattern[k][1] = Blank /\ 1 \in 1 .. Len(Pattern[k])
      <4>1. Len(Pattern[k]) = 3 /\ Pattern[k][1] = Blank
        BY <2>2, PatternIs
      <4> HIDE DEF q
      <4> QED
        BY <1>1, <4>1
    <3>2. q[Len(p) - 1] = Blank
      <4>1. n + 1 = Len(p) - 1
        BY <1>1, <3>1
      <4> HIDE DEF n
      <4> QED
        BY <1>6, <3>1, <4>1
    <3>3. Front(p) # <<>>
      <4>1. Len(p) # 1
        <5>1. n >= 0 /\ n = Len(p) - 2
          BY <1>6, <3>1
        <5> HIDE DEF n
        <5> QED
          BY <1>1, <5>1
      <4> QED
        BY <1>4, <4>1
    <3>4. Last(Front(p)) = Blank /\ Front(Front(p)) = g
      <4> HIDE DEF n
      <4> QED BY <1>4, <3>1, <3>2, <3>3
    <3>5. Front(p) = Append(g, Blank)
      <4>1. Front(p) = Append(Front(Front(p)), Last(Front(p)))
        <5> DEFINE f == Front(p)
        <5> HIDE DEF f
        <5>1. f \in Seq(Words) /\ f # <<>>
          BY <1>4, <3>3 DEF f, Texts
        <5>2. f = Append(Front(f), Last(f))
          BY <5>1, LastAndRest
        <5> QED
          BY <5>2 DEF f
      <4> QED
        BY <3>4, <4>1, Zenon
    <3> HIDE DEF g
    <3> QED
      BY <1>6, <3>5, CleanDropsLast
  <2>3. k \in {1, 4} \/ k \in {2, 3}
    OBVIOUS
  <2> QED
    BY <2>1, <2>2, <2>3
<1> QED
  BY <1>3, <1>4, <1>5, <1>6, <1>7, <1>8
-----------------------------------------------------------------------------
(* The scan of a plain text.                                               *)

Scanned(s, c, r) ==
  \/ QuoteKept(s, c, r) \/ QuotedKept(s, c, r) \/ OperatorCuts(s, c, r) \/ BlankDropped(s, c, r) \/ PieceKept(s, c, r)
  \/ \E k \in 1 .. 4 : KeywordCuts(s, c, r, k)

EndsIn(p, X) == p # <<>> /\ Last(p) \in X
Pending(t, n) == n > 0 /\ t[n] \in Closing

\* A blank is in the token that is being filled, unless nothing needs it there.
BlankKept(t, s, n) == n > 0 /\ n \notin Quoted(t) /\ t[n] = Blank =>
  s.space_encountered = TRUE /\ (EndsIn(s.param, {Blank}) \/ (s.param = <<>> /\ Previous(t, n) \in Needs))
\* A blank is dropped after a blank or an operator only.
SpaceMeant(t, s, n) == s.space_encountered = TRUE /\ s.q_st = FALSE =>
  n > 0 /\ (t[n] = Blank \/ (s.param = <<>> /\ t[n] \in Operators))
\* An operator with nothing to cut follows none.
CountMeant(t, s, n) == s.char_count = 0 => Previous(t, n + 1) \in Operators \cup {Blank}
ClosingLast(t, s, n) == EndsIn(s.param, Closing) => Pending(t, n)

\* What is written and not yet cut is being filled, but for a blank it may begin with.
Trails(w, r, toks, p) == Shows(toks, w) /\ (p = r \/ r = <<Blank>> \o p)
WrittenSoFar(t, s, n) ==
  /\ Trails(WrittenAt(t, n), RestAt(t, n), s.toks, s.param)
  /\ RestAt(t, n) = <<Blank>> /\ s.param = <<>> => n > 0 /\ t[n] = Blank
\* A keyword is cut when the blank after it is read.
CutIsNext(t, s, n) ==
  /\ EndsIn(s.param, {t[n]})
  /\ Trails(WrittenAt(t, n - 1), RestAt(t, n - 1), s.toks, Front(s.param))

PlainSoFar(t, s, n) ==
  /\ BlankKept(t, s, n) /\ SpaceMeant(t, s, n) /\ CountMeant(t, s, n) /\ ClosingLast(t, s, n)
  /\ Pending(t, n) => CutIsNext(t, s, n) /\ (t[n] # "if" => EndsIn(Front(s.param), {Blank}))
  /\ ~ Pending(t, n) => WrittenSoFar(t, s, n)

\* Blanks, quotes, operators and keywords are different from each other.
LEMMA DifferentPieces ==
  /\ Closing \subseteq Keywords /\ Operators \subseteq Needs /\ Closing \subseteq Needs /\ Blank \in Needs
  /\ Blank \notin Operators /\ Blank \notin Keywords /\ Blank # Quote /\ Quote \notin Operators /\ Quote \notin Keywords
  /\ "fi" \notin Closing /\ "fi" \in Keywords /\ Operators \cap Keywords = {}
  /\ \A x \in Keywords : x \in Closing \/ x = "fi"
  /\ \A x \in Closing : x = "if" \/ x \in {"then", "else", "fi"}
BY DEF Closing, Keywords, Operators, Needs, Blank, Quote

\* The keyword of each pattern.
LEMMA FoundIs ==
  \A k \in 1 .. 4 : /\ Found[k] \in Keywords /\ (k # 4 <=> Found[k] \in Closing) /\ (k = 4 <=> Found[k] = "fi")
                    /\ \A j \in 1 .. 4 : Found[j] = Found[k] => j = k
<1>1. Found[1] = "if" /\ Found[2] = "then" /\ Found[3] = "else" /\ Found[4] = "fi"
  BY DEF Found
<1>2. \A k \in 1 .. 4 : k = 1 \/ k = 2 \/ k = 3 \/ k = 4
  OBVIOUS
<1> QED
  BY <1>1, <1>2 DEF Keywords, Closing

\* A piece that is kept is the last one.
LEMMA KeptLast ==
  ASSUME NEW s \in ScanStates, NEW c \in Words, NEW r, Keeps(s, c, r)
  PROVE  /\ r.param # <<>> /\ Last(r.param) = c /\ Front(r.param) = s.param
         /\ r.char_count # 0 /\ r.toks = s.toks /\ r.param = Append(s.param, c) /\ s.param \in Seq(Words)
<1>1. s.param \in Seq(Words) /\ s.char_count \in Nat
  BY DEF ScanStates, Texts
<1> DEFINE p == s.param
           q == Append(p, c)
<1>2. /\ q \in Seq(Words) /\ Len(q) = Len(p) + 1 /\ Len(p) \in Nat
      /\ q[Len(p) + 1] = c /\ \A i \in 1 .. Len(p) : q[i] = p[i]
  BY <1>1
<1>3. q # <<>> /\ Last(q) = c
  <2> HIDE DEF p, q
  <2>1. Len(q) # 0
    BY <1>2
  <2>2. q # <<>>
    BY <2>1
  <2> QED
    BY <1>2, <2>2 DEF Last
<1>4. Front(q) = p
  <2> HIDE DEF p, q
  <2>1. Front(q) = SubSeq(q, 1, Len(p))
    <3>1. Len(q) - 1 = Len(p)
      BY <1>2
    <3> QED
      BY <3>1 DEF Front
  <2> DEFINE f == SubSeq(q, 1, Len(p))
  <2>2. f \in Seq(Words) /\ Len(f) = Len(p) /\ \A i \in 1 .. Len(p) : f[i] = q[i]
    BY <1>2
  <2> HIDE DEF f
  <2>3. f = p
    BY <1>1, <1>2, <2>2, SameText DEF p
  <2> QED
    BY <2>1, <2>3 DEF f
<1>5. s.char_count + 1 # 0
  BY <1>1
<1> HIDE DEF q
<1> QED
  BY <1>1, <1>3, <1>4, <1>5 DEF Keeps, q

\* What a cut says of the piece that caused it and of the one before.
LEMMA CutsAre ==
  ASSUME NEW s \in ScanStates, NEW c \in Words, NEW r, NEW k \in 1 .. 4, KeywordCuts(s, c, r, k)
  PROVE  /\ s.q_st = FALSE /\ r.q_st = FALSE /\ r.param = <<>> /\ r.char_count # 0
         /\ r.space_encountered = (c = Blank) /\ ~ (c = Blank /\ s.space_encountered)
         /\ s.param # <<>> /\ c = (IF k = 4 THEN "fi" ELSE Blank)
         /\ Last(s.param) = (IF k = 4 THEN Blank ELSE Found[k])
<1>1. s.param \in Texts /\ s.char_count \in Nat
  BY DEF ScanStates
<1>2. /\ s.q_st = FALSE /\ r.q_st = FALSE /\ r.param = <<>> /\ r.char_count = s.char_count + 1
      /\ r.space_encountered = (c = Blank) /\ ~ (c = Blank /\ s.space_encountered)
      /\ EndsWith(Append(s.param, c), Pattern[k])
  BY DEF KeywordCuts
<1>3. s.char_count + 1 # 0
  BY <1>1
<1>4. /\ s.param # <<>> /\ c = (IF k = 4 THEN "fi" ELSE Blank)
      /\ Last(s.param) = (IF k = 4 THEN Blank ELSE Found[k])
  <2> DEFINE p == s.param
  <2>1. p \in Texts /\ EndsWith(Append(p, c), Pattern[k])
    BY <1>1, <1>2
  <2> HIDE DEF p
  <2>2. p # <<>> /\ c = (IF k = 4 THEN "fi" ELSE Blank) /\ Last(p) = (IF k = 4 THEN Blank ELSE Found[k])
    BY <2>1, CutParts
  <2> QED
    BY <2>2 DEF p
<1> QED
  BY <1>2, <1>3, <1>4

\* A keyword that waits for its blank is cut off when the blank comes.
LEMMA PendingCuts ==
  ASSUME NEW t \in Texts, NEW n \in Nat, n < Len(t), NEW s \in ScanStates, ToldSoFar(t, s, n),
         Place(t, n, s), PlainSoFar(t, s, n), Pending(t, n), NEW r, Scanned(s, t[n + 1], r)
  PROVE  t[n + 1] = Blank /\ \E k \in 1 .. 3 : KeywordCuts(s, Blank, r, k) /\ Found[k] = t[n]
<1>1. t[n + 1] = Blank
  BY DEF Pending, Place
<1>2. /\ s.param # <<>> /\ Last(s.param) = t[n] /\ t[n] \in Closing /\ n > 0
      /\ t[n] # "if" => Front(s.param) # <<>> /\ Last(Front(s.param)) = Blank
  BY DEF PlainSoFar, CutIsNext, EndsIn, Pending
<1>3. s.q_st = FALSE
  <2>1. s.q_st \in BOOLEAN
    BY DEF ScanStates
  <2>2. s.q_st # TRUE
    BY <1>2, DifferentPieces DEF ToldSoFar
  <2> QED
    BY <2>1, <2>2
<1>4. s.space_encountered = FALSE
  <2>1. s.space_encountered \in BOOLEAN
    BY DEF ScanStates
  <2>2. t[n] # Blank
    BY <1>2, DifferentPieces
  <2>3. s.space_encountered # TRUE
    BY <1>2, <1>3, <2>2 DEF PlainSoFar, SpaceMeant
  <2> QED
    BY <2>1, <2>3
<1>5. \E k \in 1 .. 4 : EndsWith(Append(s.param, Blank), Pattern[k])
  <2>1. s.param \in Texts
    BY DEF ScanStates
  <2>2. t[n] = "if" \/ t[n] = "then" \/ t[n] = "else"
    BY <1>2 DEF Closing
  <2>3. 1 \in 1 .. 4 /\ 2 \in 1 .. 4 /\ 3 \in 1 .. 4 /\ "then" # "if" /\ "else" # "if"
    OBVIOUS
  <2> QED
    BY <1>2, <2>1, <2>2, <2>3, KeywordEnds
<1>6. Blank \in Words
  BY DEF Words
<1>7. ~ QuoteKept(s, Blank, r) /\ ~ QuotedKept(s, Blank, r) /\ ~ OperatorCuts(s, Blank, r) /\ ~ BlankDropped(s, Blank, r)
  BY <1>3, <1>4, DifferentPieces DEF QuoteKept, QuotedKept, OperatorCuts, BlankDropped
<1>8. ~ PieceKept(s, Blank, r)
  <2> SUFFICES ASSUME PieceKept(s, Blank, r) PROVE FALSE
    OBVIOUS
  <2>1. r.param = Append(s.param, Blank)
    BY DEF PieceKept, Keeps
  <2>2. \A k \in 1 .. 4 : ~ EndsWith(r.param, Pattern[k])
    BY DEF PieceKept
  <2> QED
    BY <1>5, <2>1, <2>2
<1>9. PICK k \in 1 .. 4 : KeywordCuts(s, Blank, r, k)
  BY <1>1, <1>7, <1>8 DEF Scanned
<1>10. Blank = (IF k = 4 THEN "fi" ELSE Blank) /\ Last(s.param) = (IF k = 4 THEN Blank ELSE Found[k])
  BY <1>6, <1>9, CutsAre
<1>11. k # 4
  BY <1>10, DifferentPieces
<1>12. k \in 1 .. 3 /\ Found[k] = t[n]
  BY <1>2, <1>10, <1>11
<1> QED
  BY <1>1, <1>9, <1>12

SpaceSoFar(t, s, n) == BlankKept(t, s, n) /\ SpaceMeant(t, s, n) /\ CountMeant(t, s, n) /\ ClosingLast(t, s, n)

\* A piece that is kept, and what blanks are before it.
LEMMA SpaceKept ==
  ASSUME NEW t \in Texts, NEW n \in Nat, n < Len(t), NEW s \in ScanStates, Place(t, n, s), NEW r,
         QuoteKept(s, t[n + 1], r) \/ QuotedKept(s, t[n + 1], r) \/ PieceKept(s, t[n + 1], r)
  PROVE  SpaceSoFar(t, r, n + 1)
<1> DEFINE c == t[n + 1]
<1>1. c \in Words /\ n + 1 > 0 /\ s.q_st \in BOOLEAN /\ s.space_encountered \in BOOLEAN
  BY DEF Texts, ScanStates
<1>2. Keeps(s, c, r)
  BY DEF QuoteKept, QuotedKept, PieceKept
<1>3. r.param # <<>> /\ Last(r.param) = c /\ r.char_count # 0
  BY <1>1, <1>2, KeptLast
<1>4. n + 1 \in Quoted(t) <=> c # Quote /\ s.q_st = TRUE
  BY DEF Place
<1>5. QuoteKept(s, c, r) \/ QuotedKept(s, c, r) \/ PieceKept(s, c, r)
  OBVIOUS
<1> HIDE DEF c
<1>6. ASSUME n + 1 \notin Quoted(t), c = Blank PROVE r.space_encountered = TRUE
  <2>1. c # Quote /\ s.q_st = FALSE
    BY <1>1, <1>4, <1>6, DifferentPieces
  <2>2. PieceKept(s, c, r)
    BY <1>5, <2>1 DEF QuoteKept, QuotedKept
  <2> QED
    BY <1>6, <2>2 DEF PieceKept
<1>7. ASSUME r.space_encountered = TRUE, r.q_st = FALSE PROVE c = Blank
  <2>1. ~ QuoteKept(s, c, r)
    <3> SUFFICES ASSUME QuoteKept(s, c, r) PROVE FALSE
      OBVIOUS
    <3>1. r.q_st = ~ s.q_st /\ r.space_encountered = (s.space_encountered /\ ~ s.q_st)
      BY DEF QuoteKept
    <3>2. s.q_st = TRUE
      BY <1>1, <1>7, <3>1
    <3> QED
      BY <1>1, <1>7, <3>1, <3>2
  <2>2. ~ QuotedKept(s, c, r)
    BY <1>7 DEF QuotedKept
  <2>3. r.space_encountered = (c = Blank)
    BY <1>5, <2>1, <2>2 DEF PieceKept
  <2> QED
    BY <1>7, <2>3
<1>8. BlankKept(t, r, n + 1)
  BY <1>3, <1>6 DEF BlankKept, EndsIn, c
<1>9. SpaceMeant(t, r, n + 1)
  BY <1>1, <1>7 DEF SpaceMeant, c
<1>10. CountMeant(t, r, n + 1)
  BY <1>3 DEF CountMeant
<1>11. ClosingLast(t, r, n + 1)
  BY <1>1, <1>3 DEF ClosingLast, EndsIn, Pending, c
<1> QED
  BY <1>8, <1>9, <1>10, <1>11 DEF SpaceSoFar

\* The blanks at an operator.
LEMMA SpaceAtOperator ==
  ASSUME NEW t \in Texts, NEW n \in Nat, n < Len(t), NEW s \in ScanStates, Place(t, n, s), NEW r,
         OperatorCuts(s, t[n + 1], r)
  PROVE  SpaceSoFar(t, r, n + 1)
<1> DEFINE c == t[n + 1]
<1>1. n + 1 > 0 /\ c \in Operators /\ r.param = <<>> /\ c # Blank
  BY DifferentPieces DEF OperatorCuts
<1>2. Previous(t, (n + 1) + 1) = c
  BY <1>1 DEF Place
<1> QED
  BY <1>1, <1>2 DEF SpaceSoFar, BlankKept, SpaceMeant, CountMeant, ClosingLast, EndsIn

\* A blank is dropped after a blank or an operator only.
LEMMA SpaceDropped ==
  ASSUME NEW t \in Texts, NEW n \in Nat, n < Len(t), NEW s \in ScanStates, Place(t, n, s), SpaceSoFar(t, s, n),
         BlankDropped(s, t[n + 1], s)
  PROVE  /\ SpaceSoFar(t, s, n + 1) /\ ~ Pending(t, n) /\ n > 0
         /\ t[n] = Blank \/ (s.param = <<>> /\ t[n] \in Operators)
<1>1. t[n + 1] = Blank /\ s.q_st = FALSE /\ s.space_encountered = TRUE /\ n + 1 > 0
  BY DEF BlankDropped
<1>2. n > 0 /\ (t[n] = Blank \/ (s.param = <<>> /\ t[n] \in Operators))
  BY <1>1 DEF SpaceSoFar, SpaceMeant
<1>3. Previous(t, n + 1) = (IF t[n] # Blank THEN t[n] ELSE Previous(t, n)) /\ Previous(t, (n + 1) + 1) = Previous(t, n + 1)
  BY <1>1, <1>2 DEF Place
<1>4. BlankKept(t, s, n + 1)
  <2> SUFFICES EndsIn(s.param, {Blank}) \/ (s.param = <<>> /\ Previous(t, n + 1) \in Needs)
    BY <1>1 DEF BlankKept
  <2>1. CASE t[n] = Blank
    <3>1. n \notin Quoted(t)
      BY <1>1, <1>2, <2>1 DEF Place
    <3> QED
      BY <1>2, <1>3, <2>1, <3>1 DEF SpaceSoFar, BlankKept
  <2>2. CASE s.param = <<>> /\ t[n] \in Operators
    <3>1. t[n] # Blank /\ t[n] \in Needs
      BY <2>2, DifferentPieces
    <3> QED
      BY <1>3, <2>2, <3>1
  <2> QED
    BY <1>2, <2>1, <2>2
<1>5. SpaceMeant(t, s, n + 1)
  BY <1>1 DEF SpaceMeant
<1>6. CountMeant(t, s, n + 1)
  BY <1>3 DEF SpaceSoFar, CountMeant
<1>7. ~ EndsIn(s.param, Closing) /\ ~ Pending(t, n)
  <2>1. ~ Pending(t, n) \/ s.param = <<>>
    BY <1>2, DifferentPieces DEF Pending
  <2>2. ~ Pending(t, n)
    <3>1. t[n] \notin Closing
      BY <1>2, DifferentPieces
    <3> QED
      BY <3>1 DEF Pending
  <2> QED
    BY <2>2 DEF SpaceSoFar, ClosingLast
<1>8. ClosingLast(t, s, n + 1)
  BY <1>7 DEF ClosingLast
<1> QED
  BY <1>2, <1>4, <1>5, <1>6, <1>7, <1>8 DEF SpaceSoFar

\* The blanks at a keyword, and why it was a keyword.
LEMMA SpaceAtKeyword ==
  ASSUME NEW t \in Texts, NEW n \in Nat, n < Len(t), NEW s \in ScanStates, Place(t, n, s), SpaceSoFar(t, s, n),
         NEW r, NEW k \in 1 .. 4, KeywordCuts(s, t[n + 1], r, k)
  PROVE  /\ SpaceSoFar(t, r, n + 1)
         /\ k # 4 => Pending(t, n)
<1> DEFINE c == t[n + 1]
<1>1. c \in Words /\ n + 1 > 0
  BY DEF Texts
<1>2. /\ s.q_st = FALSE /\ r.q_st = FALSE /\ r.param = <<>> /\ r.char_count # 0
      /\ r.space_encountered = (c = Blank)
      /\ s.param # <<>> /\ c = (IF k = 4 THEN "fi" ELSE Blank)
      /\ Last(s.param) = (IF k = 4 THEN Blank ELSE Found[k])
  <2>1. KeywordCuts(s, c, r, k)
    OBVIOUS
  <2> HIDE DEF c
  <2>2. /\ s.q_st = FALSE /\ r.q_st = FALSE /\ r.param = <<>> /\ r.char_count # 0
        /\ r.space_encountered = (c = Blank) /\ ~ (c = Blank /\ s.space_encountered)
        /\ s.param # <<>> /\ c = (IF k = 4 THEN "fi" ELSE Blank)
        /\ Last(s.param) = (IF k = 4 THEN Blank ELSE Found[k])
    BY <1>1, <2>1, CutsAre, Zenon
  <2> QED
    BY <2>2, Zenon
<1>3. ASSUME k # 4 PROVE Pending(t, n)
  <2>1. EndsIn(s.param, Closing)
    BY <1>2, <1>3, FoundIs DEF EndsIn
  <2> QED
    BY <2>1 DEF SpaceSoFar, ClosingLast
<1>4. c = Blank => k # 4
  BY <1>2, DifferentPieces
<1>5. ASSUME c = Blank PROVE Previous(t, n + 1) \in Needs
  <2>1. n > 0 /\ t[n] \in Closing /\ t[n] # Blank
    BY <1>3, <1>4, <1>5, DifferentPieces DEF Pending
  <2>2. Previous(t, n + 1) = t[n]
    BY <2>1 DEF Place
  <2> QED
    BY <2>1, <2>2, DifferentPieces
<1>6. BlankKept(t, r, n + 1)
  BY <1>2, <1>5 DEF BlankKept
<1>7. SpaceMeant(t, r, n + 1)
  BY <1>1, <1>2 DEF SpaceMeant
<1>8. CountMeant(t, r, n + 1) /\ ClosingLast(t, r, n + 1)
  BY <1>2 DEF CountMeant, ClosingLast, EndsIn
<1> QED
  BY <1>3, <1>6, <1>7, <1>8 DEF SpaceSoFar

\* What the scan remembers of blanks stays true.
LEMMA SpaceStep ==
  ASSUME NEW t \in Texts, NEW n \in Nat, n < Len(t), NEW s \in ScanStates, Place(t, n, s), SpaceSoFar(t, s, n),
         NEW r, Scanned(s, t[n + 1], r)
  PROVE  SpaceSoFar(t, r, n + 1)
<1>1. BlankDropped(s, t[n + 1], r) => r = s
  BY DEF BlankDropped
<1> QED
  BY <1>1, SpaceKept, SpaceAtOperator, SpaceDropped, SpaceAtKeyword DEF Scanned

\* Cleaned, the open token is the rest of the text.
LEMMA FollowsClean ==
  ASSUME NEW w, NEW r \in Texts, NEW toks, NEW p \in Texts, Trails(w, r, toks, p)
  PROVE  Shows(toks, w) /\ cleanCmd(p) = cleanCmd(r)
BY CleanDropsFirst DEF Trails

\* A piece more on both sides.
LEMMA FollowsMore ==
  ASSUME NEW w, NEW r \in Texts, NEW toks, NEW p \in Texts, Trails(w, r, toks, p), NEW c \in Words
  PROVE  Trails(w, Append(r, c), toks, Append(p, c))
<1>1. p \in Seq(Words) /\ <<Blank>> \in Seq(Words)
  BY DEF Texts, Words
<1>2. <<Blank>> \o Append(p, c) = Append(<<Blank>> \o p, c)
  BY <1>1, JoinedStep
<1> QED
  BY <1>2, Zenon DEF Trails

\* A token is cut at an operator or a keyword.
LEMMA CutFollows ==
  ASSUME NEW w \in Seq(Texts), NEW r \in Texts, NEW toks \in Seq(Texts), NEW p \in Texts, Trails(w, r, toks, p),
         NEW g \in Texts, cleanCmd(g) = cleanCmd(p), NEW c \in Words, c # Blank, NEW n \in Int, n > 0 <=> g # <<>>
  PROVE  LET v == w \o <<cleanCmd(r), <<c>>>>
         IN  /\ Shows(Append(Append(toks, g), <<c>>), v)
             /\ Shows(Append(IF n > 0 THEN Append(toks, g) ELSE toks, <<c>>), v)
<1>1. Shows(toks, w) /\ cleanCmd(g) = cleanCmd(r)
  BY FollowsClean
<1> DEFINE v == w \o <<cleanCmd(r), <<c>>>>
<1>2. /\ Shows(Append(Append(toks, g), <<c>>), v)
      /\ g = <<>> => Shows(Append(toks, <<c>>), v)
  BY <1>1, ShowsCut
<1> HIDE DEF v
<1>3. CASE n > 0
  BY <1>2, <1>3 DEF v
<1>4. CASE ~ (n > 0)
  BY <1>2, <1>4 DEF v
<1> QED
  BY <1>3, <1>4

\* What is written at the next place.
LEMMA NextWritten ==
  ASSUME NEW t \in Texts, NEW n \in Nat, n < Len(t), NEW s \in ScanStates, Place(t, n, s)
  PROVE  LET c == t[n + 1]
             cut == s.q_st = FALSE /\ c \in Operators \cup Keywords
             stays == c # Blank \/ s.q_st = TRUE \/ n = 0 \/ t[n] # Blank
         IN  /\ WrittenAt(t, n) \in Seq(Texts) /\ RestAt(t, n) \in Texts
             /\ WrittenAt(t, n + 1) = IF cut THEN WrittenAt(t, n) \o <<cleanCmd(RestAt(t, n)), <<c>>>>
                                      ELSE WrittenAt(t, n)
             /\ RestAt(t, n + 1) = IF cut THEN <<>> ELSE IF stays THEN Append(RestAt(t, n), c) ELSE RestAt(t, n)
<1> DEFINE c == t[n + 1]
           cut == s.q_st = FALSE /\ c \in Operators \cup Keywords
           stays == c # Blank \/ s.q_st = TRUE \/ n = 0 \/ t[n] # Blank
<1>1. (n + 1 \in Separators(t) <=> cut) /\ (n + 1 \in Stays(t) <=> stays)
  BY DEF Place
<1>2. /\ WrittenAt(t, n + 1) = IF n + 1 \in Separators(t) THEN WrittenAt(t, n) \o <<cleanCmd(RestAt(t, n)), <<c>>>>
                               ELSE WrittenAt(t, n)
      /\ RestAt(t, n + 1) = IF n + 1 \in Separators(t) THEN <<>> ELSE IF n + 1 \in Stays(t) THEN Append(RestAt(t, n), c)
                                                         ELSE RestAt(t, n)
  BY WrittenAtStep
<1>3. n <= Len(t)
  BY DEF Texts
<1>4. WrittenAt(t, n) \in Seq(Texts) /\ RestAt(t, n) \in Texts
  BY <1>3, WrittenAtTyped
<1> HIDE DEF cut, stays, c
<1>5. /\ WrittenAt(t, n + 1) = IF cut THEN WrittenAt(t, n) \o <<cleanCmd(RestAt(t, n)), <<c>>>> ELSE WrittenAt(t, n)
      /\ RestAt(t, n + 1) = IF cut THEN <<>> ELSE IF stays THEN Append(RestAt(t, n), c) ELSE RestAt(t, n)
  BY <1>1, <1>2
<1> QED
  BY <1>4, <1>5 DEF cut, stays, c

\* An operator is cut off where one is written.
LEMMA WrittenAtOperator ==
  ASSUME NEW t \in Texts, NEW n \in Nat, n < Len(t), NEW s \in ScanStates, Place(t, n, s), WrittenSoFar(t, s, n),
         NEW r, OperatorCuts(s, t[n + 1], r)
  PROVE  WrittenSoFar(t, r, n + 1)
<1> DEFINE c == t[n + 1]
           w == WrittenAt(t, n)
           u == RestAt(t, n)
<1>1. /\ c \in Words /\ c \in Operators /\ s.q_st = FALSE /\ c # Blank /\ r.param = <<>>
      /\ r.toks = Append(Append(s.toks, s.param), <<c>>)
  BY DifferentPieces DEF OperatorCuts, Texts
<1>2. s.param \in Texts /\ s.toks \in Seq(Texts)
  BY DEF ScanStates
<1>3. /\ w \in Seq(Texts) /\ u \in Texts
      /\ WrittenAt(t, n + 1) = w \o <<cleanCmd(u), <<c>>>> /\ RestAt(t, n + 1) = <<>>
  BY <1>1, NextWritten
<1>4. Trails(w, u, s.toks, s.param)
  BY DEF WrittenSoFar
<1> HIDE DEF c, w, u
<1>5. Shows(r.toks, w \o <<cleanCmd(u), <<c>>>>)
  <2> DEFINE m == IF s.param = <<>> THEN 0 ELSE 1
  <2>1. m \in Int /\ (m > 0 <=> s.param # <<>>)
    OBVIOUS
  <2> HIDE DEF m
  <2>2. Shows(Append(Append(s.toks, s.param), <<c>>), w \o <<cleanCmd(u), <<c>>>>)
    BY <1>1, <1>2, <1>3, <1>4, <2>1, CutFollows
  <2> QED
    BY <1>1, <2>2
<1>6. <<>> # <<Blank>>
  OBVIOUS
<1> QED
  BY <1>1, <1>3, <1>5, <1>6 DEF WrittenSoFar, Trails

\* A dropped blank was not written.
LEMMA WrittenDropped ==
  ASSUME NEW t \in Texts, NEW n \in Nat, n < Len(t), NEW s \in ScanStates, Place(t, n, s), WrittenSoFar(t, s, n),
         BlankDropped(s, t[n + 1], s), n > 0, t[n] = Blank \/ (s.param = <<>> /\ t[n] \in Operators)
  PROVE  WrittenSoFar(t, s, n + 1)
<1>1. t[n + 1] = Blank /\ s.q_st = FALSE /\ Blank \notin Operators \cup Keywords /\ n + 1 > 0
  BY DifferentPieces DEF BlankDropped
<1>2. WrittenAt(t, n + 1) = WrittenAt(t, n)
  BY <1>1, NextWritten
<1>3. /\ Trails(WrittenAt(t, n), RestAt(t, n), s.toks, s.param)
      /\ RestAt(t, n) = <<Blank>> /\ s.param = <<>> => t[n] = Blank
  BY DEF WrittenSoFar
<1>4. CASE t[n] = Blank
  <2>1. RestAt(t, n + 1) = RestAt(t, n)
    <3>1. ~ (t[n + 1] # Blank \/ s.q_st = TRUE \/ n = 0 \/ t[n] # Blank)
      BY <1>1, <1>4
    <3>2. ~ (s.q_st = FALSE /\ t[n + 1] \in Operators \cup Keywords)
      BY <1>1
    <3> QED
      BY <3>1, <3>2, NextWritten
  <2> QED
    BY <1>1, <1>2, <1>3, <2>1 DEF WrittenSoFar
<1>5. CASE s.param = <<>> /\ t[n] \in Operators
  <2>1. t[n] # Blank
    BY <1>5, DifferentPieces
  <2>2. RestAt(t, n + 1) = Append(RestAt(t, n), Blank)
    BY <1>1, <2>1, NextWritten
  <2>3. RestAt(t, n) = <<>>
    <3>1. RestAt(t, n) = <<>> \/ RestAt(t, n) = <<Blank>> \o <<>>
      BY <1>3, <1>5 DEF Trails
    <3>2. <<Blank>> \o <<>> = <<Blank>>
      OBVIOUS
    <3> QED
      BY <1>3, <1>5, <2>1, <3>1, <3>2
  <2>4. RestAt(t, n + 1) = <<Blank>> \o s.param
    <3>1. Append(<<>>, Blank) = <<Blank>> \o <<>>
      OBVIOUS
    <3> QED
      BY <1>5, <2>2, <2>3, <3>1
  <2> QED
    BY <1>1, <1>2, <1>3, <2>4 DEF WrittenSoFar, Trails
<1> QED
  BY <1>4, <1>5

\* fi is cut off where one is written.
LEMMA WrittenAtFi ==
  ASSUME NEW t \in Texts, NEW n \in Nat, n < Len(t), NEW s \in ScanStates, Place(t, n, s), WrittenSoFar(t, s, n),
         NEW r, KeywordCuts(s, t[n + 1], r, 4)
  PROVE  WrittenSoFar(t, r, n + 1)
<1> DEFINE c == t[n + 1]
           w == WrittenAt(t, n)
           u == RestAt(t, n)
           q == Append(s.param, c)
           m == Len(q) - Len(Pattern[4])
           g == SubSeq(q, 1, m)
<1>1. c \in Words /\ s.param \in Texts /\ s.toks \in Seq(Texts) /\ 4 \in 1 .. 4
  BY DEF Texts, ScanStates
<1>2. /\ s.q_st = FALSE /\ r.param = <<>> /\ EndsWith(q, Pattern[4])
      /\ r.toks = Append(IF m > 0 THEN Append(s.toks, g) ELSE s.toks, <<Found[4]>>)
  BY DEF KeywordCuts
<1>3. /\ Front(s.param) \in Texts /\ s.param = Append(Front(s.param), Last(s.param))
      /\ c = "fi" /\ Last(s.param) = Blank
      /\ g \in Texts /\ (m > 0 <=> g # <<>>) /\ cleanCmd(g) = cleanCmd(Front(s.param))
  <2> HIDE DEF c
  <2> QED BY <1>1, <1>2, CutParts
<1>4. cleanCmd(g) = cleanCmd(s.param)
  BY <1>3, CleanDropsLast
<1>5. c \in Keywords /\ c # Blank /\ Found[4] = c
  BY <1>1, <1>3, DifferentPieces, FoundIs
<1>6. /\ w \in Seq(Texts) /\ u \in Texts
      /\ WrittenAt(t, n + 1) = w \o <<cleanCmd(u), <<c>>>> /\ RestAt(t, n + 1) = <<>>
  BY <1>2, <1>5, NextWritten
<1>7. Trails(w, u, s.toks, s.param)
  BY DEF WrittenSoFar
<1>8. m \in Int
  <2>1. Len(q) \in Nat /\ Len(Pattern[4]) \in Nat
    BY <1>1, PatternLengths DEF Texts
  <2> QED
    BY <2>1
<1> HIDE DEF c, w, u, g, m, q
<1>9. Shows(r.toks, w \o <<cleanCmd(u), <<c>>>>)
  <2>1. Shows(Append(IF m > 0 THEN Append(s.toks, g) ELSE s.toks, <<c>>), w \o <<cleanCmd(u), <<c>>>>)
    BY <1>1, <1>3, <1>4, <1>5, <1>6, <1>7, <1>8, CutFollows
  <2> QED
    BY <1>2, <1>5, <2>1
<1>10. <<>> # <<Blank>>
  OBVIOUS
<1> QED
  BY <1>2, <1>6, <1>9, <1>10 DEF WrittenSoFar, Trails

\* So are if, then and else.
LEMMA WrittenAtClosing ==
  ASSUME NEW t \in Texts, Plain(t), NEW n \in Nat, n < Len(t), NEW s \in ScanStates, Place(t, n, s),
         Pending(t, n), CutIsNext(t, s, n), t[n + 1] = Blank,
         NEW r, NEW k \in 1 .. 3, KeywordCuts(s, Blank, r, k), Found[k] = t[n]
  PROVE  WrittenSoFar(t, r, n + 1)
<1> DEFINE l == n - 1
           w == WrittenAt(t, l)
           u == RestAt(t, l)
           q == Append(s.param, Blank)
           m == Len(q) - Len(Pattern[k])
           g == SubSeq(q, 1, m)
           c == t[n]
<1>1. /\ Blank \in Words /\ s.param \in Texts /\ s.toks \in Seq(Texts) /\ k \in 1 .. 4
      /\ n > 0 /\ c \in Closing /\ c \in Words /\ l \in Nat /\ l < Len(t) /\ l <= Len(t) /\ l + 1 = n
  BY DEF Texts, ScanStates, Pending, Words
<1>2. /\ s.q_st = FALSE /\ r.param = <<>> /\ EndsWith(q, Pattern[k])
      /\ r.toks = Append(IF m > 0 THEN Append(s.toks, g) ELSE s.toks, <<Found[k]>>)
  BY DEF KeywordCuts
<1>3. /\ Front(s.param) \in Texts
      /\ g \in Texts /\ (m > 0 <=> g # <<>>) /\ cleanCmd(g) = cleanCmd(Front(s.param))
  <2> DEFINE j == k
             b == Blank
             p == s.param
  <2>1. j \in 1 .. 4 /\ b \in Words /\ p \in Texts /\ EndsWith(Append(p, b), Pattern[j])
    BY <1>1, <1>2
  <2> HIDE DEF j, b, p
  <2>2. LET y == Append(p, b)
            i == Len(y) - Len(Pattern[j])
            x == SubSeq(y, 1, i)
        IN  Front(p) \in Texts /\ x \in Texts /\ (i > 0 <=> x # <<>>) /\ cleanCmd(x) = cleanCmd(Front(p))
    BY <2>1, CutParts
  <2> QED
    BY <2>2 DEF j, b, p
<1>4. c \in Keywords /\ c # Blank
  BY <1>1, DifferentPieces
<1>5. Trails(w, u, s.toks, Front(s.param))
  BY DEF CutIsNext
<1>6. w \in Seq(Texts) /\ u \in Texts
  <2> HIDE DEF l
  <2> QED BY <1>1, WrittenAtTyped
<1>7. WrittenAt(t, n) = w \o <<cleanCmd(u), <<c>>>> /\ RestAt(t, n) = <<>>
  <2>1. n \in Separators(t)
    <3>1. n \in DOMAIN t
      BY <1>1 DEF Texts
    <3>2. n \notin Quoted(t)
      BY <1>4 DEF Plain, Balanced
    <3> QED
      BY <1>4, <3>1, <3>2 DEF Separators
  <2> HIDE DEF l
  <2>2. l + 1 \in Separators(t) /\ t[l + 1] = c
    BY <1>1, <2>1
  <2>3. WrittenAt(t, l + 1) = w \o <<cleanCmd(u), <<c>>>> /\ RestAt(t, l + 1) = <<>>
    <3> HIDE DEF c
    <3> QED BY <1>1, <2>2, WrittenAtStep
  <2> QED
    BY <1>1, <2>3
<1>8. WrittenAt(t, n + 1) = WrittenAt(t, n) /\ RestAt(t, n + 1) = <<Blank>>
  <2>1. ~ (s.q_st = FALSE /\ t[n + 1] \in Operators \cup Keywords)
    BY DifferentPieces
  <2>2. t[n] # Blank
    BY <1>4
  <2>3. WrittenAt(t, n + 1) = WrittenAt(t, n)
    BY <2>1, NextWritten
  <2>4. RestAt(t, n + 1) = Append(RestAt(t, n), t[n + 1])
    BY <2>1, <2>2, NextWritten
  <2>5. Append(<<>>, Blank) = <<Blank>>
    OBVIOUS
  <2> QED
    BY <1>7, <2>3, <2>4, <2>5
<1>9. m \in Int
  <2>1. Len(q) \in Nat /\ Len(Pattern[k]) \in Nat
    BY <1>1, PatternLengths DEF Texts
  <2> QED
    BY <2>1
<1>10. Found[k] = c
  OBVIOUS
<1> HIDE DEF c, w, u, g, m, q
<1>11. Shows(r.toks, w \o <<cleanCmd(u), <<c>>>>)
  <2>1. Shows(Append(IF m > 0 THEN Append(s.toks, g) ELSE s.toks, <<c>>), w \o <<cleanCmd(u), <<c>>>>)
    BY <1>1, <1>3, <1>4, <1>5, <1>6, <1>9, CutFollows
  <2> QED
    BY <1>2, <1>10, <2>1
<1>12. <<Blank>> = <<Blank>> \o <<>> /\ n + 1 > 0
  OBVIOUS
<1> QED
  BY <1>2, <1>7, <1>8, <1>11, <1>12 DEF WrittenSoFar, Trails

\* A piece that is kept: an if that begins, a then or an else that is waited for, or no keyword at all.
LEMMA WrittenKept ==
  ASSUME NEW t \in Texts, NEW n \in Nat, n < Len(t), NEW s \in ScanStates, Place(t, n, s), SpaceSoFar(t, s, n),
         WrittenSoFar(t, s, n), ~ Pending(t, n),
         NEW r, QuoteKept(s, t[n + 1], r) \/ QuotedKept(s, t[n + 1], r) \/ PieceKept(s, t[n + 1], r)
  PROVE  /\ Pending(t, n + 1) => CutIsNext(t, r, n + 1) /\ (t[n + 1] # "if" => EndsIn(Front(r.param), {Blank}))
         /\ ~ Pending(t, n + 1) => WrittenSoFar(t, r, n + 1)
<1> DEFINE c == t[n + 1]
           w == WrittenAt(t, n)
           u == RestAt(t, n)
<1>1. c \in Words /\ n + 1 > 0 /\ s.q_st \in BOOLEAN /\ s.param \in Texts /\ s.toks \in Seq(Texts) /\ (n + 1) - 1 = n
  BY DEF Texts, ScanStates
<1>2. Keeps(s, c, r)
  BY DEF QuoteKept, QuotedKept, PieceKept
<1>3. r.param # <<>> /\ Last(r.param) = c /\ Front(r.param) = s.param /\ r.toks = s.toks /\ r.param = Append(s.param, c)
  BY <1>1, <1>2, KeptLast
<1>4. Trails(w, u, s.toks, s.param) /\ u \in Texts /\ w \in Seq(Texts)
  BY NextWritten DEF WrittenSoFar
<1>5. s.q_st = TRUE \/ c = Quote \/ PieceKept(s, c, r)
  BY DEF QuoteKept, QuotedKept
\* A blank before this place is in the token that is being filled, if something needs it.
<1>6. ASSUME n > 0, t[n] = Blank, s.q_st = FALSE
      PROVE  s.space_encountered = TRUE /\ (Previous(t, n + 1) \notin Needs => EndsIn(s.param, {Blank}))
  <2>1. n \notin Quoted(t) /\ Previous(t, n + 1) = Previous(t, n)
    BY <1>6 DEF Place
  <2>2. s.space_encountered = TRUE /\ (EndsIn(s.param, {Blank}) \/ (s.param = <<>> /\ Previous(t, n) \in Needs))
    BY <1>6, <2>1 DEF SpaceSoFar, BlankKept
  <2> QED
    BY <2>1, <2>2
<1>7. c \in {"then", "else", "fi"} => EndsIn(s.param, {Blank})
  <2> SUFFICES ASSUME c \in {"then", "else", "fi"} PROVE EndsIn(s.param, {Blank})
    OBVIOUS
  <2>1. c \in Keywords
    BY DEF Keywords
  <2>2. n > 0 /\ t[n] = Blank /\ Previous(t, n + 1) \notin Needs /\ s.q_st = FALSE
    BY <2>1 DEF Place
  <2> QED
    BY <1>6, <2>2
<1>8. CASE c \in Closing
  <2>1. Pending(t, n + 1)
    BY <1>1, <1>8 DEF Pending
  <2>2. EndsIn(r.param, {t[n + 1]})
    BY <1>3 DEF EndsIn
  <2>3. CutIsNext(t, r, n + 1)
    <3>1. Trails(WrittenAt(t, n), RestAt(t, n), r.toks, Front(r.param))
      BY <1>3, <1>4
    <3> QED
      BY <1>1, <2>2, <3>1 DEF CutIsNext
  <2>4. c # "if" => EndsIn(Front(r.param), {Blank})
    BY <1>3, <1>7, <1>8, DifferentPieces
  <2> QED
    BY <2>1, <2>3, <2>4
<1>9. CASE c \notin Closing
  <2>1. ~ Pending(t, n + 1)
    BY <1>9 DEF Pending
  <2>2. ~ (s.q_st = FALSE /\ c \in Operators \cup Keywords)
    <3> SUFFICES ASSUME s.q_st = FALSE, c \in Operators \cup Keywords PROVE FALSE
      OBVIOUS
    <3>1. c # Quote
      BY DifferentPieces
    <3>2. PieceKept(s, c, r)
      BY <1>5, <3>1
    <3>3. CASE c \in Operators
      <4>1. s.char_count = 0
        BY <3>2, <3>3 DEF PieceKept
      <4>2. Previous(t, n + 1) \in Operators \cup {Blank}
        BY <4>1 DEF SpaceSoFar, CountMeant
      <4>3. Previous(t, n + 1) \notin Operators \cup {Blank}
        BY <3>3 DEF Place
      <4> QED
        BY <4>2, <4>3
    <3>4. CASE c \in Keywords
      <4>1. c = "fi"
        BY <1>9, <3>4, DifferentPieces
      <4>2. EndsIn(s.param, {Blank})
        BY <1>7, <4>1
      <4>3. EndsWith(Append(s.param, "fi"), Pattern[4])
        BY <1>1, <4>2, KeywordEnds DEF EndsIn
      <4>4. ~ EndsWith(r.param, Pattern[4])
        <5>1. 4 \in 1 .. 4
          OBVIOUS
        <5> QED
          BY <3>2, <5>1 DEF PieceKept
      <4> QED
        BY <1>3, <4>1, <4>3, <4>4
    <3> QED
      BY <3>3, <3>4
  <2>3. c # Blank \/ s.q_st = TRUE \/ n = 0 \/ t[n] # Blank
    <3>1. ASSUME c = Blank, s.q_st = FALSE, n > 0, t[n] = Blank PROVE FALSE
      <4>1. s.space_encountered = TRUE
        BY <1>6, <3>1
      <4>2. PieceKept(s, c, r)
        BY <1>5, <3>1, DifferentPieces
      <4> QED
        BY <3>1, <4>1, <4>2 DEF PieceKept
    <3>2. n = 0 \/ n > 0
      OBVIOUS
    <3> HIDE DEF c
    <3> QED
      BY <1>1, <3>1, <3>2
  <2>4. WrittenAt(t, n + 1) = w /\ RestAt(t, n + 1) = Append(u, c)
    BY <2>2, <2>3, NextWritten
  <2>5. Trails(w, Append(u, c), r.toks, r.param)
    <3> HIDE DEF c, w, u
    <3>1. Trails(w, Append(u, c), s.toks, Append(s.param, c))
      BY <1>1, <1>4, FollowsMore
    <3> QED
      BY <1>3, <3>1
  <2>6. WrittenSoFar(t, r, n + 1)
    BY <1>3, <2>4, <2>5 DEF WrittenSoFar
  <2> QED
    BY <2>1, <2>6
<1> QED
  BY <1>8, <1>9

\* A piece more of a plain text keeps the invariant behind PlainIsAsWritten.
LEMMA PlainMore ==
  ASSUME NEW t \in Texts, Plain(t), NEW n \in Nat, n < Len(t), NEW s \in ScanStates,
         ToldSoFar(t, s, n), PlainSoFar(t, s, n)
  PROVE  PlainSoFar(t, Scan(s, t[n + 1]), n + 1)
<1> DEFINE r == Scan(s, t[n + 1])
<1>1. Place(t, n, s)
  BY NextPlace
<1>2. SpaceSoFar(t, s, n)
  BY DEF PlainSoFar, SpaceSoFar
<1>3. Scanned(s, t[n + 1], r)
  <2> DEFINE c == t[n + 1]
  <2>1. c \in Words /\ NoHit(s.param) /\ (n + 1 \in Quoted(t) => c \notin Keywords)
    BY DEF Texts, ToldSoFar, Plain, Balanced
  <2>2. s.q_st = TRUE => c \notin Keywords /\ s.param # <<>> /\ Last(s.param) \notin Keywords
    <3>1. c \in Keywords => s.q_st = FALSE
      BY <1>1 DEF Place
    <3> QED
      BY <3>1 DEF ToldSoFar
  <2> HIDE DEF c
  <2>3. LET x == Scan(s, c)
        IN  \/ QuoteKept(s, c, x) \/ QuotedKept(s, c, x) \/ OperatorCuts(s, c, x)
            \/ BlankDropped(s, c, x) \/ PieceKept(s, c, x)
            \/ \E k \in 1 .. 4 : KeywordCuts(s, c, x, k)
    BY <2>1, <2>2, ScanSays
  <2> QED
    BY <2>3 DEF Scanned, c
<1> SUFFICES PlainSoFar(t, r, n + 1)
  OBVIOUS
<1> HIDE DEF r
<1>4. SpaceSoFar(t, r, n + 1)
  BY <1>1, <1>2, <1>3, SpaceStep
<1>5. CASE Pending(t, n)
  <2>1. t[n + 1] = Blank /\ \E k \in 1 .. 3 : KeywordCuts(s, Blank, r, k) /\ Found[k] = t[n]
    BY <1>1, <1>3, <1>5, PendingCuts
  <2>2. CutIsNext(t, s, n)
    BY <1>5 DEF PlainSoFar
  <2>3. WrittenSoFar(t, r, n + 1)
    BY <1>1, <1>5, <2>1, <2>2, WrittenAtClosing
  <2>4. ~ Pending(t, n + 1)
    BY <2>1, DifferentPieces DEF Pending
  <2> QED
    BY <1>4, <2>3, <2>4 DEF PlainSoFar, SpaceSoFar
<1>6. CASE ~ Pending(t, n)
  <2>1. WrittenSoFar(t, s, n)
    BY <1>6 DEF PlainSoFar
  <2>2. CASE QuoteKept(s, t[n + 1], r) \/ QuotedKept(s, t[n + 1], r) \/ PieceKept(s, t[n + 1], r)
    <3>1. /\ Pending(t, n + 1) => CutIsNext(t, r, n + 1) /\ (t[n + 1] # "if" => EndsIn(Front(r.param), {Blank}))
          /\ ~ Pending(t, n + 1) => WrittenSoFar(t, r, n + 1)
      BY <1>1, <1>2, <1>6, <2>1, <2>2, WrittenKept
    <3> QED
      BY <1>4, <3>1 DEF PlainSoFar, SpaceSoFar
  <2>3. CASE OperatorCuts(s, t[n + 1], r)
    <3>1. WrittenSoFar(t, r, n + 1)
      BY <1>1, <2>1, <2>3, WrittenAtOperator
    <3>2. ~ Pending(t, n + 1)
      BY <2>3, DifferentPieces DEF Pending, OperatorCuts
    <3> QED
      BY <1>4, <3>1, <3>2 DEF PlainSoFar, SpaceSoFar
  <2>4. CASE BlankDropped(s, t[n + 1], r)
    <3>1. r = s /\ BlankDropped(s, t[n + 1], s) /\ t[n + 1] = Blank
      BY <2>4 DEF BlankDropped
    <3>2. n > 0 /\ (t[n] = Blank \/ (s.param = <<>> /\ t[n] \in Operators))
      BY <1>1, <1>2, <3>1, SpaceDropped
    <3>3. WrittenSoFar(t, r, n + 1)
      BY <1>1, <2>1, <3>1, <3>2, WrittenDropped
    <3>4. ~ Pending(t, n + 1)
      BY <3>1, DifferentPieces DEF Pending
    <3> QED
      BY <1>4, <3>3, <3>4 DEF PlainSoFar, SpaceSoFar
  <2>5. CASE \E k \in 1 .. 4 : KeywordCuts(s, t[n + 1], r, k)
    <3>1. PICK k \in 1 .. 4 : KeywordCuts(s, t[n + 1], r, k)
      BY <2>5
    <3>2. k = 4
      BY <1>1, <1>2, <1>6, <3>1, SpaceAtKeyword
    <3>3. KeywordCuts(s, t[n + 1], r, 4)
      BY <3>1, <3>2
    <3>4. WrittenSoFar(t, r, n + 1)
      BY <1>1, <2>1, <3>3, WrittenAtFi
    <3>5. ~ Pending(t, n + 1)
      <4> DEFINE c == t[n + 1]
      <4>1. c \in Words /\ KeywordCuts(s, c, r, 4) /\ 4 \in 1 .. 4
        BY <3>3 DEF Texts
      <4> HIDE DEF c
      <4>2. c = "fi"
        BY <4>1, CutsAre
      <4> QED
        BY <4>2, DifferentPieces DEF Pending, c
    <3> QED
      BY <1>4, <3>4, <3>5 DEF PlainSoFar, SpaceSoFar
  <2> QED
    BY <1>3, <2>2, <2>3, <2>4, <2>5 DEF Scanned
<1> QED
  BY <1>5, <1>6

\* Nothing is lost of nothing.
LEMMA ToldStart ==
  ASSUME NEW t \in Texts
  PROVE  ToldSoFar(t, Start, 0)
<1>1. Start.q_st = FALSE /\ Start.param = <<>> /\ Start.toks = <<>>
  BY DEF Start
<1>2. Cardinality(QuotesUpTo(t, 0)) = 0
  <2>1. QuotesUpTo(t, 0) = {}
    BY DEF QuotesUpTo, Quotes, Texts
  <2> QED
    BY <2>1, FS_EmptySet
<1>3. 0 % 2 # 1
  OBVIOUS
<1>4. Told(<<>>) = <<>> /\ NoBlank(<<>>) = <<>> /\ SubSeq(t, 1, 0) = <<>> /\ <<>> \o <<>> = <<>>
  <2>1. <<>> \in Seq(Texts) /\ <<>> \in Texts /\ SubSeq(t, 1, 0) = <<>> /\ <<>> \o <<>> = <<>>
    BY DEF Texts
  <2> QED
    BY <2>1, ToldStep, PickedNone DEF NoBlank
<1>5. Told(Start.toks) \o NoBlank(Start.param) = NoBlank(SubSeq(t, 1, 0))
  BY <1>1, <1>4
<1> QED
  BY <1>1, <1>2, <1>3, <1>5, NothingHits DEF ToldSoFar

\* Nothing was written at the start.
LEMMA PlainStart ==
  ASSUME NEW t \in Texts
  PROVE  PlainSoFar(t, Start, 0)
<1>1. Start.q_st = FALSE /\ Start.param = <<>> /\ Start.toks = <<>> /\ Start.space_encountered = FALSE
  BY DEF Start
<1>2. ~ (0 > 0)
  OBVIOUS
<1>3. BlankKept(t, Start, 0) /\ SpaceMeant(t, Start, 0) /\ ~ Pending(t, 0) /\ ClosingLast(t, Start, 0)
  BY <1>1, <1>2 DEF BlankKept, SpaceMeant, Pending, ClosingLast, EndsIn
<1>4. Previous(t, 0 + 1) = Blank
  <2>1. {j \in 1 .. (0 + 1) - 1 : t[j] # Blank} = {}
    OBVIOUS
  <2> QED
    BY <2>1 DEF Previous
<1>5. CountMeant(t, Start, 0)
  BY <1>4 DEF CountMeant
<1>6. WrittenAt(t, 0) = <<>> /\ RestAt(t, 0) = <<>>
  <2>1. 0 \in Nat /\ 0 <= Len(t)
    BY DEF Texts
  <2> QED
    BY <2>1, WrittenAtTyped
<1>7. Shows(<<>>, <<>>)
  <2>1. Cleaned(<<>>) = <<>>
    BY DEF Cleaned
  <2> QED
    BY <2>1 DEF Shows
<1>8. <<>> # <<Blank>>
  OBVIOUS
<1>9. WrittenSoFar(t, Start, 0)
  BY <1>1, <1>6, <1>7, <1>8 DEF WrittenSoFar, Trails
<1> QED
  BY <1>3, <1>5, <1>9 DEF PlainSoFar

(* A text that is plain is read as it is written.                          *)
LEMMA PlainIsAsWritten ==
  ASSUME NEW t \in Texts, Plain(t)
  PROVE  NonEmpty(scanned(t)) = AsWritten(t)
<1> DEFINE n == Len(t)
<1>1. n \in Nat /\ DOMAIN t = 1 .. n /\ n <= Len(t)
  BY DEF Texts
<1>2. PICK f \in [0 .. n -> ScanStates] : ScansUpTo(f, t, n) /\ scanned(t) = ScanEnd(f[n])
  BY ScannedUnfolds
<1> DEFINE S == {m \in Nat : m <= n => ToldSoFar(t, f[m], m) /\ PlainSoFar(t, f[m], m)}
<1>3. 0 \in S
  <2>1. f[0] = Start
    BY <1>2 DEF ScansUpTo
  <2> QED
    BY <2>1, ToldStart, PlainStart
<1>4. ASSUME NEW m \in Nat, m \in S PROVE m + 1 \in S
  <2> SUFFICES ASSUME m + 1 <= n PROVE ToldSoFar(t, f[m + 1], m + 1) /\ PlainSoFar(t, f[m + 1], m + 1)
    OBVIOUS
  <2>1. /\ m + 1 \in 1 .. n /\ (m + 1) - 1 = m /\ m < n /\ m \in 0 .. n
        /\ ToldSoFar(t, f[m], m) /\ PlainSoFar(t, f[m], m)
    BY <1>1, <1>4
  <2>2. f[m + 1] = Scan(f[m], t[m + 1]) /\ f[m] \in ScanStates
    BY <1>2, <2>1 DEF ScansUpTo
  <2>3. Balanced(t)
    BY DEF Plain
  <2> QED
    BY <2>1, <2>2, <2>3, ToldMore, PlainMore
<1>5. ToldSoFar(t, f[n], n) /\ PlainSoFar(t, f[n], n)
  <2>1. \A m \in Nat : m \in S
    <3> HIDE DEF S
    <3> QED BY <1>3, <1>4, Induction
  <2>2. n \in S
    BY <1>1, <2>1
  <2> QED
    BY <1>1, <2>2
<1> DEFINE s == f[n]
           toks == IF s.char_count # 0 /\ ~ s.q_st THEN Append(s.toks, s.param) ELSE s.toks
           w == WrittenAt(t, n)
           u == RestAt(t, n)
<1>6. s \in ScanStates /\ s.toks \in Seq(Texts) /\ s.param \in Texts /\ s.q_st \in BOOLEAN
  BY <1>1, <1>2 DEF ScanStates
<1>7. scanned(t) = Cleaned(toks)
  BY <1>2 DEF ScanEnd, Cleaned
<1>8. w \in Seq(Texts) /\ u \in Texts /\ AsWritten(t) = NonEmpty(w \o <<cleanCmd(u), <<>>>>)
  BY <1>1, WrittenAtTyped, AsWrittenUnfolds
<1>9. ~ Pending(t, n)
  <2> SUFFICES ASSUME n > 0, t[n] \in Closing PROVE FALSE
    BY DEF Pending
  <2>1. n \in DOMAIN t /\ t[n] \in Keywords
    BY <1>1, DifferentPieces
  <2>2. n \in Separators(t)
    BY <2>1 DEF Plain, Balanced, Separators
  <2>3. t[n] = "if" \/ t[n] \in {"then", "else"}
    BY DEF Closing
  <2>4. n < Len(t)
    BY <2>2, <2>3, SeparatorPlain
  <2> QED
    BY <1>1, <2>4
<1>10. Trails(w, u, s.toks, s.param)
  BY <1>5, <1>9 DEF PlainSoFar, WrittenSoFar
<1>11. s.q_st = FALSE /\ (s.char_count = 0 => s.param = <<>>)
  <2>1. QuotesUpTo(t, n) = Quotes(t)
    BY <1>1 DEF QuotesUpTo, Quotes
  <2>2. Cardinality(Quotes(t)) % 2 = 0
    BY DEF Plain, Balanced
  <2>3. (s.q_st <=> Cardinality(QuotesUpTo(t, n)) % 2 = 1) /\ (s.char_count = 0 => s.param = <<>>)
    BY <1>5 DEF ToldSoFar
  <2> HIDE DEF s
  <2> QED
    BY <1>6, <2>1, <2>2, <2>3
<1> HIDE DEF s, w, u
<1> DEFINE x == cleanCmd(u)
           v == Append(w, x)
<1>12. Shows(s.toks, w) /\ cleanCmd(s.param) = x
  BY <1>6, <1>8, <1>10, FollowsClean
<1>13. Shows(toks, v) /\ v \in Seq(Texts) /\ x \in Texts
  <2>1. x \in Texts
    BY <1>8, CleanTyped
  <2>2. /\ Shows(Append(s.toks, s.param), Append(w, cleanCmd(s.param)))
        /\ cleanCmd(s.param) = <<>> => Shows(s.toks, Append(w, cleanCmd(s.param)))
        /\ Append(w, cleanCmd(s.param)) \in Seq(Texts)
    BY <1>6, <1>8, <1>12, ShowsMore
  <2>3. s.param = <<>> => cleanCmd(s.param) = <<>>
    BY <1>6, CleanNothing
  <2> HIDE DEF x
  <2>4. CASE s.char_count # 0
    BY <1>11, <1>12, <2>1, <2>2, <2>4
  <2>5. CASE s.char_count = 0
    BY <1>11, <1>12, <2>1, <2>2, <2>3, <2>5
  <2> QED
    BY <2>4, <2>5
<1>14. w \o <<x, <<>>>> = Append(v, <<>>)
  <2> HIDE DEF x
  <2> QED BY <1>8, <1>13 DEF Texts
<1>15. NonEmpty(Append(v, <<>>)) = NonEmpty(v)
  <2>1. <<>> \in Texts
    BY DEF Texts
  <2> HIDE DEF v
  <2> QED
    BY <1>13, <2>1, NonEmptyStep
<1> HIDE DEF v, toks
<1> QED
  BY <1>7, <1>8, <1>13, <1>14, <1>15 DEF Shows, x
-----------------------------------------------------------------------------
(* Two scans of texts that differ in words: the state after a text and one *)
(* piece more, the course two states take, and where a token begins.  Used *)
(* where aliases are spelled out.                                          *)

\* What is not yet a token, and a word of it replaced by a value.
Blanks(p) == \A i \in 1 .. Len(p) : p[i] = Blank
Replaced(p, j, v) == SubSeq(p, 1, j - 1) \o v \o SubSeq(p, j + 1, Len(p))

\* Whether the next token is a file.
IsFile(toks, k) == k > 1 /\ toks[k - 1] = <<">">>
FileNext(toks) == toks # <<>> /\ cleanCmd(Last(toks)) = <<">">>
AfterFile(s) == FileNext(s.toks)

\* What ends a word, and two states that do not differ in their flags.
Breaks == Operators \cup {Blank}
SameFlags(s, u) == u.q_st = s.q_st /\ u.space_encountered = s.space_encountered /\ (u.char_count = 0 <=> s.char_count = 0)

\* A token begins where a command or a file may be, and nothing else begins a command.
AtStart(t, n, s) == Blanks(s.param) =>
  /\ s.q_st = FALSE
  /\ n > 0 => t[n] \in Breaks \cup {"fi"}
  /\ Previous(t, n + 1) \in Breaks \cup Keywords
  /\ AfterFile(s) <=> Previous(t, n + 1) = ">"
Inside(t, n, s) == ~ Blanks(s.param) /\ s.q_st = FALSE =>
  /\ Previous(t, n + 1) \notin Breaks
  /\ Previous(t, n + 1) \in Keywords => n > 0 /\ t[n] \in Closing

\* s is the state after the scan of t.
AfterScan(t, s) == \E f : ScansUpTo(f, t, Len(t)) /\ s = f[Len(t)]

\* Nothing is scanned from Start.
LEMMA ScansNothing == AfterScan(<<>>, Start)
<1> DEFINE f == [i \in {0} |-> Start]
<1>1. f[0] = Start /\ Len(<<>>) = 0
  OBVIOUS
<1>2. ScansUpTo(f, <<>>, 0)
  BY <1>1 DEF ScansUpTo
<1> QED
  BY <1>1, <1>2 DEF AfterScan

\* One piece more is one step more.
LEMMA ScansMore ==
  ASSUME NEW t \in Texts, NEW c \in Words, NEW s, AfterScan(t, s)
  PROVE  AfterScan(Append(t, c), Scan(s, c))
<1> DEFINE n == Len(t)
           u == Append(t, c)
<1>1. u \in Seq(Words) /\ Len(u) = n + 1 /\ n \in Nat /\ \A k \in 1 .. n + 1 : u[k] = IF k = n + 1 THEN c ELSE t[k]
  BY AppendedTyped DEF Texts
<1>2. PICK f : ScansUpTo(f, t, n) /\ s = f[n]
  BY DEF AfterScan
<1> DEFINE g == [i \in 0 .. n + 1 |-> IF i = n + 1 THEN Scan(s, c) ELSE f[i]]
<1> HIDE DEF n, u
<1>3. g[0] = Start /\ g[n + 1] = Scan(s, c)
  <2>1. g[0] = f[0] /\ g[n + 1] = Scan(s, c)
    BY <1>1
  <2> QED
    BY <1>2, <2>1 DEF ScansUpTo
<1>4. ASSUME NEW i \in 1 .. n + 1 PROVE g[i] = Scan(g[i - 1], u[i])
  <2>1. CASE i = n + 1
    <3>1. g[i - 1] = f[n] /\ u[i] = c /\ g[i] = Scan(s, c)
      BY <1>1, <2>1
    <3> QED
      BY <1>2, <3>1
  <2>2. CASE i # n + 1
    <3>1. i \in 1 .. n /\ g[i - 1] = f[i - 1] /\ g[i] = f[i] /\ u[i] = t[i]
      BY <1>1, <2>2
    <3>2. f[i] = Scan(f[i - 1], t[i])
      BY <1>2, <3>1 DEF ScansUpTo
    <3> QED
      BY <3>1, <3>2
  <2> QED
    BY <2>1, <2>2
<1>5. ScansUpTo(g, u, n + 1)
  <2> HIDE DEF g
  <2> QED BY <1>3, <1>4 DEF ScansUpTo
<1> HIDE DEF g
<1> QED
  BY <1>1, <1>3, <1>5 DEF AfterScan, u

\* The scan has one end.
LEMMA ScansEnd ==
  ASSUME NEW t \in Texts, NEW s, AfterScan(t, s)
  PROVE  s \in ScanStates /\ scanned(t) = ScanEnd(s)
<1> DEFINE n == Len(t)
<1>1. n \in Nat
  BY DEF Texts
<1>2. PICK f : ScansUpTo(f, t, n) /\ s = f[n]
  BY DEF AfterScan
<1>3. PICK g \in [0 .. n -> ScanStates] : ScansUpTo(g, t, n) /\ scanned(t) = ScanEnd(g[n])
  BY ScannedUnfolds
<1> HIDE DEF n
<1> DEFINE S == {m \in Nat : m <= n => f[m] = g[m]}
<1>4. 0 \in S
  BY <1>2, <1>3 DEF ScansUpTo
<1>5. ASSUME NEW m \in Nat, m \in S PROVE m + 1 \in S
  <2> SUFFICES ASSUME m + 1 <= n PROVE f[m + 1] = g[m + 1]
    OBVIOUS
  <2>1. m + 1 \in 1 .. n /\ (m + 1) - 1 = m /\ f[m] = g[m]
    BY <1>1, <1>5
  <2>2. f[m + 1] = Scan(f[m], t[m + 1]) /\ g[m + 1] = Scan(g[m], t[m + 1])
    BY <1>2, <1>3, <2>1 DEF ScansUpTo
  <2> QED
    BY <2>1, <2>2
<1>6. \A m \in Nat : m \in S
  <2> HIDE DEF S
  <2> QED BY <1>4, <1>5, Induction
<1>7. f[n] = g[n] /\ g[n] \in ScanStates
  BY <1>1, <1>3, <1>6
<1> QED
  BY <1>2, <1>3, <1>7, Zenon

\* What the scan of the value has so far.
ValueSoFar(u, s, v, m, r) ==
  /\ AfterScan(u \o SubSeq(v, 1, m), r) /\ r \in ScanStates /\ r.toks = s.toks /\ r.param = s.param \o SubSeq(v, 1, m)
  /\ r.q_st = FALSE /\ NoHit(r.param)
  /\ m > 0 => r.space_encountered = (v[m] = Blank) /\ r.char_count # 0

\* A text is cleaned from its first word on.
LEMMA CleanFrom ==
  ASSUME NEW p \in Texts, NEW j \in 1 .. Len(p), p[j] # Blank, \A i \in 1 .. j - 1 : p[i] = Blank
  PROVE  \E b \in j .. Len(p) : /\ cleanCmd(p) = SubSeq(p, j, b) /\ p[b] # Blank
                                /\ \A i \in b + 1 .. Len(p) : p[i] = Blank
<1> DEFINE S == {i \in 1 .. Len(p) : p[i] # Blank}
<1>1. Len(p) \in Nat
  BY DEF Texts
<1>2. S \subseteq Nat /\ S # {} /\ \A i \in S : i <= Len(p)
  BY <1>1
<1>3. Max(S) \in S /\ \A i \in S : i <= Max(S)
  <2> HIDE DEF S
  <2> QED BY <1>1, <1>2, MaxIsGreatest
<1> DEFINE b == Max(S)
<1>4. b \in 1 .. Len(p) /\ p[b] # Blank /\ \A i \in 1 .. Len(p) : p[i] # Blank => i <= b
  BY <1>3
<1> HIDE DEF b
<1>5. j <= b /\ \A i \in 1 .. Len(p) : p[i] # Blank => j <= i /\ i <= b
  BY <1>1, <1>4
<1>6. cleanCmd(p) = SubSeq(p, j, b)
  BY <1>4, <1>5, CleanIs
<1>7. \A i \in b + 1 .. Len(p) : p[i] = Blank
  BY <1>1, <1>4
<1> QED
  BY <1>1, <1>4, <1>5, <1>6, <1>7

\* A text that is not all blanks has a first piece.
LEMMA FirstPiece ==
  ASSUME NEW p \in Texts, ~ Blanks(p)
  PROVE  \E j \in 1 .. Len(p) : p[j] # Blank /\ \A i \in 1 .. j - 1 : p[i] = Blank
<1> DEFINE S == {i \in 1 .. Len(p) : p[i] # Blank}
<1>1. Len(p) \in Nat
  BY DEF Texts
<1>2. S \subseteq Nat /\ S # {}
  BY <1>1 DEF Blanks
<1>3. Min(S) \in S /\ \A i \in S : Min(S) <= i
  <2> HIDE DEF S
  <2> QED BY <1>2, MinIsLeast
<1> DEFINE j == Min(S)
<1>4. j \in 1 .. Len(p) /\ p[j] # Blank /\ \A i \in 1 .. Len(p) : p[i] # Blank => j <= i
  BY <1>3
<1> HIDE DEF j
<1>5. \A i \in 1 .. j - 1 : p[i] = Blank
  BY <1>1, <1>4
<1> QED
  BY <1>4, <1>5
\* The pieces of a text with one replaced.
LEMMA ReplacedPieces ==
  ASSUME NEW p \in Texts, NEW v \in Texts, NEW j \in 1 .. Len(p)
  PROVE  LET y == Replaced(p, j, v)
         IN  /\ y \in Texts /\ Len(y) = Len(p) + Len(v) - 1 /\ Len(p) \in Nat /\ Len(v) \in Nat
             /\ \A i \in 1 .. j - 1 : y[i] = p[i]
             /\ \A i \in 1 .. Len(v) : y[j - 1 + i] = v[i]
             /\ \A i \in j + 1 .. Len(p) : y[i + Len(v) - 1] = p[i]
<1> DEFINE a == SubSeq(p, 1, j - 1)
           b == SubSeq(p, j + 1, Len(p))
           x == a \o v
           y == x \o b
<1>1. p \in Seq(Words) /\ v \in Seq(Words) /\ Len(p) \in Nat /\ Len(v) \in Nat
  BY DEF Texts
<1>2. a \in Seq(Words) /\ Len(a) = j - 1 /\ \A i \in 1 .. j - 1 : a[i] = p[i]
  BY <1>1
<1>3. b \in Seq(Words) /\ Len(b) = Len(p) - j /\ \A i \in 1 .. Len(p) - j : b[i] = p[j + i]
  BY <1>1
<1>0. a \in Seq(Words) /\ b \in Seq(Words) /\ v \in Seq(Words)
  BY <1>1, <1>2, <1>3
<1> HIDE DEF a, b
<1>4. /\ x \in Seq(Words) /\ Len(x) = j - 1 + Len(v) /\ \A i \in 1 .. j - 1 : x[i] = p[i]
      /\ \A i \in 1 .. Len(v) : x[j - 1 + i] = v[i]
  <2>1. x \in Seq(Words) /\ Len(x) = Len(a) + Len(v)
    BY <1>0
  <2>2. \A i \in 1 .. Len(a) : x[i] = a[i]
    BY <1>0
  <2>3. \A i \in 1 .. Len(v) : x[Len(a) + i] = v[i]
    BY <1>0
  <2> HIDE DEF x
  <2>4. Len(a) = j - 1 /\ Len(x) = j - 1 + Len(v)
    BY <1>2, <2>1
  <2>5. \A i \in 1 .. j - 1 : x[i] = p[i]
    BY <1>2, <2>2, <2>4
  <2>6. \A i \in 1 .. Len(v) : x[j - 1 + i] = v[i]
    BY <2>3, <2>4
  <2> QED
    BY <2>1, <2>4, <2>5, <2>6
<1> HIDE DEF x
<1>5. /\ y \in Seq(Words) /\ Len(y) = Len(x) + Len(b) /\ \A i \in 1 .. Len(x) : y[i] = x[i]
      /\ \A i \in 1 .. Len(b) : y[Len(x) + i] = b[i]
  <2>1. x \in Seq(Words) /\ b \in Seq(Words)
    BY <1>0, <1>4
  <2> QED
    BY <2>1
<1> HIDE DEF y
<1>6. Len(y) = Len(p) + Len(v) - 1
  BY <1>1, <1>3, <1>4, <1>5
<1>7. \A i \in 1 .. j - 1 : y[i] = p[i]
  BY <1>1, <1>4, <1>5
<1>8. \A i \in 1 .. Len(v) : y[j - 1 + i] = v[i]
  BY <1>1, <1>4, <1>5
<1>9. ASSUME NEW i \in j + 1 .. Len(p) PROVE y[i + Len(v) - 1] = p[i]
  <2>1. i - j \in 1 .. Len(b) /\ Len(x) + (i - j) = i + Len(v) - 1 /\ j + (i - j) = i /\ i - j \in 1 .. Len(p) - j
    BY <1>1, <1>3, <1>4
  <2>2. y[Len(x) + (i - j)] = b[i - j] /\ b[i - j] = p[j + (i - j)]
    BY <1>3, <1>5, <2>1
  <2> QED
    BY <2>1, <2>2
<1> QED
  <2>1. Replaced(p, j, v) = y
    BY DEF Replaced, y, x, a, b
  <2>2. y \in Texts
    BY <1>5 DEF Texts
  <2> QED
    BY <1>1, <1>6, <1>7, <1>8, <1>9, <2>1, <2>2

\* What follows is added behind either.
LEMMA ReplacedMore ==
  ASSUME NEW p \in Texts, NEW v \in Texts, NEW j \in 1 .. Len(p), NEW c \in Words
  PROVE  Replaced(Append(p, c), j, v) = Append(Replaced(p, j, v), c)
<1> DEFINE a == SubSeq(p, 1, j - 1)
           b == SubSeq(p, j + 1, Len(p))
           q == Append(p, c)
<1>1. p \in Seq(Words) /\ v \in Seq(Words) /\ Len(p) \in Nat /\ q \in Texts /\ Len(q) = Len(p) + 1
  BY DEF Texts
<1>2. a \in Seq(Words) /\ b \in Seq(Words) /\ a \o v \in Seq(Words)
  BY <1>1
<1>3. SubSeq(q, 1, j - 1) = a
  <2>1. j - 1 \in 0 .. Len(p)
    BY <1>1
  <2> DEFINE m == j - 1
  <2>2. SubSeq(q, 1, m) = SubSeq(p, 1, m)
    <3> HIDE DEF m, q
    <3>1. m \in 0 .. Len(p)
      BY <2>1 DEF m
    <3> QED
      BY <3>1, PartOfMore DEF q
  <2> QED
    BY <2>2
<1>4. SubSeq(q, j + 1, Len(q)) = Append(b, c)
  <2>1. SubSeq(q, j + 1, Len(p) + 1) = Append(SubSeq(q, j + 1, Len(p)), q[Len(p) + 1])
    <3>1. Len(p) < Len(q) /\ j + 1 \in 1 .. Len(p) + 1
      BY <1>1
    <3> HIDE DEF q
    <3> QED
      BY <1>1, <3>1, PartGrows
  <2>2. q[Len(p) + 1] = c
    BY <1>1
  <2>3. SubSeq(q, j + 1, Len(p)) = b
    <3> DEFINE z == SubSeq(q, j + 1, Len(p))
    <3>1. z \in Seq(Words) /\ Len(z) = Len(p) - j /\ \A i \in 1 .. Len(p) - j : z[i] = q[j + i]
      <4> HIDE DEF q
      <4> QED BY <1>1 DEF Texts
    <3>2. b \in Seq(Words) /\ Len(b) = Len(p) - j /\ \A i \in 1 .. Len(p) - j : b[i] = p[j + i]
      BY <1>1
    <3>3. \A i \in 1 .. Len(p) : q[i] = p[i]
      BY <1>1
    <3> HIDE DEF z, b, q
    <3>4. ASSUME NEW i \in 1 .. Len(z) PROVE z[i] = b[i]
      <4>1. i \in 1 .. Len(p) - j /\ j + i \in 1 .. Len(p)
        BY <1>1, <3>1
      <4> QED
        BY <3>1, <3>2, <3>3, <4>1
    <3>5. z = b
      BY <3>1, <3>2, <3>4, SameText
    <3> QED
      BY <3>5 DEF z
  <2> QED
    BY <1>1, <2>1, <2>2, <2>3
<1> DEFINE w == a \o v
<1>5. w \o Append(b, c) = Append(w \o b, c)
  <2>1. w \in Seq(Words)
    BY <1>2
  <2> HIDE DEF w, b
  <2> QED BY <1>2, <2>1, JoinedStep
<1> QED
  BY <1>3, <1>4, <1>5 DEF Replaced
\* What a text begins with.
LEMMA FirstPart ==
  ASSUME NEW x \in Texts, NEW n \in Nat, n <= Len(x)
  PROVE  LET g == SubSeq(x, 1, n) IN g \in Texts /\ Len(g) = n /\ \A i \in 1 .. n : g[i] = x[i]
BY DEF Texts

\* Patterns are keywords and blanks.
LEMMA PatternPieces ==
  \A k \in 1 .. 4 : /\ Pattern[k] \in Texts /\ Len(Pattern[k]) \in Nat /\ Len(Pattern[k]) >= 2
                    /\ \A i \in 1 .. Len(Pattern[k]) : Pattern[k][i] \in Keywords \cup {Blank}
<1>1. {"if", "then", "else", "fi"} = Keywords
  BY DEF Keywords
<1>2. ASSUME NEW w, Len(w) = 2, w[1] \in Keywords \cup {Blank}, w[2] \in Keywords \cup {Blank}
      PROVE  Len(w) \in Nat /\ Len(w) >= 2 /\ \A i \in 1 .. Len(w) : w[i] \in Keywords \cup {Blank}
  <2> SUFFICES ASSUME NEW i \in 1 .. Len(w) PROVE w[i] \in Keywords \cup {Blank}
    BY <1>2
  <2>1. i = 1 \/ i = 2
    BY <1>2
  <2> QED
    BY <1>2, <2>1
<1>3. ASSUME NEW w, Len(w) = 3, w[1] \in Keywords \cup {Blank}, w[2] \in Keywords \cup {Blank}, w[3] \in Keywords \cup {Blank}
      PROVE  Len(w) \in Nat /\ Len(w) >= 2 /\ \A i \in 1 .. Len(w) : w[i] \in Keywords \cup {Blank}
  <2> SUFFICES ASSUME NEW i \in 1 .. Len(w) PROVE w[i] \in Keywords \cup {Blank}
    BY <1>3
  <2>1. i = 1 \/ i = 2 \/ i = 3
    BY <1>3
  <2> QED
    BY <1>3, <2>1
<1> DEFINE G(w) == Len(w) \in Nat /\ Len(w) >= 2 /\ \A i \in 1 .. Len(w) : w[i] \in Keywords \cup {Blank}
<1>4. G(Pattern[1])
  BY <1>1, <1>2, PatternIs
<1>5. G(Pattern[2])
  BY <1>1, <1>3, PatternIs
<1>6. G(Pattern[3])
  BY <1>1, <1>3, PatternIs
<1>7. G(Pattern[4])
  BY <1>1, <1>2, PatternIs
<1>8. \A k \in 1 .. 4 : k = 1 \/ k = 2 \/ k = 3 \/ k = 4
  OBVIOUS
<1>9. \A k \in 1 .. 4 : G(Pattern[k])
  <2> HIDE DEF G
  <2> QED BY <1>4, <1>5, <1>6, <1>7, <1>8, Zenon
<1> QED
  BY <1>9, PatternIs

\* A word that is no keyword is before the keyword a text ends with.
LEMMA PatternAfter ==
  ASSUME NEW x \in Texts, NEW a \in 1 .. Len(x), x[a] \notin Keywords, x[a] # Blank, NEW k \in 1 .. 4,
         EndsWith(x, Pattern[k])
  PROVE  /\ a <= Len(x) - Len(Pattern[k])
         /\ \A i \in 1 .. Len(Pattern[k]) : x[Len(x) - Len(Pattern[k]) + i] = Pattern[k][i]
<1> DEFINE w == Pattern[k]
           m == Len(w)
<1>1. m \in Nat \ {0} /\ \A i \in 1 .. m : w[i] \in Keywords \cup {Blank}
  BY PatternPieces
<1>2. Len(x) - m \in 0 .. Len(x) /\ Len(x) \in Nat /\ \A i \in 1 .. m : x[Len(x) - m + i] = w[i]
  <2>1. EndsWith(x, w) /\ Len(w) \in Nat \ {0} /\ Len(x) \in Nat
    BY <1>1 DEF Texts
  <2> HIDE DEF w
  <2> QED
    BY <2>1, EndOf
<1> HIDE DEF w, m
<1>3. a <= Len(x) - m
  <2> SUFFICES ASSUME a > Len(x) - m PROVE FALSE
    BY <1>1, <1>2
  <2> DEFINE i == a - (Len(x) - m)
  <2>1. i \in 1 .. m /\ Len(x) - m + i = a
    BY <1>1, <1>2
  <2> HIDE DEF i
  <2>2. x[a] = w[i]
    BY <1>2, <2>1
  <2> QED
    BY <1>1, <2>1, <2>2
<1> QED
  BY <1>2, <1>3 DEF w, m
\* The course two states take.
BothTake(s, u, c, r, q) ==
  \/ QuoteKept(s, c, r) /\ QuoteKept(u, c, q)
  \/ QuotedKept(s, c, r) /\ QuotedKept(u, c, q)
  \/ OperatorCuts(s, c, r) /\ OperatorCuts(u, c, q)
  \/ BlankDropped(s, c, r) /\ BlankDropped(u, c, q)
  \/ PieceKept(s, c, r) /\ PieceKept(u, c, q)
  \/ \E k \in 1 .. 4 : KeywordCuts(s, c, r, k) /\ KeywordCuts(u, c, q, k)

\* Which way a state goes.
Goes(s, c, d, E) ==
  \/ c = Quote /\ d = 1
  \/ c # Quote /\ s.q_st = TRUE /\ d = 2
  \/ c \in Operators /\ s.q_st = FALSE /\ s.char_count # 0 /\ d = 3
  \/ c = Blank /\ s.q_st = FALSE /\ s.space_encountered = TRUE /\ d = 4
  \/ /\ c # Quote /\ s.q_st = FALSE /\ ~ (c \in Operators /\ s.char_count # 0) /\ ~ (c = Blank /\ s.space_encountered = TRUE)
     /\ ~ E /\ d = 5
  \/ /\ c # Quote /\ c \notin Operators /\ s.q_st = FALSE /\ ~ (c = Blank /\ s.space_encountered = TRUE)
     /\ E /\ d = 6

AnyEnds(p, c) == \E k \in 1 .. 4 : EndsWith(Append(p, c), Pattern[k])
Taken(s, c, r, d) ==
  \/ d = 1 /\ QuoteKept(s, c, r)
  \/ d = 2 /\ QuotedKept(s, c, r)
  \/ d = 3 /\ OperatorCuts(s, c, r)
  \/ d = 4 /\ BlankDropped(s, c, r)
  \/ d = 5 /\ PieceKept(s, c, r)
  \/ d = 6 /\ \E k \in 1 .. 4 : KeywordCuts(s, c, r, k)

\* What a state does is the way it goes.
LEMMA GoesAsTaken ==
  ASSUME NEW s \in ScanStates, NEW c \in Words, NEW r, Scanned(s, c, r)
  PROVE  \E d \in 1 .. 6 : Taken(s, c, r, d) /\ Goes(s, c, d, AnyEnds(s.param, c))
<1> DEFINE E == AnyEnds(s.param, c)
<1>1. Quote \notin Operators /\ Blank \notin Operators /\ "fi" \notin Operators /\ Blank # Quote /\ "fi" # Quote
  BY DEF Quote, Operators, Blank
<1>2. CASE QuoteKept(s, c, r)
  <2>1. c = Quote
    BY <1>2 DEF QuoteKept
  <2>2. Taken(s, c, r, 1) /\ Goes(s, c, 1, E)
    BY <1>2, <2>1 DEF Taken, Goes
  <2> QED BY <2>2
<1>3. CASE QuotedKept(s, c, r)
  <2>1. c # Quote /\ s.q_st = TRUE
    BY <1>3 DEF QuotedKept
  <2>2. Taken(s, c, r, 2) /\ Goes(s, c, 2, E)
    BY <1>3, <2>1 DEF Taken, Goes
  <2> QED BY <2>2
<1>4. CASE OperatorCuts(s, c, r)
  <2>1. c \in Operators /\ s.q_st = FALSE /\ s.char_count # 0
    BY <1>4 DEF OperatorCuts
  <2>2. Taken(s, c, r, 3) /\ Goes(s, c, 3, E)
    BY <1>4, <2>1 DEF Taken, Goes
  <2> QED BY <2>2
<1>5. CASE BlankDropped(s, c, r)
  <2>1. c = Blank /\ s.q_st = FALSE /\ s.space_encountered = TRUE
    BY <1>5 DEF BlankDropped
  <2>2. Taken(s, c, r, 4) /\ Goes(s, c, 4, E)
    BY <1>5, <2>1 DEF Taken, Goes
  <2> QED BY <2>2
<1>6. CASE PieceKept(s, c, r)
  <2>1. c # Quote /\ s.q_st = FALSE /\ ~ (c \in Operators /\ s.char_count # 0) /\ ~ (c = Blank /\ s.space_encountered)
        /\ r.param = Append(s.param, c) /\ \A k \in 1 .. 4 : ~ EndsWith(r.param, Pattern[k])
    BY <1>6 DEF PieceKept, Keeps
  <2>2. ~ E
    BY <2>1, Zenon DEF AnyEnds
  <2> HIDE DEF E
  <2>3. Taken(s, c, r, 5)
    BY <1>6 DEF Taken
  <2>4. Goes(s, c, 5, E)
    BY <2>1, <2>2 DEF Goes
  <2> QED BY <2>3, <2>4 DEF E
<1>7. ASSUME NEW k \in 1 .. 4, KeywordCuts(s, c, r, k)
      PROVE  Taken(s, c, r, 6) /\ Goes(s, c, 6, E)
  <2>1. c # Quote /\ s.q_st = FALSE /\ ~ (c = Blank /\ s.space_encountered) /\ EndsWith(Append(s.param, c), Pattern[k])
    BY <1>7 DEF KeywordCuts
  <2>2. c = (IF k = 4 THEN "fi" ELSE Blank)
    BY <1>7, CutsAre
  <2>3. c \notin Operators
    BY <1>1, <2>2
  <2>4. E
    BY <2>1 DEF AnyEnds
  <2> HIDE DEF E
  <2>5. Taken(s, c, r, 6)
    BY <1>7 DEF Taken
  <2>6. Goes(s, c, 6, E)
    BY <2>1, <2>3, <2>4 DEF Goes
  <2> QED BY <2>5, <2>6
<1>8. Taken(s, c, r, 6) /\ Goes(s, c, 6, E) => \E d \in 1 .. 6 : Taken(s, c, r, d) /\ Goes(s, c, d, E)
  OBVIOUS
<1> QED
  BY <1>2, <1>3, <1>4, <1>5, <1>6, <1>7, <1>8, Zenon DEF Scanned

\* States that do not differ in what the scan asks go the same way.
LEMMA GoesOneWay ==
  ASSUME NEW s \in ScanStates, NEW u \in ScanStates, SameFlags(s, u), NEW c \in Words, NEW E, NEW F, E <=> F,
         NEW d \in 1 .. 6, NEW e \in 1 .. 6, Goes(s, c, d, E), Goes(u, c, e, F)
  PROVE  d = e
<1>1. Quote \notin Operators /\ Blank \notin Operators /\ Blank # Quote /\ Quote # Blank
  BY DEF Quote, Operators, Blank
<1> DEFINE b == s.q_st = TRUE
           f == s.q_st = FALSE
           g == s.space_encountered = TRUE
           o == s.char_count # 0
<1>2. /\ (u.q_st = TRUE <=> b) /\ (u.q_st = FALSE <=> f) /\ (u.space_encountered = TRUE <=> g) /\ (u.char_count # 0 <=> o)
      /\ ~ (b /\ f)
  BY DEF SameFlags
<1>3. \/ c = Quote /\ d = 1
      \/ c # Quote /\ b /\ d = 2
      \/ c \in Operators /\ f /\ o /\ d = 3
      \/ c = Blank /\ f /\ g /\ d = 4
      \/ c # Quote /\ f /\ ~ (c \in Operators /\ o) /\ ~ (c = Blank /\ g) /\ ~ E /\ d = 5
      \/ c # Quote /\ c \notin Operators /\ f /\ ~ (c = Blank /\ g) /\ E /\ d = 6
  BY DEF Goes
<1>4. \/ c = Quote /\ e = 1
      \/ c # Quote /\ b /\ e = 2
      \/ c \in Operators /\ f /\ o /\ e = 3
      \/ c = Blank /\ f /\ g /\ e = 4
      \/ c # Quote /\ f /\ ~ (c \in Operators /\ o) /\ ~ (c = Blank /\ g) /\ ~ E /\ e = 5
      \/ c # Quote /\ c \notin Operators /\ f /\ ~ (c = Blank /\ g) /\ E /\ e = 6
  BY <1>2 DEF Goes
<1> HIDE DEF b, f, g, o
<1> QED
  BY <1>1, <1>2, <1>3, <1>4

\* So they take the same course, if the same keywords end.
LEMMA SameCourse ==
  ASSUME NEW s \in ScanStates, NEW u \in ScanStates, SameFlags(s, u), NEW c \in Words,
         NEW r, NEW q, Scanned(s, c, r), Scanned(u, c, q),
         \A k \in 1 .. 4 : EndsWith(Append(s.param, c), Pattern[k]) <=> EndsWith(Append(u.param, c), Pattern[k])
  PROVE  BothTake(s, u, c, r, q)
<1>1. AnyEnds(s.param, c) <=> AnyEnds(u.param, c)
  BY DEF AnyEnds
<1>2. PICK d \in 1 .. 6 : Taken(s, c, r, d) /\ Goes(s, c, d, AnyEnds(s.param, c))
  BY GoesAsTaken
<1>3. PICK e \in 1 .. 6 : Taken(u, c, q, e) /\ Goes(u, c, e, AnyEnds(u.param, c))
  BY GoesAsTaken
<1>4. d = e
  <2> DEFINE E == AnyEnds(s.param, c)
             F == AnyEnds(u.param, c)
  <2>1. (E <=> F) /\ Goes(s, c, d, E) /\ Goes(u, c, e, F)
    BY <1>1, <1>2, <1>3
  <2> HIDE DEF E, F
  <2> QED
    BY <2>1, GoesOneWay
<1>5. CASE d # 6
  BY <1>2, <1>3, <1>4, <1>5 DEF Taken, BothTake
<1>6. CASE d = 6
  <2>1. PICK k \in 1 .. 4 : KeywordCuts(s, c, r, k)
    BY <1>2, <1>6 DEF Taken
  <2>2. PICK m \in 1 .. 4 : KeywordCuts(u, c, q, m)
    BY <1>3, <1>4, <1>6 DEF Taken
  <2>3. EndsWith(Append(u.param, c), Pattern[k]) /\ EndsWith(Append(u.param, c), Pattern[m])
    BY <2>1, <2>2 DEF KeywordCuts
  <2>4. Append(u.param, c) \in Texts
    BY DEF ScanStates, Texts
  <2>5. k = m
    BY <2>3, <2>4, OneKeyword
  <2> QED
    BY <2>1, <2>2, <2>5, Zenon DEF BothTake
<1> QED
  BY <1>5, <1>6

\* In quotes the scan does not look at blanks.
LEMMA QuotedSpace ==
  ASSUME NEW s \in ScanStates, NEW c \in Words, c # Quote, s.q_st = TRUE
  PROVE  Scan(s, c).space_encountered = s.space_encountered
<1>1. Scan(s, c) = Kept(s, c)
  BY DEF Scan
<1> QED
  BY <1>1, KeptIs

\* The flags stay the same.
LEMMA FlagsStaySame ==
  ASSUME NEW s \in ScanStates, NEW u \in ScanStates, SameFlags(s, u), NEW c \in Words,
         BothTake(s, u, c, Scan(s, c), Scan(u, c))
  PROVE  SameFlags(Scan(s, c), Scan(u, c))
<1> DEFINE r == Scan(s, c)
           q == Scan(u, c)
<1>1. s.char_count \in Nat /\ u.char_count \in Nat /\ u.q_st = s.q_st /\ u.space_encountered = s.space_encountered
      /\ (u.char_count = 0 <=> s.char_count = 0)
  BY DEF SameFlags, ScanStates
<1>2. s.q_st = TRUE /\ c # Quote => r.space_encountered = s.space_encountered
  BY QuotedSpace
<1>3. u.q_st = TRUE /\ c # Quote => q.space_encountered = u.space_encountered
  BY QuotedSpace
<1>4. BothTake(s, u, c, r, q)
  OBVIOUS
<1> SUFFICES SameFlags(r, q)
  OBVIOUS
<1> HIDE DEF r, q
<1>5. CASE QuoteKept(s, c, r) /\ QuoteKept(u, c, q)
  BY <1>1, <1>5 DEF QuoteKept, Keeps, SameFlags
<1>6. CASE QuotedKept(s, c, r) /\ QuotedKept(u, c, q)
  <2>1. q.space_encountered = r.space_encountered
    BY <1>1, <1>2, <1>3, <1>6, Zenon DEF QuotedKept
  <2>2. r.q_st = TRUE /\ q.q_st = TRUE /\ r.char_count = s.char_count + 1 /\ q.char_count = u.char_count + 1
    BY <1>6, Zenon DEF QuotedKept, Keeps
  <2>3. r.char_count # 0 /\ q.char_count # 0
    BY <1>1, <2>2
  <2> QED
    BY <2>1, <2>2, <2>3, Zenon DEF SameFlags
<1>7. CASE OperatorCuts(s, c, r) /\ OperatorCuts(u, c, q)
  BY <1>1, <1>7 DEF OperatorCuts, SameFlags
<1>8. CASE BlankDropped(s, c, r) /\ BlankDropped(u, c, q)
  BY <1>1, <1>8 DEF BlankDropped, SameFlags
<1>9. CASE PieceKept(s, c, r) /\ PieceKept(u, c, q)
  <2>1. q.space_encountered = r.space_encountered
    BY <1>9, Zenon DEF PieceKept
  <2>2. r.q_st = FALSE /\ q.q_st = FALSE /\ r.char_count = s.char_count + 1 /\ q.char_count = u.char_count + 1
    BY <1>9, Zenon DEF PieceKept, Keeps
  <2>3. r.char_count # 0 /\ q.char_count # 0
    BY <1>1, <2>2
  <2> QED
    BY <2>1, <2>2, <2>3, Zenon DEF SameFlags
<1>10. ASSUME NEW k \in 1 .. 4, KeywordCuts(s, c, r, k), KeywordCuts(u, c, q, k) PROVE SameFlags(r, q)
  <2>1. q.space_encountered = r.space_encountered
    BY <1>10, Zenon DEF KeywordCuts
  <2>2. r.q_st = FALSE /\ q.q_st = FALSE /\ r.char_count = s.char_count + 1 /\ q.char_count = u.char_count + 1
    BY <1>10, Zenon DEF KeywordCuts
  <2>3. r.char_count # 0 /\ q.char_count # 0
    BY <1>1, <2>2
  <2> QED
    BY <2>1, <2>2, <2>3, Zenon DEF SameFlags
<1> QED
  BY <1>4, <1>5, <1>6, <1>7, <1>8, <1>9, <1>10, Zenon DEF BothTake
\* One piece of a plain text more.
OneMore(t, n, s, r) ==
  /\ Place(t, n, s) /\ ToldSoFar(t, s, n) /\ PlainSoFar(t, s, n) /\ SpaceSoFar(t, s, n) /\ Scanned(s, t[n + 1], r)
  /\ t[n + 1] \in Words

\* It is known of every piece of a plain text.
LEMMA OneMoreIs ==
  ASSUME NEW t \in Texts, Plain(t), NEW n \in Nat, n < Len(t), NEW s \in ScanStates, ToldSoFar(t, s, n), PlainSoFar(t, s, n)
  PROVE  OneMore(t, n, s, Scan(s, t[n + 1]))
<1> DEFINE c == t[n + 1]
<1>1. Place(t, n, s)
  BY NextPlace
<1>2. SpaceSoFar(t, s, n)
  BY DEF PlainSoFar, SpaceSoFar
<1>3. c \in Words /\ NoHit(s.param)
  BY DEF Texts, ToldSoFar
<1>4. s.q_st = TRUE => c \notin Keywords /\ s.param # <<>> /\ Last(s.param) \notin Keywords
  <2>1. c \in Keywords => s.q_st = FALSE
    BY <1>1 DEF Place
  <2> QED
    BY <2>1 DEF ToldSoFar
<1>5. Scanned(s, c, Scan(s, c))
  <2> HIDE DEF c
  <2> QED BY <1>3, <1>4, ScanSays DEF Scanned
<1> QED
  BY <1>1, <1>2, <1>3, <1>5 DEF OneMore

\* Blanks and one more.
LEMMA BlanksMore ==
  ASSUME NEW p \in Texts, NEW c \in Words
  PROVE  Blanks(Append(p, c)) <=> Blanks(p) /\ c = Blank
<1>1. Len(Append(p, c)) = Len(p) + 1 /\ Append(p, c)[Len(p) + 1] = c /\ Len(p) \in Nat
      /\ \A i \in 1 .. Len(p) : Append(p, c)[i] = p[i]
  BY DEF Texts
<1> DEFINE q == Append(p, c)
<1> HIDE DEF q
<1>2. Len(q) = Len(p) + 1 /\ q[Len(p) + 1] = c /\ Len(p) \in Nat /\ \A i \in 1 .. Len(p) : q[i] = p[i]
  BY <1>1 DEF q
<1>3. ASSUME Blanks(q) PROVE Blanks(p) /\ c = Blank
  BY <1>2, <1>3 DEF Blanks
<1>4. ASSUME Blanks(p), c = Blank PROVE Blanks(q)
  <2> SUFFICES ASSUME NEW i \in 1 .. Len(q) PROVE q[i] = Blank
    BY DEF Blanks
  <2>1. i \in 1 .. Len(p) \/ i = Len(p) + 1
    BY <1>2
  <2> QED
    BY <1>2, <1>4, <2>1 DEF Blanks
<1> QED
  BY <1>3, <1>4 DEF q

\* Whether the token that comes is a file, when one more has been cut off.
LEMMA FileAfter ==
  ASSUME NEW s \in ScanStates, NEW l \in Seq(Texts), NEW c \in Words, c # Blank, s.toks = Append(l, <<c>>)
  PROVE  AfterFile(s) <=> c = ">"
<1>1. <<c>> \in Texts /\ cleanCmd(<<c>>) = <<c>>
  BY CleanOne
<1>2. s.toks # <<>> /\ Last(s.toks) = <<c>>
  BY <1>1 DEF Last
<1>3. <<c>> = <<">">> <=> c = ">"
  OBVIOUS
<1> QED
  BY <1>1, <1>2, <1>3 DEF AfterFile, FileNext

\* The last token is keyword k.
EndsFound(toks, k) == \E l \in Seq(Texts) : toks = Append(l, <<Found[k]>>)

\* The last token is the keyword that was cut off.
LEMMA CutTokens ==
  ASSUME NEW s \in ScanStates, NEW c \in Words, NEW r, NEW k \in 1 .. 4, KeywordCuts(s, c, r, k)
  PROVE  EndsFound(r.toks, k)
<1> DEFINE p == Append(s.param, c)
           n == Len(p) - Len(Pattern[k])
           l == IF n > 0 THEN Append(s.toks, SubSeq(p, 1, n)) ELSE s.toks
<1>1. r.toks = Append(l, <<Found[k]>>)
  BY DEF KeywordCuts
<1>2. p \in Texts /\ Len(p) \in Nat /\ s.toks \in Seq(Texts)
  BY DEF ScanStates, Texts
<1>3. EndsWith(p, Pattern[k]) /\ Len(Pattern[k]) \in Nat
  BY PatternPieces DEF KeywordCuts
<1> HIDE DEF p
<1>4. SubSeq(p, 1, n) \in Texts
  <2>1. n \in 0 .. Len(p)
    BY <1>2, <1>3 DEF EndsWith
  <2> HIDE DEF n
  <2> QED BY <1>2, <2>1 DEF Texts
<1>5. l \in Seq(Texts)
  BY <1>2, <1>4
<1> HIDE DEF l
<1> QED
  BY <1>1, <1>5 DEF EndsFound

\* What cuts a keyword off.
LEMMA CutEnds ==
  ASSUME NEW s \in ScanStates, NEW c \in Words, NEW r, NEW k \in 1 .. 4, KeywordCuts(s, c, r, k)
  PROVE  r.q_st = FALSE /\ c = (IF k = 4 THEN "fi" ELSE Blank)
BY CutsAre, Zenon

\* Where a token begins, one piece further on.
LEMMA StartStep ==
  ASSUME NEW t \in Texts, NEW n \in Nat, n < Len(t), NEW s \in ScanStates, NEW r \in ScanStates, OneMore(t, n, s, r), AtStart(t, n, s)
  PROVE  AtStart(t, n + 1, r)
<1> DEFINE c == t[n + 1]
           P == Previous(t, n + 1)
           N == Previous(t, (n + 1) + 1)
<1>1. c \in Words /\ n + 1 > 0 /\ N = (IF c # Blank THEN c ELSE P)
  BY DEF OneMore, Place
<1>2. s.param \in Texts /\ s.toks \in Seq(Texts)
  BY DEF ScanStates
<1>3. Operators \subseteq Breaks /\ Blank \in Breaks /\ Keywords \cap Breaks = {} /\ "fi" \in Keywords /\ ">" \notin Keywords
      /\ Quote # Blank /\ Blank \notin Operators /\ ">" # Blank
  BY DifferentPieces DEF Breaks, Blank, Operators, Keywords
<1>4. Scanned(s, c, r) /\ Place(t, n, s) /\ SpaceSoFar(t, s, n)
  BY DEF OneMore
<1> SUFFICES ASSUME Blanks(r.param)
             PROVE  /\ r.q_st = FALSE /\ c \in Breaks \cup {"fi"} /\ N \in Breaks \cup Keywords
                    /\ AfterFile(r) <=> N = ">"
  BY <1>1 DEF AtStart
<1>5. CASE Keeps(s, c, r)
  <2>1. Blanks(s.param) /\ c = Blank
    BY <1>1, <1>2, <1>5, BlanksMore DEF Keeps
  <2>2. s.q_st = FALSE /\ P \in Breaks \cup Keywords /\ (AfterFile(s) <=> P = ">")
    BY <2>1 DEF AtStart
  <2>3. r.q_st = FALSE
    BY <1>3, <1>4, <1>5, <2>1, <2>2, KeptLast DEF Scanned, QuoteKept, QuotedKept, PieceKept, OperatorCuts, BlankDropped, KeywordCuts
  <2>4. AfterFile(r) <=> AfterFile(s)
    BY <1>5 DEF Keeps, AfterFile
  <2> QED
    BY <1>1, <1>3, <2>1, <2>2, <2>3, <2>4
<1>6. CASE OperatorCuts(s, c, r)
  <2>1. c \in Operators /\ r.q_st = FALSE /\ r.toks = Append(Append(s.toks, s.param), <<c>>)
    BY <1>6 DEF OperatorCuts
  <2>2. c # Blank /\ Append(s.toks, s.param) \in Seq(Texts)
    BY <1>2, <1>3, <2>1
  <2>3. AfterFile(r) <=> c = ">"
    BY <1>1, <2>1, <2>2, FileAfter
  <2> QED
    BY <1>1, <1>3, <2>1, <2>2, <2>3
<1>7. CASE BlankDropped(s, c, r)
  <2>1. c = Blank /\ r = s
    BY <1>7 DEF BlankDropped
  <2>2. s.q_st = FALSE /\ P \in Breaks \cup Keywords /\ (AfterFile(s) <=> P = ">")
    BY <2>1 DEF AtStart
  <2> QED
    BY <1>1, <1>3, <2>1, <2>2
<1>8. ASSUME NEW k \in 1 .. 4, KeywordCuts(s, c, r, k)
      PROVE  /\ r.q_st = FALSE /\ c \in Breaks \cup {"fi"} /\ N \in Breaks \cup Keywords
             /\ AfterFile(r) <=> N = ">"
  <2>1. r.q_st = FALSE /\ c = (IF k = 4 THEN "fi" ELSE Blank)
    <3> HIDE DEF c
    <3> QED BY <1>1, <1>8, CutEnds
  <2>2. Found[k] \in Keywords /\ Found[k] \in Words /\ Found[k] # Blank /\ Found[k] # ">"
    BY <1>3, FoundIs, DifferentPieces DEF Words
  <2>3. ~ AfterFile(r)
    <3>0. EndsFound(r.toks, k)
      <4> HIDE DEF c
      <4> QED BY <1>1, <1>8, CutTokens
    <3>1. PICK l \in Seq(Texts) : r.toks = Append(l, <<Found[k]>>)
      BY <3>0 DEF EndsFound
    <3> QED
      BY <2>2, <3>1, FileAfter
  <2>4. N \in Keywords
    <3>1. CASE k = 4
      BY <1>1, <1>3, <2>1, <3>1, DifferentPieces
    <3>2. CASE k # 4
      <4>1. Pending(t, n)
        BY <1>4, <1>8, <3>2, SpaceAtKeyword
      <4>2. n > 0 /\ t[n] \in Keywords /\ t[n] # Blank
        BY <4>1, DifferentPieces DEF Pending
      <4>3. P = t[n]
        BY <1>4, <4>2 DEF Place
      <4> QED
        BY <1>1, <2>1, <3>2, <4>2, <4>3
    <3> QED
      BY <3>1, <3>2
  <2> QED
    BY <1>3, <2>1, <2>3, <2>4
<1>9. \/ Keeps(s, c, r) \/ OperatorCuts(s, c, r) \/ BlankDropped(s, c, r)
      \/ \E k \in 1 .. 4 : KeywordCuts(s, c, r, k)
  BY <1>4, Zenon DEF Scanned, QuoteKept, QuotedKept, PieceKept
<1> QED
  BY <1>5, <1>6, <1>7, <1>8, <1>9

\* Inside of a token, one piece further on.
LEMMA InsideStep ==
  ASSUME NEW t \in Texts, NEW n \in Nat, n < Len(t), NEW s \in ScanStates, NEW r \in ScanStates, OneMore(t, n, s, r), Inside(t, n, s)
  PROVE  Inside(t, n + 1, r)
<1> DEFINE c == t[n + 1]
           P == Previous(t, n + 1)
           N == Previous(t, (n + 1) + 1)
<1>1. c \in Words /\ n + 1 > 0 /\ N = (IF c # Blank THEN c ELSE P)
  BY DEF OneMore, Place
<1>2. s.param \in Texts /\ s.toks \in Seq(Texts)
  BY DEF ScanStates
<1>3. /\ Operators \subseteq Breaks /\ Blank \in Breaks /\ Keywords \cap Breaks = {}
      /\ Quote # Blank /\ Quote \notin Keywords /\ Quote \notin Breaks /\ \A x : x \in Breaks => x \in Operators \/ x = Blank
  BY DifferentPieces DEF Breaks
<1>4. Scanned(s, c, r) /\ Place(t, n, s) /\ SpaceSoFar(t, s, n) /\ ToldSoFar(t, s, n) /\ PlainSoFar(t, s, n)
  BY DEF OneMore
<1> SUFFICES ASSUME ~ Blanks(r.param), r.q_st = FALSE
             PROVE  N \notin Breaks /\ (N \in Keywords => c \in Closing)
  BY <1>1 DEF Inside
<1>5. CASE QuoteKept(s, c, r)
  BY <1>1, <1>3, <1>5 DEF QuoteKept
<1>6. CASE QuotedKept(s, c, r)
  BY <1>6 DEF QuotedKept
<1>7. CASE PieceKept(s, c, r)
  <2>1. s.q_st = FALSE /\ Keeps(s, c, r) /\ (c \in Operators => s.char_count = 0)
    BY <1>7 DEF PieceKept
  <2>2. CASE c = Blank
    <3>1. ~ Blanks(s.param)
      BY <1>1, <1>2, <2>1, <2>2, BlanksMore DEF Keeps
    <3>2. P \notin Breaks /\ (P \in Keywords => n > 0 /\ t[n] \in Closing)
      BY <2>1, <3>1 DEF Inside
    <3>3. ~ Pending(t, n)
      <4> SUFFICES ASSUME Pending(t, n) PROVE FALSE
        OBVIOUS
      <4>1. PICK k \in 1 .. 3 : KeywordCuts(s, Blank, r, k)
        BY <1>4, PendingCuts
      <4>2. r.param = <<>>
        BY <4>1 DEF KeywordCuts
      <4> QED
        BY <4>2 DEF Blanks
    <3> QED
      BY <1>1, <2>2, <3>2, <3>3 DEF Pending
  <2>3. CASE c # Blank
    <3>1. c \notin Operators
      <4> SUFFICES ASSUME c \in Operators PROVE FALSE
        OBVIOUS
      <4>1. P \in Operators \cup {Blank}
        BY <1>4, <2>1 DEF SpaceSoFar, CountMeant
      <4>2. P \notin Operators \cup {Blank}
        BY <1>4, <2>1 DEF Place
      <4> QED
        BY <4>1, <4>2
    <3>2. c # "fi"
      <4> SUFFICES ASSUME c = "fi" PROVE FALSE
        OBVIOUS
      <4>1. n > 0 /\ t[n] = Blank /\ P \notin Needs
        BY <1>4 DEF Place
      <4>2. n \notin Quoted(t) /\ P = Previous(t, n)
        BY <1>4, <2>1, <4>1 DEF Place
      <4>3. EndsIn(s.param, {Blank})
        BY <1>4, <4>1, <4>2 DEF SpaceSoFar, BlankKept
      <4>4. EndsWith(Append(s.param, "fi"), Pattern[4])
        BY <1>2, <4>3, KeywordEnds DEF EndsIn
      <4>5. 4 \in 1 .. 4
        OBVIOUS
      <4> QED
        BY <1>7, <4>4, <4>5 DEF PieceKept, Keeps
    <3> QED
      BY <1>1, <1>3, <2>3, <3>1, <3>2, DifferentPieces
  <2> QED
    BY <2>2, <2>3
<1>8. CASE OperatorCuts(s, c, r)
  <2>1. r.param = <<>>
    BY <1>8 DEF OperatorCuts
  <2> QED
    BY <2>1 DEF Blanks
<1>9. CASE BlankDropped(s, c, r)
  <2>1. c = Blank /\ r = s /\ BlankDropped(s, c, s) /\ s.q_st = FALSE
    BY <1>9 DEF BlankDropped
  <2>2. P \notin Breaks /\ (P \in Keywords => n > 0 /\ t[n] \in Closing)
    BY <2>1 DEF Inside
  <2>3. ~ Pending(t, n)
    BY <1>4, <2>1, SpaceDropped
  <2> QED
    BY <1>1, <2>1, <2>2, <2>3 DEF Pending
<1>10. ASSUME NEW k \in 1 .. 4, KeywordCuts(s, c, r, k) PROVE FALSE
  <2>1. r.param = <<>>
    BY <1>10 DEF KeywordCuts
  <2> QED
    BY <2>1 DEF Blanks
<1> QED
  BY <1>4, <1>5, <1>6, <1>7, <1>8, <1>9, <1>10 DEF Scanned

\* An if follows a blank or an operator, and fi is followed by one.
LEMMA KeywordsApart ==
  ASSUME NEW t \in Texts, Plain(t), NEW n \in Nat, n > 0, n < Len(t), NEW s \in ScanStates, Place(t, n, s)
  PROVE  (t[n + 1] = "if" => t[n] \in Breaks) /\ (t[n] = "fi" => t[n + 1] \in Breaks)
<1>1. n \in DOMAIN t /\ n + 1 \in DOMAIN t /\ DOMAIN t = 1 .. Len(t) /\ (n + 1) - 1 = n /\ Len(t) \in Nat
  BY DEF Texts
<1>2. "if" \in Keywords /\ "fi" \in Keywords /\ "if" \notin Operators /\ "fi" \notin Operators /\ "fi" # "if"
  BY DEF Keywords, Operators
<1>3. At(t, n) = t[n] /\ At(t, n + 1) = t[n + 1]
  BY <1>1 DEF At
<1>4. ASSUME t[n + 1] = "if" PROVE t[n] \in Breaks
  <2>1. n + 1 \in Separators(t)
    BY <1>2, <1>4 DEF Place
  <2>2. At(t, (n + 1) - 1) \in Operators \cup {Blank}
    BY <1>2, <1>4, <2>1 DEF Plain
  <2> QED
    BY <1>1, <1>3, <2>2 DEF Breaks
<1>5. ASSUME t[n] = "fi" PROVE t[n + 1] \in Breaks
  <2>1. n \notin Quoted(t)
    BY <1>2, <1>5 DEF Plain, Balanced
  <2>2. n \in Separators(t)
    BY <1>1, <1>2, <1>5, <2>1 DEF Separators
  <2>3. At(t, n + 1) \in {Blank} \cup Operators
    BY <1>2, <1>5, <2>2 DEF Plain
  <2> QED
    BY <1>3, <2>3 DEF Breaks
<1> QED
  BY <1>4, <1>5
\* Nothing of what was read is one of the words that leave tokens behind them alone.
Own == {"cd", "set", "alias", "="}
NotOwn == Words \ Own
FreeOfOwn(s) == s.toks \in Seq(Seq(NotOwn)) /\ s.param \in Seq(NotOwn)

\* A piece that is none of them brings none.
LEMMA FreeMore ==
  ASSUME NEW s \in ScanStates, FreeOfOwn(s), NEW c \in NotOwn, NEW r, Scanned(s, c, r)
  PROVE  FreeOfOwn(r)
<1> DEFINE l == s.toks
           p == s.param
           x == Append(p, c)
<1>1. l \in Seq(Seq(NotOwn)) /\ p \in Seq(NotOwn) /\ x \in Seq(NotOwn) /\ <<c>> \in Seq(NotOwn) /\ <<>> \in Seq(NotOwn) /\ c \in Words
  BY DEF FreeOfOwn, NotOwn
<1>2. CASE Keeps(s, c, r)
  BY <1>1, <1>2 DEF Keeps, FreeOfOwn
<1>3. CASE OperatorCuts(s, c, r)
  <2>1. r.toks = Append(Append(l, p), <<c>>) /\ r.param = <<>>
    BY <1>3 DEF OperatorCuts
  <2> HIDE DEF l, p, x
  <2> QED
    BY <1>1, <2>1 DEF FreeOfOwn
<1>4. CASE BlankDropped(s, c, r)
  BY <1>4 DEF BlankDropped
<1>5. ASSUME NEW k \in 1 .. 4, KeywordCuts(s, c, r, k) PROVE FreeOfOwn(r)
  <2> DEFINE n == Len(x) - Len(Pattern[k])
             g == SubSeq(x, 1, n)
             a == IF n > 0 THEN Append(l, g) ELSE l
  <2>1. r.toks = Append(a, <<Found[k]>>) /\ r.param = <<>> /\ EndsWith(x, Pattern[k])
    BY <1>5 DEF KeywordCuts
  <2>2. Found[k] \in NotOwn
    BY FoundIs DEF NotOwn, Own, Words, Keywords
  <2>3. n \in 0 .. Len(x)
    <3> HIDE DEF x
    <3>1. Len(Pattern[k]) \in Nat
      BY PatternPieces
    <3>2. Len(x) \in Nat
      BY <1>1
    <3> QED
      BY <2>1, <3>1, <3>2 DEF EndsWith
  <2> HIDE DEF l, x, n
  <2>4. g \in Seq(NotOwn)
    BY <1>1, <2>3
  <2> HIDE DEF g
  <2>5. a \in Seq(Seq(NotOwn))
    BY <1>1, <2>4
  <2> HIDE DEF a
  <2>6. <<Found[k]>> \in Seq(NotOwn)
    BY <2>2
  <2> QED
    BY <1>1, <2>1, <2>5, <2>6 DEF FreeOfOwn
<1>6. \/ Keeps(s, c, r) \/ OperatorCuts(s, c, r) \/ BlankDropped(s, c, r)
      \/ \E k \in 1 .. 4 : KeywordCuts(s, c, r, k)
  BY Zenon DEF Scanned, QuoteKept, QuotedKept, PieceKept
<1> QED
  BY <1>2, <1>3, <1>4, <1>5, <1>6

\* Nothing that is filled begins with a >; of the tokens a > by itself does, behind one that does not.
Unmarked(p) == \A i \in 1 .. Len(p) : p[i] = ">" => \E j \in 1 .. i - 1 : p[j] # Blank
Marked(toks) == \A k \in 1 .. Len(toks) :
                  Unmarked(toks[k]) \/ (toks[k] = <<">">> /\ (k > 1 => Unmarked(toks[k - 1])))

\* So it is with what a text begins with.
LEMMA UnmarkedPart ==
  ASSUME NEW p \in Texts, Unmarked(p), NEW n \in Nat, n <= Len(p)
  PROVE  Unmarked(SubSeq(p, 1, n))
<1> DEFINE g == SubSeq(p, 1, n)
<1>1. Len(g) = n /\ \A i \in 1 .. n : g[i] = p[i]
  BY FirstPart
<1>2. Len(p) \in Nat
  BY DEF Texts
<1> HIDE DEF g
<1>3. ASSUME NEW i \in 1 .. Len(g), g[i] = ">" PROVE \E j \in 1 .. i - 1 : g[j] # Blank
  <2>1. i \in 1 .. Len(p) /\ p[i] = ">"
    BY <1>1, <1>2, <1>3
  <2>2. PICK j \in 1 .. i - 1 : p[j] # Blank
    BY <2>1 DEF Unmarked
  <2>3. j \in 1 .. n
    BY <1>1, <1>3
  <2> QED
    BY <1>1, <2>2, <2>3
<1> QED
  BY <1>3 DEF Unmarked, g

\* One token more, and an operator behind it.
LEMMA MarkedMore ==
  ASSUME NEW toks \in Seq(Texts), Marked(toks), NEW x \in Texts, Unmarked(x)
  PROVE  Marked(Append(toks, x)) /\ \A c \in Words : Marked(Append(Append(toks, x), <<c>>)) \/ ~ (c \in Operators \cup Keywords)
<1> DEFINE l == Append(toks, x)
           n == Len(toks)
<1>1. l \in Seq(Texts) /\ Len(l) = n + 1 /\ n \in Nat /\ l[n + 1] = x /\ \A k \in 1 .. n : l[k] = toks[k]
  OBVIOUS
<1> HIDE DEF l
<1>2. \A k \in 1 .. n : Unmarked(toks[k]) \/ (toks[k] = <<">">> /\ (k > 1 => Unmarked(toks[k - 1])))
  BY DEF Marked
<1> HIDE DEF n
<1>3. Marked(l)
  <2> SUFFICES ASSUME NEW k \in 1 .. Len(l)
               PROVE  Unmarked(l[k]) \/ (l[k] = <<">">> /\ (k > 1 => Unmarked(l[k - 1])))
    BY DEF Marked
  <2>1. CASE k = n + 1
    BY <1>1, <2>1
  <2>2. CASE k # n + 1
    <3>1. k \in 1 .. n /\ (k > 1 => k - 1 \in 1 .. n)
      BY <1>1, <2>2
    <3> QED
      BY <1>1, <1>2, <3>1
  <2> QED
    BY <2>1, <2>2
<1>4. ASSUME NEW c \in Words, c \in Operators \cup Keywords PROVE Marked(Append(l, <<c>>))
  <2> DEFINE m == Append(l, <<c>>)
             e == <<c>>
  <2>1. e \in Texts /\ Len(e) = 1 /\ e[1] = c
    BY DEF Texts
  <2>2. Len(m) = n + 2 /\ m[n + 2] = e /\ m[n + 1] = x /\ \A k \in 1 .. n + 1 : m[k] = l[k]
    <3> HIDE DEF e
    <3>1. m = Append(l, e)
      BY DEF e
    <3> HIDE DEF m
    <3> QED BY <1>1, <2>1, <3>1
  <2>3. Unmarked(e) \/ e = <<">">>
    <3>1. CASE c = ">"
      BY <3>1
    <3>2. CASE c # ">"
      BY <2>1, <3>2 DEF Unmarked
    <3> QED
      BY <3>1, <3>2
  <2> HIDE DEF m, e
  <2>4. ASSUME NEW k \in 1 .. Len(m) PROVE Unmarked(m[k]) \/ (m[k] = <<">">> /\ (k > 1 => Unmarked(m[k - 1])))
    <3>1. CASE k = n + 2
      <4>1. k - 1 = n + 1
        BY <1>1, <3>1
      <4> QED
        BY <2>2, <2>3, <3>1, <4>1
    <3>2. CASE k # n + 2
      <4>1. k \in 1 .. n + 1 /\ (k > 1 => k - 1 \in 1 .. n + 1) /\ k \in 1 .. Len(l)
        BY <1>1, <2>2, <3>2
      <4>2. Unmarked(l[k]) \/ (l[k] = <<">">> /\ (k > 1 => Unmarked(l[k - 1])))
        BY <1>3, <4>1 DEF Marked
      <4> QED
        BY <2>2, <4>1, <4>2
    <3> QED
      BY <3>1, <3>2
  <2>5. Marked(m)
    BY <2>4 DEF Marked
  <2> QED
    BY <2>5 DEF m
<1> QED
  BY <1>3, <1>4 DEF l

\* A keyword is no >.
LEMMA MarkedKeyword ==
  ASSUME NEW toks \in Seq(Texts), Marked(toks), NEW c \in Words, c \in Keywords
  PROVE  Marked(Append(toks, <<c>>))
<1> DEFINE e == <<c>>
<1>1. e \in Texts /\ Len(e) = 1 /\ e[1] = c
  BY DEF Texts
<1>2. Unmarked(e)
  BY <1>1 DEF Unmarked, Keywords
<1> HIDE DEF e
<1> QED
  BY <1>1, <1>2, MarkedMore DEF e

\* A piece of a plain text leaves it so.
LEMMA MarksKept ==
  ASSUME NEW t \in Texts, NEW n \in Nat, n < Len(t), NEW s \in ScanStates, NEW r \in ScanStates, OneMore(t, n, s, r),
         AtStart(t, n, s), Unmarked(s.param), Marked(s.toks)
  PROVE  Unmarked(r.param) /\ Marked(r.toks)
<1> DEFINE c == t[n + 1]
           p == s.param
           x == Append(p, c)
<1>1. c \in Words /\ Scanned(s, c, r) /\ Place(t, n, s) /\ CountMeant(t, s, n)
  BY DEF OneMore, SpaceSoFar
<1>2. p \in Texts /\ s.toks \in Seq(Texts) /\ Len(p) \in Nat
  BY DEF ScanStates, Texts
<1>3. x \in Texts /\ Len(x) = Len(p) + 1 /\ x[Len(p) + 1] = c /\ \A i \in 1 .. Len(p) : x[i] = p[i]
  BY <1>1, <1>2 DEF Texts
<1>4. s.q_st = FALSE /\ c = ">" => s.char_count # 0
  BY <1>1 DEF Place, CountMeant, Operators
<1> HIDE DEF c, p, x
<1>5. ASSUME c = ">" => ~ Blanks(p) PROVE Unmarked(x)
  <2> SUFFICES ASSUME NEW i \in 1 .. Len(x), x[i] = ">" PROVE \E j \in 1 .. i - 1 : x[j] # Blank
    BY DEF Unmarked
  <2>1. CASE i \in 1 .. Len(p)
    <3>1. p[i] = ">"
      BY <1>3, <2>1
    <3>2. PICK j \in 1 .. i - 1 : p[j] # Blank
      BY <2>1, <3>1 DEF Unmarked, p
    <3> QED
      BY <1>2, <1>3, <2>1, <3>2
  <2>2. CASE i \notin 1 .. Len(p)
    <3>1. i = Len(p) + 1 /\ c = ">"
      BY <1>2, <1>3, <2>2
    <3>2. PICK j \in 1 .. Len(p) : p[j] # Blank
      BY <1>5, <3>1 DEF Blanks
    <3> QED
      BY <1>2, <1>3, <3>1, <3>2
  <2> QED
    BY <2>1, <2>2
<1>6. CASE Keeps(s, c, r)
  <2>1. r.param = x /\ r.toks = s.toks
    BY <1>6 DEF Keeps, x, p
  <2>2. ASSUME c = ">", Blanks(p) PROVE FALSE
    <3>1. s.q_st = FALSE
      BY <2>2 DEF AtStart, p
    <3>2. s.char_count # 0 /\ c \in Operators /\ c # Quote /\ c # Blank
      BY <1>4, <2>2, <3>1 DEF Operators, Quote, Blank
    <3>3. ~ QuoteKept(s, c, r) /\ ~ QuotedKept(s, c, r) /\ ~ PieceKept(s, c, r) /\ ~ BlankDropped(s, c, r)
      BY <3>1, <3>2 DEF QuoteKept, QuotedKept, PieceKept, BlankDropped
    <3>4. r.param # <<>>
      BY <1>3, <2>1
    <3>5. ~ OperatorCuts(s, c, r) /\ \A k \in 1 .. 4 : ~ KeywordCuts(s, c, r, k)
      BY <3>4 DEF OperatorCuts, KeywordCuts
    <3> QED
      BY <1>1, <3>3, <3>5 DEF Scanned
  <2> QED
    BY <1>5, <2>1, <2>2
<1>7. CASE OperatorCuts(s, c, r)
  <2>1. r.toks = Append(Append(s.toks, p), <<c>>) /\ r.param = <<>> /\ c \in Operators
    BY <1>7 DEF OperatorCuts, p
  <2>2. Unmarked(<<>>)
    BY DEF Unmarked
  <2>3. Marked(Append(Append(s.toks, p), <<c>>))
    BY <1>1, <1>2, <2>1, MarkedMore DEF p
  <2> QED
    BY <2>1, <2>2, <2>3
<1>8. CASE BlankDropped(s, c, r)
  BY <1>8 DEF BlankDropped
<1>9. ASSUME NEW k \in 1 .. 4, KeywordCuts(s, c, r, k) PROVE Unmarked(r.param) /\ Marked(r.toks)
  <2> DEFINE m == Len(x) - Len(Pattern[k])
             g == SubSeq(x, 1, m)
             a == IF m > 0 THEN Append(s.toks, g) ELSE s.toks
  <2>1. r.toks = Append(a, <<Found[k]>>) /\ r.param = <<>> /\ EndsWith(x, Pattern[k])
    BY <1>9 DEF KeywordCuts, x, p
  <2>2. Found[k] \in Keywords /\ Found[k] \in Words
    BY FoundIs DEF Words, Keywords
  <2>3. m \in Nat /\ m <= Len(x)
    <3>1. Len(Pattern[k]) \in Nat /\ Len(x) \in Nat /\ Len(Pattern[k]) <= Len(x)
      BY <1>2, <1>3, <2>1, PatternPieces DEF EndsWith
    <3> HIDE DEF x
    <3> QED
      BY <3>1
  <2>4. c # ">"
    <3>1. r.q_st = FALSE /\ c = (IF k = 4 THEN "fi" ELSE Blank)
      BY <1>1, <1>9, CutEnds
    <3> QED
      BY <3>1 DEF Blank
  <2>5. g \in Texts /\ Unmarked(g)
    <3>1. Unmarked(x)
      BY <1>5, <2>4
    <3> HIDE DEF m
    <3> QED BY <1>3, <2>3, <3>1, UnmarkedPart, FirstPart
  <2> HIDE DEF m, g
  <2>6. a \in Seq(Texts) /\ Marked(a)
    BY <1>2, <2>5, MarkedMore
  <2> HIDE DEF a
  <2>7. Unmarked(<<>>)
    BY DEF Unmarked
  <2>8. Marked(Append(a, <<Found[k]>>))
    BY <2>2, <2>6, MarkedKeyword
  <2> QED
    BY <2>1, <2>7, <2>8
<1>10. \/ Keeps(s, c, r) \/ OperatorCuts(s, c, r) \/ BlankDropped(s, c, r)
       \/ \E k \in 1 .. 4 : KeywordCuts(s, c, r, k)
  BY <1>1, Zenon DEF Scanned, QuoteKept, QuotedKept, PieceKept
<1> QED
  BY <1>6, <1>7, <1>8, <1>9, <1>10

\* No piece is one of those words.
WithoutOwn(t) == \A i \in 1 .. Len(t) : t[i] \notin Own
\* Cleaning brings none of those words.
LEMMA NotOwnTyped ==
  ASSUME NEW x \in Seq(NotOwn)
  PROVE  x \in Texts /\ cleanCmd(x) \in Seq(NotOwn)
<1>1. x \in Texts /\ Len(x) \in Nat
  BY DEF NotOwn, Texts
<1>2. CASE Blanks(x)
  <2>1. {i \in DOMAIN x : x[i] # Blank} = {}
    BY <1>1, <1>2 DEF Blanks, Texts
  <2> QED
    BY <1>1, <2>1 DEF cleanCmd
<1>3. CASE ~ Blanks(x)
  <2>1. PICK j \in 1 .. Len(x) : x[j] # Blank /\ \A i \in 1 .. j - 1 : x[i] = Blank
    BY <1>1, <1>3, FirstPiece
  <2>2. PICK b \in j .. Len(x) : cleanCmd(x) = SubSeq(x, j, b)
    BY <1>1, <2>1, CleanFrom
  <2>3. SubSeq(x, j, b) \in Seq(NotOwn)
    BY <1>1, <2>1, <2>2
  <2> QED
    BY <1>1, <2>2, <2>3
<1> QED
  BY <1>2, <1>3
\* No blanks at the ends.
IsClean(t) == t # <<>> => t[1] # Blank /\ t[Len(t)] # Blank

\* What parseCmd scans has no blanks at its ends.
LEMMA TypedIsClean ==
  ASSUME NEW x \in Texts
  PROVE  cleanCmd(x) \in Texts /\ IsClean(cleanCmd(x))
<1>1. Len(x) \in Nat
  BY DEF Texts
<1>2. CASE Blanks(x)
  <2>1. {i \in DOMAIN x : x[i] # Blank} = {}
    BY <1>1, <1>2 DEF Blanks, Texts
  <2> QED
    BY <2>1, CleanTyped DEF cleanCmd, IsClean
<1>3. CASE ~ Blanks(x)
  <2>1. PICK j \in 1 .. Len(x) : x[j] # Blank /\ \A i \in 1 .. j - 1 : x[i] = Blank
    BY <1>3, FirstPiece
  <2>2. PICK b \in j .. Len(x) : cleanCmd(x) = SubSeq(x, j, b) /\ x[b] # Blank
    BY <2>1, CleanFrom
  <2> DEFINE y == SubSeq(x, j, b)
  <2>3. Len(y) = b - j + 1 /\ y[1] = x[j] /\ y[b - j + 1] = x[b]
    <3>1. /\ j \in Nat /\ b \in Nat /\ 1 <= j /\ j <= b /\ b <= Len(x) /\ x \in Seq(Words)
      BY <1>1, <2>1, <2>2 DEF Texts
    <3>2. Len(y) = b - j + 1 /\ \A i \in 1 .. b - j + 1 : y[i] = x[j + i - 1]
      BY <1>1, <3>1
    <3>3. 1 \in 1 .. b - j + 1 /\ b - j + 1 \in 1 .. b - j + 1 /\ j + 1 - 1 = j /\ j + (b - j + 1) - 1 = b
      BY <3>1
    <3> HIDE DEF y
    <3> QED
      BY <3>2, <3>3
  <2> QED
    BY <2>1, <2>2, <2>3, CleanTyped DEF IsClean
<1> QED
  BY <1>2, <1>3

\* The word alias and a blank, which a line of set must not hold.
LEMMA AliasOccurs ==
  ASSUME NEW x \in Texts
  PROVE  Occurrences(<<"alias", Blank>>, x) # {} <=> \E i \in Nat : i \in 1 .. Len(x) - 1 /\ x[i] = "alias" /\ x[i + 1] = Blank
<1> DEFINE w == <<"alias", Blank>>
<1>1. Len(x) \in Nat /\ x \in Seq(Words) /\ Len(w) = 2
  BY DEF Texts
<1>2. ASSUME NEW i \in 1 .. Len(x) - 1 PROVE SubSeq(x, i, i + 2 - 1) = w <=> x[i] = "alias" /\ x[i + 1] = Blank
  <2> DEFINE y == SubSeq(x, i, i + 2 - 1)
  <2>1. i \in Nat /\ i + 2 - 1 = i + 1 /\ 1 <= i /\ i + 1 <= Len(x)
    BY <1>1
  <2>2. Len(y) = 2 /\ y \in Seq(Words) /\ y[1] = x[i] /\ y[2] = x[i + 1]
    <3>1. y \in Seq(Words) /\ Len(y) = 2 /\ \A k \in 1 .. 2 : y[k] = x[i + k - 1]
      <4> DEFINE o == i + 1
                 d == SubSeq(x, i, o)
      <4>1. o \in Nat /\ i <= o /\ o <= Len(x) /\ o - i + 1 = 2 /\ i \in 1 .. Len(x) /\ o \in 1 .. Len(x)
        BY <1>1, <2>1
      <4> HIDE DEF o
      <4>2. d \in Seq(Words) /\ Len(d) = o - i + 1 /\ \A k \in 1 .. o - i + 1 : d[k] = x[i + k - 1]
        BY <1>1, <2>1, <4>1
      <4>3. y = d
        BY <2>1 DEF o
      <4> HIDE DEF d, y
      <4> QED
        BY <4>1, <4>2, <4>3
    <3>2. i + 1 - 1 = i /\ i + 2 - 1 = i + 1 /\ 1 \in 1 .. 2 /\ 2 \in 1 .. 2
      BY <2>1
    <3> HIDE DEF y
    <3> QED
      BY <3>1, <3>2
  <2> HIDE DEF y
  <2>3. w[1] = "alias" /\ w[2] = Blank /\ w \in Seq(Words)
    BY DEF Words
  <2>4. y = w => x[i] = "alias" /\ x[i + 1] = Blank
    BY <2>2, <2>3
  <2>5. ASSUME x[i] = "alias", x[i + 1] = Blank PROVE y = w
    <3>1. \A k \in 1 .. Len(y) : y[k] = w[k]
      BY <2>2, <2>3, <2>5
    <3> HIDE DEF w
    <3> QED
      BY <1>1, <2>2, <2>3, <3>1, SameText
  <2> QED
    BY <2>4, <2>5 DEF y
<1>3. Occurrences(w, x) = {i \in 1 .. Len(x) - 2 + 1 : SubSeq(x, i, i + 2 - 1) = w}
  BY <1>1 DEF Occurrences
<1>4. Len(x) - 2 + 1 = Len(x) - 1 /\ \A i \in 1 .. Len(x) - 1 : i \in Nat
  BY <1>1
<1> HIDE DEF w
<1>5. Occurrences(w, x) # {} <=> \E i \in 1 .. Len(x) - 1 : SubSeq(x, i, i + 2 - 1) = w
  BY <1>3, <1>4
<1> QED
  BY <1>2, <1>4, <1>5 DEF w
=============================================================================
