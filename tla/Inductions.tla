----------------------------- MODULE Inductions -----------------------------
(***************************************************************************)
(* Induction for the proofs of this project.  The library's induction      *)
(* theorems take an operator as parameter, which the provers used here     *)
(* cannot instantiate; here induction is stated for a set of numbers, and  *)
(* recursion for a function that makes the steps.  Both rest on the        *)
(* library's theorem that < is well-founded on Nat.                        *)
(***************************************************************************)
EXTENDS Integers, SequencesExt, FiniteSetTheorems, WellFoundedInduction, TLAPS

Less == {p \in Nat \X Nat : p[1] < p[2]}

LEMMA LessIsWellFounded == IsWellFoundedOn(Less, Nat)
BY NatLessThanWellFounded DEF OpToRel, Less

(* A set of numbers that is not empty has a least one.                     *)
LEMMA LeastNumber ==
  ASSUME NEW T, T \subseteq Nat, T # {}
  PROVE  \E x \in T : \A y \in T : x <= y
<1>1. PICK x \in T : \A y \in T : ~ (<<y, x>> \in Less)
  BY LessIsWellFounded, WFMin
<1>2. ASSUME NEW y \in T PROVE x <= y
  <2>1. x \in Nat /\ y \in Nat
    OBVIOUS
  <2>2. ~ (<<y, x>> \in Less)
    BY <1>1
  <2>3. ~ (y < x)
    BY <2>1, <2>2 DEF Less
  <2> QED
    BY <2>1, <2>3
<1> QED
  BY <1>2

(* A set that has 0 and, with a number, the next one, has every number.    *)
LEMMA Induction ==
  ASSUME NEW S, 0 \in S, \A n \in Nat : n \in S => n + 1 \in S
  PROVE  \A n \in Nat : n \in S
<1> DEFINE T == Nat \ S
<1> SUFFICES ASSUME T # {} PROVE FALSE
  OBVIOUS
<1>1. PICK x \in T : \A y \in T : x <= y
  BY LeastNumber
<1>2. x - 1 \in Nat
  BY <1>1
<1>3. x - 1 \in S
  BY <1>1, <1>2
<1> QED
  BY <1>1, <1>2, <1>3

(* A first value and a function for the steps define a sequence of values. *)
Unfolds(f, m, a, F) == f[0] = a /\ \A i \in 0 .. m - 1 : f[i + 1] = F[<<f[i], i + 1>>]

LEMMA Recursion ==
  ASSUME NEW X, NEW a \in X, NEW n \in Nat, NEW F \in [X \X (1 .. n) -> X]
  PROVE  \E f \in [0 .. n -> X] : Unfolds(f, n, a, F)
<1> DEFINE P(m) == m <= n => \E f \in [0 .. m -> X] : Unfolds(f, m, a, F)
           S == {m \in Nat : P(m)}
<1>1. 0 \in S
  <2>1. [i \in 0 .. 0 |-> a] \in [0 .. 0 -> X] /\ Unfolds([i \in 0 .. 0 |-> a], 0, a, F)
    BY DEF Unfolds
  <2> QED
    BY <2>1
<1>2. ASSUME NEW m \in Nat, P(m), m + 1 <= n
      PROVE  \E f \in [0 .. m + 1 -> X] : Unfolds(f, m + 1, a, F)
  <2>1. PICK f \in [0 .. m -> X] : Unfolds(f, m, a, F)
    BY <1>2
  <2> DEFINE g == [i \in 0 .. m + 1 |-> IF i = m + 1 THEN F[<<f[m], m + 1>>] ELSE f[i]]
  <2>2. f[m] \in X /\ m + 1 \in 1 .. n
    BY <1>2, <2>1
  <2>3. F[<<f[m], m + 1>>] \in X
    BY <2>2
  <2>4. g \in [0 .. m + 1 -> X]
    BY <2>1, <2>3
  <2>5. g[0] = a
    BY <2>1 DEF Unfolds
  <2>6. ASSUME NEW i \in 0 .. (m + 1) - 1 PROVE g[i + 1] = F[<<g[i], i + 1>>]
    <3>1. g[i] = f[i]
      OBVIOUS
    <3>2. CASE i = m
      <4>1. g[m + 1] = F[<<f[m], m + 1>>]
        OBVIOUS
      <4> HIDE DEF g
      <4> QED BY <3>1, <3>2, <4>1
    <3>3. CASE i \in 0 .. m - 1
      <4>1. g[i + 1] = f[i + 1]
        BY <3>3
      <4>2. f[i + 1] = F[<<f[i], i + 1>>]
        BY <2>1, <3>3 DEF Unfolds
      <4> HIDE DEF g
      <4> QED BY <3>1, <4>1, <4>2
    <3> QED
      BY <3>2, <3>3
  <2>7. Unfolds(g, m + 1, a, F)
    <3> HIDE DEF g
    <3> QED BY <2>5, <2>6 DEF Unfolds
  <2> HIDE DEF g
  <2> QED
    BY <2>4, <2>7
<1>3. \A m \in Nat : m \in S => m + 1 \in S
  <2> SUFFICES ASSUME NEW m \in Nat, m \in S PROVE P(m + 1)
    OBVIOUS
  <2> QED
    BY <1>2
<1>4. n \in S
  <2> HIDE DEF S
  <2> QED BY <1>1, <1>3, Induction
<1> QED
  BY <1>4

(* The same, as a function that is defined by recursion is written.        *)
Recurs(f, n, a, F) == \A i \in 0 .. n : f[i] = IF i = 0 THEN a ELSE F[<<f[i - 1], i>>]

LEMMA RecursiveFunction ==
  ASSUME NEW X, NEW a \in X, NEW n \in Nat, NEW F \in [X \X (1 .. n) -> X]
  PROVE  \E f \in [0 .. n -> X] : Recurs(f, n, a, F)
<1>1. PICK f \in [0 .. n -> X] : Unfolds(f, n, a, F)
  BY Recursion
<1>2. ASSUME NEW i \in 0 .. n PROVE f[i] = IF i = 0 THEN a ELSE F[<<f[i - 1], i>>]
  <2>1. CASE i = 0
    BY <1>1, <2>1 DEF Unfolds
  <2>2. CASE i # 0
    <3>1. i - 1 \in 0 .. n - 1 /\ (i - 1) + 1 = i
      BY <2>2
    <3>2. f[(i - 1) + 1] = F[<<f[i - 1], (i - 1) + 1>>]
      BY <1>1, <3>1 DEF Unfolds
    <3> QED
      BY <2>2, <3>1, <3>2
  <2> QED
    BY <2>1, <2>2
<1> QED
  BY <1>1, <1>2 DEF Recurs

(* The least and the greatest of a set of numbers.                         *)
LEMMA MinIsLeast ==
  ASSUME NEW T, T \subseteq Nat, T # {}
  PROVE  Min(T) \in T /\ \A y \in T : Min(T) <= y
BY LeastNumber DEF Min

LEMMA MaxIsGreatest ==
  ASSUME NEW T, T \subseteq Nat, T # {}, NEW b \in Nat, \A y \in T : y <= b
  PROVE  Max(T) \in T /\ \A y \in T : Max(T) >= y
<1> DEFINE U == {b - y : y \in T}
<1>1. U \subseteq Nat /\ U # {}
  <2>1. \A y \in T : b - y \in Nat
    OBVIOUS
  <2>2. PICK y \in T : TRUE
    OBVIOUS
  <2>3. b - y \in U
    BY <2>2
  <2>4. U \subseteq Nat
    BY <2>1
  <2> QED
    BY <2>3, <2>4
<1>2. PICK u \in U : \A y \in U : u <= y
  <2> HIDE DEF U
  <2> QED BY <1>1, LeastNumber
<1>3. PICK x \in T : u = b - x
  BY <1>2
<1>4. ASSUME NEW y \in T PROVE x >= y
  <2>1. u <= b - y
    BY <1>2
  <2> QED
    BY <1>3, <2>1
<1> QED
  BY <1>4 DEF Max
-----------------------------------------------------------------------------
(* FlattenSeq.                                                             *)

\* The values of the recursive function FlattenSeq(s) is the last one of.
Flattens(f, s) == f[1] = s[1] /\ \A i \in 1 .. Len(s) - 1 : f[i + 1] = f[i] \o s[i + 1]

LEMMA FlattensTyped ==
  ASSUME NEW V, NEW s \in Seq(Seq(V)), s # <<>>, NEW f, Flattens(f, s)
  PROVE  \A i \in 1 .. Len(s) : f[i] \in Seq(V)
<1> DEFINE S == {m \in Nat : m + 1 \in 1 .. Len(s) => f[m + 1] \in Seq(V)}
<1>1. Len(s) \in Nat \ {0} /\ \A i \in 1 .. Len(s) : s[i] \in Seq(V)
  OBVIOUS
<1>2. 0 \in S
  BY <1>1 DEF Flattens
<1>3. ASSUME NEW m \in Nat, m + 1 \in 1 .. Len(s) => f[m + 1] \in Seq(V), (m + 1) + 1 \in 1 .. Len(s)
      PROVE  f[(m + 1) + 1] \in Seq(V)
  <2>1. m + 1 \in 1 .. Len(s) - 1 /\ m + 1 \in 1 .. Len(s)
    BY <1>1, <1>3
  <2>2. f[(m + 1) + 1] = f[m + 1] \o s[(m + 1) + 1]
    BY <2>1 DEF Flattens
  <2> QED
    BY <1>1, <1>3, <2>1, <2>2
<1>4. \A m \in Nat : m \in S => m + 1 \in S
  BY <1>3
<1>5. \A m \in Nat : m \in S
  <2> HIDE DEF S
  <2> QED BY <1>2, <1>4, Induction
<1>6. ASSUME NEW i \in 1 .. Len(s) PROVE f[i] \in Seq(V)
  <2>1. i - 1 \in Nat /\ (i - 1) + 1 = i
    BY <1>1
  <2>2. i - 1 \in S
    BY <1>5, <2>1
  <2> QED
    BY <2>1, <2>2
<1> QED
  BY <1>6

LEMMA Flattened ==
  ASSUME NEW V, NEW s \in Seq(Seq(V)), s # <<>>
  PROVE  \E f : Flattens(f, s) /\ FlattenSeq(s) = f[Len(s)]
<1> DEFINE n == Len(s)
           F == [p \in Seq(V) \X (1 .. n) |-> p[1] \o s[p[2]]]
<1>1. n \in Nat \ {0} /\ \A i \in 1 .. n : s[i] \in Seq(V)
  OBVIOUS
<1>2. F \in [Seq(V) \X (1 .. n) -> Seq(V)]
  BY <1>1
<1>3. \A q \in Seq(V), i \in 1 .. n : F[<<q, i>>] = q \o s[i]
  OBVIOUS
<1>4. <<>> \in Seq(V)
  OBVIOUS
<1> HIDE DEF F
<1>5. PICK f \in [0 .. n -> Seq(V)] : Unfolds(f, n, <<>>, F)
  <2> HIDE DEF n
  <2> QED BY <1>1, <1>2, <1>4, Recursion
<1> DEFINE g == [i \in 1 .. n |-> f[i]]
           h == [i \in 1 .. n |-> IF i = 1 THEN s[i] ELSE g[i - 1] \o s[i]]
<1>6. ASSUME NEW i \in 1 .. n PROVE g[i] = h[i]
  <2>1. f[i - 1] \in Seq(V) /\ f[i] = F[<<f[i - 1], i>>]
    <3>1. i - 1 \in 0 .. n /\ i - 1 \in 0 .. n - 1 /\ (i - 1) + 1 = i
      BY <1>1
    <3>2. f[(i - 1) + 1] = F[<<f[i - 1], (i - 1) + 1>>]
      BY <1>5, <3>1 DEF Unfolds
    <3> QED
      BY <3>1, <3>2
  <2>2. f[i] = f[i - 1] \o s[i]
    BY <1>3, <2>1
  <2>3. CASE i = 1
    <3>1. f[0] = <<>> /\ i - 1 = 0
      BY <1>5, <2>3 DEF Unfolds
    <3>2. f[1] = <<>> \o s[1]
      <4> HIDE DEF n, g, h
      <4> QED BY <2>2, <2>3, <3>1
    <3>3. <<>> \o s[1] = s[1]
      BY <1>1, <2>3
    <3> QED
      BY <2>3, <3>2, <3>3
  <2>4. CASE i # 1
    <3>1. i - 1 \in 1 .. n
      BY <1>1, <2>4
    <3>2. g[i - 1] = f[i - 1] /\ g[i] = f[i]
      BY <3>1
    <3>3. h[i] = g[i - 1] \o s[i]
      BY <2>4
    <3> HIDE DEF g, h
    <3> QED BY <2>2, <3>2, <3>3
  <2> QED
    BY <2>3, <2>4
<1>7. g = h
  BY <1>6
<1> DEFINE c == CHOOSE x : x = [i \in 1 .. Len(s) |-> IF i = 1 THEN s[i] ELSE x[i - 1] \o s[i]]
<1>8. c = [i \in 1 .. Len(s) |-> IF i = 1 THEN s[i] ELSE c[i - 1] \o s[i]]
  <2> HIDE DEF g
  <2> QED BY <1>7
<1>9. FlattenSeq(s) = c[Len(s)]
  BY <1>1 DEF FlattenSeq
<1> HIDE DEF c
<1>10. c[1] = s[1]
  BY <1>1, <1>8
<1>11. ASSUME NEW i \in 1 .. Len(s) - 1 PROVE c[i + 1] = c[i] \o s[i + 1]
  <2>1. i + 1 \in 1 .. Len(s) /\ i + 1 # 1 /\ (i + 1) - 1 = i
    BY <1>1
  <2>2. c[i + 1] = IF i + 1 = 1 THEN s[i + 1] ELSE c[(i + 1) - 1] \o s[i + 1]
    BY <1>8, <2>1
  <2> QED
    BY <2>1, <2>2
<1> QED
  BY <1>9, <1>10, <1>11 DEF Flattens

LEMMA FlattensOnce ==
  ASSUME NEW V, NEW s \in Seq(Seq(V)), s # <<>>, NEW x \in Seq(V),
         NEW f, NEW g, Flattens(f, s), Flattens(g, Append(s, x))
  PROVE  \A i \in 1 .. Len(s) : f[i] = g[i]
<1> DEFINE t == Append(s, x)
           S == {m \in Nat : m + 1 \in 1 .. Len(s) => f[m + 1] = g[m + 1]}
<1>1. Len(s) \in Nat \ {0} /\ Len(t) = Len(s) + 1
  OBVIOUS
<1>2. \A i \in 1 .. Len(s) : t[i] = s[i]
  OBVIOUS
<1>3. Flattens(g, t)
  OBVIOUS
<1> HIDE DEF t
<1>4. 0 \in S
  BY <1>1, <1>2, <1>3 DEF Flattens
<1>5. ASSUME NEW m \in Nat, m + 1 \in 1 .. Len(s) => f[m + 1] = g[m + 1], (m + 1) + 1 \in 1 .. Len(s)
      PROVE  f[(m + 1) + 1] = g[(m + 1) + 1]
  <2>1. m + 1 \in 1 .. Len(s) - 1 /\ m + 1 \in 1 .. Len(t) - 1
    BY <1>1, <1>5
  <2>2. f[(m + 1) + 1] = f[m + 1] \o s[(m + 1) + 1]
    BY <2>1 DEF Flattens
  <2>3. g[(m + 1) + 1] = g[m + 1] \o t[(m + 1) + 1]
    BY <1>3, <2>1 DEF Flattens
  <2>4. m + 1 \in 1 .. Len(s)
    BY <1>1, <2>1
  <2> QED
    BY <1>2, <1>5, <2>2, <2>3, <2>4
<1>6. \A m \in Nat : m \in S => m + 1 \in S
  BY <1>5
<1>7. \A m \in Nat : m \in S
  <2> HIDE DEF S
  <2> QED BY <1>4, <1>6, Induction
<1>8. ASSUME NEW i \in 1 .. Len(s) PROVE f[i] = g[i]
  <2>1. i - 1 \in Nat /\ (i - 1) + 1 = i
    BY <1>1
  <2>2. i - 1 \in S
    BY <1>7, <2>1
  <2> QED
    BY <2>1, <2>2
<1> QED
  BY <1>8

(* Flattening one sequence more adds it at the end.                        *)
LEMMA FlattenAppend ==
  ASSUME NEW V, NEW s \in Seq(Seq(V)), NEW x \in Seq(V)
  PROVE  /\ FlattenSeq(s) \in Seq(V)
         /\ FlattenSeq(Append(s, x)) = FlattenSeq(s) \o x
<1> DEFINE t == Append(s, x)
<1>1. t \in Seq(Seq(V)) /\ t # <<>> /\ Len(t) = Len(s) + 1 /\ Len(s) \in Nat /\ t[Len(s) + 1] = x
  <2>1. t \in Seq(Seq(V)) /\ Len(t) = Len(s) + 1 /\ Len(s) \in Nat /\ t[Len(s) + 1] = x
    OBVIOUS
  <2>2. t # <<>>
    <3> HIDE DEF t
    <3>1. Len(<<>>) = 0
      OBVIOUS
    <3> QED
      BY <2>1, <3>1
  <2> HIDE DEF t
  <2> QED
    BY <2>1, <2>2
<1> HIDE DEF t
<1>2. PICK g : Flattens(g, t) /\ FlattenSeq(t) = g[Len(t)]
  BY <1>1, Flattened
<1>3. CASE s = <<>>
  <2>1. FlattenSeq(s) = <<>> /\ <<>> \o x = x /\ <<>> \in Seq(V) /\ Len(s) = 0
    BY <1>3 DEF FlattenSeq
  <2>2. g[1] = x
    BY <1>1, <1>2, <2>1 DEF Flattens
  <2> QED
    BY <1>1, <1>2, <2>1, <2>2 DEF t
<1>4. CASE s # <<>>
  <2>1. PICK f : Flattens(f, s) /\ FlattenSeq(s) = f[Len(s)]
    BY <1>4, Flattened
  <2>2. Len(s) \in 1 .. Len(s) /\ Len(s) \in 1 .. Len(t) - 1
    BY <1>1, <1>4
  <2>3. f[Len(s)] = g[Len(s)]
    BY <1>2, <1>4, <2>1, <2>2, FlattensOnce DEF t
  <2>4. f[Len(s)] \in Seq(V)
    BY <1>4, <2>1, <2>2, FlattensTyped
  <2>5. g[Len(s) + 1] = g[Len(s)] \o x
    BY <1>1, <1>2, <2>2 DEF Flattens
  <2> QED
    BY <1>1, <1>2, <2>1, <2>3, <2>4, <2>5 DEF t
<1> QED
  BY <1>3, <1>4
-----------------------------------------------------------------------------
(* Sums over finite sets, as MapThenSumSet takes them.                     *)

\* f[T] is the sum of g over T, for each part T of S.
Sums(f, g, S) == \A T \in SUBSET S : f[T] = IF T = {} THEN 0
                                            ELSE LET x == CHOOSE x \in T : TRUE IN g[x] + f[T \ {x}]

LEMMA OneLess ==
  ASSUME NEW S, IsFiniteSet(S), NEW T \in SUBSET S, T # {}
  PROVE  LET x == CHOOSE x \in T : TRUE
         IN  /\ x \in T /\ x \in S /\ T \ {x} \in SUBSET S
             /\ Cardinality(T) \in Nat /\ Cardinality(T \ {x}) \in Nat
             /\ Cardinality(T \ {x}) = Cardinality(T) - 1
<1> DEFINE x == CHOOSE x \in T : TRUE
<1>1. x \in T
  OBVIOUS
<1>2. IsFiniteSet(T)
  BY FS_Subset
<1> HIDE DEF x
<1>3. IsFiniteSet(T \ {x}) /\ Cardinality(T \ {x}) = Cardinality(T) - 1
  BY <1>1, <1>2, FS_RemoveElement
<1>4. Cardinality(T) \in Nat /\ Cardinality(T \ {x}) \in Nat
  BY <1>2, <1>3, FS_CardinalityType
<1> QED
  BY <1>1, <1>3, <1>4 DEF x

LEMMA SumExists ==
  ASSUME NEW S, IsFiniteSet(S), NEW g \in [S -> Nat]
  PROVE  \E f \in [SUBSET S -> Nat] : Sums(f, g, S)
<1> DEFINE U(n) == {T \in SUBSET S : Cardinality(T) <= n}
           x(T) == CHOOSE x \in T : TRUE
           P(n) == \E f \in [SUBSET S -> Nat] :
                     \A T \in U(n) : f[T] = IF T = {} THEN 0 ELSE g[x(T)] + f[T \ {x(T)}]
           Q == {n \in Nat : P(n)}
<1>1. \A T \in SUBSET S : T # {} => /\ x(T) \in T /\ x(T) \in S /\ T \ {x(T)} \in SUBSET S
                                    /\ Cardinality(T) \in Nat /\ Cardinality(T \ {x(T)}) \in Nat
                                    /\ Cardinality(T \ {x(T)}) = Cardinality(T) - 1
  BY OneLess
<1> HIDE DEF x
<1>2. P(0)
  <2> DEFINE f == [T \in SUBSET S |-> 0]
  <2>1. f \in [SUBSET S -> Nat]
    OBVIOUS
  <2>2. ASSUME NEW T \in U(0) PROVE T = {} /\ f[T] = 0
    <3>1. T \in SUBSET S /\ Cardinality(T) <= 0
      OBVIOUS
    <3>2. T # {} => Cardinality(T) \in Nat /\ Cardinality(T) - 1 \in Nat
      BY <1>1, <3>1
    <3>3. T = {}
      BY <3>1, <3>2
    <3> QED
      BY <3>1, <3>3
  <2> QED
    BY <2>1, <2>2
<1>3. ASSUME NEW n \in Nat, P(n) PROVE P(n + 1)
  <2>1. PICK f \in [SUBSET S -> Nat] : \A T \in U(n) : f[T] = IF T = {} THEN 0 ELSE g[x(T)] + f[T \ {x(T)}]
    BY <1>3
  <2> DEFINE h == [T \in SUBSET S |-> IF T = {} THEN 0 ELSE IF T \in U(n) THEN f[T] ELSE g[x(T)] + f[T \ {x(T)}]]
  <2>2. h \in [SUBSET S -> Nat]
    <3>1. ASSUME NEW T \in SUBSET S, T # {} PROVE g[x(T)] + f[T \ {x(T)}] \in Nat
      <4>1. g[x(T)] \in Nat /\ f[T \ {x(T)}] \in Nat
        BY <1>1, <3>1
      <4> QED
        BY <4>1
    <3> HIDE DEF U
    <3> QED BY <3>1
  <2>3. \A T \in U(n) : h[T] = f[T]
    BY <2>1
  <2>4. ASSUME NEW T \in U(n + 1), T # {} PROVE h[T] = g[x(T)] + h[T \ {x(T)}]
    <3>1. T \in SUBSET S /\ T \ {x(T)} \in U(n)
      BY <1>1, <2>4
    <3>2. h[T \ {x(T)}] = f[T \ {x(T)}]
      BY <2>3, <3>1
    <3>3. h[T] = IF T \in U(n) THEN f[T] ELSE g[x(T)] + f[T \ {x(T)}]
      BY <2>4, <3>1
    <3>4. T \in U(n) => f[T] = g[x(T)] + f[T \ {x(T)}]
      BY <2>1, <2>4
    <3> HIDE DEF h, U
    <3> QED BY <3>2, <3>3, <3>4
  <2>5. ASSUME NEW T \in U(n + 1), T = {} PROVE h[T] = 0
    BY <2>5
  <2> HIDE DEF h, U
  <2> QED
    BY <2>2, <2>4, <2>5
<1>4. \A n \in Nat : n \in Q
  <2>1. 0 \in Q /\ \A n \in Nat : n \in Q => n + 1 \in Q
    <3> HIDE DEF P
    <3> QED BY <1>2, <1>3
  <2> HIDE DEF Q
  <2> QED
    BY <2>1, Induction
<1>5. Cardinality(S) \in Nat
  BY FS_CardinalityType
<1>6. P(Cardinality(S))
  <2> HIDE DEF P
  <2> QED BY <1>4, <1>5
<1>7. \A T \in SUBSET S : T \in U(Cardinality(S))
  BY FS_Subset
<1> HIDE DEF U
<1> QED
  BY <1>6, <1>7 DEF Sums, x

LEMMA SumTyped ==
  ASSUME NEW S, IsFiniteSet(S), NEW g \in [S -> Nat], NEW f, Sums(f, g, S)
  PROVE  \A T \in SUBSET S : f[T] \in Nat
<1> DEFINE c(T) == CHOOSE x \in T : TRUE
           P(n) == \A T \in SUBSET S : Cardinality(T) <= n => f[T] \in Nat
           Q == {n \in Nat : P(n)}
<1>1. \A T \in SUBSET S : T # {} => /\ c(T) \in T /\ c(T) \in S /\ T \ {c(T)} \in SUBSET S
                                    /\ Cardinality(T) \in Nat /\ Cardinality(T \ {c(T)}) \in Nat
                                    /\ Cardinality(T \ {c(T)}) = Cardinality(T) - 1
  BY OneLess
<1>2. \A T \in SUBSET S : f[T] = IF T = {} THEN 0 ELSE g[c(T)] + f[T \ {c(T)}]
  BY DEF Sums
<1> HIDE DEF c
<1>3. {} \in SUBSET S
  OBVIOUS
<1>4. f[{}] = 0
  BY <1>2, <1>3
<1>5. P(0)
  <2> SUFFICES ASSUME NEW T \in SUBSET S, Cardinality(T) <= 0 PROVE f[T] \in Nat
    OBVIOUS
  <2>1. T # {} => Cardinality(T) \in Nat /\ Cardinality(T) - 1 \in Nat
    BY <1>1
  <2>2. T = {}
    BY <2>1
  <2>3. f[T] = f[{}]
    BY <2>2
  <2> QED
    BY <1>4, <2>3
<1>6. ASSUME NEW n \in Nat, P(n) PROVE P(n + 1)
  <2> SUFFICES ASSUME NEW T \in SUBSET S, Cardinality(T) <= n + 1 PROVE f[T] \in Nat
    OBVIOUS
  <2>1. CASE T = {}
    <3>1. f[T] = f[{}]
      BY <2>1
    <3> QED
      BY <1>4, <3>1
  <2>2. CASE T # {}
    <3>1. g[c(T)] \in Nat /\ f[T] = g[c(T)] + f[T \ {c(T)}]
      BY <1>1, <1>2, <2>2
    <3>2. Cardinality(T \ {c(T)}) <= n
      BY <1>1, <2>2
    <3>3. f[T \ {c(T)}] \in Nat
      BY <1>1, <1>6, <2>2, <3>2
    <3> QED
      BY <3>1, <3>3
  <2> QED
    BY <2>1, <2>2
<1>7. \A n \in Nat : n \in Q
  <2>1. 0 \in Q /\ \A n \in Nat : n \in Q => n + 1 \in Q
    <3> HIDE DEF P
    <3> QED BY <1>5, <1>6
  <2> HIDE DEF Q
  <2> QED
    BY <2>1, Induction
<1> SUFFICES ASSUME NEW T \in SUBSET S PROVE f[T] \in Nat
  OBVIOUS
<1>8. Cardinality(T) \in Nat
  BY FS_Subset, FS_CardinalityType
<1>9. P(Cardinality(T))
  <2> HIDE DEF P
  <2> QED BY <1>7, <1>8
<1> QED
  BY <1>8, <1>9

LEMMA SumAdds ==
  ASSUME NEW S, IsFiniteSet(S), NEW g \in [S -> Nat], NEW f, Sums(f, g, S)
  PROVE  /\ f[{}] = 0
         /\ \A T \in SUBSET S, x \in S : x \notin T => f[T \cup {x}] = f[T] + g[x]
<1> DEFINE c(T) == CHOOSE x \in T : TRUE
           P(n) == \A T \in SUBSET S, x \in S : Cardinality(T) <= n /\ x \notin T => f[T \cup {x}] = f[T] + g[x]
           Q == {n \in Nat : P(n)}
<1>1. \A T \in SUBSET S : T # {} => /\ c(T) \in T /\ c(T) \in S /\ T \ {c(T)} \in SUBSET S
                                    /\ Cardinality(T) \in Nat /\ Cardinality(T \ {c(T)}) \in Nat
                                    /\ Cardinality(T \ {c(T)}) = Cardinality(T) - 1
  BY OneLess
<1>2. \A T \in SUBSET S : f[T] = IF T = {} THEN 0 ELSE g[c(T)] + f[T \ {c(T)}]
  BY DEF Sums
<1> HIDE DEF c
<1>3. f[{}] = 0
  BY <1>2
<1>4. \A T \in SUBSET S : f[T] \in Nat
  BY SumTyped
<1>5. \A y \in S : g[y] \in Nat
  OBVIOUS
<1>6. ASSUME NEW T \in SUBSET S, NEW x \in S, x \notin T, c(T \cup {x}) = x
      PROVE  f[T \cup {x}] = f[T] + g[x]
  <2>1. T \cup {x} \in SUBSET S /\ T \cup {x} # {} /\ (T \cup {x}) \ {x} = T
    BY <1>6
  <2>2. f[T \cup {x}] = g[x] + f[T]
    BY <1>2, <1>6, <2>1
  <2> QED
    BY <1>4, <1>5, <2>2
<1>7. P(0)
  <2> SUFFICES ASSUME NEW T \in SUBSET S, NEW x \in S, Cardinality(T) <= 0, x \notin T
               PROVE  f[T \cup {x}] = f[T] + g[x]
    OBVIOUS
  <2>1. T = {}
    <3>1. T # {} => Cardinality(T) \in Nat /\ Cardinality(T) - 1 \in Nat
      BY <1>1
    <3> QED
      BY <3>1
  <2>2. c(T \cup {x}) = x
    <3>1. T \cup {x} = {x} /\ {x} \in SUBSET S /\ {x} # {}
      BY <2>1
    <3>2. c({x}) \in {x}
      BY <1>1, <3>1
    <3>3. c(T \cup {x}) = c({x})
      BY <3>1
    <3> QED
      BY <3>2, <3>3
  <2> QED
    BY <1>6, <2>2
<1>8. ASSUME NEW n \in Nat, P(n) PROVE P(n + 1)
  <2> SUFFICES ASSUME NEW T \in SUBSET S, NEW x \in S, Cardinality(T) <= n + 1, x \notin T
               PROVE  f[T \cup {x}] = f[T] + g[x]
    OBVIOUS
  <2> DEFINE V == T \cup {x}
             y == c(V)
  <2>1. V \in SUBSET S /\ V # {} /\ y \in V
    <3>1. V \in SUBSET S /\ V # {}
      OBVIOUS
    <3> HIDE DEF V
    <3> QED BY <1>1, <3>1
  <2>2. CASE y = x
    BY <1>6, <2>2
  <2>3. CASE y # x
    <3> DEFINE R == T \ {y}
    <3>1. y \in T /\ y \in S /\ R \in SUBSET S /\ y \notin R /\ x \notin R /\ R \cup {y} = T /\ V \ {y} = R \cup {x}
      BY <2>1, <2>3
    <3>2. Cardinality(R) <= n
      <4>1. IsFiniteSet(T)
        BY FS_Subset
      <4> HIDE DEF y
      <4>2. Cardinality(R) = Cardinality(T) - 1 /\ Cardinality(T) \in Nat
        BY <3>1, <4>1, FS_RemoveElement, FS_CardinalityType
      <4> HIDE DEF R
      <4> QED
        BY <4>2
    <3>3. f[V] = g[y] + f[R \cup {x}]
      BY <1>2, <2>1, <3>1
    <3> HIDE DEF R, V, y
    <3>4. f[R \cup {x}] = f[R] + g[x]
      BY <1>8, <3>1, <3>2
    <3>5. f[R \cup {y}] = f[R] + g[y]
      BY <1>8, <3>1, <3>2
    <3>6. f[R] \in Nat /\ g[x] \in Nat /\ g[y] \in Nat
      BY <1>4, <1>5, <3>1
    <3>7. f[V] = f[T] + g[x]
      <4>1. f[T] = f[R] + g[y]
        BY <3>1, <3>5
      <4> QED
        BY <3>3, <3>4, <3>6, <4>1
    <3> QED
      BY <3>7 DEF V
  <2> QED
    BY <2>2, <2>3
<1>9. \A n \in Nat : n \in Q
  <2>1. 0 \in Q /\ \A n \in Nat : n \in Q => n + 1 \in Q
    <3> HIDE DEF P
    <3> QED BY <1>7, <1>8
  <2> HIDE DEF Q
  <2> QED
    BY <2>1, Induction
<1>10. ASSUME NEW T \in SUBSET S, NEW x \in S, x \notin T PROVE f[T \cup {x}] = f[T] + g[x]
  <2>1. Cardinality(T) \in Nat
    BY FS_Subset, FS_CardinalityType
  <2>2. P(Cardinality(T))
    <3> HIDE DEF P
    <3> QED BY <1>9, <2>1
  <2> QED
    BY <1>10, <2>1, <2>2
<1> QED
  BY <1>3, <1>10

\* Sums that agree on what they add are the same.
LEMMA SumsAgree ==
  ASSUME NEW S, IsFiniteSet(S), NEW R \in SUBSET S, NEW g, NEW k, \A x \in R : g[x] = k[x],
         NEW f, Sums(f, g, S), NEW h, Sums(h, k, R)
  PROVE  \A T \in SUBSET R : f[T] = h[T]
<1> DEFINE c(T) == CHOOSE x \in T : TRUE
           P(n) == \A T \in SUBSET R : Cardinality(T) <= n => f[T] = h[T]
           Q == {n \in Nat : P(n)}
<1>1. IsFiniteSet(R) /\ \A T \in SUBSET R : T \in SUBSET S
  BY FS_Subset
<1>2. \A T \in SUBSET R : T # {} => /\ c(T) \in R /\ T \ {c(T)} \in SUBSET R
                                    /\ Cardinality(T) \in Nat /\ Cardinality(T \ {c(T)}) \in Nat
                                    /\ Cardinality(T \ {c(T)}) = Cardinality(T) - 1
  BY <1>1, OneLess
<1>3. ASSUME NEW T \in SUBSET R
      PROVE  /\ f[T] = IF T = {} THEN 0 ELSE g[c(T)] + f[T \ {c(T)}]
             /\ h[T] = IF T = {} THEN 0 ELSE k[c(T)] + h[T \ {c(T)}]
  BY <1>1 DEF Sums
<1> HIDE DEF c
<1>4. P(0)
  <2> SUFFICES ASSUME NEW T \in SUBSET R, Cardinality(T) <= 0 PROVE f[T] = h[T]
    OBVIOUS
  <2>1. T # {} => Cardinality(T) \in Nat /\ Cardinality(T) - 1 \in Nat
    BY <1>2
  <2>2. T = {}
    BY <2>1
  <2> QED
    BY <1>3, <2>2
<1>5. ASSUME NEW n \in Nat, P(n) PROVE P(n + 1)
  <2> SUFFICES ASSUME NEW T \in SUBSET R, Cardinality(T) <= n + 1, T # {} PROVE f[T] = h[T]
    BY <1>3
  <2>1. c(T) \in R /\ T \ {c(T)} \in SUBSET R /\ Cardinality(T \ {c(T)}) <= n
    BY <1>2
  <2>2. f[T \ {c(T)}] = h[T \ {c(T)}]
    BY <1>5, <2>1
  <2>3. f[T] = g[c(T)] + f[T \ {c(T)}] /\ h[T] = k[c(T)] + h[T \ {c(T)}]
    BY <1>3
  <2> QED
    BY <2>1, <2>2, <2>3
<1>6. \A n \in Nat : n \in Q
  <2>1. 0 \in Q /\ \A n \in Nat : n \in Q => n + 1 \in Q
    <3> HIDE DEF P
    <3> QED BY <1>4, <1>5
  <2> HIDE DEF Q
  <2> QED
    BY <2>1, Induction
<1> SUFFICES ASSUME NEW T \in SUBSET R PROVE f[T] = h[T]
  OBVIOUS
<1>7. Cardinality(T) \in Nat
  BY <1>1, FS_Subset, FS_CardinalityType
<1>8. P(Cardinality(T))
  <2> HIDE DEF P
  <2> QED BY <1>6, <1>7
<1> QED
  BY <1>7, <1>8

(* The sum of the function g over the finite set S.                        *)
SumOver(g, S) == (CHOOSE f : Sums(f, g, S))[S]

\* Any function of sums has it.
LEMMA SumOverIs ==
  ASSUME NEW S, IsFiniteSet(S), NEW g, \A x \in S : g[x] \in Nat,
         NEW T, IsFiniteSet(T), S \in SUBSET T, NEW k, \A x \in S : k[x] = g[x],
         NEW h, Sums(h, k, T)
  PROVE  SumOver(g, S) = h[S] /\ SumOver(g, S) \in Nat
<1> DEFINE e == [x \in S |-> g[x]]
           f == CHOOSE f : Sums(f, g, S)
<1>1. e \in [S -> Nat]
  OBVIOUS
<1>2. PICK j \in [SUBSET S -> Nat] : Sums(j, e, S)
  <2> HIDE DEF e
  <2> QED BY <1>1, SumExists
<1>3. Sums(j, g, S)
  <2>1. ASSUME NEW U \in SUBSET S, U # {} PROVE e[CHOOSE x \in U : TRUE] = g[CHOOSE x \in U : TRUE]
    <3>1. (CHOOSE x \in U : TRUE) \in S
      BY <2>1
    <3> QED
      BY <3>1
  <2> HIDE DEF e
  <2>2. ASSUME NEW U \in SUBSET S
        PROVE  j[U] = IF U = {} THEN 0 ELSE LET x == CHOOSE x \in U : TRUE IN g[x] + j[U \ {x}]
    <3>1. j[U] = IF U = {} THEN 0 ELSE LET x == CHOOSE x \in U : TRUE IN e[x] + j[U \ {x}]
      BY <1>2 DEF Sums
    <3> QED
      BY <2>1, <3>1
  <2> QED
    BY <2>2 DEF Sums
<1>4. Sums(f, g, S)
  BY <1>3
<1> HIDE DEF f
<1>5. S \in SUBSET S
  OBVIOUS
<1>6. f[S] \in Nat
  <2>1. \A U \in SUBSET S : f[U] = j[U]
    BY <1>3, <1>4, <1>5, SumsAgree
  <2> QED
    BY <1>2, <1>5, <2>1
<1>7. h[S] = f[S]
  <2>1. \A U \in SUBSET S : h[U] = f[U]
    BY <1>4, SumsAgree
  <2> QED
    BY <2>1
<1> QED
  BY <1>6, <1>7 DEF SumOver, f

LEMMA SumOverAdds ==
  ASSUME NEW S, IsFiniteSet(S), NEW x, x \notin S, NEW g, \A y \in S \cup {x} : g[y] \in Nat
  PROVE  /\ SumOver(g, {}) = 0
         /\ SumOver(g, S) \in Nat
         /\ SumOver(g, S \cup {x}) = SumOver(g, S) + g[x]
<1> DEFINE T == S \cup {x}
           e == [y \in T |-> g[y]]
<1>1. IsFiniteSet(T) /\ e \in [T -> Nat] /\ IsFiniteSet({})
  BY FS_AddElement, FS_EmptySet
<1>2. \A y \in T : e[y] = g[y]
  OBVIOUS
<1>3. S \in SUBSET T /\ T \in SUBSET T /\ {} \in SUBSET T /\ x \in T
  OBVIOUS
<1>4. \A y \in S : e[y] = g[y] /\ g[y] \in Nat
  OBVIOUS
<1> HIDE DEF T, e
<1>5. PICK h \in [SUBSET T -> Nat] : Sums(h, e, T)
  BY <1>1, SumExists
<1>6. SumOver(g, S) = h[S] /\ SumOver(g, S) \in Nat
  BY <1>1, <1>3, <1>4, <1>5, SumOverIs
<1>7. SumOver(g, T) = h[T]
  <2>1. \A y \in T : g[y] \in Nat
    BY DEF T
  <2> QED
    BY <1>1, <1>2, <1>3, <1>5, <2>1, SumOverIs
<1>8. SumOver(g, {}) = h[{}]
  BY <1>1, <1>3, <1>5, SumOverIs
<1>9. h[{}] = 0 /\ h[S \cup {x}] = h[S] + e[x]
  BY <1>1, <1>3, <1>5, SumAdds
<1> QED
  BY <1>2, <1>3, <1>6, <1>7, <1>8, <1>9 DEF T

(* Induction from the end: what holds of a number if it holds of those     *)
(* behind it holds of all.                                                 *)
LEMMA FromTheEnd ==
  ASSUME NEW n \in Nat, NEW S, \A i \in 1 .. n : (\A k \in i + 1 .. n : k \in S) => i \in S
  PROVE  \A i \in 1 .. n : i \in S
<1> DEFINE Q == {m \in Nat : \A i \in 1 .. n : i > n - m => i \in S}
<1>1. 0 \in Q
  OBVIOUS
<1>2. \A m \in Nat : m \in Q => m + 1 \in Q
  <2> SUFFICES ASSUME NEW m \in Nat, m \in Q, NEW i \in 1 .. n, i > n - (m + 1) PROVE i \in S
    OBVIOUS
  <2>1. \A k \in i + 1 .. n : k \in S
    OBVIOUS
  <2> QED
    BY <2>1
<1>3. n \in Q
  <2> HIDE DEF Q
  <2> QED BY <1>1, <1>2, Induction
<1> QED
  BY <1>3
=============================================================================
