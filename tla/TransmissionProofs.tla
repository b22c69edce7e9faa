------------------------- MODULE TransmissionProofs -------------------------
(***************************************************************************)
(* A message arrives as it was sent and what arrives can be sent on, for   *)
(* every limit on the length of a line and every message and line: lemmas  *)
(* about the sums and the concatenations of Message, by induction on the   *)
(* number of words, and the invariants of Transmission.                    *)
(***************************************************************************)
EXTENDS Transmission, FiniteSetTheorems, SequenceTheorems, WellFoundedInduction, TLAPS

-----------------------------------------------------------------------------
(* Sums.                                                                     *)

\* Every inhabited set of naturals has a smallest element.
LEMMA Smallest ==
  ASSUME NEW N \in SUBSET Nat, N # {}
  PROVE  \E n \in N : \A m \in N : n <= m
<1>1. PICK n \in N : \A m \in N : ~(<<m, n>> \in OpToRel(<, Nat))
  BY NatLessThanWellFounded, WFMin, Zenon
<1>2. \A m \in N : m \in Nat /\ n \in Nat /\ ~(m < n)
  BY <1>1 DEF OpToRel
<1> QED
  BY <1>2

\* Induction, for a set of naturals.
LEMMA Induction ==
  ASSUME NEW N, 0 \in N, \A n \in Nat : n \in N => n + 1 \in N
  PROVE  Nat \subseteq N
<1> SUFFICES ASSUME Nat \ N # {}
             PROVE  FALSE
  OBVIOUS
<1>1. PICK n \in Nat \ N : \A m \in Nat \ N : n <= m
  BY Smallest
<1>2. n - 1 \in Nat /\ n - 1 \notin Nat \ N
  BY <1>1
<1> QED
  BY <1>1, <1>2

\* h gives the sum of g over every subset of D, whichever element is taken
\* first.
Sums(h, D, g) ==
    /\ h \in [SUBSET D -> Nat]
    /\ h[{}] = 0
    /\ \A S \in SUBSET D : \A x \in S : h[S] = h[S \ {x}] + g[x]

\* The sums of n summands exist.
LEMMA SumsExist ==
  ASSUME NEW n \in Nat, NEW g \in [1..n -> Nat]
  PROVE  \E h : Sums(h, 1..n, g)
<1> DEFINE N == {m \in Nat : \A f \in [1..m -> Nat] : \E h : Sums(h, 1..m, f)}
<1>1. 0 \in N
  <2> SUFFICES ASSUME NEW f \in [1..0 -> Nat]
               PROVE  \E h : Sums(h, 1..0, f)
    OBVIOUS
  <2> DEFINE h == [S \in SUBSET (1..0) |-> 0]
  <2>1. \A S \in SUBSET (1..0) : S = {}
    OBVIOUS
  <2>2. Sums(h, 1..0, f)
    BY <2>1 DEF Sums
  <2> QED
    BY <2>2
<1>2. ASSUME NEW m \in Nat, m \in N
      PROVE  m + 1 \in N
  <2> SUFFICES ASSUME NEW f \in [1..m+1 -> Nat]
               PROVE  \E h : Sums(h, 1..m+1, f)
    OBVIOUS
  <2> DEFINE f0 == [i \in 1..m |-> f[i]]
  <2>1. f0 \in [1..m -> Nat]
    OBVIOUS
  <2>2. PICK h0 : Sums(h0, 1..m, f0)
    BY <1>2, <2>1
  <2> HIDE DEF f0
  <2> DEFINE h == [S \in SUBSET (1..m+1) |->
                      IF m + 1 \in S THEN h0[S \ {m + 1}] + f[m + 1] ELSE h0[S]]
  <2>3. \A S \in SUBSET (1..m+1) : S \ {m + 1} \in SUBSET (1..m)
    OBVIOUS
  <2>4. \A S \in SUBSET (1..m+1) : m + 1 \notin S => S \in SUBSET (1..m)
    BY <2>3
  <2>5. h \in [SUBSET (1..m+1) -> Nat]
    BY <2>2, <2>3, <2>4 DEF Sums
  <2>6. h[{}] = 0
    BY <2>2 DEF Sums
  <2>7. ASSUME NEW S \in SUBSET (1..m+1), NEW x \in S
        PROVE  h[S] = h[S \ {x}] + f[x]
    <3>0. S \ {x} \in SUBSET (1..m+1) /\ f[x] \in Nat /\ f[m+1] \in Nat
      OBVIOUS
    <3>1. CASE x = m + 1
      <4>1. h[S] = h0[S \ {x}] + f[x] /\ h[S \ {x}] = h0[S \ {x}]
        BY <3>0, <3>1
      <4> QED
        BY <4>1
    <3>2. CASE x # m + 1 /\ m + 1 \in S
      <4> DEFINE T == S \ {m + 1}
      <4>1. T \in SUBSET (1..m) /\ x \in T /\ x \in 1..m
        BY <2>3, <3>2
      <4>2. h0[T] = h0[T \ {x}] + f[x]
        BY <2>2, <4>1 DEF Sums, f0
      <4>3. (S \ {x}) \ {m + 1} = T \ {x} /\ m + 1 \in S \ {x}
        BY <3>2
      <4>4. h[S] = h0[T] + f[m + 1] /\ h[S \ {x}] = h0[T \ {x}] + f[m + 1]
        BY <3>0, <3>2, <4>3
      <4>5. h0[T] \in Nat /\ h0[T \ {x}] \in Nat
        BY <2>2, <4>1 DEF Sums
      <4> HIDE DEF h, T
      <4> QED
        BY <3>0, <4>2, <4>4, <4>5
    <3>3. CASE m + 1 \notin S
      <4>1. S \in SUBSET (1..m) /\ x \in 1..m
        BY <2>4, <3>3
      <4>2. h0[S] = h0[S \ {x}] + f[x]
        BY <2>2, <4>1 DEF Sums, f0
      <4>3. h[S] = h0[S] /\ h[S \ {x}] = h0[S \ {x}]
        BY <3>0, <3>3
      <4> QED
        BY <4>2, <4>3
    <3> QED
      BY <3>1, <3>2, <3>3
  <2>8. Sums(h, 1..m+1, f)
    <3> HIDE DEF h
    <3> QED
      BY <2>5, <2>6, <2>7 DEF Sums
  <2> QED
    BY <2>8
<1>3. Nat \subseteq N
  <2> HIDE DEF N
  <2> QED
    BY <1>1, <1>2, Induction
<1> QED
  BY <1>3

\* SumFunction adds up, whichever element its CHOOSE takes first.
LEMMA SumIs ==
  ASSUME NEW n \in Nat, NEW g \in [1..n -> Nat], NEW h, Sums(h, 1..n, g)
  PROVE  SumFunction(g) = h[1..n]
<1> DEFINE D == 1..n
           F(f) == [s \in SUBSET D |->
                      IF s = {} THEN 0
                      ELSE g[CHOOSE x \in s : TRUE] + f[s \ {CHOOSE x \in s : TRUE}]]
           iter == CHOOSE f : f = F(f)
<1>1. SumFunction(g) = iter[D]
  BY DEF SumFunction, SumFunctionOnSet, FoldFunctionOnSet, MapThenFoldSet
<1>2. ASSUME NEW S \in SUBSET D, S # {}
      PROVE  (CHOOSE x \in S : TRUE) \in S
  BY <1>2
<1>3. h = F(h)
  <2>1. h \in [SUBSET D -> Nat] /\ h[{}] = 0
    BY DEF Sums
  <2>2. ASSUME NEW S \in SUBSET D
        PROVE  h[S] = F(h)[S]
    <3>1. CASE S = {}
      BY <2>1, <3>1
    <3>2. CASE S # {}
      <4> DEFINE x == CHOOSE y \in S : TRUE
      <4>1. x \in S
        BY <1>2, <3>2
      <4>2. h[S] = h[S \ {x}] + g[x]
        BY <4>1 DEF Sums
      <4>3. h[S \ {x}] \in Nat /\ g[x] \in Nat
        BY <2>1, <4>1
      <4>4. F(h)[S] = g[x] + h[S \ {x}]
        BY <3>2
      <4> HIDE DEF x, F
      <4> QED
        BY <4>2, <4>3, <4>4
    <3> QED
      BY <3>1, <3>2
  <2> QED
    BY <2>1, <2>2
<1>4. iter = F(iter)
  <2> HIDE DEF F
  <2> QED
    BY <1>3
<1>5. ASSUME NEW S \in SUBSET D
      PROVE  iter[S] = IF S = {} THEN 0
                       ELSE g[CHOOSE x \in S : TRUE] + iter[S \ {CHOOSE x \in S : TRUE}]
  <2> HIDE DEF iter
  <2> QED
    BY <1>4
<1> HIDE DEF iter, F
\* The smallest set on which the two differ would not be empty.
<1>6. IsFiniteSet(D)
  BY FS_Interval
<1>7. \A S \in SUBSET D : iter[S] = h[S]
  <2> DEFINE N == {m \in Nat : \E S \in SUBSET D : Cardinality(S) = m /\ iter[S] # h[S]}
  <2>1. SUFFICES ASSUME N # {}
                 PROVE  FALSE
    <3>1. \A S \in SUBSET D : Cardinality(S) \in Nat
      BY <1>6, FS_Subset, FS_CardinalityType
    <3> QED
      BY <3>1
  <2>2. PICK m \in N : \A k \in N : m <= k
    BY <2>1, Smallest
  <2>3. PICK S \in SUBSET D : Cardinality(S) = m /\ iter[S] # h[S]
    OBVIOUS
  <2>4. S # {}
    BY <1>5, <2>3 DEF Sums
  <2> DEFINE x == CHOOSE y \in S : TRUE
  <2>5. x \in S /\ S \ {x} \in SUBSET D
    BY <1>2, <2>4
  <2>6. iter[S] = g[x] + iter[S \ {x}]
    BY <1>5, <2>4
  <2> HIDE DEF x
  <2>7. h[S] = h[S \ {x}] + g[x] /\ h[S \ {x}] \in Nat /\ g[x] \in Nat
    BY <2>5 DEF Sums
  <2>8. iter[S \ {x}] # h[S \ {x}]
    BY <2>3, <2>6, <2>7
  <2>9. Cardinality(S \ {x}) = m - 1 /\ Cardinality(S \ {x}) \in Nat
    BY <1>6, <2>3, <2>5, FS_Subset, FS_RemoveElement, FS_CardinalityType
  <2> QED
    BY <2>2, <2>5, <2>8, <2>9
<1> QED
  BY <1>1, <1>7

\* The sum of n + 1 summands, the last one apart.
LEMMA SumLast ==
  ASSUME NEW n \in Nat, NEW g \in [1..n+1 -> Nat]
  PROVE  /\ SumFunction([i \in 1..n |-> g[i]]) \in Nat
         /\ SumFunction(g) = SumFunction([i \in 1..n |-> g[i]]) + g[n + 1]
<1> DEFINE g0 == [i \in 1..n |-> g[i]]
<1>0. g0 \in [1..n -> Nat] /\ n + 1 \in Nat
  OBVIOUS
<1>1. PICK h : Sums(h, 1..n+1, g)
  BY <1>0, SumsExist
<1> DEFINE h0 == [S \in SUBSET (1..n) |-> h[S]]
<1>2. SUBSET (1..n) \subseteq SUBSET (1..n+1) /\ {} \in SUBSET (1..n)
  OBVIOUS
<1>3. Sums(h0, 1..n, g0)
  <2>1. h0 \in [SUBSET (1..n) -> Nat] /\ h0[{}] = 0
    BY <1>1, <1>2 DEF Sums
  <2>2. ASSUME NEW S \in SUBSET (1..n), NEW x \in S
        PROVE  h0[S] = h0[S \ {x}] + g0[x]
    <3>1. S \in SUBSET (1..n+1) /\ S \ {x} \in SUBSET (1..n) /\ x \in 1..n
      BY <1>2
    <3>2. h[S] = h[S \ {x}] + g[x]
      BY <1>1, <3>1 DEF Sums
    <3> QED
      BY <3>1, <3>2
  <2> HIDE DEF h0, g0
  <2> QED
    BY <2>1, <2>2 DEF Sums
<1>4. SumFunction(g0) = h[1..n]
  <2>1. SumFunction(g0) = h0[1..n]
    <3> HIDE DEF h0, g0
    <3> QED
      BY <1>0, <1>3, SumIs
  <2> QED
    BY <2>1
<1>5. SumFunction(g) = h[1..n+1]
  BY <1>0, <1>1, SumIs
<1>6. (1..n+1) \ {n + 1} = 1..n /\ n + 1 \in 1..n+1
  OBVIOUS
<1>7. h[1..n+1] = h[1..n] + g[n + 1]
  <2>1. \A x \in 1..n+1 : h[1..n+1] = h[(1..n+1) \ {x}] + g[x]
    BY <1>1 DEF Sums
  <2> QED
    BY <1>6, <2>1
<1>8. h[1..n] \in Nat
  BY <1>1, <1>2 DEF Sums
<1> QED
  BY <1>4, <1>5, <1>7, <1>8

\* There is nothing to add up.
LEMMA SumNone ==
  ASSUME NEW g \in [1..0 -> Nat]
  PROVE  SumFunction(g) = 0
<1>1. PICK h : Sums(h, 1..0, g)
  BY SumsExist
<1>2. 1..0 = {}
  OBVIOUS
<1>3. SumFunction(g) = h[1..0]
  BY <1>1, SumIs
<1> QED
  BY <1>1, <1>2, <1>3 DEF Sums

\* A sum of naturals is a natural.
LEMMA SumType ==
  ASSUME NEW n \in Nat, NEW g \in [1..n -> Nat]
  PROVE  SumFunction(g) \in Nat
<1>1. PICK h : Sums(h, 1..n, g)
  BY SumsExist
<1>2. h[1..n] \in Nat
  <2>1. 1..n \in SUBSET (1..n)
    OBVIOUS
  <2> QED
    BY <1>1, <2>1 DEF Sums
<1>3. SumFunction(g) = h[1..n]
  BY <1>1, SumIs
<1> QED
  BY <1>2, <1>3

\* Summands that are one larger.
LEMMA SumOneMore ==
  ASSUME NEW n \in Nat, NEW g \in [1..n -> Nat]
  PROVE  SumFunction([i \in 1..n |-> 1 + g[i]]) = SumFunction(g) + n
<1> DEFINE N == {m \in Nat : \A f \in [1..m -> Nat] :
                    SumFunction([i \in 1..m |-> 1 + f[i]]) = SumFunction(f) + m}
<1>1. 0 \in N
  <2> SUFFICES ASSUME NEW f \in [1..0 -> Nat]
               PROVE  SumFunction([i \in 1..0 |-> 1 + f[i]]) = SumFunction(f) + 0
    OBVIOUS
  <2>1. [i \in 1..0 |-> 1 + f[i]] \in [1..0 -> Nat]
    OBVIOUS
  <2>2. SumFunction([i \in 1..0 |-> 1 + f[i]]) = 0
    BY <2>1, SumNone
  <2>3. SumFunction(f) = 0
    BY SumNone
  <2> QED
    BY <2>2, <2>3
<1>2. ASSUME NEW m \in Nat, m \in N
      PROVE  m + 1 \in N
  <2> SUFFICES ASSUME NEW f \in [1..m+1 -> Nat]
               PROVE  SumFunction([i \in 1..m+1 |-> 1 + f[i]]) = SumFunction(f) + (m + 1)
    OBVIOUS
  <2> DEFINE e  == [i \in 1..m+1 |-> 1 + f[i]]
             f0 == [i \in 1..m |-> f[i]]
             e0 == [i \in 1..m |-> e[i]]
  <2>1. /\ e \in [1..m+1 -> Nat] /\ f0 \in [1..m -> Nat]
        /\ e0 = [i \in 1..m |-> 1 + f0[i]] /\ e[m + 1] = 1 + f[m + 1] /\ f[m + 1] \in Nat
    OBVIOUS
  <2>2. SumFunction(e0) = SumFunction(f0) + m
    BY <1>2, <2>1
  <2>3. SumFunction(e) = SumFunction(e0) + e[m + 1]
    <3> HIDE DEF e
    <3> QED
      BY <2>1, SumLast
  <2>4. SumFunction(f) = SumFunction(f0) + f[m + 1] /\ SumFunction(f0) \in Nat
    BY <2>1, SumLast
  <2> HIDE DEF e, e0, f0
  <2>5. SumFunction(e) = SumFunction(f) + (m + 1)
    BY <2>1, <2>2, <2>3, <2>4
  <2> QED
    BY <2>5 DEF e
<1>3. Nat \subseteq N
  <2> HIDE DEF N
  <2> QED
    BY <1>1, <1>2, Induction
<1> QED
  BY <1>3

\* The summands of f, then those of e.
Then(f, a, e, b) == [i \in 1..a+b |-> IF i <= a THEN f[i] ELSE e[i - a]]

\* A sum of two parts.
LEMMA SumParts ==
  ASSUME NEW a \in Nat, NEW f \in [1..a -> Nat], NEW b \in Nat, NEW g \in [1..b -> Nat]
  PROVE  SumFunction(Then(f, a, g, b)) = SumFunction(f) + SumFunction(g)
<1> DEFINE N == {m \in Nat : \A e \in [1..m -> Nat] :
                    SumFunction(Then(f, a, e, m)) = SumFunction(f) + SumFunction(e)}
<1>0. SumFunction(f) \in Nat
  BY SumType
<1>1. 0 \in N
  <2> SUFFICES ASSUME NEW e \in [1..0 -> Nat]
               PROVE  SumFunction(Then(f, a, e, 0)) = SumFunction(f) + SumFunction(e)
    OBVIOUS
  <2>1. Then(f, a, e, 0) = f
    BY DEF Then
  <2>2. SumFunction(e) = 0
    BY SumNone
  <2> QED
    BY <1>0, <2>1, <2>2
<1>2. ASSUME NEW m \in Nat, m \in N
      PROVE  m + 1 \in N
  <2> SUFFICES ASSUME NEW e \in [1..m+1 -> Nat]
               PROVE  SumFunction(Then(f, a, e, m + 1)) = SumFunction(f) + SumFunction(e)
    OBVIOUS
  <2> DEFINE e0 == [i \in 1..m |-> e[i]]
             t  == Then(f, a, e, m + 1)
             k  == a + m
  <2>1. e0 \in [1..m -> Nat] /\ e[m + 1] \in Nat /\ k \in Nat
    OBVIOUS
  <2>2. t \in [1..k+1 -> Nat] /\ t[k + 1] = e[m + 1] /\ [i \in 1..k |-> t[i]] = Then(f, a, e0, m)
    BY DEF Then
  <2>3. SumFunction(Then(f, a, e0, m)) = SumFunction(f) + SumFunction(e0)
    BY <1>2, <2>1
  <2>4. SumFunction(e) = SumFunction(e0) + e[m + 1] /\ SumFunction(e0) \in Nat
    BY <2>1, SumLast
  <2> HIDE DEF t, e0, k
  <2>5. SumFunction(t) = SumFunction([i \in 1..k |-> t[i]]) + t[k + 1]
    BY <2>1, <2>2, SumLast
  <2>6. SumFunction(t) = (SumFunction(f) + SumFunction(e0)) + e[m + 1]
    BY <2>2, <2>3, <2>5
  <2>7. SumFunction(t) = SumFunction(f) + SumFunction(e)
    BY <1>0, <2>1, <2>4, <2>6
  <2> QED
    BY <2>7 DEF t
<1>3. Nat \subseteq N
  <2> HIDE DEF N
  <2> QED
    BY <1>1, <1>2, Induction
<1> QED
  BY <1>3

-----------------------------------------------------------------------------
(* Concatenations.                                                           *)

\* A text and its words.
LEMMA TextOf ==
  ASSUME NEW text \in Text
  PROVE  /\ Len(text) \in Nat /\ (text = <<>> <=> Len(text) = 0)
         /\ \A i \in 1..Len(text) : text[i] \in Word /\ text[i].len \in Nat
<1>1. text \in Seq(Word)
  BY DEF Text
<1>2. Len(text) \in Nat /\ \A i \in 1..Len(text) : text[i] \in Word
  BY <1>1, LenProperties, ElementOfSeq
<1>3. text = <<>> <=> Len(text) = 0
  BY <1>1, EmptySeq
<1>4. \A w \in Word : w.len \in Nat
  BY DEF Word
<1> QED
  BY <1>2, <1>3, <1>4

\* Two texts, one after the other.
LEMMA Joined ==
  ASSUME NEW s \in Text, NEW t \in Text
  PROVE  /\ s \o t \in Text /\ Len(s \o t) = Len(s) + Len(t)
         /\ \A i \in 1..Len(s) + Len(t) :
               (s \o t)[i] = IF i <= Len(s) THEN s[i] ELSE t[i - Len(s)]
<1>1. s \in Seq(Word) /\ t \in Seq(Word)
  BY DEF Text
<1>2. s \o t \in Seq(Word)
  BY <1>1, ConcatProperties
<1> QED
  BY <1>1, <1>2, ConcatProperties DEF Text

LEMMA NoText == <<>> \in Text /\ Len(<<>>) = 0
<1>1. <<>> \in Seq(Word) /\ Len(<<>>) = 0
  BY EmptySeq
<1> QED
  BY <1>1 DEF Text

\* f gives the concatenations of the first texts of seqs.
Joins(f, n, seqs) ==
    /\ f \in [1..n -> Text]
    /\ \A i \in 1..n : f[i] = IF i = 1 THEN seqs[i] ELSE f[i - 1] \o seqs[i]

LEMMA JoinsExist ==
  ASSUME NEW n \in Nat, NEW seqs \in [1..n -> Text]
  PROVE  \E f : Joins(f, n, seqs)
<1> DEFINE N == {m \in Nat : \A s \in [1..m -> Text] : \E f : Joins(f, m, s)}
<1>1. 0 \in N
  <2> SUFFICES ASSUME NEW s \in [1..0 -> Text]
               PROVE  \E f : Joins(f, 0, s)
    OBVIOUS
  <2>1. Joins(s, 0, s)
    BY DEF Joins
  <2> QED
    BY <2>1
<1>2. ASSUME NEW m \in Nat, m \in N
      PROVE  m + 1 \in N
  <2> SUFFICES ASSUME NEW s \in [1..m+1 -> Text]
               PROVE  \E f : Joins(f, m + 1, s)
    OBVIOUS
  <2> DEFINE s0 == [i \in 1..m |-> s[i]]
  <2>1. s0 \in [1..m -> Text]
    OBVIOUS
  <2>2. PICK f0 : Joins(f0, m, s0)
    BY <1>2, <2>1
  <2> DEFINE last == IF m = 0 THEN s[m + 1] ELSE f0[m] \o s[m + 1]
             f == [i \in 1..m+1 |-> IF i <= m THEN f0[i] ELSE last]
  <2>3. last \in Text
    <3>1. s[m + 1] \in Text
      OBVIOUS
    <3>2. CASE m = 0
      BY <3>1, <3>2
    <3>3. CASE m # 0
      <4>1. f0[m] \in Text
        BY <2>2, <3>3 DEF Joins
      <4> QED
        BY <3>1, <3>3, <4>1, Joined
    <3> QED
      BY <3>2, <3>3
  <2>4. f \in [1..m+1 -> Text]
    <3> HIDE DEF last
    <3> QED
      BY <2>2, <2>3 DEF Joins
  <2>5. ASSUME NEW i \in 1..m+1
        PROVE  f[i] = IF i = 1 THEN s[i] ELSE f[i - 1] \o s[i]
    <3>1. CASE i <= m
      <4>1. f0[i] = IF i = 1 THEN s[i] ELSE f0[i - 1] \o s[i]
        <5>1. i \in 1..m /\ s0[i] = s[i]
          BY <3>1
        <5> HIDE DEF s0
        <5> QED
          BY <2>2, <5>1 DEF Joins
      <4>2. f[i] = f0[i] /\ (i # 1 => f[i - 1] = f0[i - 1])
        BY <3>1
      <4> HIDE DEF f
      <4> QED
        BY <4>1, <4>2
    <3>2. CASE i = m + 1
      <4>1. f[i] = last /\ (m # 0 => f[i - 1] = f0[m])
        BY <3>2
      <4> HIDE DEF f
      <4> QED
        BY <3>2, <4>1
    <3> QED
      BY <3>1, <3>2
  <2>6. Joins(f, m + 1, s)
    <3> HIDE DEF f
    <3> QED
      BY <2>4, <2>5 DEF Joins
  <2> QED
    BY <2>6
<1>3. Nat \subseteq N
  <2> HIDE DEF N
  <2> QED
    BY <1>1, <1>2, Induction
<1> QED
  BY <1>3

\* FlattenSeq concatenates from left to right.
LEMMA FlattenIs ==
  ASSUME NEW n \in Nat \ {0}, NEW seqs \in [1..n -> Text], NEW f, Joins(f, n, seqs)
  PROVE  FlattenSeq(seqs) = f[n]
<1> DEFINE F(e) == [i \in 1..n |-> IF i = 1 THEN seqs[i] ELSE e[i - 1] \o seqs[i]]
           flatten == CHOOSE e : e = F(e)
<1>0. seqs \in Seq(Text) /\ Len(seqs) = n
  OBVIOUS
<1>1. FlattenSeq(seqs) = flatten[n]
  BY <1>0 DEF FlattenSeq
<1>2. f = F(f)
  BY DEF Joins
<1>3. flatten = F(flatten)
  <2> HIDE DEF F
  <2> QED
    BY <1>2
<1>4. \A i \in 1..n : flatten[i] = IF i = 1 THEN seqs[i] ELSE flatten[i - 1] \o seqs[i]
  <2> HIDE DEF flatten
  <2> QED
    BY <1>3
<1> HIDE DEF flatten, F
<1>5. \A i \in 1..n : flatten[i] = f[i]
  <2> DEFINE N == {i \in 1..n : flatten[i] # f[i]}
  <2>1. SUFFICES ASSUME N # {}
                 PROVE  FALSE
    OBVIOUS
  <2>2. PICK i \in N : \A j \in N : i <= j
    <3>1. N \in SUBSET Nat
      OBVIOUS
    <3> HIDE DEF N
    <3> QED
      BY <2>1, <3>1, Smallest
  <2>3. i # 1
    BY <1>4 DEF Joins
  <2>4. i - 1 \in 1..n /\ i - 1 \notin N
    BY <2>2, <2>3
  <2> QED
    BY <1>4, <2>3, <2>4 DEF Joins
<1> QED
  BY <1>1, <1>5

\* The concatenation of n + 1 texts, the last one apart.
LEMMA FlattenLast ==
  ASSUME NEW n \in Nat, NEW seqs \in [1..n+1 -> Text]
  PROVE  /\ FlattenSeq([i \in 1..n |-> seqs[i]]) \in Text
         /\ FlattenSeq(seqs) = FlattenSeq([i \in 1..n |-> seqs[i]]) \o seqs[n + 1]
<1> DEFINE s0 == [i \in 1..n |-> seqs[i]]
<1>0. s0 \in [1..n -> Text] /\ n + 1 \in Nat \ {0} /\ seqs[n + 1] \in Text
  OBVIOUS
<1>1. PICK f : Joins(f, n + 1, seqs)
  BY <1>0, JoinsExist
<1>2. FlattenSeq(seqs) = f[n + 1]
  BY <1>0, <1>1, FlattenIs
<1>3. f[n + 1] = IF n = 0 THEN seqs[n + 1] ELSE f[n] \o seqs[n + 1]
  <2>1. \A i \in 1..n+1 : f[i] = IF i = 1 THEN seqs[i] ELSE f[i - 1] \o seqs[i]
    BY <1>1 DEF Joins
  <2>2. n + 1 \in 1..n+1 /\ (n + 1) - 1 = n /\ (n + 1 = 1 <=> n = 0)
    OBVIOUS
  <2> QED
    BY <2>1, <2>2
<1>4. CASE n = 0
  <2>1. s0 = <<>> /\ Len(s0) = 0
    BY <1>4
  <2>2. FlattenSeq(s0) = <<>>
    BY <2>1 DEF FlattenSeq
  <2>3. <<>> \o seqs[n + 1] = seqs[n + 1] /\ <<>> \in Text
    BY <1>0, NoText, ConcatEmptySeq DEF Text
  <2> QED
    BY <1>2, <1>3, <1>4, <2>2, <2>3
<1>5. CASE n # 0
  <2> DEFINE f0 == [i \in 1..n |-> f[i]]
  <2>1. Joins(f0, n, s0)
    <3>1. f0 \in [1..n -> Text]
      BY <1>1 DEF Joins
    <3>2. ASSUME NEW i \in 1..n
          PROVE  f0[i] = IF i = 1 THEN s0[i] ELSE f0[i - 1] \o s0[i]
      <4>0. i \in 1..n+1 /\ \A j \in 1..n+1 : f[j] = IF j = 1 THEN seqs[j] ELSE f[j - 1] \o seqs[j]
        BY <1>1 DEF Joins
      <4>1. f[i] = IF i = 1 THEN seqs[i] ELSE f[i - 1] \o seqs[i]
        BY <4>0
      <4>2. f0[i] = f[i] /\ s0[i] = seqs[i] /\ (i # 1 => f0[i - 1] = f[i - 1])
        OBVIOUS
      <4> HIDE DEF f0, s0
      <4> QED
        BY <4>1, <4>2
    <3> HIDE DEF f0, s0
    <3> QED
      BY <3>1, <3>2 DEF Joins
  <2>2. FlattenSeq(s0) = f0[n]
    <3> HIDE DEF f0, s0
    <3> QED
      BY <1>0, <1>5, <2>1, FlattenIs
  <2>3. f0[n] = f[n] /\ f[n] \in Text
    BY <1>1, <1>5 DEF Joins
  <2> QED
    BY <1>2, <1>3, <1>5, <2>2, <2>3
<1> QED
  BY <1>4, <1>5

\* The concatenation of nothing.
LEMMA FlattenNone ==
  ASSUME NEW seqs \in [1..0 -> Text]
  PROVE  FlattenSeq(seqs) = <<>>
<1>1. seqs = <<>> /\ Len(seqs) = 0
  OBVIOUS
<1> QED
  BY <1>1 DEF FlattenSeq

\* Texts of one word each are the words they consist of.
LEMMA FlattenWords ==
  ASSUME NEW n \in Nat, NEW seqs \in [1..n -> Text], \A i \in 1..n : Len(seqs[i]) = 1
  PROVE  FlattenSeq(seqs) = [i \in 1..n |-> seqs[i][1]]
<1> DEFINE N == {m \in Nat : \A s \in [1..m -> Text] :
                    (\A i \in 1..m : Len(s[i]) = 1) =>
                        FlattenSeq(s) = [i \in 1..m |-> s[i][1]]}
<1>1. 0 \in N
  <2> SUFFICES ASSUME NEW s \in [1..0 -> Text]
               PROVE  FlattenSeq(s) = [i \in 1..0 |-> s[i][1]]
    OBVIOUS
  <2>1. [i \in 1..0 |-> s[i][1]] = <<>>
    OBVIOUS
  <2> QED
    BY <2>1, FlattenNone
<1>2. ASSUME NEW m \in Nat, m \in N
      PROVE  m + 1 \in N
  <2> SUFFICES ASSUME NEW s \in [1..m+1 -> Text], \A i \in 1..m+1 : Len(s[i]) = 1
               PROVE  FlattenSeq(s) = [i \in 1..m+1 |-> s[i][1]]
    OBVIOUS
  <2> DEFINE s0 == [i \in 1..m |-> s[i]]
             w0 == [i \in 1..m |-> s[i][1]]
             w  == [i \in 1..m+1 |-> s[i][1]]
  <2>1. s0 \in [1..m -> Text] /\ \A i \in 1..m : Len(s0[i]) = 1
    OBVIOUS
  <2>2. FlattenSeq(s0) = [i \in 1..m |-> s0[i][1]]
    BY <1>2, <2>1
  <2>3. [i \in 1..m |-> s0[i][1]] = w0
    OBVIOUS
  <2>4. FlattenSeq(s) = FlattenSeq(s0) \o s[m + 1]
    BY FlattenLast
  <2>5. w0 \in Text /\ w \in Text /\ Len(w0) = m /\ Len(w) = m + 1
    <3>1. \A i \in 1..m+1 : s[i] \in Text /\ 1 \in 1..Len(s[i])
      OBVIOUS
    <3>2. \A i \in 1..m+1 : s[i][1] \in Word
      BY <3>1, TextOf
    <3> QED
      BY <3>2 DEF Text
  <2>6. s[m + 1] \in Text /\ Len(s[m + 1]) = 1
    OBVIOUS
  <2>7. w0 \o s[m + 1] = w
    <3> DEFINE t == s[m + 1]
    <3>1. /\ w0 \o t \in Text /\ Len(w0 \o t) = m + 1
          /\ \A i \in 1..m+1 : (w0 \o t)[i] = IF i <= m THEN w0[i] ELSE t[i - m]
      <4>1. w0 \in Text /\ t \in Text /\ Len(w0) = m /\ Len(t) = 1
        BY <2>5, <2>6
      <4> HIDE DEF w0, t
      <4>2. /\ w0 \o t \in Text /\ Len(w0 \o t) = Len(w0) + Len(t)
            /\ \A i \in 1..Len(w0) + Len(t) :
                  (w0 \o t)[i] = IF i <= Len(w0) THEN w0[i] ELSE t[i - Len(w0)]
        BY <4>1, Joined
      <4> QED
        BY <4>1, <4>2
    <3>2. ASSUME NEW i \in 1..m+1
          PROVE  (IF i <= m THEN w0[i] ELSE t[i - m]) = w[i]
      <4>1. CASE i <= m
        BY <4>1
      <4>2. CASE i = m + 1
        BY <4>2
      <4> QED
        BY <4>1, <4>2
    <3> HIDE DEF w0, w
    <3> QED
      BY <2>5, <3>1, <3>2, SeqEqual DEF Text
  <2> QED
    BY <2>2, <2>3, <2>4, <2>7
<1>3. Nat \subseteq N
  <2> HIDE DEF N
  <2> QED
    BY <1>1, <1>2, Induction
<1> QED
  BY <1>3

-----------------------------------------------------------------------------
(* The lengths of texts and lines.                                           *)

\* The words, each with a space before it.
Spaced(words) == SumFunction([i \in 1..Len(words) |-> 1 + words[i].len])

\* The arguments of a message, each with a space before it.
ArgsLen(args) == SumFunction([i \in 1..Len(args) |-> 1 + TextLen(args[i])])

LEMMA SpacedText ==
  ASSUME NEW text \in Text
  PROVE  /\ Spaced(text) \in Nat /\ TextLen(text) \in Nat
         /\ Spaced(text) <= 1 + TextLen(text)
<1> DEFINE n == Len(text)
           g == [i \in 1..n |-> text[i].len]
<1>1. n \in Nat /\ g \in [1..n -> Nat] /\ (text = <<>> <=> n = 0)
  BY TextOf
<1>2. [i \in 1..n |-> 1 + text[i].len] = [i \in 1..n |-> 1 + g[i]]
  OBVIOUS
<1>3. SumFunction([i \in 1..n |-> 1 + g[i]]) = SumFunction(g) + n /\ SumFunction(g) \in Nat
  <2> HIDE DEF g, n
  <2> QED
    BY <1>1, SumOneMore, SumType
<1>4. Spaced(text) = SumFunction(g) + n
  BY <1>2, <1>3 DEF Spaced
<1>5. TextLen(text) = SumFunction(g) + (IF text = <<>> THEN 0 ELSE n - 1)
  BY DEF TextLen
<1> HIDE DEF g, n
<1> QED
  BY <1>1, <1>3, <1>4, <1>5

\* A text of one word is as long as the word.
LEMMA WordLen ==
  ASSUME NEW w \in Word
  PROVE  TextLen(<<w>>) = w.len
<1> DEFINE text == <<w>>
           g == [i \in 1..1 |-> text[i].len]
<1>1. Len(text) = 1 /\ text # <<>> /\ g \in [1..0+1 -> Nat] /\ g[1] = w.len /\ w.len \in Nat
  BY DEF Word
<1>2. SumFunction([i \in 1..0 |-> g[i]]) = 0
  <2>1. [i \in 1..0 |-> g[i]] \in [1..0 -> Nat]
    OBVIOUS
  <2> QED
    BY <2>1, SumNone
<1>3. SumFunction(g) = SumFunction([i \in 1..0 |-> g[i]]) + g[0 + 1]
  <2> HIDE DEF g
  <2> QED
    BY <1>1, SumLast
<1>4. TextLen(text) = SumFunction(g) + 0
  BY <1>1 DEF TextLen
<1> HIDE DEF g, text
<1>5. TextLen(text) = w.len
  BY <1>1, <1>2, <1>3, <1>4
<1> QED
  BY <1>5 DEF text

LEMMA SpacedJoin ==
  ASSUME NEW s \in Text, NEW t \in Text
  PROVE  Spaced(s \o t) = Spaced(s) + Spaced(t)
<1> DEFINE a == Len(s)
           b == Len(t)
           f == [i \in 1..a |-> 1 + s[i].len]
           g == [i \in 1..b |-> 1 + t[i].len]
<1>1. a \in Nat /\ b \in Nat /\ f \in [1..a -> Nat] /\ g \in [1..b -> Nat]
  BY TextOf
<1>2. Len(s \o t) = a + b
  BY Joined
<1>3. [i \in 1..a+b |-> 1 + (s \o t)[i].len] = Then(f, a, g, b)
  <2>1. \A i \in 1..a+b : (s \o t)[i] = IF i <= a THEN s[i] ELSE t[i - a]
    BY Joined
  <2>2. \A i \in 1..a+b : 1 + (s \o t)[i].len = IF i <= a THEN f[i] ELSE g[i - a]
    BY <1>1, <2>1
  <2> QED
    BY <2>2 DEF Then
<1>4. SumFunction(Then(f, a, g, b)) = SumFunction(f) + SumFunction(g)
  <2> HIDE DEF f, g, a, b
  <2> QED
    BY <1>1, SumParts
<1> QED
  BY <1>2, <1>3, <1>4 DEF Spaced

\* The words of a message need no more room than its arguments.
LEMMA FlattenSpaced ==
  ASSUME NEW n \in Nat, NEW seqs \in [1..n -> Text]
  PROVE  /\ FlattenSeq(seqs) \in Text
         /\ Spaced(FlattenSeq(seqs)) <= SumFunction([i \in 1..n |-> 1 + TextLen(seqs[i])])
<1> DEFINE Args(s, m) == SumFunction([i \in 1..m |-> 1 + TextLen(s[i])])
           N == {m \in Nat : \A s \in [1..m -> Text] :
                    FlattenSeq(s) \in Text /\ Spaced(FlattenSeq(s)) <= Args(s, m)}
<1>1. 0 \in N
  <2> SUFFICES ASSUME NEW s \in [1..0 -> Text]
               PROVE  FlattenSeq(s) \in Text /\ Spaced(FlattenSeq(s)) <= Args(s, 0)
    OBVIOUS
  <2>1. FlattenSeq(s) = <<>> /\ <<>> \in Text /\ Len(<<>>) = 0
    BY FlattenNone, NoText
  <2>2. [i \in 1..0 |-> 1 + <<>>[i].len] \in [1..0 -> Nat]
    OBVIOUS
  <2>3. Spaced(<<>>) = 0
    BY <2>1, <2>2, SumNone DEF Spaced
  <2>4. [i \in 1..0 |-> 1 + TextLen(s[i])] \in [1..0 -> Nat]
    OBVIOUS
  <2>5. Args(s, 0) = 0
    BY <2>4, SumNone
  <2> HIDE DEF Args
  <2> QED
    BY <2>1, <2>3, <2>5
<1>2. ASSUME NEW m \in Nat, m \in N
      PROVE  m + 1 \in N
  <2> SUFFICES ASSUME NEW s \in [1..m+1 -> Text]
               PROVE  FlattenSeq(s) \in Text /\ Spaced(FlattenSeq(s)) <= Args(s, m + 1)
    OBVIOUS
  <2> DEFINE s0 == [i \in 1..m |-> s[i]]
             g  == [i \in 1..m+1 |-> 1 + TextLen(s[i])]
             g0 == [i \in 1..m |-> g[i]]
             t  == s[m + 1]
  <2>1. s0 \in [1..m -> Text] /\ t \in Text
    OBVIOUS
  <2>2. FlattenSeq(s0) \in Text /\ Spaced(FlattenSeq(s0)) <= Args(s0, m)
    BY <1>2, <2>1
  <2>3. FlattenSeq(s) = FlattenSeq(s0) \o t
    BY FlattenLast
  <2>4. FlattenSeq(s) \in Text
    BY <2>1, <2>2, <2>3, Joined
  <2>5. Spaced(FlattenSeq(s)) = Spaced(FlattenSeq(s0)) + Spaced(t)
    BY <2>1, <2>2, <2>3, SpacedJoin
  <2>6. g \in [1..m+1 -> Nat] /\ g[m + 1] = 1 + TextLen(t)
    BY SpacedText
  <2>7. SumFunction(g) = SumFunction(g0) + g[m + 1] /\ SumFunction(g0) \in Nat
    <3> HIDE DEF g
    <3> QED
      BY <2>6, SumLast
  <2>8. Args(s0, m) = SumFunction(g0) /\ Args(s, m + 1) = SumFunction(g)
    <3>1. [i \in 1..m |-> 1 + TextLen(s0[i])] = g0
      OBVIOUS
    <3> QED
      BY <3>1
  <2>9. /\ Spaced(t) \in Nat /\ TextLen(t) \in Nat /\ Spaced(t) <= 1 + TextLen(t)
        /\ Spaced(FlattenSeq(s0)) \in Nat
    BY <2>1, <2>2, SpacedText
  <2> HIDE DEF Args, g, g0, s0, t
  <2> QED
    BY <2>2, <2>4, <2>5, <2>6, <2>7, <2>8, <2>9
<1>3. Nat \subseteq N
  <2> HIDE DEF N
  <2> QED
    BY <1>1, <1>2, Induction
<1> QED
  BY <1>3

-----------------------------------------------------------------------------
(* Encoding and decoding.                                                    *)

Line == [type : STRING, words : Text, quoted : BOOLEAN, newline : BOOLEAN, len : Nat]
Sent == [type : STRING, args : Seq(Text)]

\* The line has room for what it holds.
Roomy(l) == l \in Line /\ (l.type \in MessageType => l.len >= PackedLen(l))

LEMMA NameLenType ==
  ASSUME NEW type \in MessageType
  PROVE  NameLen(type) \in Nat
  BY DEF NameLen, MessageType, NoArg, OneArg, TwoArgs, Quoted

\* What encode makes of a message is as long as it says.
LEMMA EncodedIsRoomy ==
  ASSUME NEW m \in Sent, encode(m) # InvalidMessage
  PROVE  Roomy(encode(m)) /\ encode(m).len <= MAX_ENCODED_LEN
<1> DEFINE n == Len(m.args)
           g == [i \in 1..n |-> 1 + TextLen(m.args[i])]
           words == FlattenSeq(m.args)
<1>1. /\ m.type \in MessageType /\ EncodedLen(m) <= MAX_ENCODED_LEN
      /\ encode(m) = [type |-> m.type, words |-> words, quoted |-> FALSE,
                      newline |-> TRUE, len |-> EncodedLen(m)]
  BY DEF encode, check_message_size
<1>2. m.type \in STRING /\ m.args \in Seq(Text)
  BY DEF Sent
<1>3. n \in Nat /\ m.args \in [1..n -> Text]
  BY <1>2, LenProperties
<1>4. words \in Text /\ Spaced(words) <= SumFunction(g)
  BY <1>3, FlattenSpaced
<1>5. g \in [1..n -> Nat]
  BY <1>3, SpacedText
<1>6. SumFunction(g) \in Nat
  <2> HIDE DEF g, n
  <2> QED
    BY <1>3, <1>5, SumType
<1>7. EncodedLen(m) = NameLen(m.type) + SumFunction(g) + 1
  BY DEF EncodedLen
<1>8. NameLen(m.type) \in Nat /\ Spaced(words) \in Nat
  BY <1>1, <1>4, NameLenType, SpacedText
<1>9. PackedLen(encode(m)) = NameLen(m.type) + Spaced(words) + 1
  <2> HIDE DEF words
  <2> QED
    BY <1>1 DEF PackedLen, Spaced
<1> HIDE DEF g, n, words
<1>10. EncodedLen(m) \in Nat /\ EncodedLen(m) >= PackedLen(encode(m))
  BY <1>4, <1>6, <1>7, <1>8, <1>9
<1>11. encode(m) \in Line /\ encode(m).len = EncodedLen(m)
  BY <1>1, <1>2, <1>4, <1>10 DEF Line
<1> QED
  BY <1>1, <1>10, <1>11 DEF Roomy

\* decode accepts no line that its message, sent on, would not fit into.
LEMMA DecodedFits ==
  ASSUME NEW l, Roomy(l), decode(l).type \in MessageType \ Quoted
  PROVE  /\ decode(l) \in Sent /\ Plain(decode(l))
         /\ EncodedLen(decode(l)) <= MAX_ENCODED_LEN
<1> DEFINE words == l.words
           n == Len(words)
           args == [i \in 1..n |-> <<words[i]>>]
           m == [type |-> l.type, args |-> args]
<1>0. /\ words \in Text /\ l.len \in Nat /\ l.type \in STRING /\ n \in Nat
      /\ \A i \in 1..n : words[i] \in Word
  BY TextOf DEF Roomy, Line
<1>1. /\ decode(l) = m /\ l.len <= MAX_ENCODED_LEN /\ l.newline
      /\ l.type \in MessageType \ Quoted /\ is_valid(m)
  <2>1. decode(l) # InvalidMessage
    BY DEF InvalidMessage, MessageType, NoArg, OneArg, TwoArgs, Quoted
  <2>2. decode(l).type = l.type
    BY <2>1 DEF decode
  <2> QED
    BY <2>1, <2>2 DEF decode, check_message_size, extract_single_word_args
<1>2. args \in Seq(Text) /\ Len(args) = n /\ \A i \in 1..n : args[i] = <<words[i]>>
  <2>1. \A i \in 1..n : <<words[i]>> \in Text
    BY <1>0 DEF Text
  <2> QED
    BY <1>0, <2>1
<1>3. m \in Sent /\ m.args = args /\ m.type = l.type
  BY <1>0, <1>2 DEF Sent
<1>4. Plain(m)
  BY <1>1, <1>2, <1>3 DEF Plain
<1>5. EncodedLen(m) = NameLen(l.type) + Spaced(words) + 1
  <2>1. [i \in 1..Len(args) |-> 1 + TextLen(args[i])] = [i \in 1..n |-> 1 + words[i].len]
    BY <1>0, <1>2, WordLen
  <2> HIDE DEF args, words
  <2> QED
    BY <1>3, <2>1 DEF EncodedLen, Spaced
<1>6. PackedLen(l) = NameLen(l.type) + Spaced(words) + 1
  BY <1>1 DEF PackedLen, Spaced
<1>7. l.len >= PackedLen(l) /\ MAX_ENCODED_LEN \in Nat
  BY <1>1, MaxLenAssumption DEF Roomy
<1>8. NameLen(l.type) \in Nat /\ Spaced(words) \in Nat
  BY <1>0, <1>1, NameLenType, SpacedText
<1> HIDE DEF m, args, words
<1> QED
  BY <1>0, <1>1, <1>3, <1>4, <1>5, <1>6, <1>7, <1>8

\* A plain message that fits is read back as it was written.
LEMMA PlainReturns ==
  ASSUME NEW m \in Sent, Plain(m), EncodedLen(m) <= MAX_ENCODED_LEN
  PROVE  encode(m) # InvalidMessage /\ decode(encode(m)) = m
<1> DEFINE n == Len(m.args)
           words == FlattenSeq(m.args)
           l == encode(m)
<1>1. m.args \in Seq(Text) /\ n \in Nat /\ m.args \in [1..n -> Text]
  <2>1. m.args \in Seq(Text)
    BY DEF Sent
  <2> QED
    BY <2>1, LenProperties
<1>2. m.type \in MessageType \ Quoted /\ is_valid(m) /\ \A i \in 1..n : Len(m.args[i]) = 1
  BY DEF Plain
<1>3. l = [type |-> m.type, words |-> words, quoted |-> FALSE,
           newline |-> TRUE, len |-> EncodedLen(m)]
  BY <1>2 DEF encode, check_message_size
<1>4. l # InvalidMessage
  <2>1. l.type # "InvalidMessage"
    <3> HIDE DEF l
    <3> QED
      BY <1>2, <1>3 DEF MessageType, NoArg, OneArg, TwoArgs, Quoted
  <2> HIDE DEF l
  <2> QED
    BY <2>1 DEF InvalidMessage
<1>5. words = [i \in 1..n |-> m.args[i][1]]
  BY <1>1, <1>2, FlattenWords
<1>6. Len(words) = n /\ \A i \in 1..n : words[i] = m.args[i][1]
  <2> HIDE DEF n, words
  <2> QED
    BY <1>1, <1>5
<1>7. [i \in 1..Len(words) |-> <<words[i]>>] = m.args
  <2>1. ASSUME NEW i \in 1..n
        PROVE  <<words[i]>> = m.args[i]
    <3> DEFINE t == m.args[i]
    <3>1. t \in Seq(Word) /\ Len(t) = 1
      BY <1>1, <1>2 DEF Text
    <3>2. <<t[1]>> = t
      <4> HIDE DEF t
      <4> QED
        BY <3>1
    <3> QED
      BY <1>6, <3>2
  <2> HIDE DEF words, n
  <2> QED
    BY <1>1, <1>6, <2>1
<1>8. m = [type |-> m.type, args |-> m.args]
  BY DEF Sent
<1>9. extract_single_word_args(l) = m.args
  <2>1. l.words = words
    BY <1>3
  <2> HIDE DEF words, l
  <2> QED
    BY <1>7, <2>1 DEF extract_single_word_args
<1>10. /\ l.type = m.type /\ l.newline /\ l.len = EncodedLen(m)
  BY <1>3
<1> HIDE DEF l, words, n
<1>11. decode(l) = m
  BY <1>2, <1>8, <1>9, <1>10 DEF decode, check_message_size
<1> QED
  BY <1>4, <1>11 DEF l

-----------------------------------------------------------------------------
(* The message on its way.                                                   *)

\* Nothing is no message and no line.
LEMMA NothingIs == Nothing.type \notin MessageType /\ Nothing.type # "PUSH" /\ Nothing \notin Line
<1>1. Nothing.type = "nothing yet"
  BY DEF Nothing
<1>2. "nothing yet" \notin MessageType
  BY DEF MessageType, NoArg, OneArg, TwoArgs, Quoted
<1>3. Nothing \notin Line
  <2>1. \A l \in Line : "len" \in DOMAIN l
    BY DEF Line
  <2>2. "len" \notin DOMAIN Nothing
    BY DEF Nothing
  <2> QED
    BY <2>1, <2>2
<1> QED
  BY <1>1, <1>2, <1>3

\* Who wrote the line, what was read from it and what was answered.
TransmissionInv ==
    /\ \/ sent \in Messages /\ line \in {Nothing, encode(sent)}
       \/ sent = Nothing /\ line \in Lines
    /\ received # Nothing =>
           line \notin {Nothing, InvalidMessage} /\ received = decode(line)
    /\ answer # Nothing =>
           /\ received.type = "PUSH"
           /\ answer = encode([type |-> "DATA", args |-> received.args])

LEMMA TransmissionStarts == Init => TransmissionInv
  BY DEF Init, TransmissionInv

LEMMA TransmissionContinues == TransmissionInv /\ [Next]_vars => TransmissionInv'
<1> SUFFICES ASSUME TransmissionInv, [Next]_vars
             PROVE  TransmissionInv'
  OBVIOUS
<1>1. CASE Send
  <2>1. received = Nothing
    BY <1>1 DEF Send, TransmissionInv
  <2>2. answer = Nothing
    BY <2>1, NothingIs DEF TransmissionInv
  <2>3. line' \in {Nothing, encode(sent)} /\ UNCHANGED <<sent, received, answer>>
    BY <1>1 DEF Send
  <2>4. Nothing \notin Lines
    BY TransmissionAssumption, NothingIs DEF Line
  <2>5. sent \in Messages
    BY <1>1, <2>4 DEF Send, TransmissionInv
  <2> QED
    BY <2>1, <2>2, <2>3, <2>4, <2>5 DEF TransmissionInv
<1>2. CASE Receive
  <2>1. answer = Nothing
    BY <1>2, NothingIs DEF Receive, TransmissionInv
  <2> QED
    BY <1>2, <2>1 DEF Receive, TransmissionInv
<1>3. CASE AnswerTop
  BY <1>3 DEF AnswerTop, TransmissionInv
<1>4. CASE UNCHANGED vars
  BY <1>4 DEF vars, TransmissionInv
<1> QED
  BY <1>1, <1>2, <1>3, <1>4 DEF Next

LEMMA TransmissionInvariant == Spec => []TransmissionInv
  BY TransmissionStarts, TransmissionContinues, PTL DEF Spec

\* Every line that is read has room for its words, whoever wrote it.
LEMMA LineIsRoomy ==
  ASSUME TransmissionInv, received # Nothing
  PROVE  Roomy(line)
<1>1. CASE sent = Nothing /\ line \in Lines
  BY <1>1, TransmissionAssumption DEF Roomy, Line
<1>2. CASE sent \in Messages /\ line = encode(sent)
  <2>1. sent \in Sent /\ encode(sent) # InvalidMessage
    BY <1>2, TransmissionAssumption DEF TransmissionInv, Sent
  <2> QED
    BY <1>2, <2>1, EncodedIsRoomy
<1> QED
  BY <1>1, <1>2 DEF TransmissionInv

\* A plain message that encode accepts arrives as it was sent (encode, decode,
\* is_valid agree on arguments, lengths and the newline), for every limit on
\* the length and every message, with any number of arguments.
THEOREM MessagesReturn == Spec => []RoundTrip
<1>1. TransmissionInv => RoundTrip
  <2> SUFFICES ASSUME TransmissionInv, Plain(sent), received # Nothing
               PROVE  received = sent
    BY DEF RoundTrip
  <2>1. sent # Nothing
    BY NothingIs DEF Plain
  <2>2. sent \in Messages /\ line = encode(sent) /\ line # InvalidMessage
        /\ received = decode(line)
    BY <2>1 DEF TransmissionInv
  <2>3. sent \in Sent
    BY <2>2, TransmissionAssumption DEF Sent
  <2>4. EncodedLen(sent) <= MAX_ENCODED_LEN
    BY <2>2 DEF encode, check_message_size
  <2> QED
    BY <2>2, <2>3, <2>4, PlainReturns
<1> QED
  BY <1>1, TransmissionInvariant, PTL

\* Whatever line arrives, the message decode makes of it is a valid one that
\* encode can send on and decode reads back unchanged: it needs no more room
\* than the line it came in.
THEOREM DecodedReturn == Spec => []DecodedIsPlain
<1>1. TransmissionInv => DecodedIsPlain
  <2> SUFFICES ASSUME TransmissionInv, received.type \in MessageType \ Quoted
               PROVE  /\ Plain(received) /\ encode(received) # InvalidMessage
                      /\ decode(encode(received)) = received
    BY DEF DecodedIsPlain
  <2>1. received # Nothing
    BY NothingIs
  <2>2. received = decode(line) /\ Roomy(line)
    BY <2>1, LineIsRoomy DEF TransmissionInv
  <2>3. received \in Sent /\ Plain(received) /\ EncodedLen(received) <= MAX_ENCODED_LEN
    BY <2>2, DecodedFits
  <2> QED
    BY <2>3, PlainReturns
<1> QED
  BY <1>1, TransmissionInvariant, PTL

\* A value that arrived in a PUSH is never too long for the DATA message that
\* answers a TOP: the two names are equally long (handle_push, handle_top).
THEOREM AnswersFit == Spec => []AnswerFits
<1>1. TransmissionInv => AnswerFits
  <2> SUFFICES ASSUME TransmissionInv, answer = InvalidMessage
               PROVE  FALSE
    BY DEF AnswerFits
  <2> DEFINE m == [type |-> "DATA", args |-> received.args]
  <2>1. /\ received.type = "PUSH" /\ received.type \in MessageType \ Quoted
        /\ answer = encode(m)
    BY DEF TransmissionInv, Nothing, InvalidMessage, MessageType, NoArg, OneArg, TwoArgs, Quoted
  <2>2. received # Nothing
    BY <2>1, NothingIs
  <2>3. received = decode(line) /\ Roomy(line)
    BY <2>2, LineIsRoomy DEF TransmissionInv
  <2>4. EncodedLen(received) <= MAX_ENCODED_LEN
    BY <2>1, <2>3, DecodedFits
  <2>5. NameLen("DATA") = NameLen(received.type)
    BY <2>1 DEF NameLen
  <2>6. EncodedLen(m) = EncodedLen(received)
    BY <2>5 DEF EncodedLen
  <2>7. encode(m).type = "DATA"
    BY <2>4, <2>6 DEF encode, check_message_size, MessageType, NoArg, OneArg, TwoArgs, Quoted
  <2> QED
    BY <2>1, <2>7 DEF InvalidMessage
<1> QED
  BY <1>1, TransmissionInvariant, PTL
=============================================================================
