--------------------------- MODULE SequenceLemmas ---------------------------
(***************************************************************************)
(* Lemmas on sequences, and on the text conversions of TextEncoding.  What *)
(* is defined over a whole sequence is reasoned about through the least    *)
(* number with a property (Least, from a theorem on well-founded           *)
(* relations): a set of lengths that has 0 and is closed under the         *)
(* successor has all lengths (Induction), so that FlattenSeq, and the      *)
(* function by which utf16toutf8 reads its units, compute what they        *)
(* should for sequences of any length.                                     *)
(***************************************************************************)
EXTENDS TextEncoding, SequenceTheorems, WellFoundedInduction, TLAPS

\* The least-number principle for a set.
LEMMA Least ==
  ASSUME NEW T, T \subseteq Nat, T /= {}
  PROVE  \E m \in T : \A k \in T : m <= k
  <1> DEFINE R == {ss \in Nat \X Nat : ss[1] < ss[2]}
  <1>1. R = OpToRel(<, Nat)
    BY DEF OpToRel
  <1>2. IsWellFoundedOn(R, Nat)
    BY <1>1, NatLessThanWellFounded
  <1>3. \A k, m \in Nat : k < m => <<k, m>> \in R
    OBVIOUS
  <1> HIDE DEF R
  <1>4. PICK m \in T : \A k \in T : ~ (<<k, m>> \in R)
    BY <1>2, WFMin
  <1>5. ASSUME NEW k \in T PROVE m <= k
    <2>1. k \in Nat /\ m \in Nat /\ ~(k < m)
      BY <1>3, <1>4
    <2> QED BY <2>1
  <1> QED BY <1>5

\* A nonempty set of numbers up to n has a greatest one.
LEMMA Greatest ==
  ASSUME NEW n \in Nat, NEW T, T \subseteq 0 .. n, T /= {}
  PROVE  \E m \in T : \A k \in T : k <= m
  <1> DEFINE U == {u \in Nat : \A k \in T : k <= u}
  <1>1. U \subseteq Nat /\ U /= {}
    <2>1. n \in U
      OBVIOUS
    <2> QED BY <2>1
  <1>2. PICK u \in U : \A v \in U : u <= v
    BY <1>1, Least
  <1>3. u \in T
    <2>1. CASE u = 0
      <3>1. PICK k \in T : TRUE
        OBVIOUS
      <3>2. k = u
        BY <2>1, <3>1
      <3> QED BY <3>2
    <2>2. CASE u /= 0 /\ u \notin T
      <3>1. u - 1 \in Nat
        BY <2>2
      <3>2. \A k \in T : k <= u - 1
        BY <2>2
      <3>3. u - 1 \in U
        BY <3>1, <3>2
      <3> QED BY <1>2, <3>1, <3>3
    <2> QED BY <2>1, <2>2
  <1> QED BY <1>3

\* The least and the greatest of two numbers.
LEMMA MinTwo ==
  ASSUME NEW a \in Int, NEW b \in Int
  PROVE  Min({a, b}) = IF a <= b THEN a ELSE b
  <1>1. \E x \in {a, b} : \A y \in {a, b} : x <= y
    OBVIOUS
  <1>2. Min({a, b}) \in {a, b} /\ \A y \in {a, b} : Min({a, b}) <= y
    BY <1>1 DEF Min
  <1> QED BY <1>2

LEMMA MaxTwo ==
  ASSUME NEW a \in Int, NEW b \in Int
  PROVE  Max({a, b}) = IF a <= b THEN b ELSE a
  <1>1. \E x \in {a, b} : \A y \in {a, b} : x >= y
    OBVIOUS
  <1>2. Max({a, b}) \in {a, b} /\ \A y \in {a, b} : Max({a, b}) >= y
    BY <1>1 DEF Max
  <1> QED BY <1>2

\* Induction on the natural numbers, for a set.
LEMMA Induction ==
  ASSUME NEW S, 0 \in S, \A n \in Nat : n \in S => n + 1 \in S
  PROVE  \A n \in Nat : n \in S
  <1> SUFFICES ASSUME NEW n \in Nat, n \notin S PROVE FALSE
    OBVIOUS
  <1>1. PICK m \in Nat \ S : \A k \in Nat \ S : m <= k
    BY Least, n \in Nat \ S
  <1>2. m /= 0 /\ m - 1 \in Nat
    BY <1>1
  <1>3. m - 1 \in S
    BY <1>1, <1>2
  <1> QED BY <1>1, <1>2, <1>3

\* The function by which FlattenSeq is defined exists.
Flattened(s, n, f) == f = [i \in 1 .. n |-> IF i = 1 THEN s[i] ELSE f[i-1] \o s[i]]

LEMMA FlattenedExists ==
  ASSUME NEW s, NEW n \in Nat
  PROVE  \E f : Flattened(s, n, f)
  <1> DEFINE S == {m \in Nat : \E f : Flattened(s, m, f)}
  <1>1. 0 \in S
    <2> DEFINE g == [i \in 1 .. 0 |-> s[i]]
    <2>1. g = [i \in 1 .. 0 |-> IF i = 1 THEN s[i] ELSE g[i-1] \o s[i]]
      OBVIOUS
    <2> QED BY <2>1 DEF Flattened
  <1>2. ASSUME NEW m \in Nat, m \in S PROVE m + 1 \in S
    <2>1. PICK f : Flattened(s, m, f)
      BY <1>2
    <2> DEFINE last == IF m = 0 THEN s[1] ELSE f[m] \o s[m + 1]
    <2> DEFINE g == [i \in 1 .. m + 1 |-> IF i = m + 1 THEN last ELSE f[i]]
    <2> HIDE DEF last
    <2>2. \A i \in 1 .. m : f[i] = IF i = 1 THEN s[i] ELSE f[i-1] \o s[i]
      BY <2>1 DEF Flattened
    <2>3. ASSUME NEW i \in 1 .. m + 1
          PROVE  g[i] = IF i = 1 THEN s[i] ELSE g[i-1] \o s[i]
      <3>1. CASE i = m + 1
        <4>1. CASE m = 0
          BY <3>1, <4>1 DEF last
        <4>2. CASE m /= 0
          <5>1. g[i - 1] = f[m] /\ i /= 1
            BY <3>1, <4>2
          <5> QED BY <3>1, <4>2, <5>1 DEF last
        <4> QED BY <4>1, <4>2
      <3>2. CASE i /= m + 1
        <4>1. i \in 1 .. m /\ g[i] = f[i]
          BY <3>2
        <4>2. i /= 1 => g[i - 1] = f[i - 1]
          BY <4>1
        <4> QED BY <2>2, <4>1, <4>2
      <3> QED BY <3>1, <3>2
    <2>4. g = [i \in 1 .. m + 1 |-> g[i]]
      OBVIOUS
    <2> HIDE DEF g
    <2>5. Flattened(s, m + 1, g)
      BY <2>3, <2>4 DEF Flattened
    <2> QED BY <2>5
  <1> HIDE DEF S
  <1>3. n \in S
    BY <1>1, <1>2, Induction
  <1> QED BY <1>3 DEF S

\* How FlattenSeq computes.
LEMMA FlattenUnfold ==
  ASSUME NEW S, NEW s \in Seq(Seq(S)), s /= <<>>
  PROVE  \E f \in [1 .. Len(s) -> Seq(S)] :
           /\ f[1] = s[1]
           /\ \A i \in 1 .. Len(s) - 1 : f[i + 1] = f[i] \o s[i + 1]
           /\ FlattenSeq(s) = f[Len(s)]
  <1> DEFINE f == CHOOSE g : g = [i \in 1 .. Len(s) |-> IF i = 1 THEN s[i] ELSE g[i-1] \o s[i]]
  <1>0. Len(s) \in Nat /\ Len(s) /= 0
    OBVIOUS
  <1>1. f = [i \in 1 .. Len(s) |-> IF i = 1 THEN s[i] ELSE f[i-1] \o s[i]]
    BY <1>0, FlattenedExists DEF Flattened
  <1>2. FlattenSeq(s) = f[Len(s)]
    BY <1>0 DEF FlattenSeq
  <1> HIDE DEF f
  <1>3. /\ f[1] = s[1]
        /\ \A i \in 1 .. Len(s) - 1 : f[i + 1] = f[i] \o s[i + 1]
    <2>1. \A i \in 1 .. Len(s) : f[i] = IF i = 1 THEN s[i] ELSE f[i-1] \o s[i]
      BY <1>1, Zenon
    <2>2. ASSUME NEW i \in 1 .. Len(s) - 1 PROVE f[i + 1] = f[i] \o s[i + 1]
      <3>1. PICK j \in 1 .. Len(s) : j = i + 1 /\ j /= 1 /\ j - 1 = i
        BY <1>0
      <3>2. f[j] = f[j - 1] \o s[j]
        BY <2>1, <3>1, Zenon
      <3> QED BY <3>1, <3>2, Zenon
    <2>3. 1 \in 1 .. Len(s)
      BY <1>0
    <2> QED BY <2>1, <2>2, <2>3, Zenon
  <1>4. \A i \in 1 .. Len(s) : f[i] \in Seq(S)
    <2> DEFINE T == {n \in Nat : n + 1 \in 1 .. Len(s) => f[n + 1] \in Seq(S)}
    <2>1. 0 \in T
      BY <1>0, <1>3
    <2>2. ASSUME NEW n \in Nat, n \in T PROVE n + 1 \in T
      <3>1. SUFFICES ASSUME n + 1 + 1 \in 1 .. Len(s) PROVE f[n + 1 + 1] \in Seq(S)
        OBVIOUS
      <3>2. n + 1 \in 1 .. Len(s) - 1 /\ f[n + 1] \in Seq(S) /\ s[n + 1 + 1] \in Seq(S)
        BY <1>0, <2>2, <3>1
      <3>3. f[n + 1] \o s[n + 1 + 1] \in Seq(S)
        BY <3>2, ConcatProperties
      <3>4. f[n + 1 + 1] = f[n + 1] \o s[n + 1 + 1]
        BY <1>3, <3>2, Zenon
      <3> QED BY <3>3, <3>4, Zenon
    <2> HIDE DEF T
    <2>3. \A n \in Nat : n \in T
      BY <2>1, <2>2, Induction
    <2> QED BY <2>3 DEF T
  <1>5. f \in [1 .. Len(s) -> Seq(S)]
    BY <1>1, <1>4
  <1> QED BY <1>2, <1>3, <1>5

\* Induction over the sequences that FlattenSeq(s) concatenates, for a set of
\* pairs of a number of them and what is concatenated so far.
LEMMA FlattenInduction ==
  ASSUME NEW S, NEW s \in Seq(Seq(S)), s /= <<>>, NEW G, <<1, s[1]>> \in G,
         \A k \in 1 .. Len(s) - 1 : \A a \in Seq(S) :
           <<k, a>> \in G => <<k + 1, a \o s[k + 1]>> \in G
  PROVE  FlattenSeq(s) \in Seq(S) /\ <<Len(s), FlattenSeq(s)>> \in G
  <1>0. Len(s) \in Nat /\ Len(s) /= 0
    OBVIOUS
  <1>1. PICK f \in [1 .. Len(s) -> Seq(S)] :
          /\ f[1] = s[1]
          /\ \A i \in 1 .. Len(s) - 1 : f[i + 1] = f[i] \o s[i + 1]
          /\ FlattenSeq(s) = f[Len(s)]
    BY FlattenUnfold, Zenon
  <1> DEFINE T == {n \in Nat : n + 1 \in 1 .. Len(s) => <<n + 1, f[n + 1]>> \in G}
  <1>2. 0 \in T
    <2>1. <<1, f[1]>> \in G
      BY <1>1, Zenon
    <2> QED BY <2>1
  <1>3. ASSUME NEW n \in Nat, n \in T PROVE n + 1 \in T
    <2>1. SUFFICES ASSUME n + 1 \in 1 .. Len(s) - 1 PROVE <<n + 1 + 1, f[n + 1 + 1]>> \in G
      BY <1>0
    <2>2. PICK k \in 1 .. Len(s) - 1 : k = n + 1
      BY <2>1
    <2>3. k \in 1 .. Len(s) /\ <<k, f[k]>> \in G
      BY <1>0, <1>3, <2>2
    <2> HIDE DEF T
    <2>4. f[k] \in Seq(S)
      BY <2>3, Zenon
    <2>5. <<k + 1, f[k] \o s[k + 1]>> \in G
      BY <2>3, <2>4, Zenon
    <2> QED BY <1>1, <2>2, <2>5, Zenon
  <1> HIDE DEF T
  <1>4. \A n \in Nat : n \in T
    BY <1>2, <1>3, Induction
  <1>5. <<Len(s), f[Len(s)]>> \in G
    <2>1. Len(s) - 1 \in T
      BY <1>0, <1>4
    <2> QED BY <1>0, <2>1 DEF T
  <1>6. f[Len(s)] \in Seq(S)
    <2>1. Len(s) \in 1 .. Len(s)
      BY <1>0
    <2> QED BY <2>1, Zenon
  <1> QED BY <1>1, <1>5, <1>6, Zenon

\* Elements of a concatenation.
LEMMA ConcatElements ==
  ASSUME NEW S, NEW a \in Seq(S), NEW b \in Seq(S), NEW c, c = a \o b
  PROVE  /\ c \in Seq(S) /\ Len(c) = Len(a) + Len(b)
         /\ Len(a) \in Nat /\ Len(b) \in Nat
         /\ \A i \in 1 .. Len(c) :
              \/ i \in 1 .. Len(a) /\ c[i] = a[i]
              \/ i - Len(a) \in 1 .. Len(b) /\ c[i] = b[i - Len(a)]
         /\ \A i \in 1 .. Len(a) : c[i] = a[i]
         /\ \A i \in 1 .. Len(b) : c[Len(a) + i] = b[i]
  <1>1. Len(a) \in Nat /\ Len(b) \in Nat
    OBVIOUS
  <1>2. /\ c \in Seq(S) /\ Len(c) = Len(a) + Len(b)
        /\ \A i \in 1 .. Len(a) + Len(b) :
             c[i] = IF i <= Len(a) THEN a[i] ELSE b[i - Len(a)]
    BY ConcatProperties
  <1> QED BY <1>1, <1>2

\* Each element of FlattenSeq(s) is an element of an s[p].
LEMMA FlattenElements ==
  ASSUME NEW S, NEW s \in Seq(Seq(S))
  PROVE  /\ FlattenSeq(s) \in Seq(S)
         /\ \A i \in 1 .. Len(FlattenSeq(s)) :
              \E p \in 1 .. Len(s) : \E j \in 1 .. Len(s[p]) : FlattenSeq(s)[i] = s[p][j]
  <1>1. CASE s = <<>>
    <2>1. FlattenSeq(s) = <<>>
      BY <1>1 DEF FlattenSeq
    <2> QED BY <2>1
  <1>2. CASE s /= <<>>
    <2> DEFINE From(t) == \A i \in 1 .. Len(t) :
                            \E p \in 1 .. Len(s) : \E j \in 1 .. Len(s[p]) : t[i] = s[p][j]
               G == {kt \in Nat \X Seq(S) : From(kt[2])}
    <2>0. Len(s) \in Nat /\ Len(s) /= 0
      BY <1>2
    <2>1. \A p \in 1 .. Len(s) : s[p] \in Seq(S)
      OBVIOUS
    <2>2. \A p \in 1 .. Len(s) : From(s[p])
      OBVIOUS
    <2>3. <<1, s[1]>> \in G
      <3>1. s[1] \in Seq(S) /\ From(s[1])
        BY <2>0, <2>1, <2>2
      <3> HIDE DEF From
      <3> QED BY <3>1
    <2>4. ASSUME NEW k \in 1 .. Len(s) - 1, NEW a \in Seq(S), <<k, a>> \in G
          PROVE  <<k + 1, a \o s[k + 1]>> \in G
      <3>1. PICK m \in 1 .. Len(s) : m = k + 1
        BY <2>0
      <3>2. PICK b \in Seq(S) : b = s[m]
        BY <2>1
      <3>3. PICK c \in Seq(S) : c = a \o b
        BY ConcatElements
      <3>4. From(a) /\ From(b)
        BY <2>2, <2>4, <3>2
      <3>5. \A i \in 1 .. Len(c) : \/ i \in 1 .. Len(a) /\ c[i] = a[i]
                                   \/ i - Len(a) \in 1 .. Len(b) /\ c[i] = b[i - Len(a)]
        BY <3>3, ConcatElements
      <3> HIDE DEF G
      <3>6. From(c)
        <4> SUFFICES ASSUME NEW i \in 1 .. Len(c)
                     PROVE  \E p \in 1 .. Len(s) : \E j \in 1 .. Len(s[p]) : c[i] = s[p][j]
          OBVIOUS
        <4>1. CASE i \in 1 .. Len(a) /\ c[i] = a[i]
          <5>1. \E p \in 1 .. Len(s) : \E j \in 1 .. Len(s[p]) : a[i] = s[p][j]
            BY <3>4, <4>1
          <5> QED BY <4>1, <5>1
        <4>2. CASE i - Len(a) \in 1 .. Len(b) /\ c[i] = b[i - Len(a)]
          <5>1. \E p \in 1 .. Len(s) : \E j \in 1 .. Len(s[p]) : b[i - Len(a)] = s[p][j]
            BY <3>4, <4>2
          <5> QED BY <4>2, <5>1
        <4> QED BY <3>5, <4>1, <4>2, Zenon
      <3> HIDE DEF From
      <3>7. <<m, c>> \in G
        BY <3>6 DEF G
      <3> QED BY <3>1, <3>2, <3>3, <3>7, Zenon
    <2> HIDE DEF From, G
    <2>5. FlattenSeq(s) \in Seq(S) /\ <<Len(s), FlattenSeq(s)>> \in G
      BY <1>2, <2>3, <2>4, FlattenInduction, Zenon
    <2>6. From(FlattenSeq(s))
      BY <2>5 DEF G
    <2> QED BY <2>5, <2>6 DEF From
  <1> QED BY <1>1, <1>2

\* e is the last element of t in X.
LastIn(t, X, e) ==
  \E i \in 1 .. Len(t) : t[i] = e /\ \A j \in i + 1 .. Len(t) : t[j] \notin X

\* What a concatenation does to it.
LEMMA ConcatLast ==
  ASSUME NEW S, NEW a \in Seq(S), NEW b \in Seq(S), NEW X, NEW e
  PROVE  /\ LastIn(b, X, e) => LastIn(a \o b, X, e)
         /\ LastIn(a, X, e) /\ (\A j \in 1 .. Len(b) : b[j] \notin X) => LastIn(a \o b, X, e)
  <1>1. PICK c \in Seq(S) : c = a \o b
    BY ConcatElements
  <1>2. /\ Len(c) = Len(a) + Len(b) /\ Len(a) \in Nat /\ Len(b) \in Nat
        /\ \A i \in 1 .. Len(c) : \/ i \in 1 .. Len(a) /\ c[i] = a[i]
                                  \/ i - Len(a) \in 1 .. Len(b) /\ c[i] = b[i - Len(a)]
        /\ \A i \in 1 .. Len(a) : c[i] = a[i]
        /\ \A i \in 1 .. Len(b) : c[Len(a) + i] = b[i]
    BY <1>1, ConcatElements
  <1>3. ASSUME LastIn(b, X, e) PROVE LastIn(c, X, e)
    <2>1. PICK i \in 1 .. Len(b) : b[i] = e /\ \A j \in i + 1 .. Len(b) : b[j] \notin X
      BY <1>3 DEF LastIn
    <2>2. PICK k \in 1 .. Len(c) : k = Len(a) + i
      BY <1>2
    <2>3. c[k] = e
      BY <1>2, <2>1, <2>2
    <2>4. ASSUME NEW j \in k + 1 .. Len(c) PROVE c[j] \notin X
      <3>1. j \in 1 .. Len(c) /\ ~(j \in 1 .. Len(a)) /\ j - Len(a) \in i + 1 .. Len(b)
        BY <1>2, <2>2
      <3>2. c[j] = b[j - Len(a)]
        BY <1>2, <3>1
      <3> QED BY <2>1, <3>1, <3>2
    <2> QED BY <2>3, <2>4 DEF LastIn
  <1>4. ASSUME LastIn(a, X, e), \A j \in 1 .. Len(b) : b[j] \notin X PROVE LastIn(c, X, e)
    <2>1. PICK i \in 1 .. Len(a) : a[i] = e /\ \A j \in i + 1 .. Len(a) : a[j] \notin X
      BY <1>4 DEF LastIn
    <2>2. i \in 1 .. Len(c) /\ c[i] = e
      BY <1>2, <2>1
    <2>3. ASSUME NEW j \in i + 1 .. Len(c) PROVE c[j] \notin X
      <3>1. j \in 1 .. Len(c) /\ (j \in 1 .. Len(a) => j \in i + 1 .. Len(a))
        BY <1>2
      <3>2. CASE j \in 1 .. Len(a) /\ c[j] = a[j]
        BY <2>1, <3>1, <3>2
      <3>3. CASE j - Len(a) \in 1 .. Len(b) /\ c[j] = b[j - Len(a)]
        BY <1>4, <3>3
      <3> QED BY <1>2, <3>1, <3>2, <3>3
    <2> QED BY <2>2, <2>3 DEF LastIn
  <1> QED BY <1>1, <1>3, <1>4, Zenon

\* The last element in X of s[p] is the one of FlattenSeq(s), when no sequence
\* to the right of s[p] has one.
LEMMA FlattenLast ==
  ASSUME NEW S, NEW s \in Seq(Seq(S)), NEW X, NEW e, NEW p \in 1 .. Len(s),
         LastIn(s[p], X, e),
         \A q \in p + 1 .. Len(s) : \A j \in 1 .. Len(s[q]) : s[q][j] \notin X
  PROVE  LastIn(FlattenSeq(s), X, e)
  <1>0. Len(s) \in Nat /\ Len(s) /= 0 /\ s /= <<>> /\ p \in Nat
    OBVIOUS
  <1> DEFINE G == {kt \in Nat \X Seq(S) : kt[1] >= p => LastIn(kt[2], X, e)}
  <1>1. \A q \in 1 .. Len(s) : s[q] \in Seq(S)
    OBVIOUS
  <1>2. <<1, s[1]>> \in G
    <2>1. 1 >= p => p = 1
      BY <1>0
    <2> QED BY <1>0, <1>1, <2>1
  <1>3. ASSUME NEW k \in 1 .. Len(s) - 1, NEW a \in Seq(S), <<k, a>> \in G
        PROVE  <<k + 1, a \o s[k + 1]>> \in G
    <2>1. PICK m \in 1 .. Len(s) : m = k + 1
      BY <1>0
    <2>2. PICK b \in Seq(S) : b = s[m]
      BY <1>1
    <2>3. PICK c \in Seq(S) : c = a \o b
      BY ConcatElements
    <2>4. k >= p => LastIn(a, X, e)
      BY <1>3
    <2>5. ASSUME m >= p PROVE LastIn(c, X, e)
      <3>1. CASE m = p
        <4>1. LastIn(b, X, e)
          BY <2>2, <3>1, Zenon
        <4> QED BY <2>3, <4>1, ConcatLast, Zenon
      <3>2. CASE m /= p
        <4>1. k >= p /\ m \in p + 1 .. Len(s)
          BY <1>0, <2>1, <2>5, <3>2
        <4>2. \A j \in 1 .. Len(b) : b[j] \notin X
          BY <2>2, <4>1, Zenon
        <4> QED BY <2>3, <2>4, <4>1, <4>2, ConcatLast, Zenon
      <3> QED BY <3>1, <3>2
    <2>6. <<m, c>> \in G
      BY <2>5
    <2> HIDE DEF G
    <2> QED BY <2>1, <2>2, <2>3, <2>6, Zenon
  <1> HIDE DEF G
  <1>4. FlattenSeq(s) \in Seq(S) /\ <<Len(s), FlattenSeq(s)>> \in G
    BY <1>0, <1>2, <1>3, FlattenInduction, Zenon
  <1> QED BY <1>0, <1>4 DEF G

------------------------------------------------------------------------------
\* A function defined from the end of a sequence to its beginning, as in
\* utf16toutf8, exists: at i it is a[i] or b[i], before what it is one or two
\* further on.
Backward(n, c, a, b, lo, f) ==
  f = [i \in lo .. n + 1 |-> IF i > n THEN <<>>
                             ELSE IF i \in c THEN a[i] \o f[i + 2] ELSE b[i] \o f[i + 1]]

LEMMA BackwardStep ==
  ASSUME NEW n \in Nat, NEW c, NEW a, NEW b, \A i \in c : i + 1 <= n, NEW k \in 1 .. n, NEW f,
         Backward(n, c, a, b, k + 1, f)
  PROVE  \E g : Backward(n, c, a, b, k, g)
  <1> DEFINE first == IF k \in c THEN a[k] \o f[k + 2] ELSE b[k] \o f[k + 1]
             g == [i \in k .. n + 1 |-> IF i = k THEN first ELSE f[i]]
  <1>1. \A j \in k + 1 .. n + 1 : g[j] = f[j]
    OBVIOUS
  <1>2. ASSUME NEW i \in k .. n + 1
        PROVE  g[i] = IF i > n THEN <<>>
                      ELSE IF i \in c THEN a[i] \o g[i + 2] ELSE b[i] \o g[i + 1]
    <2>1. CASE i = k
      <3>1. g[i] = first /\ ~(i > n)
        BY <2>1
      <3>2. i \in c => g[i + 2] = f[k + 2]
        <4>1. i \in c => i + 2 \in k + 1 .. n + 1
          BY <2>1
        <4> HIDE DEF g
        <4> QED BY <1>1, <2>1, <4>1
      <3>3. g[i + 1] = f[k + 1]
        <4>1. i + 1 \in k + 1 .. n + 1
          BY <2>1
        <4> HIDE DEF g
        <4> QED BY <1>1, <2>1, <4>1
      <3> HIDE DEF g
      <3> QED BY <2>1, <3>1, <3>2, <3>3, Zenon
    <2>2. CASE i /= k
      <3>1. PICK j \in k + 1 .. n + 1 : j = i
        BY <2>2
      <3>2. f[j] = IF j > n THEN <<>>
                   ELSE IF j \in c THEN a[j] \o f[j + 2] ELSE b[j] \o f[j + 1]
        BY Zenon DEF Backward
      <3>3. j \in c => g[j + 2] = f[j + 2]
        <4>1. j \in c => j + 2 \in k + 1 .. n + 1
          OBVIOUS
        <4> HIDE DEF g
        <4> QED BY <1>1, <4>1
      <3>4. ~(j > n) => g[j + 1] = f[j + 1]
        <4>1. ~(j > n) => j + 1 \in k + 1 .. n + 1
          OBVIOUS
        <4> HIDE DEF g
        <4> QED BY <1>1, <4>1
      <3>5. g[j] = f[j]
        OBVIOUS
      <3> HIDE DEF g
      <3> QED BY <3>1, <3>2, <3>3, <3>4, <3>5, Zenon
    <2> QED BY <2>1, <2>2
  <1>3. g = [i \in k .. n + 1 |-> g[i]]
    OBVIOUS
  <1> HIDE DEF g
  <1>4. Backward(n, c, a, b, k, g)
    BY <1>2, <1>3 DEF Backward
  <1> QED BY <1>4

LEMMA BackwardExists ==
  ASSUME NEW n \in Nat, NEW c, NEW a, NEW b, \A i \in c : i + 1 <= n
  PROVE  \E f : Backward(n, c, a, b, 1, f)
  <1> DEFINE T == {m \in Nat : m <= n => \E f : Backward(n, c, a, b, n + 1 - m, f)}
  <1>1. 0 \in T
    <2> DEFINE f == [i \in n + 1 .. n + 1 |-> <<>>]
    <2>1. f = [i \in n + 1 .. n + 1 |->
                 IF i > n THEN <<>>
                 ELSE IF i \in c THEN a[i] \o f[i + 2] ELSE b[i] \o f[i + 1]]
      <3>1. \A i \in n + 1 .. n + 1 : i > n
        OBVIOUS
      <3> QED BY <3>1
    <2> HIDE DEF f
    <2>2. Backward(n, c, a, b, n + 1, f)
      BY <2>1 DEF Backward
    <2> QED BY <2>2
  <1>2. ASSUME NEW m \in Nat, m \in T PROVE m + 1 \in T
    <2>1. SUFFICES ASSUME m + 1 <= n
                   PROVE  \E f : Backward(n, c, a, b, n + 1 - (m + 1), f)
      OBVIOUS
    <2>2. PICK k \in 1 .. n : k = n + 1 - (m + 1) /\ k + 1 = n + 1 - m
      BY <2>1
    <2>3. PICK f : Backward(n, c, a, b, k + 1, f)
      BY <1>2, <2>1, <2>2
    <2> HIDE DEF T
    <2>4. \E g : Backward(n, c, a, b, k, g)
      BY <2>3, BackwardStep
    <2> QED BY <2>2, <2>4
  <1> HIDE DEF T
  <1>3. n \in T
    BY <1>1, <1>2, Induction
  <1>4. n + 1 - n = 1
    OBVIOUS
  <1> QED BY <1>3, <1>4 DEF T

LEMMA BackwardType ==
  ASSUME NEW S, NEW n \in Nat, NEW c, NEW a \in [1 .. n -> Seq(S)], NEW b \in [1 .. n -> Seq(S)],
         \A i \in c : i + 1 <= n, NEW f, Backward(n, c, a, b, 1, f)
  PROVE  \A i \in 1 .. n + 1 : f[i] \in Seq(S)
  <1>1. \A i \in 1 .. n + 1 :
          f[i] = IF i > n THEN <<>> ELSE IF i \in c THEN a[i] \o f[i + 2] ELSE b[i] \o f[i + 1]
    BY Zenon DEF Backward
  <1>2. \A i \in 1 .. n + 1 : i > n => f[i] \in Seq(S)
    <2>1. <<>> \in Seq(S)
      OBVIOUS
    <2>2. \A i \in 1 .. n + 1 : i > n => f[i] = <<>>
      BY <1>1, Zenon
    <2> QED BY <2>1, <2>2, Zenon
  <1> DEFINE T == {m \in Nat : \A i \in 1 .. n + 1 : i >= n + 1 - m => f[i] \in Seq(S)}
  <1>3. 0 \in T
    <2>1. \A i \in 1 .. n + 1 : i >= n + 1 - 0 => i > n
      OBVIOUS
    <2> QED BY <1>2, <2>1
  <1>4. ASSUME NEW m \in Nat, m \in T PROVE m + 1 \in T
    <2>1. SUFFICES ASSUME NEW i \in 1 .. n + 1, i >= n + 1 - (m + 1) PROVE f[i] \in Seq(S)
      OBVIOUS
    <2>2. CASE i > n
      BY <1>2, <2>2
    <2>3. CASE ~(i > n) /\ i \in c
      <3>1. PICK j \in 1 .. n + 1 : j = i + 2 /\ j >= n + 1 - m
        BY <2>1, <2>3
      <3>2. i \in 1 .. n /\ f[j] \in Seq(S)
        BY <1>4, <2>3, <3>1
      <3>3. a[i] \o f[j] \in Seq(S)
        BY <3>2, ConcatProperties
      <3>4. f[i] = a[i] \o f[i + 2]
        BY <1>1, <2>3, Zenon
      <3> QED BY <3>1, <3>3, <3>4, Zenon
    <2>4. CASE ~(i > n) /\ i \notin c
      <3>1. PICK j \in 1 .. n + 1 : j = i + 1 /\ j >= n + 1 - m
        BY <2>1, <2>4
      <3>2. i \in 1 .. n /\ f[j] \in Seq(S)
        BY <1>4, <2>4, <3>1
      <3>3. b[i] \o f[j] \in Seq(S)
        BY <3>2, ConcatProperties
      <3>4. f[i] = b[i] \o f[i + 1]
        BY <1>1, <2>4, Zenon
      <3> QED BY <3>1, <3>3, <3>4, Zenon
    <2> QED BY <2>2, <2>3, <2>4
  <1> HIDE DEF T
  <1>5. n \in T
    BY <1>3, <1>4, Induction
  <1>6. \A i \in 1 .. n + 1 : i >= n + 1 - n
    OBVIOUS
  <1> QED BY <1>5, <1>6 DEF T

------------------------------------------------------------------------------
\* What a terminating NUL cuts off.
LEMMA UpToNulIs ==
  ASSUME NEW S, NEW s \in Seq(S), NEW n \in 0 .. Len(s), \A i \in 1 .. n : s[i] /= 0,
         n < Len(s) => s[n + 1] = 0
  PROVE  UpToNul(s) = SubSeq(s, 1, n)
  <1> DEFINE nuls == {i \in DOMAIN s : s[i] = 0}
  <1>0. DOMAIN s = 1 .. Len(s)
    OBVIOUS
  <1>3. Len(s) \in Nat /\ n \in Nat /\ n <= Len(s)
    OBVIOUS
  <1>1. CASE n = Len(s)
    <2>1. nuls = {}
      BY <1>0, <1>1, <1>3
    <2>2. UpToNul(s) = s
      BY <2>1 DEF UpToNul
    <2>3. SubSeq(s, 1, n) = s
      BY <1>0, <1>1, <1>3
    <2> QED BY <2>2, <2>3
  <1>2. CASE n /= Len(s)
    <2>1. n + 1 \in nuls /\ \A i \in nuls : n + 1 <= i
      <3>1. n + 1 \in 1 .. Len(s) /\ s[n + 1] = 0
        <4>1. n < Len(s)
          BY <1>2, <1>3
        <4>2. n + 1 \in 1 .. Len(s)
          BY <1>3, <4>1
        <4> QED BY <4>1, <4>2, Zenon
      <3>2. \A i \in 1 .. Len(s) : s[i] = 0 => n + 1 <= i
        BY <1>3
      <3>3. nuls = {i \in 1 .. Len(s) : s[i] = 0}
        BY <1>0
      <3> HIDE DEF nuls
      <3> QED BY <3>1, <3>2, <3>3
    <2>2. Min(nuls) = n + 1
      <3>1. \E x \in nuls : \A y \in nuls : x <= y
        BY <2>1
      <3>2. Min(nuls) \in nuls /\ \A y \in nuls : Min(nuls) <= y
        BY <3>1 DEF Min
      <3>3. Min(nuls) \in Int /\ n + 1 <= Min(nuls) /\ Min(nuls) <= n + 1
        BY <1>0, <1>3, <2>1, <3>2
      <3> HIDE DEF nuls
      <3> QED BY <3>3
    <2>3. UpToNul(s) = SubSeq(s, 1, Min(nuls) - 1)
      BY <2>1 DEF UpToNul
    <2> HIDE DEF nuls
    <2>4. n + 1 - 1 = n
      OBVIOUS
    <2> QED BY <2>2, <2>3, <2>4
  <1> QED BY <1>1, <1>2

LEMMA NulExists ==
  ASSUME NEW S, NEW s \in Seq(S)
  PROVE  \E n \in 0 .. Len(s) : /\ \A i \in 1 .. n : s[i] /= 0
                                /\ n < Len(s) => s[n + 1] = 0
  <1>0. Len(s) \in Nat
    OBVIOUS
  <1> DEFINE T == {k \in 1 .. Len(s) : s[k] = 0}
  <1>1. CASE T = {}
    <2>1. Len(s) \in 0 .. Len(s) /\ \A i \in 1 .. Len(s) : s[i] /= 0
      BY <1>0, <1>1
    <2> QED BY <1>0, <2>1
  <1>2. CASE T /= {}
    <2>1. T \subseteq Nat
      BY <1>0
    <2>2. PICK m \in T : \A k \in T : m <= k
      <3> HIDE DEF T
      <3> QED BY <1>2, <2>1, Least
    <2>3. PICK n \in 0 .. Len(s) : n = m - 1
      BY <1>0, <2>2
    <2>4. \A i \in 1 .. n : s[i] /= 0
      BY <1>0, <2>2, <2>3
    <2>5. s[n + 1] = 0
      BY <2>2, <2>3
    <2> QED BY <2>4, <2>5
  <1> QED BY <1>1, <1>2

LEMMA UpToNulType ==
  ASSUME NEW S, NEW s \in Seq(S)
  PROVE  UpToNul(s) \in Seq(S)
  <1>1. PICK n \in 0 .. Len(s) : UpToNul(s) = SubSeq(s, 1, n)
    BY NulExists, UpToNulIs
  <1>2. SubSeq(s, 1, n) \in Seq(S)
    BY SubSeqProperties
  <1> QED BY <1>1, <1>2

\* A rune below 128 is a byte.
LEMMA EncodeOne ==
  ASSUME NEW r \in Nat, r < 128
  PROVE  EncodeRune(r) = <<r>>
  <1> DEFINE two == <<192 + (r \div 64), Continued(r)>>
             three == <<224 + (r \div 4096), Continued(r \div 64), Continued(r)>>
             four == <<240 + (r \div 262144), Continued(r \div 4096), Continued(r \div 64), Continued(r)>>
  <1>1. EncodeRune(r) = CASE r < 128 -> <<r>>
                          [] 128 <= r /\ r < 2048 -> two
                          [] 2048 <= r /\ r < 65536 -> three
                          [] OTHER -> four
    BY DEF EncodeRune
  <1> HIDE DEF two, three, four
  <1> QED BY <1>1

LEMMA EncodeRuneType ==
  ASSUME NEW r \in Nat
  PROVE  /\ EncodeRune(r) \in Seq(Nat) /\ Len(EncodeRune(r)) >= 1
         /\ r >= 65536 => Len(EncodeRune(r)) >= 2
  <1>1. \A n \in Nat : Continued(n) \in Nat
    BY DEF Continued
  <1>2. /\ r \div 64 \in Nat /\ r \div 4096 \in Nat /\ r \div 262144 \in Nat
    OBVIOUS
  <1>3. CASE r < 128
    <2>1. EncodeRune(r) = <<r>>
      BY <1>3, EncodeOne, Zenon
    <2> QED BY <1>3, <2>1
  <1>4. CASE ~(r < 128) /\ r < 2048
    <2>1. EncodeRune(r) = <<192 + (r \div 64), Continued(r)>>
      BY <1>4 DEF EncodeRune
    <2> QED BY <1>1, <1>2, <1>4, <2>1
  <1>5. CASE ~(r < 2048) /\ r < 65536
    <2>1. EncodeRune(r) = <<224 + (r \div 4096), Continued(r \div 64), Continued(r)>>
      BY <1>5 DEF EncodeRune
    <2> QED BY <1>1, <1>2, <1>5, <2>1
  <1>6. CASE ~(r < 65536)
    <2>1. EncodeRune(r) = <<240 + (r \div 262144), Continued(r \div 4096), Continued(r \div 64),
                            Continued(r)>>
      BY <1>6 DEF EncodeRune
    <2> QED BY <1>1, <1>2, <1>6, <2>1
  <1> QED BY <1>3, <1>4, <1>5, <1>6

LEMMA Halves ==
  ASSUME NEW u \in Nat
  PROVE  /\ High(u) \/ Low(u) <=> surr1 <= u /\ u < surr3
         /\ ~(High(u) /\ Low(u))
         /\ \A l \in Nat : High(u) /\ Low(l) => Pair(u, l) \in Nat
         /\ replacementChar \in Nat
  BY DEF High, Low, Pair, surr1, surr2, surr3, replacementChar

\* The bytes of a unit that stands alone, and those of the pair at i, if any.
Alone(u) == EncodeRune(IF surr1 <= u /\ u < surr3 THEN replacementChar ELSE u)
PairAt(s, i) == High(s[i]) /\ i + 1 <= Len(s) /\ Low(s[i + 1])

LEMMA AloneType ==
  ASSUME NEW u \in Nat
  PROVE  Alone(u) \in Seq(Nat)
  BY Halves, EncodeRuneType DEF Alone

\* The parts of a concatenation.
LEMMA ConcatParts ==
  ASSUME NEW s \in Seq(Nat), NEW t \in Seq(Nat)
  PROVE  \E u \in Seq(Nat) :
           /\ u = s \o t /\ Len(u) = Len(s) + Len(t)
           /\ \A i \in 1 .. Len(s) : u[i] = s[i]
           /\ \A i \in 1 .. Len(t) : u[Len(s) + i] = t[i]
  <1>0. s \o t \in Seq(Nat)
    OBVIOUS
  <1>1. PICK u \in Seq(Nat) : u = s \o t
    BY <1>0, Zenon
  <1>2. /\ Len(u) = Len(s) + Len(t)
        /\ \A i \in 1 .. Len(s) : u[i] = s[i]
        /\ \A i \in 1 .. Len(t) : u[Len(s) + i] = t[i]
    BY <1>1
  <1> QED BY <1>1, <1>2, Zenon

\* Concatenation is associative.
LEMMA Associative ==
  ASSUME NEW a \in Seq(Nat), NEW b \in Seq(Nat), NEW c \in Seq(Nat)
  PROVE  a \o (b \o c) = (a \o b) \o c
  <1>1. PICK x \in Seq(Nat) :
           /\ x = b \o c /\ Len(x) = Len(b) + Len(c)
           /\ \A i \in 1 .. Len(b) : x[i] = b[i]
           /\ \A i \in 1 .. Len(c) : x[Len(b) + i] = c[i]
    BY ConcatParts, Zenon
  <1>2. PICK y \in Seq(Nat) :
           /\ y = a \o b /\ Len(y) = Len(a) + Len(b)
           /\ \A i \in 1 .. Len(a) : y[i] = a[i]
           /\ \A i \in 1 .. Len(b) : y[Len(a) + i] = b[i]
    BY ConcatParts, Zenon
  <1>3. PICK v \in Seq(Nat) :
           /\ v = a \o x /\ Len(v) = Len(a) + Len(x)
           /\ \A i \in 1 .. Len(a) : v[i] = a[i]
           /\ \A i \in 1 .. Len(x) : v[Len(a) + i] = x[i]
    BY ConcatParts, Zenon
  <1>4. PICK w \in Seq(Nat) :
           /\ w = y \o c /\ Len(w) = Len(y) + Len(c)
           /\ \A i \in 1 .. Len(y) : w[i] = y[i]
           /\ \A i \in 1 .. Len(c) : w[Len(y) + i] = c[i]
    BY ConcatParts, Zenon
  <1>5. PICK k \in Nat, m \in Nat, n \in Nat : k = Len(a) /\ m = Len(b) /\ n = Len(c)
    OBVIOUS
  <1>6. Len(x) = m + n /\ Len(y) = k + m /\ Len(v) = k + (m + n) /\ Len(w) = (k + m) + n
    BY <1>1, <1>2, <1>3, <1>4, <1>5, Zenon
  <1>7. ASSUME NEW i \in 1 .. k + (m + n) PROVE v[i] = w[i]
    <2>1. CASE i <= k
      <3>1. i \in 1 .. k /\ i \in 1 .. k + m
        BY <2>1
      <3> QED BY <1>2, <1>3, <1>4, <1>5, <1>6, <3>1, Zenon
    <2>2. CASE i > k /\ i <= k + m
      <3>1. PICK j \in 1 .. m : i = k + j /\ j \in 1 .. m + n /\ k + j \in 1 .. k + m
        <4>1. /\ i - k \in 1 .. m /\ i = k + (i - k) /\ i - k \in 1 .. m + n
              /\ k + (i - k) \in 1 .. k + m
          BY <2>2
        <4> QED BY <4>1
      <3>2. v[i] = x[j]
        BY <1>3, <1>5, <1>6, <3>1, Zenon
      <3>3. x[j] = b[j]
        BY <1>1, <1>5, Zenon
      <3>4. w[i] = y[k + j]
        BY <1>4, <1>6, <3>1, Zenon
      <3>5. y[k + j] = b[j]
        BY <1>2, <1>5, Zenon
      <3> QED BY <3>2, <3>3, <3>4, <3>5, Zenon
    <2>3. CASE i > k + m
      <3>1. PICK j \in 1 .. n : /\ i = (k + m) + j /\ i = k + (m + j)
                                /\ m + j \in 1 .. m + n
        <4>1. /\ i - (k + m) \in 1 .. n /\ i = (k + m) + (i - (k + m))
              /\ i = k + (m + (i - (k + m))) /\ m + (i - (k + m)) \in 1 .. m + n
          BY <2>3
        <4> QED BY <4>1
      <3>2. v[i] = c[j]
        <4>1. v[i] = x[m + j]
          BY <1>3, <1>5, <1>6, <3>1, Zenon
        <4>2. x[m + j] = c[j]
          BY <1>1, <1>5, Zenon
        <4> QED BY <4>1, <4>2, Zenon
      <3>3. w[i] = c[j]
        BY <1>4, <1>5, <1>6, <3>1, Zenon
      <3> QED BY <3>2, <3>3, Zenon
    <2> QED BY <2>1, <2>2, <2>3
  <1>8. Len(v) = Len(w)
    BY <1>6
  <1>9. v = w
    BY <1>6, <1>7, <1>8
  <1> QED BY <1>1, <1>2, <1>3, <1>4, <1>9, Zenon

\* The function from of utf16toutf8.
LEMMA FromFunction ==
  ASSUME NEW units \in Seq(Nat), NEW s \in Seq(Nat), s = UpToNul(units)
  PROVE  \E f : /\ utf16toutf8(units) = f[1]
                /\ \A i \in 1 .. Len(s) + 1 :
                     /\ f[i] \in Seq(Nat)
                     /\ f[i] = IF i > Len(s) THEN <<>>
                               ELSE IF PairAt(s, i)
                                 THEN EncodeRune(Pair(s[i], s[i + 1])) \o f[i + 2]
                                 ELSE Alone(s[i]) \o f[i + 1]
  <1> DEFINE c == {i \in 1 .. Len(s) : PairAt(s, i)}
             a == [i \in 1 .. Len(s) |-> IF i \in c THEN EncodeRune(Pair(s[i], s[i + 1])) ELSE <<>>]
             b == [i \in 1 .. Len(s) |-> Alone(s[i])]
             f == CHOOSE f : f = [i \in 1 .. Len(s) + 1 |->
                     IF i > Len(s) THEN <<>>
                     ELSE IF High(s[i]) /\ i + 1 <= Len(s) /\ Low(s[i + 1])
                       THEN EncodeRune(Pair(s[i], s[i + 1])) \o f[i + 2]
                       ELSE EncodeRune(IF surr1 <= s[i] /\ s[i] < surr3
                                       THEN replacementChar ELSE s[i]) \o f[i + 1]]
  <1>0. Len(s) \in Nat /\ \A i \in 1 .. Len(s) : s[i] \in Nat
    OBVIOUS
  <1>1. utf16toutf8(units) = f[1]
    BY DEF utf16toutf8
  <1> HIDE DEF f
  <1>2. \A i \in c : i + 1 <= Len(s)
    BY DEF PairAt
  <1>3. a \in [1 .. Len(s) -> Seq(Nat)] /\ b \in [1 .. Len(s) -> Seq(Nat)]
    <2>1. ASSUME NEW i \in 1 .. Len(s) PROVE a[i] \in Seq(Nat)
      <3>1. CASE i \in c
        <4>1. s[i] \in Nat /\ s[i + 1] \in Nat /\ High(s[i]) /\ Low(s[i + 1])
          BY <1>0, <3>1 DEF PairAt
        <4>2. PICK r \in Nat : r = Pair(s[i], s[i + 1])
          BY <4>1, Halves, Zenon
        <4>3. EncodeRune(r) \in Seq(Nat)
          BY EncodeRuneType
        <4> QED BY <3>1, <4>2, <4>3, Zenon
      <3>2. CASE i \notin c
        <4>1. <<>> \in Seq(Nat)
          OBVIOUS
        <4> QED BY <3>2, <4>1, Zenon
      <3> QED BY <3>1, <3>2
    <2>2. \A i \in 1 .. Len(s) : b[i] \in Seq(Nat)
      BY <1>0, AloneType
    <2>3. a = [i \in 1 .. Len(s) |-> a[i]] /\ b = [i \in 1 .. Len(s) |-> b[i]]
      OBVIOUS
    <2> HIDE DEF a, b, c
    <2> QED BY <2>1, <2>2, <2>3
  <1>4. PICK g : Backward(Len(s), c, a, b, 1, g)
    <2> HIDE DEF a, b, c
    <2> QED BY <1>0, <1>2, BackwardExists
  <1>5. ASSUME NEW h, NEW i \in 1 .. Len(s) + 1
        PROVE  (IF i > Len(s) THEN <<>> ELSE IF i \in c THEN a[i] \o h[i + 2] ELSE b[i] \o h[i + 1])
               = (IF i > Len(s) THEN <<>>
                  ELSE IF High(s[i]) /\ i + 1 <= Len(s) /\ Low(s[i + 1])
                    THEN EncodeRune(Pair(s[i], s[i + 1])) \o h[i + 2]
                    ELSE EncodeRune(IF surr1 <= s[i] /\ s[i] < surr3
                                    THEN replacementChar ELSE s[i]) \o h[i + 1])
    <2>1. CASE i > Len(s)
      BY <2>1, Zenon
    <2>2. CASE ~(i > Len(s))
      <3>1. i \in 1 .. Len(s)
        BY <1>0, <2>2
      <3>2. /\ i \in c <=> High(s[i]) /\ i + 1 <= Len(s) /\ Low(s[i + 1])
            /\ i \in c => a[i] = EncodeRune(Pair(s[i], s[i + 1]))
            /\ b[i] = Alone(s[i])
        BY <3>1, Zenon DEF PairAt
      <3> HIDE DEF a, b, c
      <3>3. CASE i \in c
        BY <2>2, <3>2, <3>3, Zenon
      <3>4. CASE i \notin c
        BY <2>2, <3>2, <3>4, Zenon DEF Alone
      <3> QED BY <3>3, <3>4
    <2> QED BY <2>1, <2>2
  <1>6. \A h : Backward(Len(s), c, a, b, 1, h) <=>
               h = [i \in 1 .. Len(s) + 1 |->
                     IF i > Len(s) THEN <<>>
                     ELSE IF High(s[i]) /\ i + 1 <= Len(s) /\ Low(s[i + 1])
                       THEN EncodeRune(Pair(s[i], s[i + 1])) \o h[i + 2]
                       ELSE EncodeRune(IF surr1 <= s[i] /\ s[i] < surr3
                                       THEN replacementChar ELSE s[i]) \o h[i + 1]]
    <2> HIDE DEF a, b, c
    <2> TAKE h
    <2> DEFINE X(i) == IF i > Len(s) THEN <<>>
                       ELSE IF i \in c THEN a[i] \o h[i + 2] ELSE b[i] \o h[i + 1]
               Y(i) == IF i > Len(s) THEN <<>>
                       ELSE IF High(s[i]) /\ i + 1 <= Len(s) /\ Low(s[i + 1])
                         THEN EncodeRune(Pair(s[i], s[i + 1])) \o h[i + 2]
                         ELSE EncodeRune(IF surr1 <= s[i] /\ s[i] < surr3
                                         THEN replacementChar ELSE s[i]) \o h[i + 1]
    <2>1. \A i \in 1 .. Len(s) + 1 : X(i) = Y(i)
      BY <1>5, Zenon
    <2>2. Backward(Len(s), c, a, b, 1, h) <=> h = [i \in 1 .. Len(s) + 1 |-> X(i)]
      BY Zenon DEF Backward
    <2>3. [i \in 1 .. Len(s) + 1 |-> X(i)] = [i \in 1 .. Len(s) + 1 |-> Y(i)]
      <3> HIDE DEF X, Y
      <3> QED BY <2>1
    <2> QED BY <2>2, <2>3, Zenon
  <1>7. Backward(Len(s), c, a, b, 1, f)
    <2> HIDE DEF a, b, c
    <2> QED BY <1>4, <1>6, Zenon DEF f
  <1>8. \A i \in 1 .. Len(s) + 1 : f[i] \in Seq(Nat)
    <2> HIDE DEF a, b, c
    <2> QED BY <1>0, <1>2, <1>3, <1>7, BackwardType
  <1>9. \A i \in 1 .. Len(s) + 1 : f[i] = IF i > Len(s) THEN <<>>
           ELSE IF i \in c THEN a[i] \o f[i + 2] ELSE b[i] \o f[i + 1]
    <2> HIDE DEF a, b, c
    <2> QED BY <1>7, Zenon DEF Backward
  <1>10. ASSUME NEW i \in 1 .. Len(s) + 1
         PROVE  f[i] = IF i > Len(s) THEN <<>>
                       ELSE IF PairAt(s, i) THEN EncodeRune(Pair(s[i], s[i + 1])) \o f[i + 2]
                       ELSE Alone(s[i]) \o f[i + 1]
    <2> HIDE DEF a, b, c
    <2> QED BY <1>5, <1>9, Zenon DEF PairAt, Alone
  <1> QED BY <1>1, <1>8, <1>10

\* What each unit contributes to its text.
LEMMA TextPieces ==
  ASSUME NEW units \in Seq(Nat), NEW s \in Seq(Nat), s = UpToNul(units)
  PROVE  \E w \in Seq(Seq(Nat)) :
           /\ Text(units) = FlattenSeq(w) /\ Len(w) = Len(s)
           /\ \A i \in 1 .. Len(s) :
                w[i] = IF i > 1 /\ PairAt(s, i - 1) THEN <<>>
                       ELSE IF PairAt(s, i) THEN EncodeRune(Pair(s[i], s[i + 1])) ELSE Alone(s[i])
  <1> DEFINE Second(i) == Low(s[i]) /\ i > 1 /\ High(s[i - 1])
             Rune(i) == IF High(s[i]) /\ i < Len(s) /\ Second(i + 1) THEN Pair(s[i], s[i + 1])
                        ELSE IF High(s[i]) \/ Low(s[i]) THEN replacementChar ELSE s[i]
             w == [i \in DOMAIN s |-> IF Second(i) THEN <<>> ELSE EncodeRune(Rune(i))]
  <1>0. Len(s) \in Nat /\ DOMAIN s = 1 .. Len(s) /\ \A i \in 1 .. Len(s) : s[i] \in Nat
    OBVIOUS
  <1>1. Text(units) = FlattenSeq(w)
    BY Zenon DEF Text
  <1>2. ASSUME NEW i \in 1 .. Len(s)
        PROVE  /\ w[i] \in Seq(Nat)
               /\ w[i] = IF i > 1 /\ PairAt(s, i - 1) THEN <<>>
                         ELSE IF PairAt(s, i) THEN EncodeRune(Pair(s[i], s[i + 1]))
                         ELSE Alone(s[i])
    <2>1. w[i] = IF Second(i) THEN <<>> ELSE EncodeRune(Rune(i))
      BY <1>0, Zenon
    <2>2. Second(i) <=> i > 1 /\ PairAt(s, i - 1)
      <3>1. i > 1 => i - 1 + 1 = i /\ i <= Len(s)
        BY <1>0
      <3> QED BY <3>1 DEF PairAt
    <2>3. Rune(i) = IF PairAt(s, i) THEN Pair(s[i], s[i + 1])
                    ELSE IF surr1 <= s[i] /\ s[i] < surr3 THEN replacementChar ELSE s[i]
      <3>1. High(s[i]) /\ i < Len(s) /\ Second(i + 1) <=> PairAt(s, i)
        <4>1. i + 1 - 1 = i /\ i + 1 > 1 /\ (i < Len(s) <=> i + 1 <= Len(s))
          BY <1>0
        <4> QED BY <4>1 DEF PairAt
      <3>2. High(s[i]) \/ Low(s[i]) <=> surr1 <= s[i] /\ s[i] < surr3
        BY <1>0, Halves
      <3> HIDE DEF Second
      <3> QED BY <3>1, <3>2, Zenon
    <2>4. w[i] = IF i > 1 /\ PairAt(s, i - 1) THEN <<>>
                 ELSE IF PairAt(s, i) THEN EncodeRune(Pair(s[i], s[i + 1])) ELSE Alone(s[i])
      <3> HIDE DEF Second, Rune, w
      <3>1. CASE PairAt(s, i)
        BY <2>1, <2>2, <2>3, <3>1, Zenon
      <3>2. CASE ~PairAt(s, i)
        BY <2>1, <2>2, <2>3, <3>2, Zenon DEF Alone
      <3> QED BY <3>1, <3>2
    <2> HIDE DEF Second, Rune, w
    <2>5. PairAt(s, i) => EncodeRune(Pair(s[i], s[i + 1])) \in Seq(Nat)
      <3> SUFFICES ASSUME PairAt(s, i) PROVE EncodeRune(Pair(s[i], s[i + 1])) \in Seq(Nat)
        OBVIOUS
      <3>1. s[i] \in Nat /\ s[i + 1] \in Nat /\ High(s[i]) /\ Low(s[i + 1])
        BY <1>0 DEF PairAt
      <3>2. PICK r \in Nat : r = Pair(s[i], s[i + 1])
        BY <3>1, Halves, Zenon
      <3>3. EncodeRune(r) \in Seq(Nat)
        BY EncodeRuneType
      <3> QED BY <3>2, <3>3, Zenon
    <2>6. Alone(s[i]) \in Seq(Nat) /\ <<>> \in Seq(Nat)
      BY <1>0, AloneType
    <2>7. w[i] \in Seq(Nat)
      BY <2>4, <2>5, <2>6, Zenon
    <2> QED BY <2>4, <2>7
  <1>3. w = [i \in 1 .. Len(s) |-> w[i]]
    BY <1>0
  <1> HIDE DEF w
  <1>4. w \in Seq(Seq(Nat)) /\ Len(w) = Len(s)
    BY <1>0, <1>2, <1>3
  <1> QED BY <1>1, <1>2, <1>4

\* utf16toutf8 gives the text of any units, whole pairs, halves or both.
THEOREM TextRight ==
  ASSUME NEW units \in Seq(Nat)
  PROVE  utf16toutf8(units) = Text(units)
  <1>1. PICK s \in Seq(Nat) : s = UpToNul(units)
    BY UpToNulType
  <1>0. Len(s) \in Nat /\ \A i \in 1 .. Len(s) : s[i] \in Nat
    OBVIOUS
  <1>2. PICK f : /\ utf16toutf8(units) = f[1]
                 /\ \A i \in 1 .. Len(s) + 1 :
                      /\ f[i] \in Seq(Nat)
                      /\ f[i] = IF i > Len(s) THEN <<>>
                                ELSE IF PairAt(s, i)
                                  THEN EncodeRune(Pair(s[i], s[i + 1])) \o f[i + 2]
                                  ELSE Alone(s[i]) \o f[i + 1]
    BY <1>1, FromFunction
  <1>3. PICK w \in Seq(Seq(Nat)) :
           /\ Text(units) = FlattenSeq(w) /\ Len(w) = Len(s)
           /\ \A i \in 1 .. Len(s) :
                w[i] = IF i > 1 /\ PairAt(s, i - 1) THEN <<>>
                       ELSE IF PairAt(s, i) THEN EncodeRune(Pair(s[i], s[i + 1])) ELSE Alone(s[i])
    BY <1>1, TextPieces
  <1>4. CASE Len(s) = 0
    <2>1. f[1] = <<>>
      BY <1>2, <1>4
    <2>2. w = <<>>
      BY <1>3, <1>4
    <2>3. FlattenSeq(w) = <<>>
      BY <2>2 DEF FlattenSeq
    <2> QED BY <1>2, <1>3, <2>1, <2>3
  <1>5. CASE Len(s) /= 0
    <2> DEFINE rest(k) == IF PairAt(s, k) THEN f[k + 2] ELSE f[k + 1]
               G == {kt \in Nat \X Seq(Nat) : f[1] = kt[2] \o rest(kt[1])}
    <2>0. \A i \in 1 .. Len(s) : w[i] \in Seq(Nat)
      BY <1>3
    <2>1. <<1, w[1]>> \in G
      <3>1. 1 \in 1 .. Len(s) /\ ~(1 > 1) /\ ~(1 > Len(s)) /\ 1 \in 1 .. Len(s) + 1
        BY <1>0, <1>5
      <3>2. w[1] = IF PairAt(s, 1) THEN EncodeRune(Pair(s[1], s[1 + 1])) ELSE Alone(s[1])
        BY <1>3, <3>1, Zenon
      <3>3. f[1] = IF PairAt(s, 1) THEN EncodeRune(Pair(s[1], s[1 + 1])) \o f[1 + 2]
                   ELSE Alone(s[1]) \o f[1 + 1]
        BY <1>2, <3>1, Zenon
      <3>4. f[1] = w[1] \o rest(1)
        BY <3>2, <3>3, Zenon
      <3> HIDE DEF rest
      <3> QED BY <2>0, <3>1, <3>4
    <2>2. ASSUME NEW k \in 1 .. Len(w) - 1, NEW a \in Seq(Nat), <<k, a>> \in G
          PROVE  <<k + 1, a \o w[k + 1]>> \in G
      <3>1. PICK m \in 1 .. Len(s) : m = k + 1 /\ m > 1 /\ m - 1 = k /\ ~(m > Len(s))
                                     /\ m \in 1 .. Len(s) + 1 /\ k \in 1 .. Len(s)
        BY <1>0, <1>3
      <3>2. f[1] = a \o rest(k)
        <4> HIDE DEF rest
        <4> QED BY <2>2
      <3>3. PICK b \in Seq(Nat) : b = w[m]
        BY <2>0
      <3>4. f[1] = (a \o b) \o rest(m)
        <4>1. CASE PairAt(s, k)
          <5>1. b = <<>>
            BY <1>3, <3>1, <3>3, <4>1, Zenon
          <5>2. a \o b = a
            BY <5>1
          <5>3. ~PairAt(s, m)
            <6>1. Low(s[m]) /\ s[m] \in Nat
              BY <1>0, <3>1, <4>1 DEF PairAt
            <6> QED BY <6>1, Halves DEF PairAt
          <5>4. rest(k) = f[k + 2] /\ rest(m) = f[m + 1]
            BY <4>1, <5>3, Zenon
          <5>5. k + 2 = m + 1
            BY <3>1
          <5> HIDE DEF rest
          <5> QED BY <3>2, <5>2, <5>4, <5>5, Zenon
        <4>2. CASE ~PairAt(s, k)
          <5>1. rest(k) = f[m]
            BY <3>1, <4>2, Zenon
          <5>2. b = IF PairAt(s, m) THEN EncodeRune(Pair(s[m], s[m + 1])) ELSE Alone(s[m])
            BY <1>3, <3>1, <3>3, <4>2, Zenon
          <5>3. f[m] = IF PairAt(s, m) THEN EncodeRune(Pair(s[m], s[m + 1])) \o f[m + 2]
                       ELSE Alone(s[m]) \o f[m + 1]
            BY <1>2, <3>1, Zenon
          <5>4. f[m] = b \o rest(m)
            BY <5>2, <5>3, Zenon
          <5>5. PICK c \in Seq(Nat) : c = rest(m)
            <6>1. PairAt(s, m) => m + 2 \in 1 .. Len(s) + 1
              BY <1>0 DEF PairAt
            <6>2. m + 1 \in 1 .. Len(s) + 1
              <7>1. Len(s) \in Nat /\ m \in 1 .. Len(s)
                BY <1>0, <3>1
              <7> QED BY <7>1
            <6>3. \A i \in 1 .. Len(s) + 1 : f[i] \in Seq(Nat)
              BY <1>2, Zenon
            <6>4. rest(m) \in Seq(Nat)
              BY <6>1, <6>2, <6>3, Zenon
            <6> QED BY <6>4, Zenon
          <5> HIDE DEF rest
          <5>6. a \o (b \o c) = (a \o b) \o c
            BY Associative, Zenon
          <5> QED BY <3>2, <5>1, <5>4, <5>5, <5>6, Zenon
        <4> QED BY <4>1, <4>2
      <3> HIDE DEF rest
      <3>5. a \o b \in Seq(Nat)
        BY ConcatProperties
      <3>6. <<m, a \o b>> \in G
        <4>1. PICK e \in Seq(Nat) : e = a \o b
          BY <3>5, Zenon
        <4>2. m \in Nat /\ f[1] = e \o rest(m)
          <5>1. m \in Nat
            BY <3>1
          <5> QED BY <3>4, <4>1, <5>1, Zenon
        <4>3. <<m, e>> \in G
          BY <4>1, <4>2
        <4> QED BY <4>1, <4>3, Zenon
      <3> HIDE DEF G
      <3> QED BY <3>1, <3>3, <3>6, Zenon
    <2> HIDE DEF G, rest
    <2>3. FlattenSeq(w) \in Seq(Nat) /\ <<Len(w), FlattenSeq(w)>> \in G
      <3>1. w /= <<>>
        BY <1>3, <1>5
      <3> QED BY <2>1, <2>2, <3>1, FlattenInduction, Zenon
    <2>4. f[1] = FlattenSeq(w) \o rest(Len(s))
      BY <1>3, <2>3 DEF G
    <2>5. rest(Len(s)) = <<>>
      <3>1. ~PairAt(s, Len(s))
        BY <1>0 DEF PairAt
      <3>2. Len(s) + 1 \in 1 .. Len(s) + 1 /\ Len(s) + 1 > Len(s)
        BY <1>0
      <3> QED BY <1>2, <3>1, <3>2, Zenon DEF rest
    <2>6. FlattenSeq(w) \o <<>> = FlattenSeq(w)
      BY <2>3
    <2> QED BY <1>2, <1>3, <2>4, <2>5, <2>6, Zenon
  <1> QED BY <1>4, <1>5

\* The units of a text in memory, and back.
LEMMA LittleEndianType ==
  ASSUME NEW s \in Seq(Nat), NEW b, b = LittleEndian(s)
  PROVE  /\ b \in Seq(Nat) /\ Len(b) = 2 * Len(s) /\ Len(s) \in Nat
         /\ \A i \in 1 .. Len(s) : b[2 * i - 1] = s[i] % 256 /\ b[2 * i] = s[i] \div 256
  <1>0. Len(s) \in Nat /\ \A i \in 1 .. Len(s) : s[i] \in Nat
    OBVIOUS
  <1>1. b = [i \in 1 .. 2 * Len(s) |->
               IF i % 2 = 1 THEN s[(i + 1) \div 2] % 256 ELSE s[i \div 2] \div 256]
    BY DEF LittleEndian
  <1>2. ASSUME NEW i \in 1 .. 2 * Len(s) PROVE b[i] \in Nat
    <2>1. CASE i % 2 = 1
      <3>1. (i + 1) \div 2 \in 1 .. Len(s)
        BY <1>0, <2>1
      <3>2. b[i] = s[(i + 1) \div 2] % 256
        BY <1>1, <2>1
      <3>3. PICK x \in Nat : x = s[(i + 1) \div 2]
        BY <1>0, <3>1
      <3> QED BY <3>2, <3>3
    <2>2. CASE i % 2 /= 1
      <3>1. i \div 2 \in 1 .. Len(s)
        BY <1>0, <2>2
      <3>2. b[i] = s[i \div 2] \div 256
        BY <1>1, <2>2
      <3>3. PICK x \in Nat : x = s[i \div 2]
        BY <1>0, <3>1
      <3> QED BY <3>2, <3>3
    <2> QED BY <2>1, <2>2
  <1>3. b = [i \in 1 .. 2 * Len(s) |-> b[i]] /\ 2 * Len(s) \in Nat
    BY <1>0, <1>1
  <1>4. b \in Seq(Nat) /\ Len(b) = 2 * Len(s)
    BY <1>2, <1>3
  <1>5. ASSUME NEW i \in 1 .. Len(s)
        PROVE  b[2 * i - 1] = s[i] % 256 /\ b[2 * i] = s[i] \div 256
    <2>1. /\ 2 * i - 1 \in 1 .. 2 * Len(s) /\ 2 * i \in 1 .. 2 * Len(s)
          /\ (2 * i - 1) % 2 = 1 /\ (2 * i - 1 + 1) \div 2 = i
          /\ (2 * i) % 2 /= 1 /\ (2 * i) \div 2 = i
      BY <1>0
    <2> QED BY <1>1, <2>1
  <1> QED BY <1>0, <1>4, <1>5

LEMMA FromLittleEndianType ==
  ASSUME NEW b \in Seq(Nat), NEW s, s = FromLittleEndian(b)
  PROVE  /\ s \in Seq(Nat) /\ Len(s) = Len(b) \div 2
         /\ \A i \in 1 .. Len(s) : s[i] = b[2 * i - 1] + 256 * b[2 * i]
  <1>0. Len(b) \in Nat /\ Len(b) \div 2 \in Nat /\ \A i \in 1 .. Len(b) : b[i] \in Nat
    OBVIOUS
  <1>1. s = [i \in 1 .. Len(b) \div 2 |-> b[2 * i - 1] + 256 * b[2 * i]]
    BY DEF FromLittleEndian
  <1>2. ASSUME NEW i \in 1 .. Len(b) \div 2 PROVE b[2 * i - 1] + 256 * b[2 * i] \in Nat
    <2>1. 2 * i - 1 \in 1 .. Len(b) /\ 2 * i \in 1 .. Len(b)
      BY <1>0
    <2>2. PICK x \in Nat, y \in Nat : x = b[2 * i - 1] /\ y = b[2 * i]
      BY <1>0, <2>1, Zenon
    <2>3. x + 256 * y \in Nat
      OBVIOUS
    <2> QED BY <2>2, <2>3, Zenon
  <1> QED BY <1>0, <1>1, <1>2

\* The units of a UTF-16 string are read back from the bytes they are written as.
THEOREM LittleEndianRead ==
  ASSUME NEW s \in Seq(Nat)
  PROVE  FromLittleEndian(LittleEndian(s)) = s
  <1>1. PICK b \in Seq(Nat) :
           /\ b = LittleEndian(s) /\ Len(b) = 2 * Len(s) /\ Len(s) \in Nat
           /\ \A i \in 1 .. Len(s) : b[2 * i - 1] = s[i] % 256 /\ b[2 * i] = s[i] \div 256
    BY LittleEndianType
  <1>2. PICK t \in Seq(Nat) :
           /\ t = FromLittleEndian(b) /\ Len(t) = Len(b) \div 2
           /\ \A i \in 1 .. Len(t) : t[i] = b[2 * i - 1] + 256 * b[2 * i]
    BY FromLittleEndianType
  <1>3. Len(t) = Len(s)
    BY <1>1, <1>2
  <1>0. \A i \in 1 .. Len(s) : s[i] \in Nat
    BY ElementOfSeq
  <1>4. ASSUME NEW i \in 1 .. Len(s) PROVE t[i] = s[i]
    <2>1. PICK x \in Nat : x = s[i]
      BY <1>0, Zenon
    <2>4. b[2 * i - 1] = x % 256 /\ b[2 * i] = x \div 256
      BY <1>1, <2>1, Zenon
    <2>5. t[i] = b[2 * i - 1] + 256 * b[2 * i]
      BY <1>2, <1>3, Zenon
    <2>2. t[i] = (x % 256) + 256 * (x \div 256)
      BY <2>4, <2>5, Zenon
    <2>3. (x % 256) + 256 * (x \div 256) = x
      OBVIOUS
    <2> QED BY <2>1, <2>2, <2>3
  <1>5. t = s
    BY <1>3, <1>4, SeqEqual
  <1> QED BY <1>1, <1>2, <1>5

LEMMA BigEndianType ==
  ASSUME NEW s \in Seq(Nat), NEW b, b = BigEndian(s)
  PROVE  /\ b \in Seq(Nat) /\ Len(b) = 2 * Len(s) /\ Len(s) \in Nat
         /\ \A i \in 1 .. Len(s) : b[2 * i - 1] = s[i] \div 256 /\ b[2 * i] = s[i] % 256
  <1>0. Len(s) \in Nat /\ \A i \in 1 .. Len(s) : s[i] \in Nat
    OBVIOUS
  <1>1. b = [i \in 1 .. 2 * Len(s) |->
               IF i % 2 = 1 THEN s[(i + 1) \div 2] \div 256 ELSE s[i \div 2] % 256]
    BY DEF BigEndian
  <1>2. ASSUME NEW i \in 1 .. 2 * Len(s) PROVE b[i] \in Nat
    <2>1. CASE i % 2 = 1
      <3>1. (i + 1) \div 2 \in 1 .. Len(s)
        BY <1>0, <2>1
      <3>2. b[i] = s[(i + 1) \div 2] \div 256
        BY <1>1, <2>1
      <3>3. PICK x \in Nat : x = s[(i + 1) \div 2]
        BY <1>0, <3>1
      <3> QED BY <3>2, <3>3
    <2>2. CASE i % 2 /= 1
      <3>1. i \div 2 \in 1 .. Len(s)
        BY <1>0, <2>2
      <3>2. b[i] = s[i \div 2] % 256
        BY <1>1, <2>2
      <3>3. PICK x \in Nat : x = s[i \div 2]
        BY <1>0, <3>1
      <3> QED BY <3>2, <3>3
    <2> QED BY <2>1, <2>2
  <1>3. b = [i \in 1 .. 2 * Len(s) |-> b[i]] /\ 2 * Len(s) \in Nat
    BY <1>0, <1>1
  <1>4. b \in Seq(Nat) /\ Len(b) = 2 * Len(s)
    BY <1>2, <1>3
  <1>5. ASSUME NEW i \in 1 .. Len(s)
        PROVE  b[2 * i - 1] = s[i] \div 256 /\ b[2 * i] = s[i] % 256
    <2>1. /\ 2 * i - 1 \in 1 .. 2 * Len(s) /\ 2 * i \in 1 .. 2 * Len(s)
          /\ (2 * i - 1) % 2 = 1 /\ (2 * i - 1 + 1) \div 2 = i
          /\ (2 * i) % 2 /= 1 /\ (2 * i) \div 2 = i
      BY <1>0
    <2> QED BY <1>1, <2>1
  <1> QED BY <1>0, <1>4, <1>5

\* The units that dbclobToUTF8 takes from bytes.
BigUnits(b) == [i \in 1 .. Len(b) \div 2 |-> 256 * b[2 * i - 1] + b[2 * i]]

LEMMA BigUnitsType ==
  ASSUME NEW b \in Seq(Nat), NEW s, s = BigUnits(b)
  PROVE  /\ s \in Seq(Nat) /\ Len(s) = Len(b) \div 2
         /\ \A i \in 1 .. Len(s) : s[i] = 256 * b[2 * i - 1] + b[2 * i]
  <1>0. Len(b) \in Nat /\ Len(b) \div 2 \in Nat /\ \A i \in 1 .. Len(b) : b[i] \in Nat
    OBVIOUS
  <1>1. s = [i \in 1 .. Len(b) \div 2 |-> 256 * b[2 * i - 1] + b[2 * i]]
    BY DEF BigUnits
  <1>2. ASSUME NEW i \in 1 .. Len(b) \div 2 PROVE 256 * b[2 * i - 1] + b[2 * i] \in Nat
    <2>1. 2 * i - 1 \in 1 .. Len(b) /\ 2 * i \in 1 .. Len(b)
      BY <1>0
    <2>2. PICK x \in Nat, y \in Nat : x = b[2 * i - 1] /\ y = b[2 * i]
      BY <1>0, <2>1
    <2>3. 256 * x + y \in Nat
      OBVIOUS
    <2> QED BY <2>2, <2>3, Zenon
  <1> QED BY <1>0, <1>1, <1>2

\* dbclobToUTF8 gives the text of the units that its bytes stand for.
THEOREM DbclobRight ==
  ASSUME NEW b \in Seq(Nat)
  PROVE  dbclobToUTF8(b) = Text(BigUnits(b))
  <1>1. PICK s \in Seq(Nat) : s = BigUnits(b)
    BY BigUnitsType
  <1>2. dbclobToUTF8(b) = utf16toutf8(s)
    BY <1>1 DEF dbclobToUTF8, BigUnits
  <1> QED BY <1>1, <1>2, TextRight

\* The same of two sequences that are concatenated.
LEMMA FlattenTwo ==
  ASSUME NEW S, NEW a \in Seq(S), NEW b \in Seq(S)
  PROVE  FlattenSeq(<<a, b>>) = a \o b
  <1> DEFINE s == <<a, b>>
  <1>1. s \in Seq(Seq(S)) /\ s /= <<>> /\ Len(s) = 2 /\ s[1] = a /\ s[2] = b
    OBVIOUS
  <1> HIDE DEF s
  <1>2. PICK f \in [1 .. Len(s) -> Seq(S)] :
           /\ f[1] = s[1]
           /\ \A i \in 1 .. Len(s) - 1 : f[i + 1] = f[i] \o s[i + 1]
           /\ FlattenSeq(s) = f[Len(s)]
    BY <1>1, FlattenUnfold, Zenon
  <1>3. 1 \in 1 .. Len(s) - 1 /\ 1 + 1 = 2
    BY <1>1
  <1>4. f[2] = f[1] \o s[2]
    BY <1>2, <1>3, Zenon
  <1>5. FlattenSeq(s) = a \o b
    BY <1>1, <1>2, <1>4, Zenon
  <1> QED BY <1>5 DEF s

\* Pieces that are no longer make a sequence that is no longer.
LEMMA FlattenShorter ==
  ASSUME NEW S, NEW s \in Seq(Seq(S)), NEW t \in Seq(Seq(S)), Len(s) = Len(t),
         \A i \in 1 .. Len(s) : Len(s[i]) <= Len(t[i])
  PROVE  Len(FlattenSeq(s)) <= Len(FlattenSeq(t))
  <1>0. /\ Len(s) \in Nat
        /\ \A i \in 1 .. Len(s) : s[i] \in Seq(S) /\ t[i] \in Seq(S)
    OBVIOUS
  <1>1. CASE s = <<>>
    <2>1. t = <<>>
      BY <1>1
    <2> QED BY <1>1, <2>1 DEF FlattenSeq
  <1>2. CASE s /= <<>>
    <2>0. t /= <<>> /\ Len(s) >= 1
      BY <1>2
    <2>1. PICK f \in [1 .. Len(s) -> Seq(S)] :
             /\ f[1] = s[1]
             /\ \A i \in 1 .. Len(s) - 1 : f[i + 1] = f[i] \o s[i + 1]
             /\ FlattenSeq(s) = f[Len(s)]
      BY <1>2, FlattenUnfold
    <2>2. PICK g \in [1 .. Len(t) -> Seq(S)] :
             /\ g[1] = t[1]
             /\ \A i \in 1 .. Len(t) - 1 : g[i + 1] = g[i] \o t[i + 1]
             /\ FlattenSeq(t) = g[Len(t)]
      BY <2>0, FlattenUnfold
    <2> DEFINE I == {n \in Nat : n + 1 <= Len(s) => Len(f[n + 1]) <= Len(g[n + 1])}
    <2>3. 0 \in I
      <3>1. 1 \in 1 .. Len(s) /\ 0 + 1 = 1
        BY <1>0, <2>0
      <3>2. Len(f[1]) <= Len(g[1])
        BY <2>1, <2>2, <3>1
      <3> QED BY <3>1, <3>2
    <2>4. ASSUME NEW n \in Nat, n \in I PROVE n + 1 \in I
      <3> SUFFICES ASSUME (n + 1) + 1 <= Len(s)
                   PROVE  Len(f[(n + 1) + 1]) <= Len(g[(n + 1) + 1])
        OBVIOUS
      <3>1. PICK i \in 1 .. Len(s) - 1 : i = n + 1 /\ i \in 1 .. Len(s) /\ i + 1 \in 1 .. Len(s)
        BY <1>0
      <3>2. PICK a \in Seq(S), b \in Seq(S), c \in Seq(S), d \in Seq(S) :
               a = f[i] /\ b = s[i + 1] /\ c = g[i] /\ d = t[i + 1]
        BY <1>0, <2>1, <2>2, <3>1
      <3>3. Len(a) <= Len(c) /\ Len(b) <= Len(d)
        BY <2>4, <3>1, <3>2
      <3>4. f[i + 1] = a \o b /\ g[i + 1] = c \o d
        BY <2>1, <2>2, <3>1, <3>2
      <3>5. Len(a \o b) <= Len(c \o d)
        BY <3>3
      <3> QED BY <3>1, <3>4, <3>5
    <2> HIDE DEF I
    <2>5. \A n \in Nat : n \in I
      BY <2>3, <2>4, Induction
    <2>6. Len(s) - 1 \in I /\ Len(s) - 1 + 1 = Len(s)
      BY <1>0, <2>0, <2>5
    <2>7. Len(f[Len(s)]) <= Len(g[Len(s)])
      BY <2>6 DEF I
    <2> QED BY <2>1, <2>2, <2>7
  <1> QED BY <1>1, <1>2

\* The units and the bytes of the runes of a string.
Units16(r) == IF r < 65536 THEN <<r>>
              ELSE <<surr1 + ((r - 65536) \div 1024), surr2 + ((r - 65536) % 1024)>>

LEMMA Units16Type ==
  ASSUME NEW r \in Nat
  PROVE  Units16(r) \in Seq(Nat) /\ Len(Units16(r)) <= Len(EncodeRune(r))
  <1>0. /\ EncodeRune(r) \in Seq(Nat) /\ Len(EncodeRune(r)) >= 1
        /\ r >= 65536 => Len(EncodeRune(r)) >= 2
    BY EncodeRuneType
  <1>1. CASE r < 65536
    <2>1. Units16(r) = <<r>>
      BY <1>1 DEF Units16
    <2>2. <<r>> \in Seq(Nat) /\ Len(<<r>>) = 1
      OBVIOUS
    <2> QED BY <1>0, <2>1, <2>2
  <1>2. CASE ~(r < 65536)
    <2> DEFINE h == surr1 + ((r - 65536) \div 1024)
               l == surr2 + ((r - 65536) % 1024)
    <2>1. h \in Nat /\ l \in Nat
      BY <1>2 DEF surr1, surr2
    <2>2. Units16(r) = <<h, l>>
      BY <1>2 DEF Units16
    <2> HIDE DEF h, l
    <2>3. <<h, l>> \in Seq(Nat) /\ Len(<<h, l>>) = 2
      BY <2>1
    <2>4. r >= 65536
      BY <1>2
    <2> QED BY <1>0, <2>2, <2>3, <2>4
  <1> QED BY <1>1, <1>2

LEMMA StringPieces ==
  ASSUME NEW s \in Seq(Nat)
  PROVE  \E v \in Seq(Seq(Nat)), w \in Seq(Seq(Nat)) :
           /\ Utf8(s) = FlattenSeq(v) /\ Utf16(s) = FlattenSeq(w)
           /\ Len(v) = Len(s) /\ Len(w) = Len(s)
           /\ \A i \in 1 .. Len(s) : v[i] = EncodeRune(s[i]) /\ w[i] = Units16(s[i])
  <1> DEFINE v == [i \in DOMAIN s |-> EncodeRune(s[i])]
             w == [i \in DOMAIN s |-> Units16(s[i])]
  <1>0. /\ Len(s) \in Nat /\ DOMAIN s = 1 .. Len(s)
        /\ \A i \in 1 .. Len(s) : s[i] \in Nat
    OBVIOUS
  <1>1. \A i \in 1 .. Len(s) : EncodeRune(s[i]) \in Seq(Nat) /\ Units16(s[i]) \in Seq(Nat)
    <2> SUFFICES ASSUME NEW i \in 1 .. Len(s)
                 PROVE  EncodeRune(s[i]) \in Seq(Nat) /\ Units16(s[i]) \in Seq(Nat)
      OBVIOUS
    <2>1. PICK r \in Nat : r = s[i]
      BY <1>0, Zenon
    <2>2. EncodeRune(r) \in Seq(Nat)
      BY EncodeRuneType
    <2>3. Units16(r) \in Seq(Nat)
      BY Units16Type
    <2> QED BY <2>1, <2>2, <2>3, Zenon
  <1>2. v \in Seq(Seq(Nat)) /\ Len(v) = Len(s)
    BY <1>0, <1>1
  <1>3. w \in Seq(Seq(Nat)) /\ Len(w) = Len(s)
    BY <1>0, <1>1
  <1>4. Utf8(s) = FlattenSeq(v)
    BY DEF Utf8
  <1>5. Utf16(s) = FlattenSeq(w)
    BY DEF Utf16, Units16
  <1>6. \A i \in 1 .. Len(s) : v[i] = EncodeRune(s[i]) /\ w[i] = Units16(s[i])
    BY <1>0
  <1> HIDE DEF v, w
  <1> QED BY <1>2, <1>3, <1>4, <1>5, <1>6, Zenon

\* No string has more units than bytes.
THEOREM Utf16Shorter ==
  ASSUME NEW s \in Seq(Nat)
  PROVE  /\ Utf8(s) \in Seq(Nat) /\ Utf16(s) \in Seq(Nat)
         /\ Len(Utf16(s)) <= Len(Utf8(s))
  <1>1. PICK v \in Seq(Seq(Nat)), w \in Seq(Seq(Nat)) :
           /\ Utf8(s) = FlattenSeq(v) /\ Utf16(s) = FlattenSeq(w)
           /\ Len(v) = Len(s) /\ Len(w) = Len(s)
           /\ \A i \in 1 .. Len(s) : v[i] = EncodeRune(s[i]) /\ w[i] = Units16(s[i])
    BY StringPieces
  <1>2. FlattenSeq(v) \in Seq(Nat) /\ FlattenSeq(w) \in Seq(Nat)
    BY FlattenElements, Zenon
  <1>3. \A i \in 1 .. Len(s) : s[i] \in Nat
    BY ElementOfSeq
  <1>4. \A i \in 1 .. Len(w) : Len(w[i]) <= Len(v[i])
    BY <1>1, <1>3, Units16Type
  <1>5. Len(w) = Len(v)
    BY <1>1
  <1>6. Len(FlattenSeq(w)) <= Len(FlattenSeq(v))
    BY <1>4, <1>5, FlattenShorter, Zenon
  <1> QED BY <1>1, <1>2, <1>6, Zenon

\* Pieces of one element make the sequence of these elements.
LEMMA FlattenSingles ==
  ASSUME NEW S, NEW s \in Seq(S), NEW w \in Seq(Seq(S)), Len(w) = Len(s),
         \A i \in 1 .. Len(s) : w[i] = <<s[i]>>
  PROVE  FlattenSeq(w) = s
  <1>0. Len(s) \in Nat /\ \A i \in 1 .. Len(s) : s[i] \in S
    OBVIOUS
  <1>1. CASE w = <<>>
    <2>1. s = <<>>
      BY <1>1
    <2> QED BY <1>1, <2>1 DEF FlattenSeq
  <1>2. CASE w /= <<>>
    <2> DEFINE G == {kt \in Nat \X Seq(S) :
                       Len(kt[2]) = kt[1] /\ \A i \in 1 .. kt[1] : kt[2][i] = s[i]}
    <2>1. <<1, w[1]>> \in G
      <3>1. 1 \in 1 .. Len(s)
        BY <1>0, <1>2
      <3>2. w[1] = <<s[1]>> /\ s[1] \in S
        BY <1>0, <3>1, Zenon
      <3>3. PICK t \in Seq(S) : t = <<s[1]>> /\ Len(t) = 1 /\ t[1] = s[1]
        <4>1. <<s[1]>> \in Seq(S) /\ Len(<<s[1]>>) = 1 /\ <<s[1]>>[1] = s[1]
          BY <3>2
        <4> QED BY <4>1, Zenon
      <3>4. \A i \in 1 .. 1 : t[i] = s[i]
        BY <3>3
      <3>5. <<1, t>> \in G
        BY <3>3, <3>4
      <3> HIDE DEF G
      <3> QED BY <3>2, <3>3, <3>5, Zenon
    <2>2. ASSUME NEW k \in 1 .. Len(w) - 1, NEW a \in Seq(S), <<k, a>> \in G
          PROVE  <<k + 1, a \o w[k + 1]>> \in G
      <3>1. PICK m \in 1 .. Len(s) : m = k + 1 /\ k \in Nat /\ m \in Nat
        BY <1>0
      <3>2. w[m] = <<s[m]>> /\ s[m] \in S
        BY <1>0, <3>1, Zenon
      <3>3. Len(a) = k /\ \A i \in 1 .. k : a[i] = s[i]
        BY <2>2, <3>1
      <3>7. PICK e \in Seq(S) : e = <<s[m]>> /\ Len(e) = 1 /\ e[1] = s[m]
        <4>1. <<s[m]>> \in Seq(S) /\ Len(<<s[m]>>) = 1 /\ <<s[m]>>[1] = s[m]
          BY <3>2
        <4> QED BY <4>1, Zenon
      <3>4. PICK b \in Seq(S) : b = a \o e
        <4>1. a \o e \in Seq(S)
          OBVIOUS
        <4> QED BY <4>1, Zenon
      <3>5. Len(b) = m /\ \A i \in 1 .. m : b[i] = s[i]
        <4>1. Len(b) = Len(a) + 1 /\ \A i \in 1 .. Len(a) : b[i] = a[i]
          BY <3>4, <3>7
        <4>2. b[Len(a) + 1] = s[m]
          BY <3>4, <3>7
        <4>3. \A i \in 1 .. m : i \in 1 .. k \/ i = m
          BY <3>1
        <4>4. Len(b) = m
          BY <3>1, <3>3, <4>1
        <4>5. \A i \in 1 .. m : b[i] = s[i]
          BY <3>1, <3>3, <4>1, <4>2, <4>3, Zenon
        <4> QED BY <4>4, <4>5
      <3>6. <<m, b>> \in G
        BY <3>1, <3>5
      <3> HIDE DEF G
      <3> QED BY <3>1, <3>2, <3>4, <3>6, <3>7, Zenon
    <2> HIDE DEF G
    <2>3. FlattenSeq(w) \in Seq(S) /\ <<Len(w), FlattenSeq(w)>> \in G
      BY <1>2, <2>1, <2>2, FlattenInduction, Zenon
    <2>4. Len(FlattenSeq(w)) = Len(s) /\ \A i \in 1 .. Len(s) : FlattenSeq(w)[i] = s[i]
      BY <2>3 DEF G
    <2> QED BY <2>3, <2>4, SeqEqual
  <1> QED BY <1>1, <1>2

\* ASCII takes a byte, or a unit, each.
LEMMA Ascii ==
  ASSUME NEW s \in Seq(Nat), \A i \in 1 .. Len(s) : s[i] < 128
  PROVE  Utf8(s) = s /\ Utf16(s) = s
  <1>1. PICK v \in Seq(Seq(Nat)), w \in Seq(Seq(Nat)) :
           /\ Utf8(s) = FlattenSeq(v) /\ Utf16(s) = FlattenSeq(w)
           /\ Len(v) = Len(s) /\ Len(w) = Len(s)
           /\ \A i \in 1 .. Len(s) : v[i] = EncodeRune(s[i]) /\ w[i] = Units16(s[i])
    BY StringPieces
  <1>2. ASSUME NEW r \in Nat, r < 128 PROVE EncodeRune(r) = <<r>> /\ Units16(r) = <<r>>
    <2>1. EncodeRune(r) = <<r>>
      BY <1>2, EncodeOne, Zenon
    <2>2. Units16(r) = <<r>>
      BY <1>2 DEF Units16
    <2> QED BY <2>1, <2>2, Zenon
  <1>3. \A i \in 1 .. Len(s) : s[i] \in Nat
    BY ElementOfSeq
  <1>4. \A i \in 1 .. Len(s) : v[i] = <<s[i]>> /\ w[i] = <<s[i]>>
    BY <1>1, <1>2, <1>3, Zenon
  <1>5. FlattenSeq(v) = s /\ FlattenSeq(w) = s
    BY <1>1, <1>4, FlattenSingles, Zenon
  <1> QED BY <1>1, <1>5, Zenon

LEMMA Prefix ==
  ASSUME NEW S, NEW s \in Seq(S), NEW n \in 0 .. Len(s)
  PROVE  /\ SubSeq(s, 1, n) \in Seq(S) /\ Len(SubSeq(s, 1, n)) = n
         /\ \A i \in 1 .. n : SubSeq(s, 1, n)[i] = s[i]
  <1>1. Len(s) \in Nat /\ n \in Nat /\ n <= Len(s)
    OBVIOUS
  <1>2. \A i \in 1 .. n : i \in 1 .. Len(s)
    BY <1>1
  <1>3. \A i \in 1 .. n : s[i] \in S
    BY <1>2, ElementOfSeq
  <1>4. /\ SubSeq(s, 1, n) \in Seq(S) /\ Len(SubSeq(s, 1, n)) = (IF 1 <= n THEN n - 1 + 1 ELSE 0)
        /\ \A i \in 1 .. n - 1 + 1 : SubSeq(s, 1, n)[i] = s[1 + i - 1]
    BY <1>1, <1>3, SubSeqProperties
  <1>5. n - 1 + 1 = n /\ (IF 1 <= n THEN n - 1 + 1 ELSE 0) = n /\ \A i \in 1 .. n : 1 + i - 1 = i
    BY <1>1
  <1> QED BY <1>4, <1>5, Zenon

\* What follows a NUL does not matter.
LEMMA UpToNulPadded ==
  ASSUME NEW a \in Seq(Nat), NEW b \in Seq(Nat), b /= <<>> => b[1] = 0, NEW c, c = a \o b
  PROVE  c \in Seq(Nat) /\ UpToNul(c) = UpToNul(a)
  <1>1. PICK n \in 0 .. Len(a) : /\ \A i \in 1 .. n : a[i] /= 0
                                 /\ n < Len(a) => a[n + 1] = 0
    BY NulExists
  <1>2. /\ c \in Seq(Nat) /\ Len(c) = Len(a) + Len(b)
        /\ Len(a) \in Nat /\ Len(b) \in Nat
        /\ \A i \in 1 .. Len(a) : c[i] = a[i]
        /\ \A i \in 1 .. Len(b) : c[Len(a) + i] = b[i]
    BY ConcatElements
  <1>3. n \in 0 .. Len(c) /\ \A i \in 1 .. n : i \in 1 .. Len(a)
    BY <1>2
  <1>4. \A i \in 1 .. n : c[i] = a[i] /\ c[i] /= 0
    BY <1>1, <1>2, <1>3, Zenon
  <1>5. n < Len(c) => c[n + 1] = 0
    <2>1. CASE n < Len(a)
      <3>1. n + 1 \in 1 .. Len(a)
        BY <1>2, <2>1
      <3> QED BY <1>1, <1>2, <2>1, <3>1, Zenon
    <2>2. CASE ~(n < Len(a))
      <3>1. n = Len(a)
        BY <1>2, <2>2
      <3>2. n < Len(c) => 1 \in 1 .. Len(b) /\ b /= <<>>
        BY <1>2, <3>1
      <3> QED BY <1>2, <3>1, <3>2, Zenon
    <2> QED BY <2>1, <2>2
  <1>6. UpToNul(c) = SubSeq(c, 1, n)
    BY <1>2, <1>3, <1>4, <1>5, UpToNulIs
  <1>7. UpToNul(a) = SubSeq(a, 1, n)
    BY <1>1, UpToNulIs
  <1>8. SubSeq(c, 1, n) = SubSeq(a, 1, n)
    <2>1. /\ SubSeq(a, 1, n) \in Seq(Nat) /\ Len(SubSeq(a, 1, n)) = n
          /\ \A i \in 1 .. n : SubSeq(a, 1, n)[i] = a[i]
      BY Prefix
    <2>2. /\ SubSeq(c, 1, n) \in Seq(Nat) /\ Len(SubSeq(c, 1, n)) = n
          /\ \A i \in 1 .. n : SubSeq(c, 1, n)[i] = c[i]
      BY <1>2, <1>3, Prefix
    <2> QED BY <1>4, <2>1, <2>2, SeqEqual
  <1> QED BY <1>2, <1>6, <1>7, <1>8, Zenon

\* A text is that of its units up to a NUL.
LEMMA TextPadded ==
  ASSUME NEW a \in Seq(Nat), NEW c \in Seq(Nat), UpToNul(c) = UpToNul(a)
  PROVE  Text(c) = Text(a)
  BY DEF Text

\* What a sequence begins with, and what follows it.
LEMMA PrefixOf ==
  ASSUME NEW a \in Seq(Nat), NEW b \in Seq(Nat), NEW c \in Seq(Nat), c = a \o b
  PROVE  SubSeq(c, 1, Len(a)) = a
  <1>1. /\ c \in Seq(Nat) /\ Len(c) = Len(a) + Len(b) /\ Len(a) \in Nat /\ Len(b) \in Nat
        /\ \A i \in 1 .. Len(a) : c[i] = a[i]
    BY ConcatElements
  <1>2. Len(a) \in 0 .. Len(c)
    BY <1>1
  <1>3. /\ SubSeq(c, 1, Len(a)) \in Seq(Nat) /\ Len(SubSeq(c, 1, Len(a))) = Len(a)
        /\ \A i \in 1 .. Len(a) : SubSeq(c, 1, Len(a))[i] = c[i]
    BY <1>2, Prefix
  <1>4. \A i \in 1 .. Len(a) : SubSeq(c, 1, Len(a))[i] = a[i]
    BY <1>1, <1>3, Zenon
  <1> QED BY <1>3, <1>4, SeqEqual

LEMMA ZerosType ==
  ASSUME NEW n \in Int, NEW z, z = Zeros(n)
  PROVE  /\ z \in Seq(Nat) /\ Len(z) = IF n >= 0 THEN n ELSE 0
         /\ \A i \in 1 .. Len(z) : z[i] = 0
         /\ n <= 0 => z = <<>>
  <1>1. CASE n > 0
    BY <1>1 DEF Zeros
  <1>2. CASE ~(n > 0)
    <2>1. 1 .. n = {}
      BY <1>2
    <2>2. z = <<>>
      BY <2>1 DEF Zeros
    <2> QED BY <1>2, <2>2
  <1> QED BY <1>1, <1>2

\* UnitsOf read from bytes that hold those of a text from k on, in either order.
UnitsFrom(t, u, k, n) == \A i \in 1 .. n : t[i] = u[k + i]
LittleEndianHolds(p, u, k, n) ==
  /\ k + n <= Len(u) /\ 2 * n <= Len(p)
  /\ \A i \in 1 .. n : p[2 * i - 1] = u[k + i] % 256 /\ p[2 * i] = u[k + i] \div 256
LEMMA LittleEndianUnits ==
  ASSUME NEW u \in Seq(Nat), NEW k \in Nat, NEW n \in Nat, NEW p \in Seq(Nat)
  PROVE  /\ FromLittleEndian(p) \in Seq(Nat) /\ Len(FromLittleEndian(p)) = Len(p) \div 2
         /\ LittleEndianHolds(p, u, k, n) => UnitsFrom(FromLittleEndian(p), u, k, n)
  <1>0. PICK s \in Seq(Nat) :
           /\ s = FromLittleEndian(p) /\ Len(s) = Len(p) \div 2
           /\ \A i \in 1 .. Len(s) : s[i] = p[2 * i - 1] + 256 * p[2 * i]
    BY FromLittleEndianType
  <1> SUFFICES ASSUME k + n <= Len(u), 2 * n <= Len(p),
                      \A i \in 1 .. n : p[2 * i - 1] = u[k + i] % 256 /\ p[2 * i] = u[k + i] \div 256
               PROVE  \A i \in 1 .. n : s[i] = u[k + i]
    BY <1>0, Zenon DEF LittleEndianHolds, UnitsFrom
  <1>1. /\ s \in Seq(Nat) /\ Len(s) = Len(p) \div 2
        /\ \A i \in 1 .. Len(s) : s[i] = p[2 * i - 1] + 256 * p[2 * i]
    BY <1>0
  <1>2. Len(p) \in Nat /\ Len(u) \in Nat
    OBVIOUS
  <1>3. ASSUME NEW i \in 1 .. n PROVE s[i] = u[k + i]
    <2>1. i \in 1 .. Len(s) /\ k + i \in 1 .. Len(u)
      BY <1>1, <1>2
    <2>2. PICK x \in Nat : x = u[k + i]
      BY <2>1, ElementOfSeq
    <2>3. s[i] = p[2 * i - 1] + 256 * p[2 * i]
      BY <1>1, <2>1, Zenon
    <2>6. p[2 * i - 1] = x % 256 /\ p[2 * i] = x \div 256
      BY <2>2, Zenon
    <2>4. s[i] = (x % 256) + 256 * (x \div 256)
      BY <2>3, <2>6, Zenon
    <2>5. (x % 256) + 256 * (x \div 256) = x
      OBVIOUS
    <2> QED BY <2>2, <2>4, <2>5
  <1> QED BY <1>3

BigEndianHolds(p, u, k, n) ==
  /\ k + n <= Len(u) /\ 2 * n <= Len(p)
  /\ \A i \in 1 .. n : p[2 * i - 1] = u[k + i] \div 256 /\ p[2 * i] = u[k + i] % 256
LEMMA BigEndianUnits ==
  ASSUME NEW u \in Seq(Nat), NEW k \in Nat, NEW n \in Nat, NEW p \in Seq(Nat)
  PROVE  /\ BigUnits(p) \in Seq(Nat) /\ Len(BigUnits(p)) = Len(p) \div 2
         /\ BigEndianHolds(p, u, k, n) => UnitsFrom(BigUnits(p), u, k, n)
  <1>0. PICK s \in Seq(Nat) :
           /\ s = BigUnits(p) /\ Len(s) = Len(p) \div 2
           /\ \A i \in 1 .. Len(s) : s[i] = 256 * p[2 * i - 1] + p[2 * i]
    BY BigUnitsType
  <1> SUFFICES ASSUME k + n <= Len(u), 2 * n <= Len(p),
                      \A i \in 1 .. n : p[2 * i - 1] = u[k + i] \div 256 /\ p[2 * i] = u[k + i] % 256
               PROVE  \A i \in 1 .. n : s[i] = u[k + i]
    BY <1>0, Zenon DEF BigEndianHolds, UnitsFrom
  <1>1. /\ s \in Seq(Nat) /\ Len(s) = Len(p) \div 2
        /\ \A i \in 1 .. Len(s) : s[i] = 256 * p[2 * i - 1] + p[2 * i]
    BY <1>0
  <1>2. Len(p) \in Nat /\ Len(u) \in Nat
    OBVIOUS
  <1>3. ASSUME NEW i \in 1 .. n PROVE s[i] = u[k + i]
    <2>1. i \in 1 .. Len(s) /\ k + i \in 1 .. Len(u)
      BY <1>1, <1>2
    <2>2. PICK x \in Nat : x = u[k + i]
      BY <2>1, ElementOfSeq
    <2>3. s[i] = 256 * p[2 * i - 1] + p[2 * i]
      BY <1>1, <2>1, Zenon
    <2>6. p[2 * i - 1] = x \div 256 /\ p[2 * i] = x % 256
      BY <2>2, Zenon
    <2>4. s[i] = 256 * (x \div 256) + (x % 256)
      BY <2>3, <2>6, Zenon
    <2>5. 256 * (x \div 256) + (x % 256) = x
      OBVIOUS
    <2> QED BY <2>2, <2>4, <2>5
  <1> QED BY <1>3

\* Some units of a text, from its bytes.
LEMMA LittleEndianPart ==
  ASSUME NEW u \in Seq(Nat), NEW k \in Nat, NEW n \in Nat, k + n <= Len(u),
         NEW p, p = SubSeq(LittleEndian(u), 2 * k + 1, 2 * k + 2 * n)
  PROVE  FromLittleEndian(p) = SubSeq(u, k + 1, k + n)
  <1>1. PICK b \in Seq(Nat) :
           /\ b = LittleEndian(u) /\ Len(b) = 2 * Len(u) /\ Len(u) \in Nat
           /\ \A i \in 1 .. Len(u) : b[2 * i - 1] = u[i] % 256 /\ b[2 * i] = u[i] \div 256
    BY LittleEndianType
  <1>2. \A i \in 2 * k + 1 .. 2 * k + 2 * n : b[i] \in Nat
    <2>1. \A i \in 2 * k + 1 .. 2 * k + 2 * n : i \in 1 .. Len(b)
      BY <1>1
    <2> QED BY <2>1, ElementOfSeq
  <1>3. /\ p \in Seq(Nat) /\ Len(p) = 2 * n
        /\ \A i \in 1 .. 2 * n : p[i] = b[2 * k + i]
    <2>1. /\ SubSeq(b, 2 * k + 1, 2 * k + 2 * n) \in Seq(Nat)
          /\ Len(SubSeq(b, 2 * k + 1, 2 * k + 2 * n))
               = (IF 2 * k + 1 <= 2 * k + 2 * n THEN 2 * k + 2 * n - (2 * k + 1) + 1 ELSE 0)
          /\ \A i \in 1 .. 2 * k + 2 * n - (2 * k + 1) + 1 :
               SubSeq(b, 2 * k + 1, 2 * k + 2 * n)[i] = b[2 * k + 1 + i - 1]
      <3>1. 2 * k + 1 \in Int /\ 2 * k + 2 * n \in Int
        OBVIOUS
      <3> QED BY <1>2, <3>1, SubSeqProperties
    <2>2. p = SubSeq(b, 2 * k + 1, 2 * k + 2 * n)
      BY <1>1
    <2>3. /\ (IF 2 * k + 1 <= 2 * k + 2 * n THEN 2 * k + 2 * n - (2 * k + 1) + 1 ELSE 0) = 2 * n
          /\ 2 * k + 2 * n - (2 * k + 1) + 1 = 2 * n
          /\ \A i \in Int : 2 * k + 1 + i - 1 = 2 * k + i
      OBVIOUS
    <2>4. p \in Seq(Nat) /\ Len(p) = 2 * n
      BY <2>1, <2>2, <2>3, Zenon
    <2>5. ASSUME NEW i \in 1 .. 2 * n PROVE p[i] = b[2 * k + i]
      <3>1. i \in Int
        OBVIOUS
      <3> QED BY <2>1, <2>2, <2>3, <3>1, Zenon
    <2> QED BY <2>4, <2>5
  <1>4. ASSUME NEW i \in 1 .. n
        PROVE  p[2 * i - 1] = u[k + i] % 256 /\ p[2 * i] = u[k + i] \div 256
    <2>1. /\ 2 * i - 1 \in 1 .. 2 * n /\ 2 * i \in 1 .. 2 * n /\ k + i \in 1 .. Len(u)
          /\ 2 * k + (2 * i - 1) = 2 * (k + i) - 1 /\ 2 * k + 2 * i = 2 * (k + i)
      BY <1>1
    <2>2. p[2 * i - 1] = b[2 * k + (2 * i - 1)] /\ p[2 * i] = b[2 * k + 2 * i]
      BY <1>3, <2>1, Zenon
    <2>3. b[2 * (k + i) - 1] = u[k + i] % 256 /\ b[2 * (k + i)] = u[k + i] \div 256
      BY <1>1, <2>1, Zenon
    <2> QED BY <2>1, <2>2, <2>3, Zenon
  <1>5. p \in Seq(Nat) /\ 2 * n <= Len(p) /\ Len(p) \div 2 = n
    <2>1. (2 * n) \div 2 = n
      OBVIOUS
    <2>2. 2 * n <= 2 * n
      OBVIOUS
    <2> QED BY <1>3, <2>1, <2>2, Zenon
  <1>6. PICK s : s = FromLittleEndian(p)
    OBVIOUS
  <1>7. s \in Seq(Nat) /\ Len(s) = n /\ \A i \in 1 .. n : s[i] = u[k + i]
    <2>1. FromLittleEndian(p) \in Seq(Nat) /\ Len(FromLittleEndian(p)) = Len(p) \div 2
      BY <1>5, LittleEndianUnits, Zenon
    <2>3. /\ k + n <= Len(u) /\ 2 * n <= Len(p)
          /\ (\A i \in 1 .. n : p[2 * i - 1] = u[k + i] % 256 /\ p[2 * i] = u[k + i] \div 256)
      BY <1>4, <1>5, Zenon
    <2>2. \A i \in 1 .. n : FromLittleEndian(p)[i] = u[k + i]
      <3>1. PICK q \in Seq(Nat) : q = p
        BY <1>5
      <3>2. LittleEndianHolds(q, u, k, n)
        BY <2>3, <3>1, Zenon DEF LittleEndianHolds
      <3>3. UnitsFrom(FromLittleEndian(q), u, k, n)
        BY <3>2, LittleEndianUnits, Zenon
      <3> QED BY <3>1, <3>3, Zenon DEF UnitsFrom
    <2> QED BY <1>5, <1>6, <2>1, <2>2, Zenon
  <1>8. PICK t \in Seq(Nat) : /\ t = SubSeq(u, k + 1, k + n) /\ Len(t) = n
                              /\ \A i \in 1 .. n : t[i] = u[k + i]
    <2>1. \A i \in k + 1 .. k + n : u[i] \in Nat
      <3>1. \A i \in k + 1 .. k + n : i \in 1 .. Len(u)
        BY <1>1
      <3> QED BY <3>1, ElementOfSeq
    <2>2. k + 1 \in Int /\ k + n \in Int
      OBVIOUS
    <2>3. PICK t : t = SubSeq(u, k + 1, k + n)
      OBVIOUS
    <2>4. /\ t \in Seq(Nat) /\ Len(t) = (IF k + 1 <= k + n THEN k + n - (k + 1) + 1 ELSE 0)
          /\ \A i \in 1 .. k + n - (k + 1) + 1 : t[i] = u[k + 1 + i - 1]
      BY <2>1, <2>2, <2>3, SubSeqProperties
    <2>5. /\ (IF k + 1 <= k + n THEN k + n - (k + 1) + 1 ELSE 0) = n
          /\ k + n - (k + 1) + 1 = n /\ \A i \in Int : k + 1 + i - 1 = k + i
      OBVIOUS
    <2>6. Len(t) = n
      BY <2>4, <2>5, Zenon
    <2>7. ASSUME NEW i \in 1 .. n PROVE t[i] = u[k + i]
      <3>1. i \in Int
        OBVIOUS
      <3> QED BY <2>4, <2>5, <3>1, Zenon
    <2> QED BY <2>3, <2>4, <2>6, <2>7, Zenon
  <1>9. s = t
    BY <1>7, <1>8, SeqEqual
  <1> QED BY <1>6, <1>8, <1>9

\* A NUL ends what is read.
LEMMA UpToNulAgree ==
  ASSUME NEW c \in Seq(Nat), NEW v \in Seq(Nat), NEW j \in 0 .. Len(v), j <= Len(c),
         \A i \in 1 .. j : c[i] = v[i], j < Len(c) => c[j + 1] = 0
  PROVE  UpToNul(c) = UpToNul(SubSeq(v, 1, j))
  <1>0. Len(c) \in Nat /\ Len(v) \in Nat /\ j \in Nat /\ j \in 0 .. Len(c)
    OBVIOUS
  <1>1. PICK a \in Seq(Nat) : a = SubSeq(v, 1, j) /\ Len(a) = j /\ \A i \in 1 .. j : a[i] = v[i]
    BY Prefix
  <1>2. PICK n \in 0 .. Len(a) : /\ \A i \in 1 .. n : a[i] /= 0
                                 /\ n < Len(a) => a[n + 1] = 0
    BY NulExists
  <1>3. n \in 0 .. Len(c) /\ n \in Nat /\ n <= j /\ \A i \in 1 .. n : i \in 1 .. j
    BY <1>0, <1>1
  <1>4. \A i \in 1 .. n : c[i] = a[i] /\ c[i] /= 0
    BY <1>1, <1>2, <1>3, Zenon
  <1>5. n < Len(c) => c[n + 1] = 0
    <2>1. CASE n < j
      <3>1. n + 1 \in 1 .. j
        BY <1>0, <1>3, <2>1
      <3> QED BY <1>1, <1>2, <2>1, <3>1, Zenon
    <2>2. CASE ~(n < j)
      <3>1. n = j
        BY <1>0, <1>3, <2>2
      <3> QED BY <3>1
    <2> QED BY <2>1, <2>2
  <1>6. UpToNul(c) = SubSeq(c, 1, n)
    BY <1>3, <1>4, <1>5, UpToNulIs
  <1>7. UpToNul(a) = SubSeq(a, 1, n)
    BY <1>1, <1>2, UpToNulIs
  <1>8. SubSeq(c, 1, n) = SubSeq(a, 1, n)
    <2>1. /\ SubSeq(a, 1, n) \in Seq(Nat) /\ Len(SubSeq(a, 1, n)) = n
          /\ \A i \in 1 .. n : SubSeq(a, 1, n)[i] = a[i]
      BY Prefix
    <2>2. /\ SubSeq(c, 1, n) \in Seq(Nat) /\ Len(SubSeq(c, 1, n)) = n
          /\ \A i \in 1 .. n : SubSeq(c, 1, n)[i] = c[i]
      BY <1>3, Prefix
    <2> QED BY <1>4, <2>1, <2>2, SeqEqual
  <1> QED BY <1>1, <1>6, <1>7, <1>8, Zenon

LEMMA PartOf ==
  ASSUME NEW c \in Seq(Nat), NEW m \in Nat, NEW n \in Nat, m + n <= Len(c)
  PROVE  /\ SubSeq(c, m + 1, m + n) \in Seq(Nat) /\ Len(SubSeq(c, m + 1, m + n)) = n
         /\ \A i \in 1 .. n : SubSeq(c, m + 1, m + n)[i] = c[m + i]
  <1>3. \A i \in m + 1 .. m + n : c[i] \in Nat
    <2>1. \A i \in m + 1 .. m + n : i \in 1 .. Len(c)
      OBVIOUS
    <2> QED BY <2>1, ElementOfSeq
  <1>4. m + 1 \in Int /\ m + n \in Int
    OBVIOUS
  <1>5. PICK t : t = SubSeq(c, m + 1, m + n)
    OBVIOUS
  <1>6. /\ t \in Seq(Nat) /\ Len(t) = (IF m + 1 <= m + n THEN m + n - (m + 1) + 1 ELSE 0)
        /\ \A i \in 1 .. m + n - (m + 1) + 1 : t[i] = c[m + 1 + i - 1]
    BY <1>3, <1>4, <1>5, SubSeqProperties
  <1>7. /\ (IF m + 1 <= m + n THEN m + n - (m + 1) + 1 ELSE 0) = n
        /\ m + n - (m + 1) + 1 = n /\ \A i \in Int : m + 1 + i - 1 = m + i
    OBVIOUS
  <1>8. Len(t) = n
    BY <1>6, <1>7, Zenon
  <1>9. ASSUME NEW i \in 1 .. n PROVE t[i] = c[m + i]
    <2>1. i \in Int
      OBVIOUS
    <2> QED BY <1>6, <1>7, <2>1, Zenon
  <1> QED BY <1>5, <1>6, <1>8, <1>9, Zenon

\* The units after a prefix.
LEMMA SuffixOf ==
  ASSUME NEW a \in Seq(Nat), NEW b \in Seq(Nat), NEW c \in Seq(Nat), c = a \o b
  PROVE  SubSeq(c, Len(a) + 1, Len(a) + Len(b)) = b
  <1>1. /\ c \in Seq(Nat) /\ Len(c) = Len(a) + Len(b) /\ Len(a) \in Nat /\ Len(b) \in Nat
        /\ \A i \in 1 .. Len(b) : c[Len(a) + i] = b[i]
    BY ConcatElements
  <1>2. PICK m \in Nat, n \in Nat : m = Len(a) /\ n = Len(b)
    BY <1>1
  <1>3. m + n <= Len(c)
    BY <1>1, <1>2
  <1>4. PICK t \in Seq(Nat) : /\ t = SubSeq(c, m + 1, m + n) /\ Len(t) = n
                              /\ \A i \in 1 .. n : t[i] = c[m + i]
    BY <1>3, PartOf
  <1>5. \A i \in 1 .. n : t[i] = b[i]
    BY <1>1, <1>2, <1>4, Zenon
  <1>6. t = b
    BY <1>2, <1>4, <1>5, SeqEqual
  <1> QED BY <1>2, <1>4, <1>6, Zenon

LEMMA EncodeAscii ==
  ASSUME NEW r \in Nat, r < 128
  PROVE  EncodeRune(r) = <<r>>
  BY DEF EncodeRune

\* The text of ASCII characters without NUL is these characters.
LEMMA AsciiText ==
  ASSUME NEW s \in Seq(Nat), \A i \in 1 .. Len(s) : 1 <= s[i] /\ s[i] < 128
  PROVE  Text(s) = s /\ UpToNul(s) = s
  <1>0. Len(s) \in Nat /\ Len(s) \in 0 .. Len(s) /\ \A i \in 1 .. Len(s) : s[i] \in Nat
    OBVIOUS
  <1>1. UpToNul(s) = s
    <2>1. \A i \in 1 .. Len(s) : s[i] /= 0
      BY <1>0
    <2>2. ~(Len(s) < Len(s))
      BY <1>0
    <2>3. UpToNul(s) = SubSeq(s, 1, Len(s))
      BY <1>0, <2>1, <2>2, UpToNulIs
    <2> QED BY <2>3, SubSeqFull
  <1>2. PICK w \in Seq(Seq(Nat)) :
          /\ Text(s) = FlattenSeq(w) /\ Len(w) = Len(s)
          /\ \A i \in 1 .. Len(s) :
               w[i] = IF i > 1 /\ PairAt(s, i - 1) THEN <<>>
                      ELSE IF PairAt(s, i) THEN EncodeRune(Pair(s[i], s[i + 1])) ELSE Alone(s[i])
    BY <1>1, TextPieces
  <1>3. ASSUME NEW i \in 1 .. Len(s) PROVE ~PairAt(s, i) /\ Alone(s[i]) = <<s[i]>>
    <2>1. PICK r \in Nat : r = s[i] /\ r < 128
      BY <1>0
    <2>2. ~High(r) /\ ~(surr1 <= r /\ r < surr3)
      BY <2>1 DEF High, surr1, surr2, surr3
    <2>3. EncodeRune(r) = <<r>>
      BY <2>1, EncodeAscii
    <2>4. Alone(r) = <<r>>
      BY <2>2, <2>3, Zenon DEF Alone
    <2> QED BY <2>1, <2>2, <2>4, Zenon DEF PairAt
  <1>4. ASSUME NEW i \in 1 .. Len(s), i > 1 PROVE ~PairAt(s, i - 1)
    <2>1. i - 1 \in 1 .. Len(s)
      BY <1>0, <1>4
    <2> QED BY <1>3, <2>1
  <1>5. \A i \in 1 .. Len(s) : w[i] = <<s[i]>>
    BY <1>2, <1>3, <1>4, Zenon
  <1>6. FlattenSeq(w) = s
    BY <1>2, <1>5, FlattenSingles
  <1> QED BY <1>1, <1>2, <1>6, Zenon

LEMMA EmptyText == Text(<<>>) = <<>> /\ UpToNul(<<>>) = <<>>
  <1>1. PICK s \in Seq(Nat) : s = <<>> /\ \A i \in 1 .. Len(s) : 1 <= s[i] /\ s[i] < 128
    <2>1. <<>> \in Seq(Nat)
      OBVIOUS
    <2>2. PICK s \in Seq(Nat) : s = <<>>
      BY <2>1
    <2>3. 1 .. Len(s) = {}
      BY <2>2
    <2> QED BY <2>2, <2>3, Zenon
  <1> QED BY <1>1, AsciiText, Zenon
==============================================================================
