------------------------------ MODULE DataFacts ------------------------------
(* Lemmas about numbers, sequences and finite sets that the proofs of the    *)
(* components cite.                                                          *)
EXTENDS Integers, Sequences, SequencesExt, FiniteSets, FiniteSetTheorems,
        NaturalsInduction, SequenceTheorems, WellFoundedInduction, TLAPS

-----------------------------------------------------------------------------
(* Natural numbers.                                                          *)

LessThan == {p \in Nat \X Nat : p[1] < p[2]}

LEMMA LeastElement ==
  ASSUME NEW T \in SUBSET Nat, T # {}
  PROVE  \E x \in T : \A y \in T : x <= y
<1>1. IsWellFoundedOn(LessThan, Nat)
  BY NatLessThanWellFounded DEF OpToRel, LessThan
<1>2. \E x \in T : \A y \in T : <<y, x>> \notin LessThan
  BY <1>1, WFMin
<1>3. ASSUME NEW x \in T, NEW y \in T, <<y, x>> \notin LessThan
      PROVE  x <= y
  <2>1. x \in Nat /\ y \in Nat /\ <<y, x>> \in Nat \X Nat
    OBVIOUS
  <2>2. y < x => <<y, x>> \in LessThan
    BY <2>1 DEF LessThan
  <2> QED
    BY <1>3, <2>1, <2>2
<1> QED
  BY <1>2, <1>3

(* Induction, for what can be said as membership in a set.                   *)
LEMMA InductiveSet ==
  ASSUME NEW S, 0 \in S, \A n \in Nat : n \in S => n + 1 \in S
  PROVE  Nat \subseteq S
<1> SUFFICES ASSUME NEW k \in Nat, k \notin S
             PROVE  FALSE
  OBVIOUS
<1> DEFINE T == {n \in Nat : n \notin S}
<1>1. T \in SUBSET Nat /\ T # {}
  OBVIOUS
<1> HIDE DEF T
<1>2. PICK n \in T : \A y \in T : n <= y
  BY <1>1, LeastElement
<1>3. n \in Nat /\ n \notin S /\ n # 0
  BY DEF T
<1>4. n - 1 \in Nat /\ n - 1 \notin T /\ (n - 1) + 1 = n
  BY <1>2, <1>3
<1>5. n - 1 \in S
  BY <1>4 DEF T
<1> QED
  BY <1>3, <1>4, <1>5

(* The partial sums of weights.                                              *)
LEMMA SumsExist ==
  ASSUME NEW N \in Nat, NEW w \in [1 .. N -> Nat]
  PROVE  \E g \in [0 .. N -> Nat] : g[0] = 0 /\ \A n \in 1 .. N : g[n] = g[n - 1] + w[n]
<1> DEFINE Sums(m) == {g \in [0 .. m -> Nat] : g[0] = 0 /\ \A n \in 1 .. m : g[n] = g[n - 1] + w[n]}
           T == {m \in Nat : m <= N => Sums(m) # {}}
<1>1. 0 \in T
  <2>1. [n \in 0 .. 0 |-> 0] \in Sums(0)
    OBVIOUS
  <2> QED
    BY <2>1
<1>2. ASSUME NEW m \in Nat, m \in T
      PROVE  m + 1 \in T
  <2> SUFFICES ASSUME m + 1 <= N
               PROVE  Sums(m + 1) # {}
    <3> HIDE DEF Sums
    <3> QED
      OBVIOUS
  <2>0. Sums(m) # {}
    <3>1. m <= N
      BY <1>2
    <3> HIDE DEF Sums
    <3> QED
      BY <1>2, <3>1
  <2>1. PICK g : g \in Sums(m)
    <3> HIDE DEF Sums
    <3> QED
      BY <2>0
  <2>2. g \in [0 .. m -> Nat] /\ g[0] = 0 /\ w[m + 1] \in Nat
        /\ \A n \in 1 .. m : g[n] = g[n - 1] + w[n]
    BY <2>1
  <2> DEFINE h == [n \in 0 .. m + 1 |-> IF n <= m THEN g[n] ELSE g[m] + w[m + 1]]
  <2>3. h \in [0 .. m + 1 -> Nat] /\ h[0] = 0
    BY <2>2
  <2>4. ASSUME NEW n \in 1 .. m + 1
        PROVE  h[n] = h[n - 1] + w[n]
    <3>1. CASE n <= m
      <4>1. n \in 1 .. m /\ n \in 0 .. m + 1 /\ n - 1 \in 0 .. m + 1 /\ n - 1 <= m
        BY <3>1
      <4> QED
        BY <2>2, <3>1, <4>1
    <3>2. CASE n = m + 1
      <4>1. h[m + 1] = g[m] + w[m + 1] /\ h[m] = g[m] /\ n - 1 = m
        BY <3>2
      <4> QED
        BY <3>2, <4>1
    <3> QED
      BY <3>1, <3>2
  <2>5. h \in Sums(m + 1)
    BY <2>3, <2>4
  <2> QED
    BY <2>5
<1> HIDE DEF T
<1>3. N \in T
  BY <1>1, <1>2, InductiveSet
<1>4. Sums(N) # {}
  <2> HIDE DEF Sums
  <2> QED
    BY <1>3 DEF T
<1> QED
  BY <1>4

(* Division with remainder, up to the remainder of the next number.          *)
LEMMA Quotient ==
  ASSUME NEW p \in Nat, NEW L \in Nat \ {0}
  PROVE  /\ p \div L \in Int /\ (p % L) \in 0 .. L - 1
         /\ p = L * (p \div L) + (p % L)
<1>1. p \div L \in Int
  OBVIOUS
<1>2. (p % L) \in 0 .. L - 1
  OBVIOUS
<1>3. p = L * (p \div L) + (p % L)
  OBVIOUS
<1> QED
  BY <1>1, <1>2, <1>3

LEMMA Multiples ==
  ASSUME NEW L \in Nat \ {0}, NEW d \in Int
  PROVE  /\ d >= 2 => L * d >= L + L
         /\ d <= -1 => L * d <= -L
         /\ L * 0 = 0 /\ L * 1 = L
OBVIOUS

LEMMA Distance ==
  ASSUME NEW L \in Nat, NEW a \in Int, NEW b \in Int
  PROVE  L * (a - b) = L * a - L * b /\ L * a \in Int /\ L * b \in Int
OBVIOUS

LEMMA NextRest ==
  ASSUME NEW p \in Nat, NEW L \in Nat \ {0}
  PROVE  ((p + 1) % L) = IF (p % L) + 1 = L THEN 0 ELSE (p % L) + 1
<1> DEFINE q == p \div L
           r == p % L
           s == (p + 1) \div L
           t == (p + 1) % L
           m == L * q
           n == L * s
<1>1. /\ q \in Int /\ r \in 0 .. L - 1 /\ s \in Int /\ t \in 0 .. L - 1
      /\ p = m + r /\ p + 1 = n + t
  BY Quotient
<1>2. L * (s - q) = n - m /\ m \in Int /\ n \in Int
  BY <1>1, Distance
<1>3. /\ s - q >= 2 => L * (s - q) >= L + L
      /\ s - q <= -1 => L * (s - q) <= -L
      /\ L * 0 = 0 /\ L * 1 = L
  BY <1>1, Multiples
<1> HIDE DEF m, n, q, r, s, t
<1>4. n - m = r + 1 - t
  BY <1>1, <1>2
<1>5. s - q = 0 \/ s - q = 1
  BY <1>1, <1>2, <1>3, <1>4
<1>6. CASE s - q = 0
  <2>1. n - m = 0
    BY <1>2, <1>3, <1>6
  <2> QED
    BY <1>1, <1>4, <2>1 DEF r, t
<1>7. CASE s - q = 1
  <2>1. n - m = L
    BY <1>2, <1>3, <1>7
  <2> QED
    BY <1>1, <1>4, <2>1 DEF r, t
<1> QED
  BY <1>5, <1>6, <1>7

-----------------------------------------------------------------------------
(* Sequences.                                                                *)

LEMMA AppendFacts ==
  ASSUME NEW S, NEW s \in Seq(S), NEW e \in S
  PROVE  /\ Append(s, e) \in Seq(S)
         /\ Len(Append(s, e)) = Len(s) + 1
         /\ DOMAIN Append(s, e) = 1 .. Len(s) + 1
         /\ \A i \in 1 .. Len(s) : Append(s, e)[i] = s[i]
         /\ Append(s, e)[Len(s) + 1] = e
OBVIOUS

LEMMA ExceptFacts ==
  ASSUME NEW S, NEW s \in Seq(S), NEW i \in DOMAIN s, NEW e \in S
  PROVE  /\ [s EXCEPT ![i] = e] \in Seq(S)
         /\ Len([s EXCEPT ![i] = e]) = Len(s) /\ DOMAIN [s EXCEPT ![i] = e] = DOMAIN s
         /\ [s EXCEPT ![i] = e][i] = e
         /\ \A j \in DOMAIN s \ {i} : [s EXCEPT ![i] = e][j] = s[j]
OBVIOUS

LEMMA SeqOfSubset ==
  ASSUME NEW S, NEW T, S \subseteq T, NEW s \in Seq(S)
  PROVE  s \in Seq(T)
OBVIOUS

LEMMA SetOfSequence ==
  ASSUME NEW S, NEW s \in Seq(S)
  PROVE  ToSet(s) \subseteq S
<1>1. \A i \in DOMAIN s : s[i] \in S
  OBVIOUS
<1> QED
  BY <1>1 DEF ToSet

LEMMA AppendSet ==
  ASSUME NEW S, NEW s \in Seq(S), NEW e \in S
  PROVE  ToSet(Append(s, e)) = ToSet(s) \cup {e}
<1>1. DOMAIN s = 1 .. Len(s) /\ Len(s) \in Nat
  OBVIOUS
<1> QED
  BY <1>1, AppendFacts DEF ToSet

LEMMA AppendDistinct ==
  ASSUME NEW S, NEW s \in Seq(S), NEW e \in S, IsInjective(s), e \notin ToSet(s)
  PROVE  IsInjective(Append(s, e))
<1>1. DOMAIN s = 1 .. Len(s) /\ Len(s) \in Nat
  OBVIOUS
<1> DEFINE t == Append(s, e)
           n == Len(s)
<1>2. /\ DOMAIN t = 1 .. n + 1 /\ n \in Nat
      /\ \A i \in 1 .. n : t[i] = s[i]
      /\ t[n + 1] = e
  BY <1>1, AppendFacts
<1>3. /\ \A i, j \in 1 .. n : s[i] = s[j] => i = j
      /\ \A i \in 1 .. n : s[i] # e
  BY <1>1 DEF IsInjective, ToSet
<1> HIDE DEF t, n
<1>4. \A i, j \in 1 .. n + 1 : t[i] = t[j] => i = j
  BY <1>2, <1>3
<1>5. IsInjective(t)
  BY <1>2, <1>4 DEF IsInjective
<1> QED
  BY <1>5 DEF t

LEMMA TailFacts ==
  ASSUME NEW S, NEW s \in Seq(S), s # <<>>
  PROVE  /\ Head(s) = s[1] /\ Head(s) \in S
         /\ Tail(s) \in Seq(S)
         /\ Len(s) \in Nat \ {0}
         /\ Len(Tail(s)) = Len(s) - 1
         /\ \A i \in 1 .. Len(s) - 1 : Tail(s)[i] = s[i + 1]
OBVIOUS

LEMMA TailSet ==
  ASSUME NEW S, NEW s \in Seq(S), s # <<>>, IsInjective(s)
  PROVE  /\ IsInjective(Tail(s))
         /\ ToSet(s) = ToSet(Tail(s)) \cup {Head(s)}
         /\ Head(s) \notin ToSet(Tail(s))
<1> DEFINE t == Tail(s)
           n == Len(s)
<1>1. /\ n \in Nat \ {0} /\ DOMAIN s = 1 .. n /\ DOMAIN t = 1 .. n - 1
      /\ Head(s) = s[1] /\ \A i \in 1 .. n - 1 : t[i] = s[i + 1]
  BY TailFacts
<1>2. \A i, j \in 1 .. n : s[i] = s[j] => i = j
  BY <1>1 DEF IsInjective
<1> HIDE DEF t, n
<1>3. IsInjective(t)
  BY <1>1, <1>2 DEF IsInjective
<1>4. Head(s) \notin ToSet(t)
  BY <1>1, <1>2 DEF ToSet
<1>5. ASSUME NEW i \in 1 .. n
      PROVE  s[i] \in ToSet(t) \cup {Head(s)}
  <2>1. CASE i = 1
    BY <1>1, <2>1
  <2>2. CASE i # 1
    <3>1. i - 1 \in 1 .. n - 1 /\ t[i - 1] = s[(i - 1) + 1]
      BY <1>1, <2>2
    <3>2. (i - 1) + 1 = i
      BY <1>1
    <3> QED
      BY <1>1, <3>1, <3>2 DEF ToSet
  <2> QED
    BY <2>1, <2>2
<1>6. ToSet(s) \subseteq ToSet(t) \cup {Head(s)}
  BY <1>1, <1>5 DEF ToSet
<1>7. ToSet(t) \cup {Head(s)} \subseteq ToSet(s)
  BY <1>1 DEF ToSet
<1> QED
  BY <1>3, <1>4, <1>6, <1>7 DEF t

-----------------------------------------------------------------------------
(* Finite sets.                                                              *)

LEMMA UpTo ==
  ASSUME NEW n \in Nat
  PROVE  IsFiniteSet(1 .. n) /\ Cardinality(1 .. n) = n
<1>1. IsFiniteSet(1 .. n) /\ Cardinality(1 .. n) = IF 1 > n THEN 0 ELSE n - 1 + 1
  BY FS_Interval
<1> QED
  BY <1>1

LEMMA AtMostOne ==
  ASSUME NEW S, \A x, y \in S : x = y
  PROVE  Cardinality(S) = IF S = {} THEN 0 ELSE 1
<1>1. CASE S = {}
  BY <1>1, FS_EmptySet
<1>2. CASE S # {}
  <2>1. PICK x : S = {x}
    BY <1>2
  <2> QED
    BY <1>2, <2>1, FS_Singleton
<1> QED
  BY <1>1, <1>2


-----------------------------------------------------------------------------
(* Recursion along a sequence.                                               *)

IsStep(N, S, step) == step \in [1 .. N -> [S -> S]]

IsRun(N, S, b, step, g) ==
  g \in [0 .. N -> S] /\ g[0] = b /\ \A n \in 1 .. N : g[n] = step[n][g[n - 1]]

LEMMA Recursion ==
  ASSUME NEW N \in Nat, NEW S, NEW b \in S, NEW step, IsStep(N, S, step)
  PROVE  \E g : IsRun(N, S, b, step, g)
<1>0. step \in [1 .. N -> [S -> S]]
  BY DEF IsStep
<1> DEFINE Runs(m) == {g \in [0 .. m -> S] : g[0] = b /\ \A n \in 1 .. m : g[n] = step[n][g[n - 1]]}
           T == {m \in Nat : m <= N => Runs(m) # {}}
<1>1. 0 \in T
  <2>1. [n \in 0 .. 0 |-> b] \in Runs(0)
    OBVIOUS
  <2> QED
    BY <2>1
<1>2. ASSUME NEW m \in Nat, m \in T
      PROVE  m + 1 \in T
  <2> SUFFICES ASSUME m + 1 <= N
               PROVE  Runs(m + 1) # {}
    <3> HIDE DEF Runs
    <3> QED
      OBVIOUS
  <2>0. Runs(m) # {}
    <3>1. m <= N
      BY <1>2
    <3> HIDE DEF Runs
    <3> QED
      BY <1>2, <3>1
  <2>1. PICK g : g \in Runs(m)
    <3> HIDE DEF Runs
    <3> QED
      BY <2>0
  <2>2. /\ g \in [0 .. m -> S] /\ g[0] = b /\ m + 1 \in 1 .. N /\ g[m] \in S
        /\ \A n \in 1 .. m : g[n] = step[n][g[n - 1]]
    BY <2>1
  <2>3. step[m + 1] \in [S -> S]
    BY <1>0, <2>2
  <2>4. step[m + 1][g[m]] \in S
    BY <2>2, <2>3
  <2> DEFINE h == [n \in 0 .. m + 1 |-> IF n <= m THEN g[n] ELSE step[m + 1][g[m]]]
  <2>5. h \in [0 .. m + 1 -> S] /\ h[0] = b
    BY <2>2, <2>4
  <2>6. ASSUME NEW n \in 1 .. m + 1
        PROVE  h[n] = step[n][h[n - 1]]
    <3>1. CASE n <= m
      <4>1. n \in 1 .. m /\ n \in 0 .. m + 1 /\ n - 1 \in 0 .. m + 1 /\ n - 1 <= m
        BY <3>1
      <4>2. h[n] = g[n] /\ h[n - 1] = g[n - 1]
        BY <3>1, <4>1
      <4> QED
        BY <2>2, <4>1, <4>2
    <3>2. CASE n = m + 1
      <4>1. h[m + 1] = step[m + 1][g[m]] /\ h[m] = g[m] /\ n - 1 = m
        BY <3>2
      <4> QED
        BY <3>2, <4>1
    <3> QED
      BY <3>1, <3>2
  <2>7. h \in Runs(m + 1)
    BY <2>5, <2>6
  <2> QED
    BY <2>7
<1> HIDE DEF T
<1>3. N \in T
  BY <1>1, <1>2, InductiveSet
<1>4. Runs(N) # {}
  <2> HIDE DEF Runs
  <2> QED
    BY <1>3 DEF T
<1> QED
  BY <1>4 DEF IsRun

(* Whatever a recursion of this form is written as, it stays in the set.     *)
StepsFrom(N, S, b, step, h) ==
  h[0] = b /\ \A n \in 1 .. N : h[n - 1] \in S => h[n] = step[n][h[n - 1]]

LEMMA RunOf ==
  ASSUME NEW N \in Nat, NEW S, NEW b \in S, NEW step, IsStep(N, S, step),
         NEW h, StepsFrom(N, S, b, step, h)
  PROVE  \A n \in 0 .. N : h[n] \in S
<1> DEFINE T == {n \in Nat : n <= N => h[n] \in S}
<1>1. 0 \in T
  BY DEF StepsFrom
<1>2. ASSUME NEW n \in Nat, n \in T
      PROVE  n + 1 \in T
  <2> SUFFICES ASSUME n + 1 <= N
               PROVE  h[n + 1] \in S
    OBVIOUS
  <2>1. n <= N /\ n + 1 \in 1 .. N /\ (n + 1) - 1 = n /\ h[n] \in S
    BY <1>2
  <2>2. step[n + 1] \in [S -> S] /\ h[n + 1] = step[n + 1][h[n]]
    BY <2>1 DEF IsStep, StepsFrom
  <2> QED
    BY <2>1, <2>2
<1> HIDE DEF T
<1>3. Nat \subseteq T
  BY <1>1, <1>2, InductiveSet
<1> QED
  BY <1>3 DEF T

(* What FlattenSeq returns, as the last of the joined prefixes.              *)
IsFlat(ss, g) ==
  g = [i \in 1 .. Len(ss) |-> IF i = 1 THEN ss[i] ELSE g[i - 1] \o ss[i]]

IsJoined(S, ss, g) ==
  /\ g \in [0 .. Len(ss) -> Seq(S)] /\ g[0] = <<>>
  /\ \A n \in 1 .. Len(ss) : g[n] = g[n - 1] \o ss[n]

LEMMA JoinedStep ==
  ASSUME NEW S, NEW ss \in Seq(Seq(S)), NEW g, IsJoined(S, ss, g), NEW n \in Nat, n + 1 <= Len(ss)
  PROVE  /\ n + 1 \in 1 .. Len(ss) /\ n \in 0 .. Len(ss)
         /\ g[n] \in Seq(S) /\ ss[n + 1] \in Seq(S) /\ g[n + 1] = g[n] \o ss[n + 1]
<1>1. n + 1 \in 1 .. Len(ss) /\ n \in 0 .. Len(ss) /\ (n + 1) - 1 = n
  OBVIOUS
<1>2. g[n] \in Seq(S) /\ g[n + 1] = g[(n + 1) - 1] \o ss[n + 1]
  BY <1>1 DEF IsJoined
<1>3. ss[n + 1] \in Seq(S)
  BY <1>1
<1> QED
  BY <1>1, <1>2, <1>3

LEMMA FlattenIs ==
  ASSUME NEW S, NEW ss \in Seq(Seq(S))
  PROVE  \E g : IsJoined(S, ss, g) /\ FlattenSeq(ss) = g[Len(ss)]
<1> DEFINE N == Len(ss)
           step == [n \in 1 .. N |-> [p \in Seq(S) |-> p \o ss[n]]]
<1>1. N \in Nat /\ <<>> \in Seq(S) /\ DOMAIN ss = 1 .. N /\ \A n \in 1 .. N : ss[n] \in Seq(S)
  OBVIOUS
<1>2. step \in [1 .. N -> [Seq(S) -> Seq(S)]]
  BY <1>1
<1>3. PICK g : IsRun(N, Seq(S), <<>>, step, g)
  <2>1. IsStep(N, Seq(S), step)
    BY <1>2 DEF IsStep
  <2> QED
    BY <1>1, <2>1, Recursion
<1>31. g \in [0 .. N -> Seq(S)] /\ g[0] = <<>> /\ \A n \in 1 .. N : g[n] = step[n][g[n - 1]]
  BY <1>3 DEF IsRun
<1>4. ASSUME NEW n \in 1 .. N
      PROVE  g[n] = g[n - 1] \o ss[n] /\ g[n - 1] \in Seq(S)
  <2>1. n - 1 \in 0 .. N
    BY <1>1
  <2>2. g[n - 1] \in Seq(S) /\ g[n] = step[n][g[n - 1]]
    BY <1>31, <2>1
  <2> QED
    BY <2>2
<1>5. IsJoined(S, ss, g)
  BY <1>31, <1>4 DEF IsJoined
<1> HIDE DEF N, step
<1>6. CASE N = 0
  <2>1. FlattenSeq(ss) = ss /\ ss = <<>>
    BY <1>6 DEF FlattenSeq, N
  <2> QED
    BY <1>31, <1>5, <1>6, <2>1 DEF N
<1>7. CASE N # 0
  <2> DEFINE h == CHOOSE h : IsFlat(ss, h)
  <2>1. FlattenSeq(ss) = h[N]
    BY <1>1, <1>7 DEF FlattenSeq, IsFlat, N
  <2>2. IsFlat(ss, [n \in 1 .. N |-> g[n]])
    <3> DEFINE k == [n \in 1 .. N |-> g[n]]
    <3>1. ASSUME NEW n \in 1 .. N
          PROVE  k[n] = IF n = 1 THEN ss[n] ELSE k[n - 1] \o ss[n]
      <4>1. CASE n = 1
        <5>0. 1 \in 1 .. N /\ 1 - 1 = 0
          BY <4>1
        <5>1. g[1] = <<>> \o ss[1] /\ ss[1] \in Seq(S)
          BY <1>1, <1>31, <1>4, <5>0
        <5> HIDE DEF k
        <5>2. g[1] = ss[1]
          BY <5>1, ConcatEmptySeq
        <5> QED
          BY <1>1, <4>1, <5>2 DEF k
      <4>2. CASE n # 1
        <5>1. n - 1 \in 1 .. N
          BY <1>1, <4>2
        <5> QED
          BY <1>4, <4>2, <5>1
      <4> QED
        BY <4>1, <4>2
    <3> QED
      BY <3>1 DEF IsFlat, N
  <2>3. IsFlat(ss, h)
    BY <2>2
  <2> HIDE DEF h
  <2> DEFINE T == {n \in Nat : n + 1 <= N => h[n + 1] = g[n + 1]}
  <2>4. \A n \in 1 .. N : h[n] = IF n = 1 THEN ss[n] ELSE h[n - 1] \o ss[n]
    BY <2>3 DEF IsFlat, N
  <2>5. 0 \in T
    <3>1. 1 \in 1 .. N
      BY <1>1, <1>7
    <3>0. 1 - 1 = 0
      OBVIOUS
    <3>2. h[1] = ss[1] /\ g[1] = <<>> \o ss[1] /\ ss[1] \in Seq(S)
      BY <1>1, <1>31, <1>4, <2>4, <3>0, <3>1
    <3>3. g[1] = ss[1]
      BY <3>2, ConcatEmptySeq
    <3> QED
      BY <3>2, <3>3
  <2>6. ASSUME NEW n \in Nat, n \in T
        PROVE  n + 1 \in T
    <3> SUFFICES ASSUME (n + 1) + 1 <= N
                 PROVE  h[(n + 1) + 1] = g[(n + 1) + 1]
      OBVIOUS
    <3>1. /\ (n + 1) + 1 \in 1 .. N /\ (n + 1) + 1 # 1 /\ ((n + 1) + 1) - 1 = n + 1 /\ n + 1 <= N
      BY <1>1
    <3>2. h[n + 1] = g[n + 1]
      BY <2>6, <3>1
    <3>3. g[(n + 1) + 1] = g[n + 1] \o ss[(n + 1) + 1]
      BY <1>4, <3>1
    <3>4. h[(n + 1) + 1] = h[n + 1] \o ss[(n + 1) + 1]
      BY <2>4, <3>1
    <3> QED
      BY <3>2, <3>3, <3>4
  <2> HIDE DEF T
  <2>7. N - 1 \in T
    <3>1. N - 1 \in Nat
      BY <1>1, <1>7
    <3> QED
      BY <2>5, <2>6, <3>1, InductiveSet
  <2>8. h[N] = g[N]
    BY <1>1, <1>7, <2>7 DEF T
  <2> QED
    BY <1>5, <2>1, <2>8 DEF N
<1> QED
  BY <1>6, <1>7

LEMMA FlattenEmpty == FlattenSeq(<<>>) = <<>>
BY DEF FlattenSeq

LEMMA FlattenType ==
  ASSUME NEW S, NEW ss \in Seq(Seq(S))
  PROVE  FlattenSeq(ss) \in Seq(S)
<1>1. PICK g : IsJoined(S, ss, g) /\ FlattenSeq(ss) = g[Len(ss)]
  BY FlattenIs
<1>2. Len(ss) \in 0 .. Len(ss)
  OBVIOUS
<1> QED
  BY <1>1, <1>2 DEF IsJoined

LEMMA FlattenAppend ==
  ASSUME NEW S, NEW ss \in Seq(Seq(S)), NEW s \in Seq(S)
  PROVE  FlattenSeq(Append(ss, s)) = FlattenSeq(ss) \o s
<1> DEFINE tt == Append(ss, s)
           N == Len(ss)
<1>1. /\ tt \in Seq(Seq(S)) /\ Len(tt) = N + 1 /\ tt[N + 1] = s /\ N \in Nat
      /\ \A i \in 1 .. N : tt[i] = ss[i]
  BY AppendFacts
<1> HIDE DEF tt
<1>2. PICK g : IsJoined(S, ss, g) /\ FlattenSeq(ss) = g[N]
  BY FlattenIs
<1>3. PICK h : IsJoined(S, tt, h) /\ FlattenSeq(tt) = h[N + 1]
  BY <1>1, FlattenIs
<1> HIDE DEF N
<1> DEFINE T == {n \in Nat : n <= N => h[n] = g[n]}
<1>4. 0 \in T
  BY <1>2, <1>3 DEF IsJoined
<1>5. ASSUME NEW n \in Nat, n \in T
      PROVE  n + 1 \in T
  <2> SUFFICES ASSUME n + 1 <= N
               PROVE  h[n + 1] = g[n + 1]
    OBVIOUS
  <2>1. n <= N /\ n + 1 \in 1 .. N /\ n + 1 <= N + 1
    BY <1>1
  <2>2. g[n + 1] = g[n] \o ss[n + 1]
    BY <1>1, <1>2, JoinedStep DEF N
  <2>3. h[n + 1] = h[n] \o tt[n + 1]
    BY <1>1, <1>3, <2>1, JoinedStep
  <2> QED
    BY <1>1, <1>5, <2>1, <2>2, <2>3
<1> HIDE DEF T
<1>6. h[N] = g[N]
  <2>1. N \in T
    BY <1>1, <1>4, <1>5, InductiveSet
  <2> QED
    BY <1>1, <2>1 DEF T
<1>7. h[N + 1] = h[N] \o tt[N + 1]
  <2>1. N + 1 <= N + 1
    BY <1>1
  <2> QED
    BY <1>1, <1>3, <2>1, JoinedStep
<1> QED
  BY <1>1, <1>2, <1>3, <1>6, <1>7 DEF tt

LEMMA FlattenHead ==
  ASSUME NEW S, NEW ss \in Seq(Seq(S)), ss # <<>>
  PROVE  FlattenSeq(ss) = Head(ss) \o FlattenSeq(Tail(ss))
<1> DEFINE tt == Tail(ss)
           N == Len(tt)
           s == Head(ss)
<1>1. /\ tt \in Seq(Seq(S)) /\ Len(ss) = N + 1 /\ ss[1] = s /\ N \in Nat /\ s \in Seq(S)
      /\ \A i \in 1 .. N : tt[i] = ss[i + 1]
  BY TailFacts
<1> HIDE DEF tt, s
<1>2. PICK g : IsJoined(S, tt, g) /\ FlattenSeq(tt) = g[N]
  BY <1>1, FlattenIs
<1>3. PICK h : IsJoined(S, ss, h) /\ FlattenSeq(ss) = h[N + 1]
  BY <1>1, FlattenIs
<1> HIDE DEF N
<1> DEFINE T == {n \in Nat : n <= N => h[n + 1] = s \o g[n]}
<1>4. 0 \in T
  <2>1. 0 + 1 <= Len(ss) /\ 0 \in Nat
    BY <1>1
  <2>2. h[0 + 1] = h[0] \o ss[0 + 1]
    BY <1>1, <1>3, <2>1, JoinedStep
  <2>3. h[0] = <<>> /\ g[0] = <<>>
    BY <1>2, <1>3 DEF IsJoined
  <2>4. <<>> \o s = s /\ s \o <<>> = s
    BY <1>1, ConcatEmptySeq
  <2>5. h[0 + 1] = s \o g[0]
    BY <1>1, <2>2, <2>3, <2>4
  <2> QED
    BY <2>5
<1>5. ASSUME NEW n \in Nat, n \in T
      PROVE  n + 1 \in T
  <2> SUFFICES ASSUME n + 1 <= N
               PROVE  h[(n + 1) + 1] = s \o g[n + 1]
    OBVIOUS
  <2>1. n <= N /\ n + 1 \in 1 .. N /\ (n + 1) + 1 <= N + 1 /\ n + 1 \in Nat
    BY <1>1
  <2>2. g[n + 1] = g[n] \o tt[n + 1] /\ g[n] \in Seq(S) /\ tt[n + 1] \in Seq(S)
    BY <1>1, <1>2, JoinedStep DEF N
  <2>3. h[(n + 1) + 1] = h[n + 1] \o ss[(n + 1) + 1]
    BY <1>1, <1>3, <2>1, JoinedStep
  <2>4. h[(n + 1) + 1] = (s \o g[n]) \o tt[n + 1]
    BY <1>1, <1>5, <2>1, <2>3
  <2>5. (s \o g[n]) \o tt[n + 1] = s \o (g[n] \o tt[n + 1])
    <3>1. PICK x \in Seq(S), y \in Seq(S), z \in Seq(S) : x = s /\ y = g[n] /\ z = tt[n + 1]
      BY <1>1, <2>2
    <3>2. (x \o y) \o z = x \o (y \o z)
      BY ONLY x \in Seq(S), y \in Seq(S), z \in Seq(S)
    <3> QED
      BY <3>1, <3>2, Zenon
  <2> QED
    BY <2>2, <2>4, <2>5
<1> HIDE DEF T
<1>6. N \in T
  BY <1>1, <1>4, <1>5, InductiveSet
<1>7. h[N + 1] = s \o g[N]
  BY <1>1, <1>6 DEF T
<1> QED
  BY <1>1, <1>2, <1>3, <1>7 DEF tt, s

LEMMA ConcatSet ==
  ASSUME NEW S, NEW s \in Seq(S), NEW t \in Seq(S)
  PROVE  ToSet(s \o t) = ToSet(s) \cup ToSet(t)
<1> DEFINE u == s \o t
           m == Len(s)
           n == Len(t)
<1>1. /\ m \in Nat /\ n \in Nat /\ DOMAIN s = 1 .. m /\ DOMAIN t = 1 .. n /\ DOMAIN u = 1 .. m + n
      /\ \A i \in 1 .. m + n : u[i] = IF i <= m THEN s[i] ELSE t[i - m]
  OBVIOUS
<1> HIDE DEF u, m, n
<1>2. ASSUME NEW i \in 1 .. m + n
      PROVE  u[i] \in ToSet(s) \cup ToSet(t)
  <2>1. i <= m \/ i - m \in 1 .. n
    BY <1>1
  <2>2. u[i] = IF i <= m THEN s[i] ELSE t[i - m]
    BY <1>1
  <2>3. CASE i <= m
    <3>1. i \in 1 .. m
      BY <1>1, <2>3
    <3> QED
      BY <1>1, <2>2, <2>3, <3>1 DEF ToSet
  <2>4. CASE ~(i <= m)
    BY <1>1, <2>1, <2>2, <2>4 DEF ToSet
  <2> QED
    BY <2>3, <2>4
<1>3. ASSUME NEW i \in 1 .. m
      PROVE  s[i] \in ToSet(u)
  BY <1>1 DEF ToSet
<1>4. ASSUME NEW i \in 1 .. n
      PROVE  t[i] \in ToSet(u)
  <2>1. m + i \in 1 .. m + n /\ ~(m + i <= m) /\ (m + i) - m = i
    BY <1>1
  <2>2. u[m + i] = t[i]
    BY <1>1, <2>1
  <2> QED
    BY <1>1, <2>1, <2>2 DEF ToSet
<1>5. ToSet(u) \subseteq ToSet(s) \cup ToSet(t)
  BY <1>1, <1>2 DEF ToSet
<1>6. ToSet(s) \cup ToSet(t) \subseteq ToSet(u)
  BY <1>1, <1>3, <1>4 DEF ToSet
<1> QED
  BY <1>5, <1>6 DEF u

LEMMA FlattenElements ==
  ASSUME NEW S, NEW ss \in Seq(Seq(S))
  PROVE  \A x : x \in ToSet(FlattenSeq(ss)) <=> \E i \in DOMAIN ss : x \in ToSet(ss[i])
<1> DEFINE N == Len(ss)
           U(n) == UNION {ToSet(ss[i]) : i \in 1 .. n}
<1>1. N \in Nat /\ DOMAIN ss = 1 .. N
  OBVIOUS
<1>2. PICK g : IsJoined(S, ss, g) /\ FlattenSeq(ss) = g[N]
  BY FlattenIs
<1> DEFINE T == {n \in Nat : n <= N => ToSet(g[n]) = U(n)}
<1>3. 0 \in T
  <2>1. ToSet(g[0]) = {}
    BY <1>2 DEF IsJoined, ToSet
  <2>2. U(0) = {}
    OBVIOUS
  <2> QED
    BY <2>1, <2>2
<1>4. ASSUME NEW n \in Nat, n \in T
      PROVE  n + 1 \in T
  <2> SUFFICES ASSUME n + 1 <= N
               PROVE  ToSet(g[n + 1]) = U(n + 1)
    <3> HIDE DEF U
    <3> QED
      OBVIOUS
  <2>0. IsJoined(S, ss, g) /\ n + 1 <= Len(ss) /\ n <= N
    BY <1>1, <1>2
  <2>1. g[n + 1] = g[n] \o ss[n + 1] /\ g[n] \in Seq(S) /\ ss[n + 1] \in Seq(S)
    <3> HIDE DEF U, N
    <3> QED
      BY <2>0, JoinedStep
  <2>2. ToSet(g[n + 1]) = ToSet(g[n]) \cup ToSet(ss[n + 1])
    BY <2>1, ConcatSet
  <2>3. ToSet(g[n]) = U(n)
    <3> HIDE DEF U, N
    <3> QED
      BY <1>4, <2>0
  <2>4. U(n + 1) = U(n) \cup ToSet(ss[n + 1])
    <3>1. 1 .. n + 1 = (1 .. n) \cup {n + 1}
      OBVIOUS
    <3> QED
      BY <3>1
  <2> HIDE DEF U
  <2> QED
    BY <2>2, <2>3, <2>4
<1> HIDE DEF T
<1>5. N \in T
  BY <1>1, <1>3, <1>4, InductiveSet
<1>6. ToSet(g[N]) = U(N)
  <2> HIDE DEF U, N
  <2> QED
    BY <1>1, <1>5 DEF T
<1>7. ASSUME NEW y
      PROVE  y \in ToSet(g[N]) <=> \E i \in DOMAIN ss : y \in ToSet(ss[i])
  <2>1. y \in U(N) <=> \E i \in DOMAIN ss : y \in ToSet(ss[i])
    BY <1>1
  <2> HIDE DEF U, N
  <2> QED
    BY <1>6, <2>1
<1>8. FlattenSeq(ss) = g[N]
  BY <1>2
<1> HIDE DEF N, U
<1> QED
  BY <1>7, <1>8

==============================================================================
