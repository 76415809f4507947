------------------------- MODULE Aggregation_proofs -------------------------
(* Theorems about Aggregation, for any records, slices, sizes of statements  *)
(* and faults.  First what the operators of Counters do to a counter.        *)
EXTENDS Aggregation, DataFacts

-----------------------------------------------------------------------------
(* Sums of the first numbers of a sequence.                                  *)

LEMMA SumsExistInt ==
  ASSUME NEW N \in Nat, NEW w
  PROVE  \E g : g = [n \in 0 .. N |-> IF n = 0 THEN 0 ELSE g[n - 1] + w[n]]
<1> DEFINE Is(g, m) == g = [n \in 0 .. m |-> IF n = 0 THEN 0 ELSE g[n - 1] + w[n]]
           T == {m \in Nat : \E g : Is(g, m)}
<1>1. 0 \in T
  <2>1. Is([n \in 0 .. 0 |-> 0], 0)
    OBVIOUS
  <2> QED
    BY <2>1
<1>2. ASSUME NEW m \in Nat, m \in T
      PROVE  m + 1 \in T
  <2>1. PICK g : Is(g, m)
    BY <1>2
  <2> DEFINE h == [n \in 0 .. m + 1 |-> IF n <= m THEN g[n] ELSE g[m] + w[m + 1]]
  <2>2. ASSUME NEW n \in 0 .. m + 1
        PROVE  h[n] = IF n = 0 THEN 0 ELSE h[n - 1] + w[n]
    <3>1. CASE n = 0
      <4>1. g[0] = 0
        BY <2>1
      <4> QED
        BY <3>1, <4>1
    <3>2. CASE n \in 1 .. m
      <4>1. n - 1 \in 0 .. m + 1 /\ n - 1 <= m /\ n <= m /\ n # 0 /\ n \in 0 .. m
        BY <3>2
      <4>2. g[n] = g[n - 1] + w[n]
        BY <2>1, <4>1
      <4> QED
        BY <4>1, <4>2
    <3>3. CASE n = m + 1
      <4>1. n - 1 = m /\ m \in 0 .. m + 1 /\ ~(n <= m) /\ n # 0
        BY <3>3
      <4> QED
        BY <3>3, <4>1
    <3> QED
      BY <3>1, <3>2, <3>3
  <2>3. Is(h, m + 1)
    <3>1. h = [n \in 0 .. m + 1 |-> h[n]]
      OBVIOUS
    <3> HIDE DEF h
    <3> QED
      BY <2>2, <3>1
  <2>4. \E k : Is(k, m + 1)
    <3> HIDE DEF Is, h
    <3> QED
      BY <2>3
  <2>5. m + 1 \in Nat
    OBVIOUS
  <2> HIDE DEF Is
  <2> QED
    BY <2>4, <2>5
<1> HIDE DEF T
<1>3. N \in T
  BY <1>1, <1>2, InductiveSet
<1> QED
  BY <1>3 DEF T

LEMMA SumToIs ==
  ASSUME NEW N \in Nat, NEW w
  PROVE  \E g : /\ g = [n \in 0 .. N |-> IF n = 0 THEN 0 ELSE g[n - 1] + w[n]]
                /\ SumTo(w, N) = g[N]
<1> DEFINE h == CHOOSE g : g = [n \in 0 .. N |-> IF n = 0 THEN 0 ELSE g[n - 1] + w[n]]
<1>1. h = [n \in 0 .. N |-> IF n = 0 THEN 0 ELSE h[n - 1] + w[n]]
  <2>1. \E g : g = [n \in 0 .. N |-> IF n = 0 THEN 0 ELSE g[n - 1] + w[n]]
    BY SumsExistInt
  <2> QED
    BY <2>1
<1>2. SumTo(w, N) = h[N]
  BY DEF SumTo
<1> QED
  BY <1>1, <1>2

LEMMA SumOfNone ==
  ASSUME NEW w
  PROVE  SumTo(w, 0) = 0
<1>1. PICK g : /\ g = [n \in 0 .. 0 |-> IF n = 0 THEN 0 ELSE g[n - 1] + w[n]]
               /\ SumTo(w, 0) = g[0]
  BY SumToIs
<1> QED
  BY <1>1

(* A sum depends on the numbers up to N only.                                *)
LEMMA SumSame ==
  ASSUME NEW N \in Nat, NEW v, NEW w, \A n \in 1 .. N : v[n] = w[n]
  PROVE  SumTo(v, N) = SumTo(w, N)
<1>1. PICK g : /\ g = [n \in 0 .. N |-> IF n = 0 THEN 0 ELSE g[n - 1] + v[n]]
               /\ SumTo(v, N) = g[N]
  BY SumToIs
<1>2. PICK h : /\ h = [n \in 0 .. N |-> IF n = 0 THEN 0 ELSE h[n - 1] + w[n]]
               /\ SumTo(w, N) = h[N]
  BY SumToIs
<1> DEFINE T == {m \in Nat : m <= N => g[m] = h[m]}
<1>3. 0 \in T
  BY <1>1, <1>2
<1>4. ASSUME NEW m \in Nat, m \in T
      PROVE  m + 1 \in T
  <2>1. m + 1 <= N => /\ g[m + 1] = g[m] + v[m + 1]
                      /\ h[m + 1] = h[m] + w[m + 1]
                      /\ v[m + 1] = w[m + 1] /\ g[m] = h[m]
    <3> SUFFICES ASSUME m + 1 <= N
                 PROVE  /\ g[m + 1] = g[m] + v[m + 1]
                        /\ h[m + 1] = h[m] + w[m + 1]
                        /\ v[m + 1] = w[m + 1] /\ g[m] = h[m]
      OBVIOUS
    <3>1. m + 1 \in 0 .. N /\ m + 1 # 0 /\ (m + 1) - 1 = m /\ m + 1 \in 1 .. N /\ m <= N
      OBVIOUS
    <3> QED
      BY <1>1, <1>2, <1>4, <3>1
  <2> QED
    BY <2>1
<1> HIDE DEF T
<1>5. N \in T
  BY <1>3, <1>4, InductiveSet
<1> QED
  BY <1>1, <1>2, <1>5 DEF T

LEMMA SumStep ==
  ASSUME NEW N \in Nat, NEW w
  PROVE  SumTo(w, N + 1) = SumTo(w, N) + w[N + 1]
<1>0. N + 1 \in Nat
  OBVIOUS
<1>1. PICK g : /\ g = [n \in 0 .. N + 1 |-> IF n = 0 THEN 0 ELSE g[n - 1] + w[n]]
               /\ SumTo(w, N + 1) = g[N + 1]
  BY <1>0, SumToIs
<1>2. PICK h : /\ h = [n \in 0 .. N |-> IF n = 0 THEN 0 ELSE h[n - 1] + w[n]]
               /\ SumTo(w, N) = h[N]
  BY SumToIs
<1> DEFINE T == {m \in Nat : m <= N => g[m] = h[m]}
<1>3. 0 \in T
  BY <1>1, <1>2
<1>4. ASSUME NEW m \in Nat, m \in T
      PROVE  m + 1 \in T
  <2> SUFFICES ASSUME m + 1 <= N
               PROVE  g[m + 1] = h[m + 1]
    OBVIOUS
  <2>1. m + 1 \in 0 .. N /\ m + 1 \in 0 .. N + 1 /\ m + 1 # 0 /\ (m + 1) - 1 = m /\ m <= N
    OBVIOUS
  <2> QED
    BY <1>1, <1>2, <1>4, <2>1
<1> HIDE DEF T
<1>5. N \in T
  BY <1>3, <1>4, InductiveSet
<1>6. N + 1 \in 0 .. N + 1 /\ N + 1 # 0 /\ (N + 1) - 1 = N
  OBVIOUS
<1> QED
  BY <1>1, <1>2, <1>5, <1>6 DEF T

LEMMA SumType ==
  ASSUME NEW N \in Nat, NEW w, NEW S \in {Nat, Int}, \A n \in 1 .. N : w[n] \in S
  PROVE  SumTo(w, N) \in S
<1> DEFINE T == {m \in Nat : m <= N => SumTo(w, m) \in S}
<1>1. 0 \in T
  BY SumOfNone
<1>2. ASSUME NEW m \in Nat, m \in T
      PROVE  m + 1 \in T
  <2> SUFFICES ASSUME m + 1 <= N
               PROVE  SumTo(w, m + 1) \in S
    OBVIOUS
  <2>1. SumTo(w, m) \in S /\ w[m + 1] \in S
    <3>1. m <= N /\ m + 1 \in 1 .. N
      OBVIOUS
    <3> QED
      BY <1>2, <3>1
  <2>2. SumTo(w, m + 1) = SumTo(w, m) + w[m + 1]
    BY SumStep
  <2> QED
    BY <2>1, <2>2
<1> HIDE DEF T
<1>3. N \in T
  BY <1>1, <1>2, InductiveSet
<1> QED
  BY <1>3 DEF T

LEMMA SumOfZeros ==
  ASSUME NEW N \in Nat, NEW w, \A n \in 1 .. N : w[n] = 0
  PROVE  SumTo(w, N) = 0
<1> DEFINE T == {m \in Nat : m <= N => SumTo(w, m) = 0}
<1>1. 0 \in T
  BY SumOfNone
<1>2. ASSUME NEW m \in Nat, m \in T
      PROVE  m + 1 \in T
  <2> SUFFICES ASSUME m + 1 <= N
               PROVE  SumTo(w, m + 1) = 0
    OBVIOUS
  <2>1. m <= N /\ m + 1 \in 1 .. N
    OBVIOUS
  <2>2. SumTo(w, m) = 0 /\ w[m + 1] = 0
    BY <1>2, <2>1
  <2>3. SumTo(w, m + 1) = SumTo(w, m) + w[m + 1]
    BY SumStep
  <2> QED
    BY <2>2, <2>3
<1> HIDE DEF T
<1>3. N \in T
  BY <1>1, <1>2, InductiveSet
<1> QED
  BY <1>3 DEF T

(* Of natural numbers the first is no more than the sum.                     *)
LEMMA SumFirst ==
  ASSUME NEW N \in Nat \ {0}, NEW w, \A n \in 1 .. N : w[n] \in Nat
  PROVE  w[1] <= SumTo(w, N) /\ SumTo(w, N) \in Nat
<1> DEFINE T == {m \in Nat : m + 1 <= N => SumTo(w, m + 1) \in Nat /\ w[1] <= SumTo(w, m + 1)}
<1>1. 0 \in T
  <2>1. SumTo(w, 0 + 1) = SumTo(w, 0) + w[0 + 1]
    BY SumStep
  <2>2. SumTo(w, 0) = 0
    BY SumOfNone
  <2>3. w[1] \in Nat
    OBVIOUS
  <2> QED
    BY <2>1, <2>2, <2>3
<1>2. ASSUME NEW m \in Nat, m \in T
      PROVE  m + 1 \in T
  <2> SUFFICES ASSUME (m + 1) + 1 <= N
               PROVE  SumTo(w, (m + 1) + 1) \in Nat /\ w[1] <= SumTo(w, (m + 1) + 1)
    OBVIOUS
  <2>1. SumTo(w, (m + 1) + 1) = SumTo(w, m + 1) + w[(m + 1) + 1]
    <3>1. m + 1 \in Nat
      OBVIOUS
    <3> QED
      BY <3>1, SumStep
  <2>2. w[(m + 1) + 1] \in Nat /\ w[1] \in Nat
    OBVIOUS
  <2>3. m + 1 <= N
    OBVIOUS
  <2> QED
    BY <1>2, <2>1, <2>2, <2>3
<1> HIDE DEF T
<1>3. N - 1 \in T
  BY <1>1, <1>2, InductiveSet
<1>4. (N - 1) + 1 = N
  OBVIOUS
<1> QED
  BY <1>3, <1>4 DEF T

(* One number more.                                                          *)
LEMMA SumOneMore ==
  ASSUME NEW N \in Nat, NEW v, NEW w, \A n \in 1 .. N : v[n] = w[n]
  PROVE  SumTo(v, N + 1) = SumTo(w, N) + v[N + 1]
BY SumSame, SumStep

-----------------------------------------------------------------------------
(* Counters and their parts.                                                 *)

CodeBag == UNION {[D -> Nat \ {0}] : D \in SUBSET Int}

Counter ==
  [hits : Nat, success : Int, errors : Nat, codes : CodeBag, made : BOOLEAN, max : Nat,
   min : Int, sum : Nat, bytes : Nat, mean : Nat \X Nat]

LEMMA CounterIsOne ==
  ASSUME NEW c \in Counter
  PROVE  IsCounter(c)
<1>1. c.mean[1] \in Nat /\ c.mean[2] \in Nat
  BY DEF Counter
<1>2. \A n \in DOMAIN c.codes : c.codes[n] \in Nat \ {0}
  <2>1. c.codes \in CodeBag
    BY DEF Counter
  <2>2. PICK D \in SUBSET Int : c.codes \in [D -> Nat \ {0}]
    BY <2>1 DEF CodeBag
  <2> QED
    BY <2>2
<1> QED
  BY <1>1, <1>2 DEF IsCounter, Counter

LEMMA RecordFacts ==
  ASSUME NEW r \in Record
  PROVE  /\ r.kind \in {"rest", "graph", "mcp", "uptime"}
         /\ r.code \in Int /\ r.latency \in Nat /\ r.bytes \in Nat
         /\ r.tags \in Seq(DOMAIN Trimmed) /\ Len(r.tags) \in Nat /\ DOMAIN r.tags = 1 .. Len(r.tags)
         /\ \A d \in r.extra : d[1] \in ExtraNames
         /\ r.code = -1 \/ r.code \in 100 .. 599
         /\ r.graphErrors \in BOOLEAN
<1>1. IsRecord(r)
  BY AggregationAssumption
<1>2. r.code = -1 \/ r.code \in 100 .. 599
  BY <1>1 DEF IsRecord
<1>3. r.code \in Int
  BY <1>2
<1>4. r.tags \in Seq(DOMAIN Trimmed)
  BY <1>1 DEF IsRecord
<1>5. Len(r.tags) \in Nat /\ DOMAIN r.tags = 1 .. Len(r.tags)
  BY <1>4
<1> QED
  BY <1>1, <1>2, <1>3, <1>4, <1>5 DEF IsRecord

LEMMA BagFacts ==
  ASSUME NEW a \in CodeBag, NEW b \in CodeBag
  PROVE  /\ a (+) b \in CodeBag
         /\ \A n : CodeCount(a (+) b, n) = CodeCount(a, n) + CodeCount(b, n)
         /\ \A n : CodeCount(a, n) \in Nat
<1> DEFINE s == a (+) b
<1>1. s = [e \in DOMAIN a \cup DOMAIN b |-> CodeCount(a, e) + CodeCount(b, e)]
  BY DEF (+), CodeCount
<1>2. PICK A \in SUBSET Int : a \in [A -> Nat \ {0}]
  BY DEF CodeBag
<1>3. PICK B \in SUBSET Int : b \in [B -> Nat \ {0}]
  BY DEF CodeBag
<1>4. DOMAIN a = A /\ DOMAIN b = B
  BY <1>2, <1>3
<1>5. \A n : CodeCount(a, n) \in Nat /\ CodeCount(b, n) \in Nat
  BY <1>2, <1>3, <1>4 DEF CodeCount
<1>6. ASSUME NEW e \in A \cup B
      PROVE  CodeCount(a, e) + CodeCount(b, e) \in Nat \ {0}
  <2>1. CodeCount(a, e) \in Nat /\ CodeCount(b, e) \in Nat
    BY <1>5
  <2>2. CASE e \in A
    <3>1. CodeCount(a, e) \in Nat \ {0}
      BY <1>2, <1>4, <2>2 DEF CodeCount
    <3> QED
      BY <2>1, <3>1
  <2>3. CASE e \in B
    <3>1. CodeCount(b, e) \in Nat \ {0}
      BY <1>3, <1>4, <2>3 DEF CodeCount
    <3> QED
      BY <2>1, <3>1
  <2> QED
    BY <2>2, <2>3
<1>7. s \in [A \cup B -> Nat \ {0}] /\ A \cup B \in SUBSET Int
  BY <1>1, <1>4, <1>6
<1>8. s \in CodeBag
  BY <1>7 DEF CodeBag
<1>9. ASSUME NEW n
      PROVE  CodeCount(s, n) = CodeCount(a, n) + CodeCount(b, n)
  <2>1. CASE n \in A \cup B
    <3>1. n \in DOMAIN s /\ s[n] = CodeCount(a, n) + CodeCount(b, n)
      BY <1>1, <1>4, <2>1
    <3> QED
      BY <3>1 DEF CodeCount
  <2>2. CASE n \notin A \cup B
    <3>1. n \notin DOMAIN s
      BY <1>7, <2>2
    <3>2. CodeCount(s, n) = 0 /\ CodeCount(a, n) = 0 /\ CodeCount(b, n) = 0
      BY <1>4, <2>2, <3>1 DEF CodeCount
    <3> QED
      BY <3>2
  <2> QED
    BY <2>1, <2>2
<1> QED
  BY <1>5, <1>8, <1>9

LEMMA SingleCode ==
  ASSUME NEW n \in Int
  PROVE  /\ SetToBag({n}) \in CodeBag /\ EmptyBag \in CodeBag
         /\ \A m : CodeCount(SetToBag({n}), m) = Flag(m = n) /\ CodeCount(EmptyBag, m) = 0
<1>1. SetToBag({n}) = [e \in {n} |-> 1] /\ EmptyBag = [e \in {} |-> 1]
  BY DEF SetToBag, EmptyBag
<1>2. SetToBag({n}) \in [{n} -> Nat \ {0}] /\ EmptyBag \in [{} -> Nat \ {0}]
  BY <1>1
<1>3. {n} \in SUBSET Int /\ {} \in SUBSET Int
  OBVIOUS
<1>4. SetToBag({n}) \in CodeBag /\ EmptyBag \in CodeBag
  BY <1>2, <1>3 DEF CodeBag
<1>5. \A m : CodeCount(SetToBag({n}), m) = Flag(m = n) /\ CodeCount(EmptyBag, m) = 0
  BY <1>1 DEF CodeCount, Flag
<1> QED
  BY <1>4, <1>5

LEMMA FlagFacts ==
  ASSUME NEW b \in BOOLEAN
  PROVE  Flag(b) \in {0, 1} /\ (b <=> Flag(b) = 1)
BY DEF Flag

(* The fields, one by one.                                                   *)
LEMMA FieldCases ==
  ASSUME NEW f \in Field
  PROVE  \/ f = <<"hits", 0>> \/ f = <<"success", 0>> \/ f = <<"errors", 0>>
         \/ f = <<"sum", 0>> \/ f = Bytes \/ \E n \in Int : f = <<"codes", n>>
<1>1. CASE \E r \in Record : f = <<"codes", r.code>>
  BY <1>1, RecordFacts
<1>2. CASE \E name \in {"hits", "success", "errors", "sum", "bytes"} : f = <<name, 0>>
  BY <1>2 DEF Bytes
<1> QED
  BY <1>1, <1>2 DEF Field

LEMMA PartCases ==
  ASSUME NEW c
  PROVE  /\ Part(c, <<"hits", 0>>) = c.hits
         /\ Part(c, <<"success", 0>>) = c.success
         /\ Part(c, <<"errors", 0>>) = c.errors
         /\ Part(c, <<"sum", 0>>) = c.sum
         /\ Part(c, Bytes) = c.bytes
         /\ \A n : Part(c, <<"codes", n>>) = CodeCount(c.codes, n)
BY DEF Part, Bytes

LEMMA UnitCases ==
  ASSUME NEW r, NEW k
  PROVE  /\ Unit(r, k, <<"hits", 0>>) = Flag(IsHit(r))
         /\ Unit(r, k, <<"success", 0>>) = Flag(IsSuccess(r)) - Flag(GraphError(r, k))
         /\ Unit(r, k, <<"errors", 0>>) = Flag(IsError(r) \/ GraphError(r, k))
         /\ Unit(r, k, <<"sum", 0>>) = IF IsHit(r) THEN r.latency ELSE 0
         /\ Unit(r, k, Bytes) = IF IsHit(r) \/ r.kind = "uptime" THEN 0 ELSE r.bytes
         /\ \A n : Unit(r, k, <<"codes", n>>) = Flag(InErrorMap(r) /\ r.code = n)
BY DEF Unit, Bytes

LEMMA FieldsDiffer ==
  /\ Bytes # <<"hits", 0>> /\ Bytes # <<"success", 0>> /\ Bytes # <<"errors", 0>>
  /\ Bytes # <<"sum", 0>> /\ \A n : Bytes # <<"codes", n>>
BY DEF Bytes

LEMMA PartType ==
  ASSUME NEW c \in Counter, NEW f \in Field
  PROVE  Part(c, f) \in Int /\ (f # <<"success", 0>> => Part(c, f) \in Nat)
<1>1. /\ c.hits \in Nat /\ c.success \in Int /\ c.errors \in Nat /\ c.codes \in CodeBag
      /\ c.sum \in Nat /\ c.bytes \in Nat
  BY DEF Counter
<1>2. \A n : CodeCount(c.codes, n) \in Nat
  BY <1>1, BagFacts
<1> QED
  BY <1>1, <1>2, FieldCases, PartCases

LEMMA UnitType ==
  ASSUME NEW r \in Record, NEW k, NEW f \in Field
  PROVE  Unit(r, k, f) \in Int /\ (f # <<"success", 0>> => Unit(r, k, f) \in Nat)
<1>1. \A b : Flag(b) \in {0, 1}
  BY DEF Flag
<1>2. r.latency \in Nat /\ r.bytes \in Nat
  BY RecordFacts
<1>3. \A a, b : Flag(a) - Flag(b) \in Int
  BY <1>1
<1>4. /\ Unit(r, k, <<"hits", 0>>) \in Nat /\ Unit(r, k, <<"errors", 0>>) \in Nat
      /\ Unit(r, k, <<"sum", 0>>) \in Nat /\ Unit(r, k, Bytes) \in Nat
      /\ \A n : Unit(r, k, <<"codes", n>>) \in Nat
  BY <1>1, <1>2, UnitCases
<1>5. Unit(r, k, <<"success", 0>>) \in Int
  BY <1>3, UnitCases
<1> QED
  BY <1>4, <1>5, FieldCases

(* What a counter is merged from adds up, but for its bytes.                 *)
LEMMA SumUpFacts ==
  ASSUME NEW b \in Counter, NEW c \in Counter
  PROVE  /\ SumUp(b, c) \in Counter
         /\ SumUp(b, c).made = c.made
         /\ Part(SumUp(b, c), Bytes) = Part(c, Bytes)
         /\ \A f \in Field \ {Bytes} : Part(SumUp(b, c), f) = Part(c, f) + Part(b, f)
<1> DEFINE s == SumUp(b, c)
<1>1. /\ b.hits \in Nat /\ b.success \in Int /\ b.errors \in Nat /\ b.codes \in CodeBag
      /\ b.sum \in Nat /\ b.bytes \in Nat /\ b.max \in Nat /\ b.min \in Int
  BY DEF Counter
<1>2. /\ c.hits \in Nat /\ c.success \in Int /\ c.errors \in Nat /\ c.codes \in CodeBag
      /\ c.sum \in Nat /\ c.bytes \in Nat /\ c.max \in Nat /\ c.min \in Int /\ c.made \in BOOLEAN
  BY DEF Counter
<1>3. /\ s.hits = c.hits + b.hits /\ s.success = c.success + b.success
      /\ s.errors = c.errors + b.errors /\ s.codes = c.codes (+) b.codes
      /\ s.sum = c.sum + b.sum /\ s.bytes = c.bytes /\ s.made = c.made
  BY DEF SumUp, Counter
<1>4. s \in Counter
  <2>1. c.codes (+) b.codes \in CodeBag
    BY <1>1, <1>2, BagFacts
  <2>2. MaxOf(c.max, b.max) \in Nat
    BY <1>1, <1>2 DEF MaxOf
  <2>3. (IF LowersMin(b, c) THEN b.min ELSE c.min) \in Int
    BY <1>1, <1>2
  <2>4. <<c.sum + b.sum, c.hits + b.hits>> \in Nat \X Nat
    BY <1>1, <1>2
  <2>5. c.hits + b.hits \in Nat /\ c.success + b.success \in Int /\ c.errors + b.errors \in Nat
        /\ c.sum + b.sum \in Nat
    BY <1>1, <1>2
  <2> QED
    BY <2>1, <2>2, <2>3, <2>4, <2>5 DEF SumUp, Counter
<1>5. \A n : CodeCount(s.codes, n) = CodeCount(c.codes, n) + CodeCount(b.codes, n)
  BY <1>1, <1>2, <1>3, BagFacts
<1> HIDE DEF s
<1>6. \A f \in Field \ {Bytes} : Part(s, f) = Part(c, f) + Part(b, f)
  BY <1>3, <1>5, FieldCases, PartCases
<1>7. Part(s, Bytes) = Part(c, Bytes)
  BY <1>3, PartCases
<1> QED
  BY <1>3, <1>4, <1>6, <1>7 DEF s

(* The counter a record makes, for its own dimensions and for the extra ones *)
(* of a graph or MCP record.                                                 *)
LEMMA CounterOfFacts ==
  ASSUME NEW r \in Record
  PROVE  /\ CounterOf(r) \in Counter
         /\ CounterOf(r).errors = Flag(IsError(r)) /\ CounterOf(r).success = Flag(IsSuccess(r))
         /\ CounterOf(r).hits = Flag(IsHit(r))
         /\ CounterOf(r).sum = IF IsHit(r) THEN r.latency ELSE 0
         /\ CounterOf(r).bytes = IF IsHit(r) \/ r.kind = "uptime" THEN 0 ELSE r.bytes
         /\ \A n : CodeCount(CounterOf(r).codes, n) = Flag(InErrorMap(r) /\ r.code = n)
<1> DEFINE o == CounterOf(r)
<1>1. r.code \in Int /\ r.latency \in Nat /\ r.bytes \in Nat
  BY RecordFacts
<1>2. EmptyBag \in CodeBag /\ SetToBag({r.code}) \in CodeBag
  BY <1>1, SingleCode
<1>3. Zero \in Counter
  BY <1>2 DEF Zero, Counter, NoMean
<1>4. \A b : Flag(b) \in {0, 1}
  BY DEF Flag
<1>5. CASE ~IsHit(r)
  <2>1. /\ o = [Zero EXCEPT !.bytes = IF r.kind = "uptime" THEN 0 ELSE r.bytes]
    BY <1>5 DEF CounterOf
  <2>2. o \in Counter
    BY <1>1, <1>3, <2>1 DEF Counter
  <2>3. o.hits = 0 /\ o.success = 0 /\ o.errors = 0 /\ o.codes = EmptyBag /\ o.sum = 0
        /\ o.bytes = IF r.kind = "uptime" THEN 0 ELSE r.bytes
    BY <2>1 DEF Zero
  <2>4. ~IsError(r) /\ ~IsSuccess(r) /\ ~InErrorMap(r)
    BY <1>5 DEF IsHit, IsError, IsSuccess, InErrorMap
  <2>5. \A n : CodeCount(o.codes, n) = 0
    BY <1>1, <2>3, SingleCode
  <2> HIDE DEF o
  <2>6. Flag(IsHit(r)) = 0 /\ Flag(IsError(r)) = 0 /\ Flag(IsSuccess(r)) = 0
        /\ \A n : Flag(InErrorMap(r) /\ r.code = n) = 0
    BY <1>5, <2>4 DEF Flag
  <2> QED
    BY <1>5, <2>2, <2>3, <2>5, <2>6 DEF o
<1>6. CASE IsHit(r)
  <2>1. o = [Zero EXCEPT !.hits = 1, !.success = Flag(IsSuccess(r)), !.errors = Flag(IsError(r)),
                         !.codes = IF InErrorMap(r) THEN SetToBag({r.code}) ELSE EmptyBag,
                         !.made = TRUE, !.max = Bound(r), !.min = Bound(r), !.sum = r.latency,
                         !.mean = <<r.latency, 1>>]
    BY <1>6 DEF CounterOf
  <2>2. Bound(r) \in Nat
    BY <1>1 DEF Bound
  <2>3. o \in Counter
    <3>1. Flag(IsSuccess(r)) \in Int /\ Flag(IsError(r)) \in Nat /\ Bound(r) \in Int
      BY <1>4, <2>2
    <3>2. (IF InErrorMap(r) THEN SetToBag({r.code}) ELSE EmptyBag) \in CodeBag
      BY <1>2
    <3>3. <<r.latency, 1>> \in Nat \X Nat
      BY <1>1
    <3> QED
      BY <1>1, <1>3, <2>1, <2>2, <3>1, <3>2, <3>3 DEF Counter
  <2>4. o.hits = 1 /\ o.success = Flag(IsSuccess(r)) /\ o.errors = Flag(IsError(r))
        /\ o.codes = (IF InErrorMap(r) THEN SetToBag({r.code}) ELSE EmptyBag) /\ o.sum = r.latency
        /\ o.bytes = 0
    BY <2>1 DEF Zero
  <2>5. \A n : CodeCount(o.codes, n) = Flag(InErrorMap(r) /\ r.code = n)
    <3> SUFFICES ASSUME NEW n
                 PROVE  CodeCount(o.codes, n) = Flag(InErrorMap(r) /\ r.code = n)
      OBVIOUS
    <3>1. CodeCount(SetToBag({r.code}), n) = Flag(n = r.code) /\ CodeCount(EmptyBag, n) = 0
      BY <1>1, SingleCode
    <3> HIDE DEF o
    <3> QED
      BY <2>4, <3>1 DEF Flag
  <2>6. Flag(IsHit(r)) = 1
    BY <1>6 DEF Flag
  <2> HIDE DEF o
  <2> QED
    BY <1>6, <2>3, <2>4, <2>5, <2>6 DEF o
<1> QED
  BY <1>5, <1>6

LEMMA GraphCounterOfFacts ==
  ASSUME NEW r \in Record
  PROVE  /\ GraphCounterOf(r) \in Counter
         /\ GraphCounterOf(r).bytes = CounterOf(r).bytes
         /\ \A o : \A d \in r.extra, f \in Field : Part(GraphCounterOf(r), f) = Unit(r, <<o, d>>, f)
<1> DEFINE own == CounterOf(r)
           g   == GraphCounterOf(r)
           bad == r.kind = "graph" /\ r.graphErrors /\ ~IsError(r)
<1>1. /\ own \in Counter /\ own.errors = Flag(IsError(r)) /\ own.success = Flag(IsSuccess(r))
      /\ own.hits = Flag(IsHit(r)) /\ own.sum = IF IsHit(r) THEN r.latency ELSE 0
      /\ own.bytes = IF IsHit(r) \/ r.kind = "uptime" THEN 0 ELSE r.bytes
      /\ \A n : CodeCount(own.codes, n) = Flag(InErrorMap(r) /\ r.code = n)
  BY CounterOfFacts
<1> HIDE DEF own
<1>2. g = IF r.kind = "graph" /\ r.graphErrors /\ own.errors < 1
          THEN [own EXCEPT !.errors = @ + 1, !.success = @ - 1] ELSE own
  BY DEF GraphCounterOf, own
<1>3. own.errors < 1 <=> ~IsError(r)
  BY <1>1 DEF Flag
<1>4. g = IF bad THEN [own EXCEPT !.errors = @ + 1, !.success = @ - 1] ELSE own
  BY <1>2, <1>3
<1>5. own.errors \in Nat /\ own.success \in Int
  BY <1>1 DEF Counter
<1>6. g \in Counter
  <2>1. own.errors + 1 \in Nat /\ own.success - 1 \in Int
    BY <1>5
  <2> QED
    BY <1>1, <1>4, <2>1 DEF Counter
<1>7. /\ g.hits = own.hits /\ g.sum = own.sum /\ g.bytes = own.bytes /\ g.codes = own.codes
      /\ g.errors = own.errors + Flag(bad) /\ g.success = own.success - Flag(bad)
  <2>1. CASE bad
    BY <1>1, <1>4, <2>1 DEF Flag, Counter
  <2>2. CASE ~bad
    BY <1>4, <1>5, <2>2 DEF Flag
  <2> QED
    BY <2>1, <2>2
<1>8. Flag(IsError(r)) + Flag(bad) = Flag(IsError(r) \/ bad)
  BY DEF Flag
<1> HIDE DEF g
<1>9. ASSUME NEW o, NEW d \in r.extra, NEW f \in Field
      PROVE  Part(g, f) = Unit(r, <<o, d>>, f)
  <2>1. GraphError(r, <<o, d>>) <=> bad
    BY DEF GraphError
  <2>2. Flag(GraphError(r, <<o, d>>)) = Flag(bad)
        /\ Flag(IsError(r) \/ GraphError(r, <<o, d>>)) = Flag(IsError(r) \/ bad)
    BY <2>1 DEF Flag
  <2> HIDE DEF bad
  <2> QED
    BY <1>1, <1>7, <1>8, <2>2, FieldCases, PartCases, UnitCases
<1>10. g.bytes = CounterOf(r).bytes
  BY <1>7 DEF own
<1> QED
  BY <1>6, <1>9, <1>10 DEF g

(* Outside of the extra dimensions a record adds what its own counter says.  *)
LEMMA CounterOfParts ==
  ASSUME NEW r \in Record, NEW o, NEW d, d \notin r.extra, NEW f \in Field
  PROVE  Part(CounterOf(r), f) = Unit(r, <<o, d>>, f)
<1>1. /\ CounterOf(r).errors = Flag(IsError(r)) /\ CounterOf(r).success = Flag(IsSuccess(r))
      /\ CounterOf(r).hits = Flag(IsHit(r)) /\ CounterOf(r).sum = IF IsHit(r) THEN r.latency ELSE 0
      /\ CounterOf(r).bytes = IF IsHit(r) \/ r.kind = "uptime" THEN 0 ELSE r.bytes
      /\ \A n : CodeCount(CounterOf(r).codes, n) = Flag(InErrorMap(r) /\ r.code = n)
  BY CounterOfFacts
<1>2. ~GraphError(r, <<o, d>>)
  BY DEF GraphError
<1>3. /\ Flag(GraphError(r, <<o, d>>)) = 0 /\ Flag(IsError(r) \/ GraphError(r, <<o, d>>)) = Flag(IsError(r))
  BY <1>2 DEF Flag
<1>4. Flag(IsSuccess(r)) - 0 = Flag(IsSuccess(r))
  BY DEF Flag
<1> QED
  BY <1>1, <1>3, <1>4, FieldCases, PartCases, UnitCases

LEMMA SameParts ==
  ASSUME NEW b, NEW c, b.hits = c.hits, b.success = c.success, b.errors = c.errors,
         b.codes = c.codes, b.sum = c.sum, b.bytes = c.bytes, NEW f \in Field
  PROVE  Part(b, f) = Part(c, f)
BY FieldCases, PartCases

-----------------------------------------------------------------------------
(* Dimensions.                                                               *)

(* The dimensions records have, and the counters of one owner.               *)
Dims == UNION {DOMAIN Times[r] : r \in Record}

OwnerCounters == UNION {[D -> Counter] : D \in SUBSET Dims}

PartAt(agg, d, f) == IF d \in DOMAIN agg THEN Part(agg[d], f) ELSE 0

LEMMA OwnerCountersFacts ==
  ASSUME NEW agg
  PROVE  agg \in OwnerCounters <=> /\ DOMAIN agg \subseteq Dims
                                   /\ agg = [d \in DOMAIN agg |-> agg[d]]
                                   /\ \A d \in DOMAIN agg : agg[d] \in Counter
<1>1. ASSUME agg \in OwnerCounters
      PROVE  /\ DOMAIN agg \subseteq Dims
             /\ agg = [d \in DOMAIN agg |-> agg[d]]
             /\ \A d \in DOMAIN agg : agg[d] \in Counter
  <2>1. PICK D \in SUBSET Dims : agg \in [D -> Counter]
    BY <1>1 DEF OwnerCounters
  <2> QED
    BY <2>1
<1>2. ASSUME /\ DOMAIN agg \subseteq Dims
             /\ agg = [d \in DOMAIN agg |-> agg[d]]
             /\ \A d \in DOMAIN agg : agg[d] \in Counter
      PROVE  agg \in OwnerCounters
  <2>1. agg \in [DOMAIN agg -> Counter]
    BY <1>2
  <2>2. DOMAIN agg \in SUBSET Dims
    BY <1>2
  <2> QED
    BY <2>1, <2>2 DEF OwnerCounters
<1> QED
  BY <1>1, <1>2

LEMMA IncrementFacts ==
  ASSUME NEW agg \in OwnerCounters, NEW D \in SUBSET Dims, NEW b \in Counter
  PROVE  /\ incrementOrSetUnit(agg, D, b) \in OwnerCounters
         /\ DOMAIN incrementOrSetUnit(agg, D, b) = DOMAIN agg \cup D
         /\ \A d : \A f \in Field : f # Bytes \/ b.bytes = 0 \/ d \notin D =>
              PartAt(incrementOrSetUnit(agg, D, b), d, f)
                = PartAt(agg, d, f) + (IF d \in D THEN Part(b, f) ELSE 0)
         /\ \A d \in DOMAIN agg : incrementOrSetUnit(agg, D, b)[d].made = agg[d].made
         /\ \A d \in D \ DOMAIN agg : incrementOrSetUnit(agg, D, b)[d].made
<1> DEFINE new == incrementOrSetUnit(agg, D, b)
           copy == [b EXCEPT !.made = TRUE]
<1>1. /\ DOMAIN agg \subseteq Dims
      /\ \A d \in DOMAIN agg : agg[d] \in Counter
  BY OwnerCountersFacts
<1>2. copy \in Counter /\ copy.made /\ \A f \in Field : Part(copy, f) = Part(b, f)
  <2>1. copy \in Counter /\ copy.made
    BY DEF Counter
  <2>2. /\ copy.hits = b.hits /\ copy.success = b.success /\ copy.errors = b.errors
        /\ copy.codes = b.codes /\ copy.sum = b.sum /\ copy.bytes = b.bytes
    BY DEF Counter
  <2> HIDE DEF copy
  <2> QED
    BY <2>1, <2>2, SameParts
<1>3. /\ DOMAIN new = DOMAIN agg \cup D
      /\ new = [d \in DOMAIN new |-> new[d]]
      /\ \A d \in DOMAIN agg \ D : new[d] = agg[d]
      /\ \A d \in DOMAIN agg \cap D : new[d] = SumUp(b, agg[d])
      /\ \A d \in D \ DOMAIN agg : new[d] = copy
  BY DEF incrementOrSetUnit
<1> HIDE DEF new, copy
<1>4. \A d \in DOMAIN agg :
        /\ SumUp(b, agg[d]) \in Counter
        /\ SumUp(b, agg[d]).made = agg[d].made
        /\ Part(SumUp(b, agg[d]), Bytes) = Part(agg[d], Bytes)
        /\ \A f \in Field \ {Bytes} : Part(SumUp(b, agg[d]), f) = Part(agg[d], f) + Part(b, f)
  BY <1>1, SumUpFacts
<1>5. \A d \in DOMAIN new : new[d] \in Counter
  BY <1>1, <1>2, <1>3, <1>4
<1>6. new \in OwnerCounters
  <2>1. DOMAIN new \subseteq Dims
    BY <1>1, <1>3
  <2> QED
    BY <1>3, <1>5, <2>1, OwnerCountersFacts
<1>7. ASSUME NEW d, NEW f \in Field, f # Bytes \/ b.bytes = 0 \/ d \notin D
      PROVE  PartAt(new, d, f) = PartAt(agg, d, f) + (IF d \in D THEN Part(b, f) ELSE 0)
  <2>1. Part(b, f) \in Int /\ (d \in DOMAIN agg => Part(agg[d], f) \in Int)
    BY <1>1, PartType
  <2>2. b.bytes = Part(b, Bytes)
    BY PartCases
  <2>3. CASE d \in DOMAIN agg \ D
    BY <1>3, <2>1, <2>3 DEF PartAt
  <2>4. CASE d \in DOMAIN agg \cap D
    <3>1. Part(new[d], f) = Part(agg[d], f) + Part(b, f)
      <4>1. CASE f # Bytes
        BY <1>3, <1>4, <2>4, <4>1
      <4>2. CASE f = Bytes
        BY <1>3, <1>4, <1>7, <2>1, <2>2, <2>4, <4>2
      <4> QED
        BY <4>1, <4>2
    <3> QED
      BY <1>3, <2>4, <3>1 DEF PartAt
  <2>5. CASE d \in D \ DOMAIN agg
    <3>1. Part(new[d], f) = Part(b, f)
      BY <1>2, <1>3, <2>5
    <3> QED
      BY <1>3, <2>1, <2>5, <3>1 DEF PartAt
  <2>6. CASE d \notin DOMAIN agg \cup D
    BY <1>3, <2>6 DEF PartAt
  <2> QED
    BY <2>3, <2>4, <2>5, <2>6
<1>8. \A d \in DOMAIN agg : new[d].made = agg[d].made
  BY <1>3, <1>4
<1>9. \A d \in D \ DOMAIN agg : new[d].made
  BY <1>2, <1>3
<1> QED
  BY <1>3, <1>6, <1>7, <1>8, <1>9 DEF new

(* Dimensions of different origin have different names.                      *)
LEMMA NamesDiffer ==
  ASSUME NEW r \in Record
  PROVE  /\ \A d \in Dimensions(r) : d[1] \in {"apiid", "url", "errors", "versions", "apikeys", "oauthids",
              "geo", "endpoints", "apiendpoints", "keyendpoints", "oauthendpoints"}
         /\ \A d \in r.extra : d[1] \in ExtraNames
         /\ \A i : TagDimension(r, i)[1] = "tags"
         /\ Total[1] = ""
<1>1. \A d \in PathDimensions(r) : d[1] \in {"endpoints", "apiendpoints", "keyendpoints", "oauthendpoints"}
  BY DEF PathDimensions
<1>2. \A name : \A d \in Attr(r, name) : d[1] = name
  BY DEF Attr
<1>3. \A d \in UNION {Attr(r, name) : name \in {"apikeys", "oauthids", "geo"}} : d[1] \in {"apikeys", "oauthids", "geo"}
  BY <1>2
<1>4. ApiDimension(r)[1] \in {"apiid", "url"}
  BY DEF ApiDimension
<1>5. \A d \in Dimensions(r) : d[1] \in {"apiid", "url", "errors", "versions", "apikeys", "oauthids",
              "geo", "endpoints", "apiendpoints", "keyendpoints", "oauthendpoints"}
  <2> SUFFICES ASSUME NEW d \in Dimensions(r)
               PROVE  d[1] \in {"apiid", "url", "errors", "versions", "apikeys", "oauthids",
                        "geo", "endpoints", "apiendpoints", "keyendpoints", "oauthendpoints"}
    OBVIOUS
  <2>1. \/ d = ApiDimension(r) \/ d = <<"errors", r.code>>
        \/ \E a \in Attr(r, "versions") : d = <<"versions", <<r.api, a[2]>>>>
        \/ d \in UNION {Attr(r, name) : name \in {"apikeys", "oauthids", "geo"}}
        \/ d \in PathDimensions(r)
    <3> DEFINE A == IF r.api = NoValue THEN {} ELSE {ApiDimension(r)}
               B == IF IsError(r) THEN {<<"errors", r.code>>} ELSE {}
               C == {<<"versions", <<r.api, a[2]>>>> : a \in Attr(r, "versions")}
               D == UNION {Attr(r, name) : name \in {"apikeys", "oauthids", "geo"}}
               E == IF Tracks(r) THEN PathDimensions(r) ELSE {}
    <3>0. Dimensions(r) = A \cup B \cup C \cup D \cup E
      BY DEF Dimensions
    <3>1. d \in A \/ d \in B \/ d \in C \/ d \in D \/ d \in E
      <4> HIDE DEF A, B, C, D, E
      <4> QED
        BY <3>0
    <3>2. d \in {<<"versions", <<r.api, a[2]>>>> : a \in Attr(r, "versions")} =>
            \E a \in Attr(r, "versions") : d = <<"versions", <<r.api, a[2]>>>>
      OBVIOUS
    <3> QED
      BY <3>1, <3>2
  <2> QED
    BY <1>1, <1>3, <1>4, <2>1
<1>6. \A d \in r.extra : d[1] \in ExtraNames
  BY RecordFacts
<1>7. \A i : TagDimension(r, i)[1] = "tags"
  BY DEF TagDimension
<1>8. Total[1] = ""
  BY DEF Total
<1> QED
  BY <1>5, <1>6, <1>7, <1>8

TagsOf(r) == {TagDimension(r, i) : i \in TagsKept(r)}

LEMMA Apart ==
  ASSUME NEW r \in Record
  PROVE  /\ Total \notin r.extra \cup Dimensions(r) \cup TagsOf(r)
         /\ r.extra \cap Dimensions(r) = {} /\ r.extra \cap TagsOf(r) = {}
         /\ Dimensions(r) \cap TagsOf(r) = {}
         /\ \A d \in r.extra : d[1] # "apiid"
         /\ ApiDimension(r) \notin r.extra /\ ApiDimension(r) # Total
<1>1. ApiDimension(r)[1] \in {"apiid", "url"}
  BY DEF ApiDimension
<1> QED
  BY <1>1, NamesDiffer DEF TagsOf, ExtraNames

LEMMA TimesFacts ==
  ASSUME NEW r \in Record
  PROVE  /\ DOMAIN Times[r] = {Total} \cup r.extra \cup Dimensions(r) \cup TagsOf(r)
         /\ DOMAIN Times[r] \subseteq Dims
         /\ \A d \in {Total} \cup r.extra : Times[r][d] = 1
         /\ \A d \in Dimensions(r) \cup TagsOf(r) :
              Times[r][d] = Flag(d \in Dimensions(r)) + Cardinality({i \in TagsKept(r) : TagDimension(r, i) = d})
<1>1. Times[r] =
        [d \in {Total} \cup r.extra \cup Dimensions(r) \cup TagsOf(r) |->
           IF d = Total \/ d \in r.extra THEN 1
           ELSE Flag(d \in Dimensions(r)) + Cardinality({i \in TagsKept(r) : TagDimension(r, i) = d})]
  BY DEF Times, TagsOf
<1>2. DOMAIN Times[r] \subseteq Dims
  BY DEF Dims
<1>3. DOMAIN Times[r] = {Total} \cup r.extra \cup Dimensions(r) \cup TagsOf(r)
  BY <1>1
<1>4. \A d \in {Total} \cup r.extra : Times[r][d] = 1
  BY <1>1
<1>5. ASSUME NEW d \in Dimensions(r) \cup TagsOf(r)
      PROVE  Times[r][d] = Flag(d \in Dimensions(r)) + Cardinality({i \in TagsKept(r) : TagDimension(r, i) = d})
  <2>1. d # Total /\ d \notin r.extra
    BY Apart
  <2> QED
    BY <1>1, <2>1
<1> QED
  BY <1>2, <1>3, <1>4, <1>5

LEMMA TotalFacts ==
  ASSUME NEW r \in Record, NEW t \in Counter
  PROVE  /\ AddToTotal(t, r) \in Counter
         /\ AddToTotal(t, r).made = t.made
         /\ \A f \in Field : IsHit(r) => Part(AddToTotal(t, r), f) = Part(t, f) + Part(CounterOf(r), f)
<1> DEFINE own == CounterOf(r)
           s   == SumUp(own, t)
           new == AddToTotal(t, r)
           low == IF t.hits = 0 THEN own.min ELSE IF t.min > own.min /\ IsSuccess(r) THEN own.min ELSE t.min
<1>1. own \in Counter /\ own.bytes = IF IsHit(r) \/ r.kind = "uptime" THEN 0 ELSE r.bytes
  BY CounterOfFacts
<1> HIDE DEF own
<1>2. /\ s \in Counter /\ s.made = t.made /\ Part(s, Bytes) = Part(t, Bytes)
      /\ \A f \in Field \ {Bytes} : Part(s, f) = Part(t, f) + Part(own, f)
  BY <1>1, SumUpFacts
<1> HIDE DEF s
<1>3. new = [s EXCEPT !.min = low]
  BY DEF AddToTotal, s, own
<1>4. low \in Int
  BY <1>1 DEF Counter
<1> HIDE DEF low
<1>5. new \in Counter /\ new.made = s.made
  BY <1>2, <1>3, <1>4 DEF Counter
<1>6. /\ new.hits = s.hits /\ new.success = s.success /\ new.errors = s.errors
      /\ new.codes = s.codes /\ new.sum = s.sum /\ new.bytes = s.bytes
  BY <1>2, <1>3 DEF Counter
<1> HIDE DEF new
<1>7. \A f \in Field : Part(new, f) = Part(s, f)
  BY <1>6, SameParts
<1>8. IsHit(r) => Part(own, Bytes) = 0
  BY <1>1, PartCases
<1>9. \A f \in Field : Part(t, f) \in Int
  BY PartType
<1>10. Bytes \in Field
  BY DEF Bytes, Field
<1>11. ASSUME NEW f \in Field, IsHit(r)
       PROVE  Part(new, f) = Part(t, f) + Part(own, f)
  <2>1. CASE f = Bytes
    <3>1. Part(new, f) = Part(t, f) /\ Part(own, f) = 0 /\ Part(t, f) \in Int
      BY <1>2, <1>7, <1>8, <1>9, <1>11, <2>1
    <3> QED
      BY <3>1
  <2>2. CASE f # Bytes
    BY <1>2, <1>7, <2>2
  <2> QED
    BY <2>1, <2>2
<1> QED
  BY <1>2, <1>5, <1>11 DEF new, own

(* Tag by tag.                                                               *)
TagSteps(g, N, x, r) ==
  g = [n \in 0 .. N |-> IF n = 0 THEN x
                        ELSE incrementOrSetUnit(g[n - 1],
                               {TagDimension(r, i) : i \in TagsKept(r) \cap {n}}, CounterOf(r))]

LEMMA TagsExist ==
  ASSUME NEW N \in Nat, NEW x, NEW r
  PROVE  \E g : TagSteps(g, N, x, r)
<1> USE DEF TagSteps
<1> DEFINE By(a, n) == incrementOrSetUnit(a, {TagDimension(r, i) : i \in TagsKept(r) \cap {n}}, CounterOf(r))
           Is(g, m) == g = [n \in 0 .. m |-> IF n = 0 THEN x ELSE By(g[n - 1], n)]
           T == {m \in Nat : \E g : Is(g, m)}
<1> SUFFICES \E g : Is(g, N)
  OBVIOUS
<1> HIDE DEF By
<1>1. 0 \in T
  <2>1. Is([n \in 0 .. 0 |-> x], 0)
    OBVIOUS
  <2>2. \E g : Is(g, 0)
    <3> HIDE DEF Is
    <3> QED
      BY <2>1
  <2> HIDE DEF Is
  <2> QED
    BY <2>2
<1>2. ASSUME NEW m \in Nat, m \in T
      PROVE  m + 1 \in T
  <2>1. PICK g : Is(g, m)
    BY <1>2
  <2> DEFINE h == [n \in 0 .. m + 1 |-> IF n <= m THEN g[n] ELSE By(g[m], m + 1)]
  <2>2. ASSUME NEW n \in 0 .. m + 1
        PROVE  h[n] = IF n = 0 THEN x ELSE By(h[n - 1], n)
    <3>1. CASE n = 0
      <4>1. g[0] = x
        BY <2>1
      <4> QED
        BY <3>1, <4>1
    <3>2. CASE n \in 1 .. m
      <4>1. n - 1 \in 0 .. m + 1 /\ n - 1 <= m /\ n <= m /\ n # 0 /\ n \in 0 .. m
        BY <3>2
      <4>2. g[n] = By(g[n - 1], n)
        BY <2>1, <4>1
      <4> QED
        BY <4>1, <4>2
    <3>3. CASE n = m + 1
      <4>1. n - 1 = m /\ m \in 0 .. m + 1 /\ ~(n <= m) /\ n # 0
        BY <3>3
      <4> QED
        BY <3>3, <4>1
    <3> QED
      BY <3>1, <3>2, <3>3
  <2>3. Is(h, m + 1)
    <3>1. h = [n \in 0 .. m + 1 |-> h[n]]
      OBVIOUS
    <3> HIDE DEF h
    <3> QED
      BY <2>2, <3>1
  <2>4. \E k : Is(k, m + 1)
    <3> HIDE DEF Is, h
    <3> QED
      BY <2>3
  <2>5. m + 1 \in Nat
    OBVIOUS
  <2> HIDE DEF Is
  <2> QED
    BY <2>4, <2>5
<1> HIDE DEF T
<1>3. N \in T
  BY <1>1, <1>2, InductiveSet
<1> QED
  BY <1>3 DEF T

LEMMA AddHitIs ==
  ASSUME NEW agg, NEW r \in Record
  PROVE  \E g :
           /\ TagSteps(g, Len(r.tags), incrementOrSetUnit([agg EXCEPT ![Total] = AddToTotal(@, r)],
                                                         Dimensions(r), CounterOf(r)), r)
           /\ AddHit(agg, r) = g[Len(r.tags)]
<1> DEFINE x == incrementOrSetUnit([agg EXCEPT ![Total] = AddToTotal(@, r)], Dimensions(r), CounterOf(r))
           h == CHOOSE g : TagSteps(g, Len(r.tags), x, r)
<1>1. Len(r.tags) \in Nat
  BY RecordFacts
<1>2. TagSteps(h, Len(r.tags), x, r)
  <2>1. \E g : TagSteps(g, Len(r.tags), x, r)
    BY <1>1, TagsExist
  <2> HIDE DEF x
  <2> QED
    BY <2>1
<1>3. AddHit(agg, r) = h[Len(r.tags)]
  BY DEF AddHit, TagSteps
<1> QED
  BY <1>2, <1>3

LEMMA Multiply ==
  ASSUME NEW a \in Int, NEW u \in Int
  PROVE  (a + 1) * u = a * u + u /\ 0 * u = 0 /\ 1 * u = u /\ a * u \in Int
OBVIOUS

(* How often the tags up to m give dimension d.                              *)
TagsUpTo(r, m, d) == {i \in TagsKept(r) : TagDimension(r, i) = d /\ i <= m}

LEMMA TagCounts ==
  ASSUME NEW r \in Record, NEW d, NEW m \in Nat
  PROVE  /\ Cardinality(TagsUpTo(r, m, d)) \in Nat
         /\ TagsUpTo(r, 0, d) = {} /\ Cardinality(TagsUpTo(r, 0, d)) = 0
         /\ Cardinality(TagsUpTo(r, m + 1, d))
              = Cardinality(TagsUpTo(r, m, d))
                + (IF d \in {TagDimension(r, i) : i \in TagsKept(r) \cap {m + 1}} THEN 1 ELSE 0)
<1> DEFINE S == TagsUpTo(r, m, d)
           n == m + 1
<1>1. TagsKept(r) \subseteq 1 .. Len(r.tags) /\ Len(r.tags) \in Nat
  BY RecordFacts DEF TagsKept
<1>2. IsFiniteSet(1 .. Len(r.tags))
  BY <1>1, UpTo
<1>3. S \subseteq 1 .. Len(r.tags)
  BY <1>1 DEF TagsUpTo
<1>4. IsFiniteSet(S)
  BY <1>2, <1>3, FS_Subset
<1>5. Cardinality(S) \in Nat
  BY <1>4, FS_CardinalityType
<1>6. TagsUpTo(r, 0, d) = {}
  BY <1>1 DEF TagsUpTo
<1>7. Cardinality(TagsUpTo(r, 0, d)) = 0
  BY <1>6, FS_EmptySet
<1>8. n \notin S
  BY DEF TagsUpTo
<1>9. CASE d \in {TagDimension(r, i) : i \in TagsKept(r) \cap {n}}
  <2>1. TagsUpTo(r, n, d) = S \cup {n}
    <3>1. n \in TagsKept(r) /\ TagDimension(r, n) = d
      BY <1>9
    <3>2. \A i \in 1 .. Len(r.tags) : i <= n <=> i <= m \/ i = n
      OBVIOUS
    <3> QED
      BY <1>1, <3>1, <3>2 DEF TagsUpTo
  <2>2. Cardinality(S \cup {n}) = Cardinality(S) + 1
    BY <1>4, <1>8, FS_AddElement
  <2> QED
    BY <1>5, <1>6, <1>7, <1>9, <2>1, <2>2
<1>10. CASE d \notin {TagDimension(r, i) : i \in TagsKept(r) \cap {n}}
  <2>1. TagsUpTo(r, n, d) = S
    <3>1. ~(n \in TagsKept(r) /\ TagDimension(r, n) = d)
      BY <1>10
    <3>2. \A i \in 1 .. Len(r.tags) : i <= n <=> i <= m \/ i = n
      OBVIOUS
    <3> QED
      BY <1>1, <3>1, <3>2 DEF TagsUpTo
  <2> QED
    BY <1>5, <1>6, <1>7, <1>10, <2>1
<1> QED
  BY <1>9, <1>10

(* How often a hit counts in a dimension that is not an extra one.           *)
HitTimes(r, d) == Flag(d = Total) + Flag(d \in Dimensions(r)) + Cardinality(TagsUpTo(r, Len(r.tags), d))

LEMMA HitTimesIs ==
  ASSUME NEW r \in Record, NEW d
  PROVE  /\ HitTimes(r, d) \in Nat
         /\ d \in DOMAIN Times[r] \ r.extra => HitTimes(r, d) = Times[r][d] /\ Times[r][d] \in Nat \ {0}
         /\ d \notin DOMAIN Times[r] \ r.extra => HitTimes(r, d) = 0
<1> DEFINE K == TagsUpTo(r, Len(r.tags), d)
<1>1. TagsKept(r) \subseteq 1 .. Len(r.tags) /\ Len(r.tags) \in Nat
  BY RecordFacts DEF TagsKept
<1>2. K = {i \in TagsKept(r) : TagDimension(r, i) = d}
  <2>1. \A i \in TagsKept(r) : i <= Len(r.tags)
    BY <1>1
  <2> QED
    BY <2>1 DEF TagsUpTo
<1>3. Cardinality(K) \in Nat
  BY <1>1, TagCounts
<1>4. IsFiniteSet(K)
  <2>1. IsFiniteSet(1 .. Len(r.tags)) /\ K \subseteq 1 .. Len(r.tags)
    BY <1>1, <1>2, UpTo
  <2> QED
    BY <2>1, FS_Subset
<1>5. Cardinality(K) = 0 <=> K = {}
  BY <1>4, FS_EmptySet
<1>6. K # {} <=> d \in TagsOf(r)
  BY <1>2 DEF TagsOf
<1> HIDE DEF K
<1>7. HitTimes(r, d) = Flag(d = Total) + Flag(d \in Dimensions(r)) + Cardinality(K)
  BY DEF HitTimes, K
<1>8. \A b : Flag(b) \in {0, 1}
  BY DEF Flag
<1>9. CASE d = Total
  <2>1. d \notin Dimensions(r) /\ d \notin TagsOf(r) /\ d \notin r.extra
    BY <1>9, Apart
  <2>2. Flag(d = Total) = 1 /\ Flag(d \in Dimensions(r)) = 0 /\ Cardinality(K) = 0
    BY <1>5, <1>6, <1>9, <2>1 DEF Flag
  <2>3. Times[r][d] = 1 /\ d \in DOMAIN Times[r]
    BY <1>9, TimesFacts
  <2> QED
    BY <1>7, <2>1, <2>2, <2>3
<1>10. CASE d \in Dimensions(r) \cup TagsOf(r)
  <2>1. d # Total /\ d \notin r.extra
    BY <1>10, Apart
  <2>2. Times[r][d] = Flag(d \in Dimensions(r)) + Cardinality(K) /\ d \in DOMAIN Times[r]
    BY <1>2, <1>10, TimesFacts
  <2>3. Flag(d = Total) = 0
    BY <2>1 DEF Flag
  <2>4. Flag(d \in Dimensions(r)) = 1 \/ Cardinality(K) # 0
    BY <1>5, <1>6, <1>10 DEF Flag
  <2> QED
    BY <1>3, <1>7, <1>8, <2>1, <2>2, <2>3, <2>4
<1>11. CASE d # Total /\ d \notin Dimensions(r) \cup TagsOf(r)
  <2>1. Flag(d = Total) = 0 /\ Flag(d \in Dimensions(r)) = 0 /\ Cardinality(K) = 0
    BY <1>5, <1>6, <1>11 DEF Flag
  <2>2. d \notin DOMAIN Times[r] \ r.extra
    BY <1>11, TimesFacts
  <2> QED
    BY <1>7, <2>1, <2>2
<1> QED
  BY <1>9, <1>10, <1>11

LEMMA AddHitFacts ==
  ASSUME NEW agg \in OwnerCounters, Total \in DOMAIN agg, NEW r \in Record, IsHit(r)
  PROVE  /\ AddHit(agg, r) \in OwnerCounters
         /\ DOMAIN AddHit(agg, r) = DOMAIN agg \cup Dimensions(r) \cup TagsOf(r)
         /\ \A d : \A f \in Field :
              PartAt(AddHit(agg, r), d, f) = PartAt(agg, d, f) + HitTimes(r, d) * Part(CounterOf(r), f)
         /\ \A d \in DOMAIN AddHit(agg, r) :
              AddHit(agg, r)[d].made = IF d \in DOMAIN agg THEN agg[d].made ELSE TRUE
<1> DEFINE N    == Len(r.tags)
           own  == CounterOf(r)
           aggT == [agg EXCEPT ![Total] = AddToTotal(@, r)]
           x    == incrementOrSetUnit(aggT, Dimensions(r), own)
           Tag(n) == {TagDimension(r, i) : i \in TagsKept(r) \cap {n}}
<1>1. PICK g : TagSteps(g, N, x, r) /\ AddHit(agg, r) = g[N]
  BY AddHitIs
<1>2. N \in Nat
  BY RecordFacts
<1>3. own \in Counter /\ own.bytes = 0
  BY CounterOfFacts
<1>4. /\ g[0] = x
      /\ \A n \in 1 .. N : g[n] = incrementOrSetUnit(g[n - 1], Tag(n), own)
  <2> HIDE DEF x, N
  <2>1. g = [n \in 0 .. N |-> IF n = 0 THEN x ELSE incrementOrSetUnit(g[n - 1], Tag(n), own)]
    BY <1>1 DEF TagSteps
  <2>2. 0 \in 0 .. N /\ \A n \in 1 .. N : n \in 0 .. N /\ n # 0
    BY <1>2
  <2> HIDE DEF Tag, own
  <2> QED
    BY <2>1, <2>2
<1>5. Dimensions(r) \in SUBSET Dims /\ \A n : Tag(n) \in SUBSET Dims
  <2>1. Dimensions(r) \cup TagsOf(r) \subseteq Dims
    BY TimesFacts
  <2> QED
    BY <2>1 DEF TagsOf
<1>6. \A d \in DOMAIN agg : agg[d] \in Counter
  BY OwnerCountersFacts
<1>7. DOMAIN agg \subseteq Dims
  BY OwnerCountersFacts
<1> HIDE DEF own, N
<1>8. /\ aggT \in OwnerCounters /\ DOMAIN aggT = DOMAIN agg
      /\ \A d \in DOMAIN agg : aggT[d] = IF d = Total THEN AddToTotal(agg[d], r) ELSE agg[d]
  <2>1. AddToTotal(agg[Total], r) \in Counter
    BY <1>6, TotalFacts
  <2>2. DOMAIN aggT = DOMAIN agg /\ aggT = [d \in DOMAIN aggT |-> aggT[d]]
        /\ \A d \in DOMAIN agg : aggT[d] = IF d = Total THEN AddToTotal(agg[d], r) ELSE agg[d]
    OBVIOUS
  <2> HIDE DEF aggT
  <2>3. \A d \in DOMAIN aggT : aggT[d] \in Counter
    BY <1>6, <2>1, <2>2
  <2> QED
    BY <1>7, <2>2, <2>3, OwnerCountersFacts
<1> HIDE DEF aggT
<1>9. \A f \in Field : Part(own, f) \in Int
  BY <1>3, PartType
<1>10. ASSUME NEW d, NEW f \in Field
       PROVE  /\ PartAt(aggT, d, f) = PartAt(agg, d, f) + Flag(d = Total) * Part(own, f)
              /\ PartAt(agg, d, f) \in Int
  <2>1. PartAt(agg, d, f) \in Int
    BY <1>6, PartType DEF PartAt
  <2>2. 0 * Part(own, f) = 0 /\ 1 * Part(own, f) = Part(own, f)
    BY <1>9, Multiply
  <2>3. CASE d = Total
    <3>1. Part(AddToTotal(agg[d], r), f) = Part(agg[d], f) + Part(own, f)
      BY <1>6, <2>3, TotalFacts DEF own
    <3>2. PartAt(aggT, d, f) = Part(agg[d], f) + Part(own, f) /\ PartAt(agg, d, f) = Part(agg[d], f)
      BY <1>8, <2>3, <3>1 DEF PartAt
    <3>3. Flag(d = Total) = 1
      BY <2>3 DEF Flag
    <3> QED
      BY <2>1, <2>2, <3>2, <3>3
  <2>4. CASE d # Total
    <3>1. PartAt(aggT, d, f) = PartAt(agg, d, f)
      BY <1>8, <2>4 DEF PartAt
    <3>2. Flag(d = Total) = 0
      BY <2>4 DEF Flag
    <3> QED
      BY <2>1, <2>2, <3>1, <3>2
  <2> QED
    BY <2>3, <2>4
<1> DEFINE Count(m, d) == Flag(d = Total) + Flag(d \in Dimensions(r)) + Cardinality(TagsUpTo(r, m, d))
           Good(m) == /\ g[m] \in OwnerCounters
                      /\ DOMAIN g[m] = DOMAIN agg \cup Dimensions(r) \cup {TagDimension(r, i) : i \in {j \in TagsKept(r) : j <= m}}
                      /\ \A d : \A f \in Field : PartAt(g[m], d, f) = PartAt(agg, d, f) + Count(m, d) * Part(own, f)
                      /\ \A d \in DOMAIN g[m] : g[m][d].made = IF d \in DOMAIN agg THEN agg[d].made ELSE TRUE
           T == {m \in Nat : m <= N => Good(m)}
<1>11. Good(0)
  <2>1. /\ x \in OwnerCounters /\ DOMAIN x = DOMAIN agg \cup Dimensions(r)
        /\ \A d : \A f \in Field : PartAt(x, d, f) = PartAt(aggT, d, f) + (IF d \in Dimensions(r) THEN Part(own, f) ELSE 0)
        /\ \A d \in DOMAIN agg : x[d].made = aggT[d].made
        /\ \A d \in Dimensions(r) \ DOMAIN agg : x[d].made
    <3>1. Dimensions(r) \in SUBSET Dims
      BY <1>5
    <3>2. aggT \in OwnerCounters /\ DOMAIN aggT = DOMAIN agg
      BY <1>8
    <3>3. x = incrementOrSetUnit(aggT, Dimensions(r), own)
      BY DEF own
    <3>4. /\ incrementOrSetUnit(aggT, Dimensions(r), own) \in OwnerCounters
          /\ DOMAIN incrementOrSetUnit(aggT, Dimensions(r), own) = DOMAIN aggT \cup Dimensions(r)
          /\ \A d : \A f \in Field : f # Bytes \/ own.bytes = 0 \/ d \notin Dimensions(r) =>
               PartAt(incrementOrSetUnit(aggT, Dimensions(r), own), d, f)
                 = PartAt(aggT, d, f) + (IF d \in Dimensions(r) THEN Part(own, f) ELSE 0)
          /\ \A d \in DOMAIN aggT : incrementOrSetUnit(aggT, Dimensions(r), own)[d].made = aggT[d].made
          /\ \A d \in Dimensions(r) \ DOMAIN aggT : incrementOrSetUnit(aggT, Dimensions(r), own)[d].made
      BY <1>3, <3>1, <3>2, IncrementFacts
    <3> HIDE DEF x
    <3> QED
      BY <1>3, <3>2, <3>3, <3>4
  <2>2. \A d \in DOMAIN agg : aggT[d].made = agg[d].made
    BY <1>6, <1>8, TotalFacts
  <2>3. {j \in TagsKept(r) : j <= 0} = {}
    BY RecordFacts DEF TagsKept
  <2> HIDE DEF x
  <2>4. ASSUME NEW d, NEW f \in Field
        PROVE  PartAt(x, d, f) = PartAt(agg, d, f) + Count(0, d) * Part(own, f)
    <3>1. Cardinality(TagsUpTo(r, 0, d)) = 0
      BY TagCounts
    <3> DEFINE a == Flag(d = Total)
               u == Part(own, f)
    <3>2. a \in Int /\ u \in Int
      BY <1>9 DEF Flag
    <3>3. (a + 1) * u = a * u + u /\ a * u \in Int
      BY <3>2, Multiply
    <3>4. PartAt(x, d, f) = (PartAt(agg, d, f) + a * u) + (IF d \in Dimensions(r) THEN u ELSE 0)
      BY <1>10, <2>1
    <3>5. Count(0, d) = IF d \in Dimensions(r) THEN a + 1 ELSE a
      BY <3>1, <3>2 DEF Flag
    <3>6. PartAt(agg, d, f) \in Int
      BY <1>10
    <3> HIDE DEF a, u, Count
    <3>7. CASE d \in Dimensions(r)
      <4>1. Count(0, d) * u = a * u + u
        BY <3>3, <3>5, <3>7
      <4> QED
        BY <3>2, <3>3, <3>4, <3>6, <3>7, <4>1 DEF u
    <3>8. CASE d \notin Dimensions(r)
      <4>1. Count(0, d) * u = a * u
        BY <3>5, <3>8
      <4> QED
        BY <3>2, <3>3, <3>4, <3>6, <3>8, <4>1 DEF u
    <3> QED
      BY <3>7, <3>8
  <2> HIDE DEF Count
  <2>5. g[0] \in OwnerCounters /\ DOMAIN g[0] = DOMAIN agg \cup Dimensions(r) \cup {TagDimension(r, i) : i \in {j \in TagsKept(r) : j <= 0}}
    BY <1>4, <2>1, <2>3
  <2>6. \A d \in DOMAIN g[0] : g[0][d].made = IF d \in DOMAIN agg THEN agg[d].made ELSE TRUE
    <3>1. \A d \in DOMAIN x : d \notin DOMAIN agg => x[d].made \in BOOLEAN
      <4>1. \A d \in DOMAIN x : x[d] \in Counter
        BY <2>1, OwnerCountersFacts
      <4> QED
        BY <4>1 DEF Counter
    <3> QED
      BY <1>4, <2>1, <2>2, <3>1
  <2> QED
    BY <1>4, <2>4, <2>5, <2>6
<1>12. ASSUME NEW m \in Nat, m \in T
       PROVE  m + 1 \in T
  <2> SUFFICES ASSUME m + 1 <= N
               PROVE  Good(m + 1)
    <3>1. m + 1 \in Nat
      OBVIOUS
    <3> HIDE DEF Good
    <3> QED
      BY <3>1
  <2> DEFINE n == m + 1
             y == g[m]
             z == g[n]
  <2>1. Good(m)
    <3>1. m <= N
      BY <1>2
    <3> HIDE DEF Good
    <3> QED
      BY <1>12, <3>1
  <2>2. z = incrementOrSetUnit(y, Tag(n), own)
    <3>1. n \in 1 .. N /\ n - 1 = m
      BY <1>2
    <3> QED
      BY <1>4, <3>1
  <2> HIDE DEF y, z, Count
  <2>3. y \in OwnerCounters
    BY <2>1 DEF y
  <2>4. /\ z \in OwnerCounters /\ DOMAIN z = DOMAIN y \cup Tag(n)
        /\ \A d : \A f \in Field : PartAt(z, d, f) = PartAt(y, d, f) + (IF d \in Tag(n) THEN Part(own, f) ELSE 0)
        /\ \A d \in DOMAIN y : z[d].made = y[d].made
        /\ \A d \in Tag(n) \ DOMAIN y : z[d].made
    <3>1. Tag(n) \in SUBSET Dims
      BY <1>5
    <3> HIDE DEF Tag, n
    <3>2. /\ incrementOrSetUnit(y, Tag(n), own) \in OwnerCounters
          /\ DOMAIN incrementOrSetUnit(y, Tag(n), own) = DOMAIN y \cup Tag(n)
          /\ \A d : \A f \in Field : f # Bytes \/ own.bytes = 0 \/ d \notin Tag(n) =>
               PartAt(incrementOrSetUnit(y, Tag(n), own), d, f)
                 = PartAt(y, d, f) + (IF d \in Tag(n) THEN Part(own, f) ELSE 0)
          /\ \A d \in DOMAIN y : incrementOrSetUnit(y, Tag(n), own)[d].made = y[d].made
          /\ \A d \in Tag(n) \ DOMAIN y : incrementOrSetUnit(y, Tag(n), own)[d].made
      BY <1>3, <2>3, <3>1, IncrementFacts
    <3> QED
      BY <1>3, <2>2, <3>2
  <2>5. DOMAIN z = DOMAIN agg \cup Dimensions(r) \cup {TagDimension(r, i) : i \in {j \in TagsKept(r) : j <= n}}
    <3>1. {j \in TagsKept(r) : j <= n} = {j \in TagsKept(r) : j <= m} \cup (TagsKept(r) \cap {n})
      BY RecordFacts DEF TagsKept
    <3>2. DOMAIN y = DOMAIN agg \cup Dimensions(r) \cup {TagDimension(r, i) : i \in {j \in TagsKept(r) : j <= m}}
      BY <2>1 DEF y
    <3> QED
      BY <2>4, <3>1, <3>2
  <2>6. ASSUME NEW d, NEW f \in Field
        PROVE  PartAt(z, d, f) = PartAt(agg, d, f) + Count(n, d) * Part(own, f)
    <3> DEFINE a == Count(m, d)
               u == Part(own, f)
               b == PartAt(agg, d, f)
    <3>1. PartAt(y, d, f) = b + a * u
      BY <2>1 DEF y
    <3>2. a \in Int /\ u \in Int /\ b \in Int
      <4>1. Cardinality(TagsUpTo(r, m, d)) \in Nat
        BY TagCounts
      <4>2. Flag(d = Total) \in Int /\ Flag(d \in Dimensions(r)) \in Int
        BY DEF Flag
      <4> QED
        BY <1>9, <1>10, <4>1, <4>2 DEF Count
    <3>3. (a + 1) * u = a * u + u /\ a * u \in Int
      BY <3>2, Multiply
    <3>4. Count(n, d) = IF d \in Tag(n) THEN a + 1 ELSE a
      <4>1. Cardinality(TagsUpTo(r, n, d)) = Cardinality(TagsUpTo(r, m, d)) + (IF d \in Tag(n) THEN 1 ELSE 0)
            /\ Cardinality(TagsUpTo(r, m, d)) \in Nat
        BY TagCounts
      <4>2. Flag(d = Total) \in Int /\ Flag(d \in Dimensions(r)) \in Int
        BY DEF Flag
      <4> HIDE DEF Tag, n
      <4> QED
        BY <4>1, <4>2 DEF Count
    <3>5. PartAt(z, d, f) = (b + a * u) + (IF d \in Tag(n) THEN u ELSE 0)
      BY <2>4, <3>1
    <3> HIDE DEF a, b, u, Tag, n
    <3>6. CASE d \in Tag(n)
      <4>1. Count(n, d) * u = a * u + u
        BY <3>3, <3>4, <3>6
      <4>2. PartAt(z, d, f) = b + Count(n, d) * u
        BY <3>2, <3>3, <3>5, <3>6, <4>1
      <4> QED
        BY <4>2 DEF u, b
    <3>7. CASE d \notin Tag(n)
      <4>1. Count(n, d) * u = a * u
        BY <3>4, <3>7
      <4>2. PartAt(z, d, f) = b + Count(n, d) * u
        BY <3>2, <3>3, <3>5, <3>7, <4>1
      <4> QED
        BY <4>2 DEF u, b
    <3> QED
      BY <3>6, <3>7
  <2>7. \A d \in DOMAIN z : z[d].made = IF d \in DOMAIN agg THEN agg[d].made ELSE TRUE
    <3>1. \A d \in DOMAIN z : z[d].made \in BOOLEAN
      <4>1. \A d \in DOMAIN z : z[d] \in Counter
        BY <2>4, OwnerCountersFacts
      <4> QED
        BY <4>1 DEF Counter
    <3>2. \A d \in DOMAIN y : y[d].made = IF d \in DOMAIN agg THEN agg[d].made ELSE TRUE
      BY <2>1 DEF y
    <3>3. DOMAIN agg \subseteq DOMAIN y
      BY <2>1 DEF y
    <3> HIDE DEF Tag
    <3> QED
      BY <2>4, <3>1, <3>2, <3>3
  <2> QED
    BY <2>4, <2>5, <2>6, <2>7 DEF z
<1> HIDE DEF Good
<1>13. 0 \in T
  BY <1>11
<1> HIDE DEF T
<1>14. N \in T
  BY <1>2, <1>12, <1>13, InductiveSet
<1>15. Good(N)
  BY <1>2, <1>14 DEF T
<1>16. {TagDimension(r, i) : i \in {j \in TagsKept(r) : j <= N}} = TagsOf(r)
  <2>1. {j \in TagsKept(r) : j <= N} = TagsKept(r)
    BY RecordFacts DEF TagsKept, N
  <2> QED
    BY <2>1 DEF TagsOf
<1>17. \A d : Count(N, d) = HitTimes(r, d)
  BY DEF HitTimes, N
<1> HIDE DEF Count
<1> QED
  BY <1>1, <1>15, <1>16, <1>17 DEF Good, own

LEMMA DimensionOnce ==
  ASSUME NEW r \in Record, NEW d \in Dimensions(r)
  PROVE  d \in DOMAIN Times[r] /\ Times[r][d] = 1
<1>1. d \notin TagsOf(r)
  BY Apart
<1>2. {i \in TagsKept(r) : TagDimension(r, i) = d} = {}
  BY <1>1 DEF TagsOf
<1>3. Cardinality({i \in TagsKept(r) : TagDimension(r, i) = d}) = 0
  BY <1>2, FS_EmptySet
<1>4. Flag(d \in Dimensions(r)) = 1
  BY DEF Flag
<1> QED
  BY <1>3, <1>4, TimesFacts

OwnApi(r) == IF r.api = NoValue THEN {} ELSE {ApiDimension(r)}

(* Only the dimension of its API has the name "apiid".                       *)
LEMMA ApiByName ==
  ASSUME NEW r \in Record, NEW d \in DOMAIN Times[r], d[1] = "apiid"
  PROVE  d \in OwnApi(r)
<1>1. d \in Dimensions(r)
  <2>1. d \notin r.extra /\ d \notin TagsOf(r) /\ d # Total
    <3>1. \A t \in TagsOf(r) : t[1] = "tags"
      BY NamesDiffer DEF TagsOf
    <3> QED
      BY <3>1, NamesDiffer, Apart
  <2> QED
    BY <2>1, TimesFacts
<1> DEFINE B == IF IsError(r) THEN {<<"errors", r.code>>} ELSE {}
           C == {<<"versions", <<r.api, a[2]>>>> : a \in Attr(r, "versions")}
           D == UNION {Attr(r, name) : name \in {"apikeys", "oauthids", "geo"}}
           E == IF Tracks(r) THEN PathDimensions(r) ELSE {}
<1>2. Dimensions(r) = OwnApi(r) \cup B \cup C \cup D \cup E
  BY DEF Dimensions, OwnApi
<1>3. d \notin B /\ d \notin C
  OBVIOUS
<1>4. d \notin D
  BY DEF Attr
<1>5. d \notin E
  <2>1. \A e \in PathDimensions(r) : e[1] \in {"endpoints", "apiendpoints", "keyendpoints", "oauthendpoints"}
    BY DEF PathDimensions
  <2> QED
    BY <2>1
<1> HIDE DEF B, C, D, E
<1> QED
  BY <1>1, <1>2, <1>3, <1>4, <1>5

LEMMA OwnApiFacts ==
  ASSUME NEW r \in Record
  PROVE  /\ OwnApi(r) \subseteq Dimensions(r) /\ OwnApi(r) \subseteq Dims
         /\ Total \in Dims /\ Total \notin OwnApi(r) /\ r.extra \cap OwnApi(r) = {}
<1>1. OwnApi(r) \subseteq Dimensions(r)
  BY DEF OwnApi, Dimensions
<1> QED
  BY <1>1, TimesFacts, Apart

LEMMA AddTrafficFacts ==
  ASSUME NEW agg \in OwnerCounters, Total \in DOMAIN agg, NEW r \in Record
  PROVE  /\ AddTraffic(agg, r) \in OwnerCounters
         /\ DOMAIN AddTraffic(agg, r) = DOMAIN agg \cup OwnApi(r)
         /\ \A d : \A f \in Field \ {Bytes} : PartAt(AddTraffic(agg, r), d, f) = PartAt(agg, d, f)
         /\ \A d : PartAt(AddTraffic(agg, r), d, Bytes)
                     = PartAt(agg, d, Bytes) + (IF d \in OwnApi(r) \cup {Total} THEN CounterOf(r).bytes ELSE 0)
         /\ \A d \in DOMAIN AddTraffic(agg, r) :
              AddTraffic(agg, r)[d].made = IF d \in DOMAIN agg THEN agg[d].made ELSE FALSE
<1> DEFINE api == OwnApi(r)
           own == CounterOf(r)
           old == [d \in DOMAIN agg \cup api |-> IF d \in DOMAIN agg THEN agg[d] ELSE Zero]
           new == AddTraffic(agg, r)
<1>1. own.bytes \in Nat
  <2>1. CounterOf(r) \in Counter
    BY CounterOfFacts
  <2> QED
    BY <2>1 DEF Counter
<1>2. api \subseteq Dims
  BY OwnApiFacts
<1>3. new = [d \in DOMAIN agg \cup api |->
               IF d \in api \cup {Total} THEN [old[d] EXCEPT !.bytes = @ + own.bytes] ELSE old[d]]
  BY DEF AddTraffic, OwnApi
<1> HIDE DEF api, own, new
<1>4. \A d \in DOMAIN agg : agg[d] \in Counter /\ d \in Dims
  BY OwnerCountersFacts
<1>5. Zero \in Counter /\ \A f \in Field : Part(Zero, f) = 0
  <2>1. EmptyBag \in CodeBag /\ \A n : CodeCount(EmptyBag, n) = 0
    <3>1. 0 \in Int
      OBVIOUS
    <3> QED
      BY <3>1, SingleCode
  <2>2. Zero \in Counter
    BY <2>1 DEF Zero, Counter, NoMean
  <2>3. Zero.hits = 0 /\ Zero.success = 0 /\ Zero.errors = 0 /\ Zero.codes = EmptyBag /\ Zero.sum = 0
        /\ Zero.bytes = 0
    BY DEF Zero
  <2> QED
    BY <2>1, <2>2, <2>3, FieldCases, PartCases
<1>6. \A d \in DOMAIN agg \cup api : old[d] \in Counter
  BY <1>4, <1>5
<1>7. \A d \in DOMAIN agg \cup api : old[d].made = IF d \in DOMAIN agg THEN agg[d].made ELSE FALSE
  <2>1. Zero.made = FALSE
    BY DEF Zero
  <2> QED
    BY <2>1
<1>8. \A d : \A f \in Field : PartAt(agg, d, f) = IF d \in DOMAIN agg \cup api THEN Part(old[d], f) ELSE 0
  BY <1>5 DEF PartAt
<1> HIDE DEF old
<1>9. ASSUME NEW d \in DOMAIN agg \cup api
      PROVE  /\ new[d] \in Counter /\ new[d].made = old[d].made
             /\ \A f \in Field \ {Bytes} : Part(new[d], f) = Part(old[d], f)
             /\ Part(new[d], Bytes) = Part(old[d], Bytes) + (IF d \in api \cup {Total} THEN own.bytes ELSE 0)
  <2>1. old[d].bytes \in Nat /\ old[d] \in Counter
    BY <1>6 DEF Counter
  <2>2. CASE d \in api \cup {Total}
    <3>1. new[d] = [old[d] EXCEPT !.bytes = @ + own.bytes]
      BY <1>3, <2>2
    <3>2. old[d].bytes + own.bytes \in Nat
      BY <1>1, <2>1
    <3>3. new[d] \in Counter /\ new[d].bytes = old[d].bytes + own.bytes /\ new[d].made = old[d].made
          /\ new[d].hits = old[d].hits /\ new[d].success = old[d].success /\ new[d].errors = old[d].errors
          /\ new[d].codes = old[d].codes /\ new[d].sum = old[d].sum
      BY <2>1, <3>1, <3>2 DEF Counter
    <3>4. \A f \in Field \ {Bytes} : Part(new[d], f) = Part(old[d], f)
      BY <3>3, FieldCases, PartCases
    <3> QED
      BY <2>2, <3>3, <3>4, PartCases
  <2>3. CASE d \notin api \cup {Total}
    <3>1. new[d] = old[d]
      BY <1>3, <2>3
    <3> QED
      BY <2>1, <2>3, <3>1, PartCases
  <2> QED
    BY <2>2, <2>3
<1>10. DOMAIN new = DOMAIN agg \cup api /\ new = [d \in DOMAIN new |-> new[d]]
  BY <1>3
<1>11. new \in OwnerCounters
  <2>1. DOMAIN new \subseteq Dims
    BY <1>2, <1>4, <1>10
  <2> QED
    BY <1>9, <1>10, <2>1, OwnerCountersFacts
<1>12. ASSUME NEW d
       PROVE  /\ \A f \in Field \ {Bytes} : PartAt(new, d, f) = PartAt(agg, d, f)
              /\ PartAt(new, d, Bytes) = PartAt(agg, d, Bytes) + (IF d \in api \cup {Total} THEN own.bytes ELSE 0)
  <2>1. Bytes \in Field
    BY DEF Bytes, Field
  <2>2. CASE d \in DOMAIN agg \cup api
    BY <1>8, <1>9, <1>10, <2>1, <2>2 DEF PartAt
  <2>3. CASE d \notin DOMAIN agg \cup api
    BY <1>8, <1>10, <2>1, <2>3 DEF PartAt
  <2> QED
    BY <2>2, <2>3
<1>13. \A d \in DOMAIN new : new[d].made = IF d \in DOMAIN agg THEN agg[d].made ELSE FALSE
  BY <1>7, <1>9, <1>10
<1> QED
  BY <1>10, <1>11, <1>12, <1>13 DEF new, api, own

(* How often record r counts in dimension d, and the dimensions it adds to.  *)
TimesIn(r, d) == IF d \in DOMAIN Times[r] THEN Times[r][d] ELSE 0

Adds(r) == IF IsHit(r) THEN DOMAIN Times[r] ELSE {Total} \cup r.extra \cup OwnApi(r)

LEMMA AddsFacts ==
  ASSUME NEW r \in Record
  PROVE  /\ Adds(r) \subseteq DOMAIN Times[r] /\ Total \in Adds(r)
         /\ \A d \in DOMAIN Times[r] : Times[r][d] \in Nat \ {0}
         /\ \A d : TimesIn(r, d) \in Nat
<1>1. Adds(r) \subseteq DOMAIN Times[r] /\ Total \in Adds(r)
  BY TimesFacts, OwnApiFacts DEF Adds
<1>2. ASSUME NEW d \in DOMAIN Times[r]
      PROVE  Times[r][d] \in Nat \ {0}
  <2>1. CASE d \in r.extra
    BY <2>1, TimesFacts
  <2>2. CASE d \notin r.extra
    BY <2>2, HitTimesIs
  <2> QED
    BY <2>1, <2>2
<1> QED
  BY <1>1, <1>2 DEF TimesIn

LEMMA NoHitUnits ==
  ASSUME NEW r \in Record, ~IsHit(r), NEW o, NEW d, d \notin r.extra, NEW f \in Field \ {Bytes}
  PROVE  Unit(r, <<o, d>>, f) = 0
<1>1. ~IsError(r) /\ ~IsSuccess(r) /\ ~InErrorMap(r) /\ ~GraphError(r, <<o, d>>)
  BY DEF IsHit, IsError, IsSuccess, InErrorMap, GraphError
<1>2. /\ Flag(IsHit(r)) = 0 /\ Flag(IsSuccess(r)) = 0 /\ Flag(GraphError(r, <<o, d>>)) = 0
      /\ Flag(IsError(r) \/ GraphError(r, <<o, d>>)) = 0
      /\ \A n : Flag(InErrorMap(r) /\ r.code = n) = 0
  BY <1>1 DEF Flag
<1>3. /\ Unit(r, <<o, d>>, <<"hits", 0>>) = 0 /\ Unit(r, <<o, d>>, <<"success", 0>>) = 0
      /\ Unit(r, <<o, d>>, <<"errors", 0>>) = 0 /\ Unit(r, <<o, d>>, <<"sum", 0>>) = 0
      /\ \A n : Unit(r, <<o, d>>, <<"codes", n>>) = 0
  BY <1>2, UnitCases
<1> QED
  BY <1>3, FieldCases

(* What one record changes in the counters of its owner: the heart of all    *)
(* sums.                                                                     *)
LEMMA AddRecordFacts ==
  ASSUME NEW agg \in OwnerCounters, Total \in DOMAIN agg, NEW r \in Record
  PROVE  /\ AddRecord(agg, r) \in OwnerCounters
         /\ DOMAIN AddRecord(agg, r) = DOMAIN agg \cup Adds(r)
         /\ \A o, d : \A f \in Field : Counts(<<o, d>>, f) =>
              PartAt(AddRecord(agg, r), d, f) = PartAt(agg, d, f) + TimesIn(r, d) * Unit(r, <<o, d>>, f)
         /\ \A d \in DOMAIN AddRecord(agg, r) :
              \/ AddRecord(agg, r)[d].made
              \/ d \in DOMAIN agg /\ ~agg[d].made
              \/ d \in OwnApi(r) \ DOMAIN agg /\ ~IsHit(r)
<1> DEFINE mid == incrementAggregate(agg, r)
           own == CounterOf(r)
           g   == GraphCounterOf(r)
           new == AddRecord(agg, r)
           ofMid(d, f) == IF IsHit(r) THEN HitTimes(r, d) * Part(own, f)
                          ELSE IF f = Bytes /\ d \in OwnApi(r) \cup {Total} THEN own.bytes ELSE 0
<1>1. /\ own \in Counter /\ own.bytes = IF IsHit(r) \/ r.kind = "uptime" THEN 0 ELSE r.bytes
  BY CounterOfFacts
<1>2. g \in Counter /\ g.bytes = own.bytes /\ \A o : \A d \in r.extra, f \in Field : Part(g, f) = Unit(r, <<o, d>>, f)
  BY GraphCounterOfFacts
<1>3. \A o, d : d \notin r.extra => \A f \in Field : Part(own, f) = Unit(r, <<o, d>>, f)
  BY CounterOfParts
<1>4. new = incrementOrSetUnit(mid, r.extra, g)
  BY DEF AddRecord
<1> HIDE DEF new, own, g
<1>5. \A f \in Field : Part(own, f) \in Int /\ Part(g, f) \in Int
  BY <1>1, <1>2, PartType
<1>6. \A d : \A f \in Field : PartAt(agg, d, f) \in Int
  <2>1. \A d \in DOMAIN agg : agg[d] \in Counter
    BY OwnerCountersFacts
  <2> QED
    BY <2>1, PartType DEF PartAt
<1>7. /\ mid \in OwnerCounters
      /\ DOMAIN mid = DOMAIN agg \cup (IF IsHit(r) THEN Dimensions(r) \cup TagsOf(r) ELSE OwnApi(r))
      /\ \A d : \A f \in Field : PartAt(mid, d, f) = PartAt(agg, d, f) + ofMid(d, f)
      /\ \A d \in DOMAIN mid : ~mid[d].made => IF d \in DOMAIN agg THEN ~agg[d].made ELSE ~IsHit(r)
  <2>1. CASE IsHit(r)
    <3>1. mid = AddHit(agg, r)
      BY <2>1 DEF incrementAggregate
    <3>2. /\ mid \in OwnerCounters /\ DOMAIN mid = DOMAIN agg \cup Dimensions(r) \cup TagsOf(r)
          /\ \A d : \A f \in Field : PartAt(mid, d, f) = PartAt(agg, d, f) + HitTimes(r, d) * Part(own, f)
          /\ \A d \in DOMAIN mid : mid[d].made = IF d \in DOMAIN agg THEN agg[d].made ELSE TRUE
      <4>1. /\ AddHit(agg, r) \in OwnerCounters
            /\ DOMAIN AddHit(agg, r) = DOMAIN agg \cup Dimensions(r) \cup TagsOf(r)
            /\ \A d : \A f \in Field :
                 PartAt(AddHit(agg, r), d, f) = PartAt(agg, d, f) + HitTimes(r, d) * Part(CounterOf(r), f)
            /\ \A d \in DOMAIN AddHit(agg, r) :
                 AddHit(agg, r)[d].made = IF d \in DOMAIN agg THEN agg[d].made ELSE TRUE
        BY <2>1, AddHitFacts
      <4> HIDE DEF mid
      <4> QED
        BY <3>1, <4>1 DEF own
    <3> HIDE DEF mid
    <3> QED
      BY <2>1, <3>2
  <2>2. CASE ~IsHit(r)
    <3>1. mid = AddTraffic(agg, r)
      BY <2>2 DEF incrementAggregate
    <3>2. /\ mid \in OwnerCounters /\ DOMAIN mid = DOMAIN agg \cup OwnApi(r)
          /\ \A d : \A f \in Field \ {Bytes} : PartAt(mid, d, f) = PartAt(agg, d, f)
          /\ \A d : PartAt(mid, d, Bytes)
                      = PartAt(agg, d, Bytes) + (IF d \in OwnApi(r) \cup {Total} THEN own.bytes ELSE 0)
          /\ \A d \in DOMAIN mid : mid[d].made = IF d \in DOMAIN agg THEN agg[d].made ELSE FALSE
      <4>1. /\ AddTraffic(agg, r) \in OwnerCounters
            /\ DOMAIN AddTraffic(agg, r) = DOMAIN agg \cup OwnApi(r)
            /\ \A d : \A f \in Field \ {Bytes} : PartAt(AddTraffic(agg, r), d, f) = PartAt(agg, d, f)
            /\ \A d : PartAt(AddTraffic(agg, r), d, Bytes)
                        = PartAt(agg, d, Bytes) + (IF d \in OwnApi(r) \cup {Total} THEN CounterOf(r).bytes ELSE 0)
            /\ \A d \in DOMAIN AddTraffic(agg, r) :
                 AddTraffic(agg, r)[d].made = IF d \in DOMAIN agg THEN agg[d].made ELSE FALSE
        BY AddTrafficFacts
      <4> HIDE DEF mid
      <4> QED
        BY <3>1, <4>1 DEF own
    <3> HIDE DEF mid
    <3>3. \A d : \A f \in Field : PartAt(mid, d, f) = PartAt(agg, d, f) + ofMid(d, f)
      <4> SUFFICES ASSUME NEW d, NEW f \in Field
                   PROVE  PartAt(mid, d, f) = PartAt(agg, d, f) + ofMid(d, f)
        OBVIOUS
      <4>1. CASE f = Bytes
        <5>1. ofMid(d, f) = IF d \in OwnApi(r) \cup {Total} THEN own.bytes ELSE 0
          BY <2>2, <4>1
        <5> QED
          BY <3>2, <4>1, <5>1
      <4>2. CASE f # Bytes
        <5>1. ofMid(d, f) = 0 /\ PartAt(mid, d, f) = PartAt(agg, d, f)
          BY <2>2, <3>2, <4>2
        <5> QED
          BY <1>6, <5>1
      <4> QED
        BY <4>1, <4>2
    <3> HIDE DEF ofMid
    <3> QED
      BY <2>2, <3>2, <3>3
  <2> QED
    BY <2>1, <2>2
<1> HIDE DEF mid
<1>8. r.extra \in SUBSET Dims
  BY TimesFacts
<1>9. /\ new \in OwnerCounters /\ DOMAIN new = DOMAIN mid \cup r.extra
      /\ \A d : \A f \in Field : f # Bytes \/ g.bytes = 0 \/ d \notin r.extra =>
           PartAt(new, d, f) = PartAt(mid, d, f) + (IF d \in r.extra THEN Part(g, f) ELSE 0)
      /\ \A d \in DOMAIN mid : new[d].made = mid[d].made
      /\ \A d \in r.extra \ DOMAIN mid : new[d].made
  <2>1. /\ incrementOrSetUnit(mid, r.extra, g) \in OwnerCounters
        /\ DOMAIN incrementOrSetUnit(mid, r.extra, g) = DOMAIN mid \cup r.extra
        /\ \A d : \A f \in Field : f # Bytes \/ g.bytes = 0 \/ d \notin r.extra =>
             PartAt(incrementOrSetUnit(mid, r.extra, g), d, f)
               = PartAt(mid, d, f) + (IF d \in r.extra THEN Part(g, f) ELSE 0)
        /\ \A d \in DOMAIN mid : incrementOrSetUnit(mid, r.extra, g)[d].made = mid[d].made
        /\ \A d \in r.extra \ DOMAIN mid : incrementOrSetUnit(mid, r.extra, g)[d].made
    BY <1>2, <1>7, <1>8, IncrementFacts
  <2> QED
    BY <1>4, <2>1
<1>10. DOMAIN new = DOMAIN agg \cup Adds(r)
  <2>1. CASE IsHit(r)
    <3>1. DOMAIN Times[r] = {Total} \cup r.extra \cup Dimensions(r) \cup TagsOf(r)
      BY TimesFacts
    <3> QED
      BY <1>7, <1>9, <2>1, <3>1 DEF Adds
  <2>2. CASE ~IsHit(r)
    BY <1>7, <1>9, <2>2 DEF Adds
  <2> QED
    BY <2>1, <2>2
<1>11. ASSUME NEW o, NEW d, NEW f \in Field, Counts(<<o, d>>, f)
       PROVE  PartAt(new, d, f) = PartAt(agg, d, f) + TimesIn(r, d) * Unit(r, <<o, d>>, f)
  <2>1. f = Bytes => d = Total \/ d[1] = "apiid"
    BY <1>11 DEF Counts
  <2>2. f = Bytes => d \notin r.extra
    BY <2>1, Apart
  <2>3. PartAt(new, d, f) = (PartAt(agg, d, f) + ofMid(d, f)) + (IF d \in r.extra THEN Part(g, f) ELSE 0)
    BY <1>7, <1>9, <2>2
  <2>4. PartAt(agg, d, f) \in Int /\ Part(own, f) \in Int /\ Part(g, f) \in Int
    BY <1>5, <1>6
  <2>5. CASE d \in r.extra
    <3>1. ofMid(d, f) = 0
      <4>1. HitTimes(r, d) = 0
        BY <2>5, HitTimesIs
      <4>2. 0 * Part(own, f) = 0
        BY <2>4, Multiply
      <4> QED
        BY <2>2, <2>5, <4>1, <4>2
    <3>2. TimesIn(r, d) = 1
      BY <2>5, TimesFacts DEF TimesIn
    <3>3. 1 * Unit(r, <<o, d>>, f) = Part(g, f)
      <4>1. Part(g, f) = Unit(r, <<o, d>>, f)
        BY <1>2, <2>5
      <4> QED
        BY <2>4, <4>1, Multiply
    <3> HIDE DEF ofMid
    <3> QED
      BY <2>3, <2>4, <2>5, <3>1, <3>2, <3>3
  <2>6. CASE d \notin r.extra /\ IsHit(r)
    <3>1. TimesIn(r, d) = HitTimes(r, d) /\ HitTimes(r, d) \in Int
      BY <2>6, HitTimesIs DEF TimesIn
    <3>2. Part(own, f) = Unit(r, <<o, d>>, f)
      BY <1>3, <2>6
    <3>3. ofMid(d, f) = TimesIn(r, d) * Unit(r, <<o, d>>, f)
      BY <2>6, <3>1, <3>2
    <3>4. ofMid(d, f) \in Int
      BY <2>4, <2>6, <3>1, Multiply
    <3> HIDE DEF ofMid
    <3> QED
      BY <2>3, <2>4, <2>6, <3>3, <3>4
  <2>7. CASE d \notin r.extra /\ ~IsHit(r)
    <3>1. TimesIn(r, d) \in Nat
      BY AddsFacts
    <3>2. ofMid(d, f) = TimesIn(r, d) * Unit(r, <<o, d>>, f)
      <4>1. CASE f # Bytes
        <5>1. Unit(r, <<o, d>>, f) = 0
          BY <2>7, <4>1, NoHitUnits
        <5>2. TimesIn(r, d) * 0 = 0
          BY <3>1
        <5> QED
          BY <2>7, <4>1, <5>1, <5>2
      <4>2. CASE f = Bytes
        <5>1. Unit(r, <<o, d>>, f) = own.bytes /\ own.bytes \in Int
          BY <1>1, <4>2, UnitCases DEF Counter
        <5>2. CASE d \in OwnApi(r) \cup {Total}
          <6>1. TimesIn(r, d) = 1
            <7>1. d \in DOMAIN Times[r] /\ Times[r][d] = 1
              BY <5>2, TimesFacts, DimensionOnce, OwnApiFacts
            <7> QED
              BY <7>1 DEF TimesIn
          <6>2. 1 * own.bytes = own.bytes
            BY <5>1, Multiply
          <6> QED
            BY <2>7, <4>2, <5>1, <5>2, <6>1, <6>2
        <5>3. CASE d \notin OwnApi(r) \cup {Total}
          <6>1. d \notin DOMAIN Times[r]
            BY <2>1, <4>2, <5>3, ApiByName
          <6>2. TimesIn(r, d) = 0 /\ 0 * own.bytes = 0
            BY <5>1, <6>1, Multiply DEF TimesIn
          <6> QED
            BY <2>7, <4>2, <5>1, <5>3, <6>2
        <5> QED
          BY <5>2, <5>3
      <4> QED
        BY <4>1, <4>2
    <3>3. ofMid(d, f) \in Int
      BY <1>1, <2>7 DEF Counter
    <3> HIDE DEF ofMid
    <3> QED
      BY <2>3, <2>4, <2>7, <3>2, <3>3
  <2> QED
    BY <2>5, <2>6, <2>7
<1>12. ASSUME NEW d \in DOMAIN new, ~new[d].made
       PROVE  \/ d \in DOMAIN agg /\ ~agg[d].made
              \/ d \in OwnApi(r) \ DOMAIN agg /\ ~IsHit(r)
  <2>1. d \in DOMAIN mid /\ ~mid[d].made
    BY <1>9, <1>12
  <2>2. CASE d \in DOMAIN agg
    <3>1. ~agg[d].made
      BY <1>7, <2>1, <2>2
    <3> QED
      BY <2>2, <3>1
  <2>3. CASE d \notin DOMAIN agg
    <3>1. ~IsHit(r)
      BY <1>7, <2>1, <2>3
    <3>2. d \in OwnApi(r)
      BY <1>7, <2>1, <2>3, <3>1
    <3> QED
      BY <2>3, <3>1, <3>2
  <2> QED
    BY <2>2, <2>3
<1> QED
  BY <1>9, <1>10, <1>11, <1>12 DEF new

-----------------------------------------------------------------------------
(* What slices add up to.  As Takes, Owner, OfSlice and OfCalls, but of what *)
(* a pump counts and of slices, and not of a state.                          *)

TakesOf(kind, r)     == r.kind = kind /\ (kind \in {"rest", "uptime"} => r.org # NoValue)
OwnerOf(kind, r)     == IF kind \in {"graph", "mcp"} THEN r.api ELSE r.org
WeightOf(kind, r, k) == IF TakesOf(kind, r) /\ OwnerOf(kind, r) = k[1] THEN TimesIn(r, k[2]) ELSE 0

Nums(kind, s, k, f)     == [n \in DOMAIN s |-> WeightOf(kind, s[n], k) * Unit(s[n], k, f)]
SliceSum(kind, s, k, f) == SumTo(Nums(kind, s, k, f), Len(s))

CallNums(kind, sl, q, k, f) == [i \in DOMAIN q |-> SliceSum(kind, sl[q[i]], k, f)]
CallSum(kind, sl, q, k, f)  == SumTo(CallNums(kind, sl, q, k, f), Len(q))

LEMMA NumsFacts ==
  ASSUME NEW kind, NEW s \in Seq(Record), NEW k, NEW f \in Field
  PROVE  /\ \A n \in 1 .. Len(s) :
              /\ Nums(kind, s, k, f)[n] = WeightOf(kind, s[n], k) * Unit(s[n], k, f)
              /\ WeightOf(kind, s[n], k) \in Nat
              /\ Nums(kind, s, k, f)[n] \in Int
              /\ f # <<"success", 0>> => Nums(kind, s, k, f)[n] \in Nat
         /\ SliceSum(kind, s, k, f) \in Int
         /\ f # <<"success", 0>> => SliceSum(kind, s, k, f) \in Nat
<1>1. DOMAIN s = 1 .. Len(s) /\ Len(s) \in Nat
  OBVIOUS
<1>2. ASSUME NEW n \in 1 .. Len(s)
      PROVE  /\ Nums(kind, s, k, f)[n] = WeightOf(kind, s[n], k) * Unit(s[n], k, f)
             /\ WeightOf(kind, s[n], k) \in Nat
             /\ Nums(kind, s, k, f)[n] \in Int
             /\ f # <<"success", 0>> => Nums(kind, s, k, f)[n] \in Nat
  <2> DEFINE r == s[n]
             a == WeightOf(kind, r, k)
             u == Unit(r, k, f)
  <2>1. r \in Record
    BY <1>1
  <2>2. Nums(kind, s, k, f)[n] = a * u
    BY <1>1 DEF Nums
  <2> HIDE DEF r
  <2>3. a \in Nat
    BY <2>1, AddsFacts DEF WeightOf
  <2>4. u \in Int /\ (f # <<"success", 0>> => u \in Nat)
    BY <2>1, UnitType
  <2> HIDE DEF a, u
  <2>5. a * u \in Int /\ (u \in Nat => a * u \in Nat)
    BY <2>3, <2>4
  <2> QED
    BY <2>2, <2>3, <2>4, <2>5 DEF a, u, r
<1> DEFINE w == Nums(kind, s, k, f)
<1>3. \A n \in 1 .. Len(s) : w[n] \in Int /\ (f # <<"success", 0>> => w[n] \in Nat)
  BY <1>2
<1> HIDE DEF w
<1>4. SumTo(w, Len(s)) \in Int
  BY <1>1, <1>3, SumType
<1>5. f # <<"success", 0>> => SumTo(w, Len(s)) \in Nat
  BY <1>1, <1>3, SumType
<1> QED
  BY <1>2, <1>4, <1>5 DEF w, SliceSum

LEMMA PartialSums ==
  ASSUME NEW kind, NEW s \in Seq(Record), NEW k, NEW f \in Field, NEW m \in 0 .. Len(s)
  PROVE  SumTo(Nums(kind, s, k, f), m) \in Int
<1>1. \A n \in 1 .. m : Nums(kind, s, k, f)[n] \in Int
  <2>1. \A n \in 1 .. m : n \in 1 .. Len(s)
    OBVIOUS
  <2> QED
    BY <2>1, NumsFacts
<1> QED
  BY <1>1, SumType

-----------------------------------------------------------------------------
(* The counters of a call follow the records it has aggregated.              *)

AllOwners == {NoValue} \cup {r.org : r \in Record} \cup {r.api : r \in Record}
Keys      == AllOwners \X Dims
Tables    == UNION {[O -> OwnerCounters] : O \in SUBSET AllOwners}

AggOf(kind, aggs, r) == IF OwnerOf(kind, r) \in DOMAIN aggs THEN aggs[OwnerOf(kind, r)] ELSE NewAggregate

AddTo(kind, aggs, r) ==
  [o \in DOMAIN aggs \cup {OwnerOf(kind, r)} |->
     IF o = OwnerOf(kind, r) THEN AddRecord(AggOf(kind, aggs, r), r) ELSE aggs[o]]

PartIn(aggs, k, f) == IF k[1] \in DOMAIN aggs THEN PartAt(aggs[k[1]], k[2], f) ELSE 0

TotalsThere(aggs) == \A o \in DOMAIN aggs : Total \in DOMAIN aggs[o]

SumsRight(kind, s, m, aggs) ==
  \A k \in Keys : \A f \in Field : Counts(k, f) => PartIn(aggs, k, f) = SumTo(Nums(kind, s, k, f), m)

(* Each record has a counter in each of its dimensions, each counter comes   *)
(* from a record.                                                            *)
Covered(kind, s, m, aggs) ==
  \A n \in 1 .. m : TakesOf(kind, s[n]) =>
    /\ OwnerOf(kind, s[n]) \in DOMAIN aggs
    /\ Adds(s[n]) \subseteq DOMAIN aggs[OwnerOf(kind, s[n])]

Sources(kind, s, m, aggs) ==
  \A o \in DOMAIN aggs : \A d \in DOMAIN aggs[o] : \E n \in 1 .. m : WeightOf(kind, s[n], <<o, d>>) # 0

(* The first record of its API for its owner.                                *)
IsFirst(kind, s, n) ==
  \A j \in 1 .. n - 1 :
    TakesOf(kind, s[j]) /\ OwnerOf(kind, s[j]) = OwnerOf(kind, s[n]) => s[j].api # s[n].api

(* Only a counter made by a record without a hit has no error map.           *)
MapsMade(kind, s, m, aggs) ==
  \A o \in DOMAIN aggs : \A d \in DOMAIN aggs[o] : ~aggs[o][d].made =>
    \E n \in 1 .. m : /\ TakesOf(kind, s[n]) /\ OwnerOf(kind, s[n]) = o
                      /\ d \in OwnApi(s[n]) /\ ~IsHit(s[n]) /\ IsFirst(kind, s, n)

Follows(kind, s, m, aggs) ==
  /\ TotalsThere(aggs) /\ SumsRight(kind, s, m, aggs) /\ Covered(kind, s, m, aggs)
  /\ Sources(kind, s, m, aggs) /\ MapsMade(kind, s, m, aggs)

LEMMA TablesFacts ==
  ASSUME NEW aggs
  PROVE  aggs \in Tables <=> /\ DOMAIN aggs \subseteq AllOwners
                             /\ aggs = [o \in DOMAIN aggs |-> aggs[o]]
                             /\ \A o \in DOMAIN aggs : aggs[o] \in OwnerCounters
<1>1. ASSUME aggs \in Tables
      PROVE  /\ DOMAIN aggs \subseteq AllOwners
             /\ aggs = [o \in DOMAIN aggs |-> aggs[o]]
             /\ \A o \in DOMAIN aggs : aggs[o] \in OwnerCounters
  <2>1. PICK O \in SUBSET AllOwners : aggs \in [O -> OwnerCounters]
    BY <1>1 DEF Tables
  <2> QED
    BY <2>1
<1>2. ASSUME /\ DOMAIN aggs \subseteq AllOwners
             /\ aggs = [o \in DOMAIN aggs |-> aggs[o]]
             /\ \A o \in DOMAIN aggs : aggs[o] \in OwnerCounters
      PROVE  aggs \in Tables
  <2>1. aggs \in [DOMAIN aggs -> OwnerCounters]
    BY <1>2
  <2>2. DOMAIN aggs \in SUBSET AllOwners
    BY <1>2
  <2> QED
    BY <2>1, <2>2 DEF Tables
<1> QED
  BY <1>1, <1>2

LEMMA NewAggregateFacts ==
  ASSUME NEW r \in Record
  PROVE  /\ NewAggregate \in OwnerCounters /\ DOMAIN NewAggregate = {Total}
         /\ \A d : \A f \in Field : PartAt(NewAggregate, d, f) = 0
         /\ NewAggregate[Total].made
<1> DEFINE z == [Zero EXCEPT !.made = TRUE]
<1>1. EmptyBag \in CodeBag /\ \A n : CodeCount(EmptyBag, n) = 0
  <2>1. 0 \in Int
    OBVIOUS
  <2> QED
    BY <2>1, SingleCode
<1>2. z \in Counter /\ z.made
  <2>1. Zero \in Counter
    BY <1>1 DEF Zero, Counter, NoMean
  <2> QED
    BY <2>1 DEF Counter
<1>3. z.hits = 0 /\ z.success = 0 /\ z.errors = 0 /\ z.codes = EmptyBag /\ z.sum = 0 /\ z.bytes = 0
  BY DEF Zero
<1>4. NewAggregate = [d \in {Total} |-> z]
  BY DEF NewAggregate
<1> HIDE DEF z
<1>5. \A f \in Field : Part(z, f) = 0
  BY <1>1, <1>3, FieldCases, PartCases
<1>6. DOMAIN NewAggregate = {Total} /\ NewAggregate[Total] = z
      /\ NewAggregate = [d \in DOMAIN NewAggregate |-> NewAggregate[d]]
  BY <1>4
<1>7. Total \in Dims
  BY OwnApiFacts
<1>8. NewAggregate \in OwnerCounters
  BY <1>2, <1>6, <1>7, OwnerCountersFacts
<1> QED
  BY <1>2, <1>5, <1>6, <1>8 DEF PartAt

LEMMA AggOfFacts ==
  ASSUME NEW kind, NEW aggs \in Tables, TotalsThere(aggs), NEW r \in Record
  PROVE  /\ AggOf(kind, aggs, r) \in OwnerCounters
         /\ Total \in DOMAIN AggOf(kind, aggs, r)
         /\ OwnerOf(kind, r) \in AllOwners
         /\ \A d : \A f \in Field : PartAt(AggOf(kind, aggs, r), d, f) = PartIn(aggs, <<OwnerOf(kind, r), d>>, f)
<1> DEFINE o == OwnerOf(kind, r)
<1>1. o \in AllOwners
  BY DEF OwnerOf, AllOwners
<1> HIDE DEF o
<1>2. CASE o \in DOMAIN aggs
  <2>1. AggOf(kind, aggs, r) = aggs[o]
    BY <1>2 DEF AggOf, o
  <2>2. aggs[o] \in OwnerCounters /\ Total \in DOMAIN aggs[o]
    BY <1>2, TablesFacts DEF TotalsThere
  <2>3. \A d : \A f \in Field : PartIn(aggs, <<o, d>>, f) = PartAt(aggs[o], d, f)
    BY <1>2 DEF PartIn
  <2> QED
    BY <1>1, <2>1, <2>2, <2>3 DEF o
<1>3. CASE o \notin DOMAIN aggs
  <2>1. AggOf(kind, aggs, r) = NewAggregate
    BY <1>3 DEF AggOf, o
  <2>2. \A d : \A f \in Field : PartIn(aggs, <<o, d>>, f) = 0
    BY <1>3 DEF PartIn
  <2> QED
    BY <1>1, <2>1, <2>2, NewAggregateFacts DEF o
<1> QED
  BY <1>2, <1>3

(* One more record is aggregated, or left to others.                         *)
LEMMA FollowsSkip ==
  ASSUME NEW kind, NEW s \in Seq(Record), NEW m \in Nat, m < Len(s), NEW aggs \in Tables,
         Follows(kind, s, m, aggs), ~TakesOf(kind, s[m + 1])
  PROVE  Follows(kind, s, m + 1, aggs)
<1> DEFINE n == m + 1
<1>1. n \in 1 .. Len(s) /\ n \in Nat /\ s[n] \in Record /\ m \in 0 .. Len(s)
      /\ \A j \in 1 .. m : j \in 1 .. n
  OBVIOUS
<1>2. \A j \in 1 .. n : j \in 1 .. m \/ j = n
  OBVIOUS
<1>3. \A k \in Keys : \A f \in Field : SumTo(Nums(kind, s, k, f), n) = SumTo(Nums(kind, s, k, f), m)
  <2> SUFFICES ASSUME NEW k \in Keys, NEW f \in Field
               PROVE  SumTo(Nums(kind, s, k, f), n) = SumTo(Nums(kind, s, k, f), m)
    OBVIOUS
  <2>1. Nums(kind, s, k, f)[n] = WeightOf(kind, s[n], k) * Unit(s[n], k, f) /\ Unit(s[n], k, f) \in Int
    BY <1>1, NumsFacts, UnitType
  <2>2. WeightOf(kind, s[n], k) = 0
    BY DEF WeightOf
  <2>3. 0 * Unit(s[n], k, f) = 0
    BY <2>1, Multiply
  <2>4. SumTo(Nums(kind, s, k, f), m + 1) = SumTo(Nums(kind, s, k, f), m) + Nums(kind, s, k, f)[m + 1]
    BY SumStep
  <2>5. SumTo(Nums(kind, s, k, f), m) \in Int
    BY <1>1, PartialSums
  <2> QED
    BY <2>1, <2>2, <2>3, <2>4, <2>5
<1>4. SumsRight(kind, s, n, aggs)
  BY <1>3 DEF Follows, SumsRight
<1>5. Covered(kind, s, n, aggs)
  BY <1>2 DEF Follows, Covered
<1>6. Sources(kind, s, n, aggs)
  BY <1>1 DEF Follows, Sources
<1>7. MapsMade(kind, s, n, aggs)
  <2>1. MapsMade(kind, s, m, aggs)
    BY DEF Follows
  <2> HIDE DEF n
  <2> QED
    BY <1>1, <2>1 DEF MapsMade
<1> QED
  BY <1>4, <1>5, <1>6, <1>7 DEF Follows

LEMMA FollowsAdd ==
  ASSUME NEW kind, NEW s \in Seq(Record), NEW m \in Nat, m < Len(s), NEW aggs \in Tables,
         Follows(kind, s, m, aggs), TakesOf(kind, s[m + 1])
  PROVE  /\ AddTo(kind, aggs, s[m + 1]) \in Tables
         /\ Follows(kind, s, m + 1, AddTo(kind, aggs, s[m + 1]))
<1> DEFINE n   == m + 1
           r   == s[n]
           o   == OwnerOf(kind, r)
           agg == AggOf(kind, aggs, r)
           add == AddRecord(agg, r)
           new == AddTo(kind, aggs, r)
<1>1. n \in 1 .. Len(s) /\ n \in Nat /\ r \in Record /\ m \in 0 .. Len(s)
      /\ \A j \in 1 .. m : j \in 1 .. n
  OBVIOUS
<1>2. \A j \in 1 .. n : j \in 1 .. m \/ j = n
  OBVIOUS
<1>3. new = [p \in DOMAIN aggs \cup {o} |-> IF p = o THEN add ELSE aggs[p]]
  BY DEF AddTo
<1>4. TakesOf(kind, r)
  OBVIOUS
<1> HIDE DEF r, agg, add, new
<1>5. /\ TotalsThere(aggs) /\ SumsRight(kind, s, m, aggs) /\ Covered(kind, s, m, aggs)
      /\ Sources(kind, s, m, aggs) /\ MapsMade(kind, s, m, aggs)
  BY DEF Follows
<1>6. /\ agg \in OwnerCounters /\ Total \in DOMAIN agg /\ o \in AllOwners
      /\ \A d : \A f \in Field : PartAt(agg, d, f) = PartIn(aggs, <<o, d>>, f)
  BY <1>1, <1>5, AggOfFacts DEF agg
<1>7. /\ add \in OwnerCounters /\ DOMAIN add = DOMAIN agg \cup Adds(r)
      /\ \A p, d : \A f \in Field : Counts(<<p, d>>, f) =>
           PartAt(add, d, f) = PartAt(agg, d, f) + TimesIn(r, d) * Unit(r, <<p, d>>, f)
      /\ \A d \in DOMAIN add :
           \/ add[d].made
           \/ d \in DOMAIN agg /\ ~agg[d].made
           \/ d \in OwnApi(r) \ DOMAIN agg /\ ~IsHit(r)
  BY <1>1, <1>6, AddRecordFacts DEF add
<1>8. agg = IF o \in DOMAIN aggs THEN aggs[o] ELSE NewAggregate
  BY DEF agg, AggOf
<1>9. DOMAIN aggs \subseteq AllOwners /\ \A p \in DOMAIN aggs : aggs[p] \in OwnerCounters
  BY TablesFacts
<1> HIDE DEF o
<1>10. /\ DOMAIN new = DOMAIN aggs \cup {o} /\ new[o] = add /\ \A p \in DOMAIN aggs \ {o} : new[p] = aggs[p]
       /\ new = [p \in DOMAIN new |-> new[p]]
  BY <1>3
<1>11. new \in Tables
  BY <1>6, <1>7, <1>9, <1>10, TablesFacts
<1>12. TotalsThere(new)
  BY <1>5, <1>6, <1>7, <1>10 DEF TotalsThere
<1>13. SumsRight(kind, s, n, new)
  <2> SUFFICES ASSUME NEW k \in Keys, NEW f \in Field, Counts(k, f)
               PROVE  PartIn(new, k, f) = SumTo(Nums(kind, s, k, f), n)
    BY DEF SumsRight
  <2>1. PICK p \in AllOwners, d \in Dims : k = <<p, d>>
    BY DEF Keys
  <2> DEFINE u == Unit(r, k, f)
             S == SumTo(Nums(kind, s, k, f), m)
  <2>2. SumTo(Nums(kind, s, k, f), n) = S + WeightOf(kind, r, k) * u
    <3>1. SumTo(Nums(kind, s, k, f), m + 1) = S + Nums(kind, s, k, f)[m + 1]
      BY SumStep
    <3>2. Nums(kind, s, k, f)[n] = WeightOf(kind, r, k) * u
      BY <1>1, NumsFacts DEF r
    <3> QED
      BY <3>1, <3>2
  <2>3. PartIn(aggs, k, f) = S /\ S \in Int /\ u \in Int
    BY <1>1, <1>5, PartialSums, UnitType DEF SumsRight
  <2>4. CASE p = o
    <3>1. WeightOf(kind, r, k) = TimesIn(r, d)
      BY <1>4, <2>1, <2>4 DEF WeightOf, o
    <3>2. PartIn(new, k, f) = PartAt(add, d, f)
      BY <1>10, <2>1, <2>4 DEF PartIn
    <3>3. PartAt(add, d, f) = PartAt(agg, d, f) + TimesIn(r, d) * u
      BY <1>7, <2>1
    <3>4. PartAt(agg, d, f) = S
      BY <1>6, <2>1, <2>3, <2>4
    <3> QED
      BY <2>2, <3>1, <3>2, <3>3, <3>4
  <2>5. CASE p # o
    <3>1. WeightOf(kind, r, k) = 0
      BY <2>1, <2>5 DEF WeightOf, o
    <3>2. PartIn(new, k, f) = PartIn(aggs, k, f)
      BY <1>10, <2>1, <2>5 DEF PartIn
    <3>3. 0 * u = 0
      BY <2>3, Multiply
    <3> HIDE DEF u, S
    <3> QED
      BY <2>2, <2>3, <3>1, <3>2, <3>3
  <2> QED
    BY <2>4, <2>5
<1>14. Covered(kind, s, n, new)
  <2> SUFFICES ASSUME NEW j \in 1 .. n, TakesOf(kind, s[j])
               PROVE  /\ OwnerOf(kind, s[j]) \in DOMAIN new
                      /\ Adds(s[j]) \subseteq DOMAIN new[OwnerOf(kind, s[j])]
    BY DEF Covered
  <2>1. CASE j = n
    BY <1>7, <1>10, <2>1 DEF o, r
  <2>2. CASE j \in 1 .. m
    <3>1. /\ OwnerOf(kind, s[j]) \in DOMAIN aggs
          /\ Adds(s[j]) \subseteq DOMAIN aggs[OwnerOf(kind, s[j])]
      BY <1>5, <2>2 DEF Covered
    <3>2. CASE OwnerOf(kind, s[j]) = o
      BY <1>7, <1>8, <1>10, <3>1, <3>2
    <3>3. CASE OwnerOf(kind, s[j]) # o
      BY <1>10, <3>1, <3>3
    <3> QED
      BY <3>2, <3>3
  <2> QED
    BY <1>2, <2>1, <2>2
<1>15. Sources(kind, s, n, new)
  <2> SUFFICES ASSUME NEW p \in DOMAIN new, NEW d \in DOMAIN new[p]
               PROVE  \E j \in 1 .. n : WeightOf(kind, s[j], <<p, d>>) # 0
    BY DEF Sources
  <2>1. CASE p \in DOMAIN aggs /\ d \in DOMAIN aggs[p]
    <3>1. PICK j \in 1 .. m : WeightOf(kind, s[j], <<p, d>>) # 0
      BY <1>5, <2>1 DEF Sources
    <3> QED
      BY <1>1, <3>1
  <2>2. CASE ~(p \in DOMAIN aggs /\ d \in DOMAIN aggs[p])
    <3>1. p = o /\ d \in Adds(r)
      <4>1. p = o
        BY <1>10, <2>2
      <4>2. d \in DOMAIN agg \cup Adds(r)
        BY <1>7, <1>10, <4>1
      <4>3. d \in DOMAIN agg => d = Total
        <5>1. o \notin DOMAIN aggs \/ d \notin DOMAIN aggs[o]
          BY <2>2, <4>1
        <5> QED
          BY <1>1, <1>8, <5>1, NewAggregateFacts
      <4> QED
        BY <1>1, <4>1, <4>2, <4>3, AddsFacts
    <3>2. WeightOf(kind, r, <<p, d>>) = TimesIn(r, d)
      BY <1>4, <3>1 DEF WeightOf, o
    <3>3. TimesIn(r, d) # 0
      BY <1>1, <3>1, AddsFacts DEF TimesIn
    <3>4. n \in 1 .. n
      BY <1>1
    <3> QED
      BY <3>2, <3>3, <3>4 DEF r
  <2> QED
    BY <2>1, <2>2
<1>16. MapsMade(kind, s, n, new)
  <2> SUFFICES ASSUME NEW p \in DOMAIN new, NEW d \in DOMAIN new[p], ~new[p][d].made
               PROVE  \E j \in 1 .. n : /\ TakesOf(kind, s[j]) /\ OwnerOf(kind, s[j]) = p
                                        /\ d \in OwnApi(s[j]) /\ ~IsHit(s[j]) /\ IsFirst(kind, s, j)
    BY DEF MapsMade
  <2>1. CASE p \in DOMAIN aggs /\ d \in DOMAIN aggs[p] /\ ~aggs[p][d].made
    <3>1. PICK j \in 1 .. m : /\ TakesOf(kind, s[j]) /\ OwnerOf(kind, s[j]) = p
                              /\ d \in OwnApi(s[j]) /\ ~IsHit(s[j]) /\ IsFirst(kind, s, j)
      BY <1>5, <2>1 DEF MapsMade
    <3> QED
      BY <1>1, <3>1
  <2>2. CASE ~(p \in DOMAIN aggs /\ d \in DOMAIN aggs[p] /\ ~aggs[p][d].made)
    <3>1. p = o
      BY <1>10, <2>2
    <3>2. ~add[d].made /\ d \in DOMAIN add
      BY <1>10, <3>1
    <3>3. ~(d \in DOMAIN agg /\ ~agg[d].made)
      <4>1. CASE o \in DOMAIN aggs
        BY <1>8, <2>2, <3>1, <4>1
      <4>2. CASE o \notin DOMAIN aggs
        BY <1>1, <1>8, <4>2, NewAggregateFacts
      <4> QED
        BY <4>1, <4>2
    <3>4. d \in OwnApi(r) \ DOMAIN agg /\ ~IsHit(r)
      BY <1>7, <3>2, <3>3
    <3>5. IsFirst(kind, s, n)
      <4> SUFFICES ASSUME NEW j \in 1 .. n - 1, TakesOf(kind, s[j]), OwnerOf(kind, s[j]) = OwnerOf(kind, s[n]),
                          s[j].api = s[n].api
                   PROVE  FALSE
        BY DEF IsFirst
      <4>1. j \in 1 .. m /\ s[j] \in Record
        BY <1>1
      <4>2. o \in DOMAIN aggs /\ Adds(s[j]) \subseteq DOMAIN aggs[o]
        BY <1>5, <4>1 DEF Covered, o, r
      <4>3. s[j].kind = r.kind
        BY <1>4 DEF TakesOf
      <4>4. OwnApi(s[j]) = OwnApi(r)
        BY <4>3 DEF OwnApi, ApiDimension, r
      <4>5. OwnApi(s[j]) \subseteq Adds(s[j])
        BY <4>1, OwnApiFacts, TimesFacts DEF Adds
      <4> QED
        BY <1>8, <3>4, <4>2, <4>4, <4>5
    <3>6. n \in 1 .. n /\ TakesOf(kind, s[n]) /\ OwnerOf(kind, s[n]) = p
      BY <1>1, <1>4, <3>1 DEF o, r
    <3> QED
      BY <3>4, <3>5, <3>6 DEF r
  <2> QED
    BY <2>1, <2>2
<1>17. Follows(kind, s, n, new)
  BY <1>12, <1>13, <1>14, <1>15, <1>16 DEF Follows
<1> QED
  BY <1>11, <1>17 DEF new, r

-----------------------------------------------------------------------------
(* A row adds up the calls merged into it.                                   *)

RowRight(kind, db, sl, k, row, q) ==
  \A f \in Field : Counts(k, f) =>
    Part(row, f) = IF f = Bytes /\ db = "mongo" THEN SliceSum(kind, sl[Last(q)], k, f)
                   ELSE CallSum(kind, sl, q, k, f)

(* Merged, as an operator of what it depends on.                             *)
MergeOf(pm, t, k, new) ==
  LET base == IF k \in DOMAIN t THEN t[k] ELSE NoProperty
      doc  == generateBSONFromProperty(base, new)
  IN CASE Profile[pm].db = "mongo" ->
            IF k[2][1] \in {"methods", "primitives", "names"} THEN [doc EXCEPT !.bytes = base.bytes]
            ELSE [doc EXCEPT !.made = TRUE]
       [] Profile[pm].db # "mongo" /\ k \notin DOMAIN t -> new
       [] Profile[pm].db # "mongo" /\ k \in DOMAIN t /\ pm = "sqlUptime" -> OnConflictUptimeAssignments(t[k], new)
       [] Profile[pm].db # "mongo" /\ k \in DOMAIN t /\ pm # "sqlUptime" -> OnConflictAssignments(t[k], new)

LEMMA ProfileFacts ==
  ASSUME NEW pm \in DOMAIN Profile
  PROVE  /\ Profile[pm].kind \in {"rest", "graph", "mcp", "uptime"}
         /\ Profile[pm].db \in {"mongo", "sql"}
         /\ Profile[pm].error \in {"returned", "logged"}
         /\ pm = "sqlUptime" <=> Profile[pm].kind = "uptime"
         /\ pm = "sqlUptime" => Profile[pm].db = "sql" /\ Profile[pm].error = "logged"
         /\ pm # "sqlUptime" => Profile[pm].error = "returned"
BY DEF Profile

LEMMA BytesField == Bytes \in Field /\ Hits \in Field /\ Hits = <<"hits", 0>> /\ Hits # Bytes /\ Hits # <<"success", 0>>
BY DEF Bytes, Field, Hits

(* Documents and rows: all but bytes add up, and what is done with these.    *)
LEMMA DocumentFacts ==
  ASSUME NEW base \in Counter, NEW new \in Counter
  PROVE  LET doc == generateBSONFromProperty(base, new)
         IN /\ doc \in Counter
            /\ \A f \in Field \ {Bytes} : Part(doc, f) = Part(base, f) + Part(new, f)
            /\ Part(doc, Bytes) = Part(new, Bytes)
<1> DEFINE doc == generateBSONFromProperty(base, new)
           low == IF new.hits = new.errors THEN base.min
                  ELSE IF base.min = Absent THEN new.min ELSE MinOf(base.min, new.min)
<1>1. /\ base.hits \in Nat /\ base.success \in Int /\ base.errors \in Nat /\ base.codes \in CodeBag
      /\ base.sum \in Nat /\ base.bytes \in Nat /\ base.max \in Nat /\ base.min \in Int
  BY DEF Counter
<1>2. /\ new.hits \in Nat /\ new.success \in Int /\ new.errors \in Nat /\ new.codes \in CodeBag
      /\ new.sum \in Nat /\ new.bytes \in Nat /\ new.max \in Nat /\ new.min \in Int
  BY DEF Counter
<1>3. doc = [base EXCEPT !.hits = @ + new.hits, !.success = @ + new.success, !.errors = @ + new.errors,
              !.codes = @ (+) new.codes, !.sum = @ + new.sum, !.bytes = new.bytes,
              !.max = MaxOf(@, new.max), !.min = low]
  BY DEF generateBSONFromProperty
<1>4. low \in Int
  BY <1>1, <1>2 DEF MinOf
<1> HIDE DEF low, doc
<1>5. base.codes (+) new.codes \in CodeBag
      /\ \A n : CodeCount(base.codes (+) new.codes, n) = CodeCount(base.codes, n) + CodeCount(new.codes, n)
  BY <1>1, <1>2, BagFacts
<1>6. /\ doc.hits = base.hits + new.hits /\ doc.success = base.success + new.success
      /\ doc.errors = base.errors + new.errors /\ doc.codes = base.codes (+) new.codes
      /\ doc.sum = base.sum + new.sum /\ doc.bytes = new.bytes
  BY <1>3 DEF Counter
<1>7. doc \in Counter
  <2>1. base.hits + new.hits \in Nat /\ base.success + new.success \in Int /\ base.errors + new.errors \in Nat
        /\ base.sum + new.sum \in Nat
    BY <1>1, <1>2
  <2>2. MaxOf(base.max, new.max) \in Nat
    BY <1>1, <1>2 DEF MaxOf
  <2> QED
    BY <1>2, <1>3, <1>4, <1>5, <2>1, <2>2 DEF Counter
<1>8. \A f \in Field \ {Bytes} : Part(doc, f) = Part(base, f) + Part(new, f)
  BY <1>5, <1>6, FieldCases, PartCases
<1>9. Part(doc, Bytes) = Part(new, Bytes)
  BY <1>6, PartCases
<1> QED
  BY <1>7, <1>8, <1>9 DEF doc

LEMMA ConflictFacts ==
  ASSUME NEW row \in Counter, NEW new \in Counter
  PROVE  /\ OnConflictAssignments(row, new) \in Counter
         /\ \A f \in Field : Part(OnConflictAssignments(row, new), f) = Part(row, f) + Part(new, f)
<1> DEFINE out == OnConflictAssignments(row, new)
<1>1. /\ row.hits \in Nat /\ row.success \in Int /\ row.errors \in Nat /\ row.codes \in CodeBag
      /\ row.sum \in Nat /\ row.bytes \in Nat /\ row.max \in Nat /\ row.min \in Int
  BY DEF Counter
<1>2. /\ new.hits \in Nat /\ new.success \in Int /\ new.errors \in Nat /\ new.codes \in CodeBag
      /\ new.sum \in Nat /\ new.bytes \in Nat /\ new.max \in Nat /\ new.min \in Int
  BY DEF Counter
<1>3. row.codes (+) new.codes \in CodeBag
      /\ \A n : CodeCount(row.codes (+) new.codes, n) = CodeCount(row.codes, n) + CodeCount(new.codes, n)
  BY <1>1, <1>2, BagFacts
<1>4. /\ out.hits = row.hits + new.hits /\ out.success = row.success + new.success
      /\ out.errors = row.errors + new.errors /\ out.codes = row.codes (+) new.codes
      /\ out.sum = row.sum + new.sum /\ out.bytes = row.bytes + new.bytes
  BY DEF OnConflictAssignments, Counter
<1>5. out \in Counter
  <2>1. row.hits + new.hits \in Nat /\ row.success + new.success \in Int /\ row.errors + new.errors \in Nat
        /\ row.sum + new.sum \in Nat /\ row.bytes + new.bytes \in Nat
    BY <1>1, <1>2
  <2>2. MaxOf(row.max, new.max) \in Nat /\ MinOf(row.min, new.min) \in Int
    BY <1>1, <1>2 DEF MaxOf, MinOf
  <2>3. <<row.sum + new.sum, row.hits + new.hits>> \in Nat \X Nat
    BY <2>1
  <2> QED
    BY <1>3, <2>1, <2>2, <2>3 DEF OnConflictAssignments, Counter
<1> HIDE DEF out
<1>6. \A f \in Field : Part(out, f) = Part(row, f) + Part(new, f)
  BY <1>3, <1>4, FieldCases, PartCases
<1> QED
  BY <1>5, <1>6 DEF out

LEMMA UptimeConflictFacts ==
  ASSUME NEW row \in Counter, NEW new \in Counter
  PROVE  /\ OnConflictUptimeAssignments(row, new) \in Counter
         /\ \A f \in Field \ {Bytes} :
              Part(OnConflictUptimeAssignments(row, new), f) = Part(row, f) + Part(new, f)
         /\ Part(OnConflictUptimeAssignments(row, new), Bytes) = Part(row, Bytes)
<1> DEFINE out == OnConflictUptimeAssignments(row, new)
<1>1. /\ row.hits \in Nat /\ row.success \in Int /\ row.errors \in Nat /\ row.codes \in CodeBag
      /\ row.sum \in Nat
  BY DEF Counter
<1>2. /\ new.hits \in Nat /\ new.success \in Int /\ new.errors \in Nat /\ new.codes \in CodeBag
      /\ new.sum \in Nat
  BY DEF Counter
<1>3. row.codes (+) new.codes \in CodeBag
      /\ \A n : CodeCount(row.codes (+) new.codes, n) = CodeCount(row.codes, n) + CodeCount(new.codes, n)
  BY <1>1, <1>2, BagFacts
<1>4. /\ out.hits = row.hits + new.hits /\ out.success = row.success + new.success
      /\ out.errors = row.errors + new.errors /\ out.codes = row.codes (+) new.codes
      /\ out.sum = row.sum + new.sum /\ out.bytes = row.bytes
  BY DEF OnConflictUptimeAssignments, Counter
<1>5. out \in Counter
  <2>1. row.hits + new.hits \in Nat /\ row.success + new.success \in Int /\ row.errors + new.errors \in Nat
        /\ row.sum + new.sum \in Nat
    BY <1>1, <1>2
  <2> QED
    BY <1>3, <2>1 DEF OnConflictUptimeAssignments, Counter
<1> HIDE DEF out
<1>6. \A f \in Field \ {Bytes} : Part(out, f) = Part(row, f) + Part(new, f)
  BY <1>3, <1>4, FieldCases, PartCases
<1>7. Part(out, Bytes) = Part(row, Bytes)
  BY <1>4, PartCases
<1> QED
  BY <1>5, <1>6, <1>7 DEF out

(* The parts of a row before a call is merged into it, and its bytes after.  *)
PartBefore(t, k, f) == IF k \in DOMAIN t THEN Part(t[k], f) ELSE 0

BytesAfter(pm, t, k, new) ==
  IF Profile[pm].db = "mongo" \/ k \notin DOMAIN t THEN Part(new, Bytes)
  ELSE IF pm = "sqlUptime" THEN Part(t[k], Bytes)
  ELSE Part(t[k], Bytes) + Part(new, Bytes)

LEMMA MergeFacts ==
  ASSUME NEW pm \in DOMAIN Profile, NEW t, NEW k, k \in DOMAIN t => t[k] \in Counter,
         NEW new \in Counter
  PROVE  LET out == MergeOf(pm, t, k, new)
         IN /\ out \in Counter
            /\ \A f \in Field \ {Bytes} : Part(out, f) = PartBefore(t, k, f) + Part(new, f)
            /\ Counts(k, Bytes) => Part(out, Bytes) = BytesAfter(pm, t, k, new)
<1> DEFINE out  == MergeOf(pm, t, k, new)
           base == IF k \in DOMAIN t THEN t[k] ELSE NoProperty
           doc  == generateBSONFromProperty(base, new)
<1>1. \A f \in Field : Part(new, f) \in Int
  BY PartType
<1>2. CASE Profile[pm].db = "mongo"
  <2>1. out = IF k[2][1] \in {"methods", "primitives", "names"} THEN [doc EXCEPT !.bytes = base.bytes]
              ELSE [doc EXCEPT !.made = TRUE]
    BY <1>2 DEF MergeOf
  <2>2. NoProperty \in Counter /\ \A f \in Field : Part(NoProperty, f) = 0
    <3>1. EmptyBag \in CodeBag /\ \A n : CodeCount(EmptyBag, n) = 0
      <4>1. 0 \in Int
        OBVIOUS
      <4> QED
        BY <4>1, SingleCode
    <3>2. Zero \in Counter
      BY <3>1 DEF Zero, Counter, NoMean
    <3>3. NoProperty \in Counter
      BY <3>2 DEF NoProperty, Counter, Absent
    <3>4. NoProperty.hits = 0 /\ NoProperty.success = 0 /\ NoProperty.errors = 0 /\ NoProperty.codes = EmptyBag
          /\ NoProperty.sum = 0 /\ NoProperty.bytes = 0
      BY DEF NoProperty, Zero
    <3> QED
      BY <3>1, <3>3, <3>4, FieldCases, PartCases
  <2>3. base \in Counter /\ \A f \in Field : Part(base, f) = IF k \in DOMAIN t THEN Part(t[k], f) ELSE 0
    BY <2>2
  <2> HIDE DEF base, out
  <2>4. /\ doc \in Counter
        /\ \A f \in Field \ {Bytes} : Part(doc, f) = Part(base, f) + Part(new, f)
        /\ Part(doc, Bytes) = Part(new, Bytes)
    BY <2>3, DocumentFacts
  <2> HIDE DEF doc
  <2>5. base.bytes \in Nat
    BY <2>3 DEF Counter
  <2>6. out \in Counter
    <3>1. [doc EXCEPT !.bytes = base.bytes] \in Counter
      BY <2>4, <2>5 DEF Counter
    <3>2. [doc EXCEPT !.made = TRUE] \in Counter
      BY <2>4 DEF Counter
    <3> QED
      BY <2>1, <3>1, <3>2
  <2>7. /\ out.hits = doc.hits /\ out.success = doc.success /\ out.errors = doc.errors
        /\ out.codes = doc.codes /\ out.sum = doc.sum
        /\ k[2][1] \notin {"methods", "primitives", "names"} => out.bytes = doc.bytes
    BY <2>1, <2>4 DEF Counter
  <2>8. \A f \in Field \ {Bytes} : Part(out, f) = Part(doc, f)
    BY <2>7, FieldCases, PartCases
  <2>9. Counts(k, Bytes) => Part(out, Bytes) = Part(new, Bytes)
    <3>1. Counts(k, Bytes) => k[2] = Total \/ k[2][1] = "apiid"
      BY DEF Counts
    <3>2. Total[1] = ""
      BY DEF Total
    <3>3. Counts(k, Bytes) => k[2][1] = "" \/ k[2][1] = "apiid"
      BY <3>1, <3>2
    <3>4. Counts(k, Bytes) => k[2][1] \notin {"methods", "primitives", "names"}
      BY <3>3
    <3> QED
      BY <2>4, <2>7, <3>4, PartCases
  <2> QED
    BY <1>2, <2>3, <2>4, <2>6, <2>8, <2>9 DEF out, PartBefore, BytesAfter
<1>3. CASE Profile[pm].db # "mongo" /\ k \notin DOMAIN t
  <2>1. out = new
    BY <1>3 DEF MergeOf
  <2> HIDE DEF out
  <2>2. \A f \in Field : 0 + Part(new, f) = Part(new, f)
    BY <1>1
  <2> QED
    BY <1>3, <2>1, <2>2 DEF out, PartBefore, BytesAfter
<1>4. CASE Profile[pm].db # "mongo" /\ k \in DOMAIN t /\ pm = "sqlUptime"
  <2>1. out = OnConflictUptimeAssignments(t[k], new)
    BY <1>4 DEF MergeOf
  <2>2. t[k] \in Counter
    BY <1>4
  <2> HIDE DEF out
  <2>3. /\ OnConflictUptimeAssignments(t[k], new) \in Counter
        /\ \A f \in Field \ {Bytes} :
             Part(OnConflictUptimeAssignments(t[k], new), f) = Part(t[k], f) + Part(new, f)
        /\ Part(OnConflictUptimeAssignments(t[k], new), Bytes) = Part(t[k], Bytes)
    BY <2>2, UptimeConflictFacts
  <2>4. /\ out \in Counter
        /\ \A f \in Field \ {Bytes} : Part(out, f) = Part(t[k], f) + Part(new, f)
        /\ Part(out, Bytes) = Part(t[k], Bytes)
    BY <2>1, <2>3
  <2> QED
    BY <1>4, <2>4 DEF out, PartBefore, BytesAfter
<1>5. CASE Profile[pm].db # "mongo" /\ k \in DOMAIN t /\ pm # "sqlUptime"
  <2>1. out = OnConflictAssignments(t[k], new)
    BY <1>5 DEF MergeOf
  <2>2. t[k] \in Counter
    BY <1>5
  <2> HIDE DEF out
  <2>3. /\ OnConflictAssignments(t[k], new) \in Counter
        /\ \A f \in Field : Part(OnConflictAssignments(t[k], new), f) = Part(t[k], f) + Part(new, f)
    BY <2>2, ConflictFacts
  <2>4. out \in Counter /\ \A f \in Field : Part(out, f) = Part(t[k], f) + Part(new, f)
    BY <2>1, <2>3
  <2> QED
    BY <1>5, <2>4, BytesField DEF out, PartBefore, BytesAfter
<1> QED
  BY <1>2, <1>3, <1>4, <1>5

(* One call more is merged into a row.                                       *)
LEMMA UptimeBytes ==
  ASSUME NEW s \in Seq(Record), NEW k
  PROVE  SliceSum("uptime", s, k, Bytes) = 0
<1>1. ASSUME NEW n \in 1 .. Len(s) PROVE Nums("uptime", s, k, Bytes)[n] = 0
  <2> DEFINE r == s[n]
             a == WeightOf("uptime", r, k)
             u == Unit(r, k, Bytes)
  <2>1. r \in Record /\ n \in DOMAIN s
    OBVIOUS
  <2>2. Nums("uptime", s, k, Bytes)[n] = a * u /\ a \in Nat
    BY NumsFacts, BytesField
  <2>3. u \in Int
    BY <2>1, UnitType, BytesField
  <2>4. a # 0 => u = 0
    <3>1. a # 0 => r.kind = "uptime"
      BY DEF WeightOf, TakesOf
    <3> QED
      BY <3>1, UnitCases
  <2> HIDE DEF a, u, r
  <2>5. 0 * u = 0 /\ a * 0 = 0
    BY <2>2, <2>3, Multiply
  <2> QED
    BY <2>2, <2>4, <2>5
<1>2. Len(s) \in Nat
  OBVIOUS
<1> DEFINE w == Nums("uptime", s, k, Bytes)
<1>3. \A n \in 1 .. Len(s) : w[n] = 0
  BY <1>1
<1> HIDE DEF w
<1>4. SumTo(w, Len(s)) = 0
  BY <1>2, <1>3, SumOfZeros
<1> QED
  BY <1>4 DEF SliceSum, w

LEMMA CallSumFacts ==
  ASSUME NEW kind, NEW sl, \A b \in Call : sl[b] \in Seq(Record), NEW q \in Seq(Call), NEW k, NEW f \in Field
  PROVE  /\ CallSum(kind, sl, q, k, f) \in Int
         /\ f # <<"success", 0>> => CallSum(kind, sl, q, k, f) \in Nat
         /\ q = <<>> => CallSum(kind, sl, q, k, f) = 0
         /\ \A c \in Call : CallSum(kind, sl, Append(q, c), k, f)
                              = CallSum(kind, sl, q, k, f) + SliceSum(kind, sl[c], k, f)
<1> DEFINE w == CallNums(kind, sl, q, k, f)
<1>1. Len(q) \in Nat /\ DOMAIN q = 1 .. Len(q)
  OBVIOUS
<1>2. ASSUME NEW i \in 1 .. Len(q)
      PROVE  /\ w[i] = SliceSum(kind, sl[q[i]], k, f) /\ w[i] \in Int
             /\ f # <<"success", 0>> => w[i] \in Nat
  <2>1. q[i] \in Call
    BY <1>1
  <2>2. sl[q[i]] \in Seq(Record)
    BY <2>1
  <2>3. w[i] = SliceSum(kind, sl[q[i]], k, f)
    BY <1>1 DEF CallNums
  <2>4. SliceSum(kind, sl[q[i]], k, f) \in Int /\ (f # <<"success", 0>> => SliceSum(kind, sl[q[i]], k, f) \in Nat)
    BY <2>2, NumsFacts
  <2> QED
    BY <2>3, <2>4
<1>3. CallSum(kind, sl, q, k, f) = SumTo(w, Len(q))
  BY DEF CallSum
<1> HIDE DEF w
<1>4. SumTo(w, Len(q)) \in Int
  BY <1>1, <1>2, SumType
<1>5. f # <<"success", 0>> => SumTo(w, Len(q)) \in Nat
  BY <1>1, <1>2, SumType
<1>6. q = <<>> => SumTo(w, Len(q)) = 0
  <2>1. q = <<>> => Len(q) = 0
    OBVIOUS
  <2> QED
    BY <2>1, SumOfNone
<1>7. ASSUME NEW c \in Call
      PROVE  CallSum(kind, sl, Append(q, c), k, f) = CallSum(kind, sl, q, k, f) + SliceSum(kind, sl[c], k, f)
  <2> DEFINE p == Append(q, c)
             v == CallNums(kind, sl, p, k, f)
  <2>1. Len(p) = Len(q) + 1 /\ DOMAIN p = 1 .. Len(q) + 1 /\ p[Len(q) + 1] = c
        /\ \A i \in 1 .. Len(q) : p[i] = q[i]
    BY <1>1
  <2> HIDE DEF p
  <2>2. \A i \in 1 .. Len(q) + 1 : v[i] = SliceSum(kind, sl[p[i]], k, f)
    BY <2>1 DEF CallNums
  <2>3. \A i \in 1 .. Len(q) : i \in 1 .. Len(q) + 1
    BY <1>1
  <2>4. Len(q) + 1 \in 1 .. Len(q) + 1
    BY <1>1
  <2>5. CallSum(kind, sl, p, k, f) = SumTo(v, Len(q) + 1)
    BY <2>1 DEF CallSum
  <2> HIDE DEF v
  <2>6. \A i \in 1 .. Len(q) : v[i] = w[i]
    BY <1>2, <2>1, <2>2, <2>3
  <2>7. SumTo(v, Len(q) + 1) = SumTo(w, Len(q)) + v[Len(q) + 1]
    BY <1>1, <2>6, SumOneMore
  <2>8. v[Len(q) + 1] = SliceSum(kind, sl[c], k, f)
    BY <2>1, <2>2, <2>4
  <2> QED
    BY <1>3, <2>5, <2>7, <2>8 DEF p
<1> QED
  BY <1>3, <1>4, <1>5, <1>6, <1>7

LEMMA FirstSlice ==
  ASSUME NEW kind, NEW sl, \A b \in Call : sl[b] \in Seq(Record), NEW q \in Seq(Call), q # <<>>, NEW k,
         CallSum(kind, sl, q, k, Hits) = 0
  PROVE  SliceSum(kind, sl[q[1]], k, Hits) = 0
<1> DEFINE w == CallNums(kind, sl, q, k, Hits)
<1>1. Len(q) \in Nat \ {0} /\ DOMAIN q = 1 .. Len(q) /\ 1 \in 1 .. Len(q)
  OBVIOUS
<1>2. ASSUME NEW i \in 1 .. Len(q)
      PROVE  w[i] = SliceSum(kind, sl[q[i]], k, Hits) /\ w[i] \in Nat
  <2>1. q[i] \in Call
    BY <1>1
  <2>2. sl[q[i]] \in Seq(Record)
    BY <2>1
  <2>3. w[i] = SliceSum(kind, sl[q[i]], k, Hits)
    BY <1>1 DEF CallNums
  <2>4. SliceSum(kind, sl[q[i]], k, Hits) \in Nat
    BY <2>2, NumsFacts, BytesField
  <2> QED
    BY <2>3, <2>4
<1>3. SumTo(w, Len(q)) = 0
  BY DEF CallSum
<1> HIDE DEF w
<1>4. w[1] <= SumTo(w, Len(q))
  BY <1>1, <1>2, SumFirst
<1>5. w[1] \in Nat /\ w[1] = SliceSum(kind, sl[q[1]], k, Hits)
  BY <1>1, <1>2
<1> QED
  BY <1>3, <1>4, <1>5

LEMMA RowStep ==
  ASSUME NEW pm \in DOMAIN Profile, NEW sl, \A b \in Call : sl[b] \in Seq(Record), NEW k,
         NEW t, NEW q \in Seq(Call), NEW c \in Call, NEW new \in Counter,
         k \in DOMAIN t => t[k] \in Counter /\ RowRight(Profile[pm].kind, Profile[pm].db, sl, k, t[k], q),
         k \notin DOMAIN t => q = <<>>,
         \A f \in Field : Counts(k, f) => Part(new, f) = SliceSum(Profile[pm].kind, sl[c], k, f)
  PROVE  /\ MergeOf(pm, t, k, new) \in Counter
         /\ RowRight(Profile[pm].kind, Profile[pm].db, sl, k, MergeOf(pm, t, k, new), Append(q, c))
<1> DEFINE out  == MergeOf(pm, t, k, new)
           kind == Profile[pm].kind
           db   == Profile[pm].db
<1>1. /\ out \in Counter
      /\ \A f \in Field \ {Bytes} : Part(out, f) = (IF k \in DOMAIN t THEN Part(t[k], f) ELSE 0) + Part(new, f)
      /\ Counts(k, Bytes) =>
           Part(out, Bytes) = IF db = "mongo" \/ k \notin DOMAIN t THEN Part(new, Bytes)
                              ELSE IF pm = "sqlUptime" THEN Part(t[k], Bytes)
                              ELSE Part(t[k], Bytes) + Part(new, Bytes)
  <2>1. k \in DOMAIN t => t[k] \in Counter
    OBVIOUS
  <2>2. MergeOf(pm, t, k, new) \in Counter
    BY <2>1, MergeFacts
  <2>3. \A f \in Field \ {Bytes} :
          Part(MergeOf(pm, t, k, new), f) = PartBefore(t, k, f) + Part(new, f)
    BY <2>1, MergeFacts
  <2>4. Counts(k, Bytes) => Part(MergeOf(pm, t, k, new), Bytes) = BytesAfter(pm, t, k, new)
    BY <2>1, MergeFacts
  <2> QED
    BY <2>2, <2>3, <2>4 DEF PartBefore, BytesAfter
<1>2. pm = "sqlUptime" => kind = "uptime" /\ db = "sql"
  BY ProfileFacts
<1>3. k \in DOMAIN t => RowRight(kind, db, sl, k, t[k], q)
  OBVIOUS
<1>4. \A f \in Field : Counts(k, f) => Part(new, f) = SliceSum(kind, sl[c], k, f)
  OBVIOUS
<1> HIDE DEF out, kind, db
<1>5. Last(Append(q, c)) = c
  <2>1. Len(Append(q, c)) = Len(q) + 1 /\ Append(q, c)[Len(q) + 1] = c
    OBVIOUS
  <2> QED
    BY <2>1 DEF Last
<1>6. \A f \in Field : /\ CallSum(kind, sl, q, k, f) \in Int
                       /\ SliceSum(kind, sl[c], k, f) \in Int
                       /\ CallSum(kind, sl, Append(q, c), k, f)
                            = CallSum(kind, sl, q, k, f) + SliceSum(kind, sl[c], k, f)
                       /\ q = <<>> => CallSum(kind, sl, q, k, f) = 0
  <2>1. sl[c] \in Seq(Record)
    OBVIOUS
  <2>2. \A f \in Field : SliceSum(kind, sl[c], k, f) \in Int
    BY <2>1, NumsFacts
  <2>3. \A f \in Field : CallSum(kind, sl, q, k, f) \in Int /\ (q = <<>> => CallSum(kind, sl, q, k, f) = 0)
    BY CallSumFacts
  <2>4. \A f \in Field : CallSum(kind, sl, Append(q, c), k, f)
                            = CallSum(kind, sl, q, k, f) + SliceSum(kind, sl[c], k, f)
    BY CallSumFacts
  <2> QED
    BY <2>2, <2>3, <2>4
<1>7. \A f \in Field : Part(new, f) \in Int
  BY PartType
<1>8. ASSUME NEW f \in Field, Counts(k, f)
      PROVE  Part(out, f) = IF f = Bytes /\ db = "mongo" THEN SliceSum(kind, sl[Last(Append(q, c))], k, f)
                            ELSE CallSum(kind, sl, Append(q, c), k, f)
  <2> DEFINE S == CallSum(kind, sl, q, k, f)
             T == SliceSum(kind, sl[c], k, f)
  <2>1. CallSum(kind, sl, Append(q, c), k, f) = S + T /\ S \in Int /\ T \in Int /\ (k \notin DOMAIN t => S = 0)
    BY <1>6
  <2>2. Part(new, f) = T
    BY <1>4, <1>8
  <2>3. k \in DOMAIN t => Part(t[k], f) = IF f = Bytes /\ db = "mongo" THEN SliceSum(kind, sl[Last(q)], k, f) ELSE S
    BY <1>3, <1>8 DEF RowRight
  <2>4. kind = "uptime" /\ f = Bytes => T = 0
    <3>1. sl[c] \in Seq(Record)
      OBVIOUS
    <3> QED
      BY <3>1, UptimeBytes
  <2> HIDE DEF S, T
  <2>5. CASE f = Bytes /\ db = "mongo"
    BY <1>1, <1>5, <1>8, <2>2, <2>5 DEF T
  <2>6. CASE f = Bytes /\ db # "mongo"
    <3>1. Part(out, f) = IF k \notin DOMAIN t THEN T ELSE IF pm = "sqlUptime" THEN S ELSE S + T
      BY <1>1, <1>8, <2>2, <2>3, <2>6
    <3>2. pm = "sqlUptime" => T = 0
      BY <1>2, <2>4, <2>6
    <3>3. Part(out, f) = S + T
      BY <2>1, <3>1, <3>2
    <3> QED
      BY <2>1, <2>6, <3>3
  <2>7. CASE f # Bytes
    <3>1. Part(out, f) = (IF k \in DOMAIN t THEN S ELSE 0) + T
      BY <1>1, <2>2, <2>3, <2>7
    <3>2. Part(out, f) = S + T
      BY <2>1, <3>1
    <3> QED
      BY <2>1, <2>7, <3>2
  <2> QED
    BY <2>5, <2>6, <2>7
<1>9. RowRight(kind, db, sl, k, out, Append(q, c))
  BY <1>8 DEF RowRight
<1> QED
  BY <1>1, <1>9 DEF out, kind, db

(* Nothing but the slices of its calls matters to a row.                     *)
LEMMA RowSlices ==
  ASSUME NEW kind, NEW db, NEW sl, NEW other, NEW k, NEW row, NEW q \in Seq(Call), q # <<>>,
         \A i \in 1 .. Len(q) : sl[q[i]] = other[q[i]], RowRight(kind, db, sl, k, row, q)
  PROVE  RowRight(kind, db, other, k, row, q)
<1>1. Len(q) \in 1 .. Len(q) /\ DOMAIN q = 1 .. Len(q) /\ Len(q) \in Nat
  OBVIOUS
<1>2. sl[Last(q)] = other[Last(q)]
  BY <1>1 DEF Last
<1>3. \A f : CallSum(kind, sl, q, k, f) = CallSum(kind, other, q, k, f)
  <2> SUFFICES ASSUME NEW f PROVE CallSum(kind, sl, q, k, f) = CallSum(kind, other, q, k, f)
    OBVIOUS
  <2> DEFINE v == CallNums(kind, sl, q, k, f)
             w == CallNums(kind, other, q, k, f)
  <2>1. \A i \in 1 .. Len(q) : v[i] = w[i]
    BY <1>1 DEF CallNums
  <2> HIDE DEF v, w
  <2>2. SumTo(v, Len(q)) = SumTo(w, Len(q))
    BY <1>1, <2>1, SumSame
  <2> QED
    BY <2>2 DEF CallSum, v, w
<1> QED
  BY <1>2, <1>3 DEF RowRight

(* The second update of a document leaves all counts as they are.            *)
LEMMA AsTimeUpdateFacts ==
  ASSUME NEW row \in Counter, NEW seen \in Counter
  PROVE  AsTimeUpdate(row, seen) \in Counter /\ \A f \in Field : Part(AsTimeUpdate(row, seen), f) = Part(row, f)
<1> DEFINE out == AsTimeUpdate(row, seen)
           m   == IF seen.hits > 0 THEN <<seen.sum, seen.hits>> ELSE NoMean
<1>1. out = [row EXCEPT !.mean = m]
  BY DEF AsTimeUpdate
<1>2. m \in Nat \X Nat
  BY DEF NoMean, Counter
<1> HIDE DEF m, out
<1>3. out \in Counter
  BY <1>1, <1>2 DEF Counter
<1>4. /\ out.hits = row.hits /\ out.success = row.success /\ out.errors = row.errors
      /\ out.codes = row.codes /\ out.sum = row.sum /\ out.bytes = row.bytes
  BY <1>1 DEF Counter
<1>5. \A f \in Field : Part(out, f) = Part(row, f)
  BY <1>4, FieldCases, PartCases
<1> QED
  BY <1>3, <1>5 DEF out

-----------------------------------------------------------------------------
(* The invariant.                                                            *)

RowTables == UNION {[K -> Counter] : K \in SUBSET Keys}

Calls == [at : {"none", "aggregate", "write", "average", "nil", "error"}, pos : Nat, aggs : Tables,
          left : SUBSET Keys, owner : AllOwners, seen : RowTables]

(* What the variables hold; only a purge loop with a timeout goes on before  *)
(* a call returns.                                                           *)
Typed ==
  /\ pump \in DOMAIN Profile
  /\ timed \in BOOLEAN /\ (pump = "sqlUptime" => ~timed) /\ (~timed => over = {})
  /\ slice \in [Call -> Seq(Record)]
  /\ call \in [Call -> Calls]
  /\ rows \in RowTables
  /\ applied \in [DOMAIN rows -> Seq(Call)]
  /\ next \in 0 .. Len(Lengths)
  /\ over \subseteq 1 .. next
  /\ main \in {"idle", "writing"} /\ (main = "writing" => next # 0)
  /\ died \in BOOLEAN
  /\ faults \in 0 .. MaxFaults

Working(c) == call[c].at \in {"aggregate", "write", "average"}

(* As DiscardAggregations and RowsOf, but not of a state.                    *)
Discards(pm, d) == pm = "mongo" /\ d[1] \in Ignored

RowsFrom(pm, aggs) == {k \in Keys : k[1] \in DOMAIN aggs /\ k[2] \in DOMAIN aggs[k[1]] /\ ~Discards(pm, k[2])}

(* Where a call is, and what its counters are.                               *)
CallInv(c) ==
  /\ c > next => At(c, "none")
  /\ call[c].pos <= Len(slice[c])
  /\ call[c].at \in {"write", "average"} => call[c].pos = Len(slice[c])
  /\ ~Working(c) => call[c] = [Idle EXCEPT !.at = call[c].at]
  /\ At(c, "aggregate") => call[c].left = {}
  /\ call[c].left \subseteq RowsFrom(pump, call[c].aggs)
  /\ Working(c) => Follows(P.kind, slice[c], call[c].pos, call[c].aggs)

(* Each row has counted its calls, each once.                                *)
RowInv(k) ==
  /\ applied[k] # <<>>
  /\ IsInjective(applied[k])
  /\ RowRight(P.kind, P.db, slice, k, rows[k], applied[k])
  /\ \A i \in DOMAIN applied[k] : call[applied[k][i]].at \notin {"none", "aggregate"}

(* Row k has counted call c.                                                 *)
Has(c, k) == k \in DOMAIN rows /\ \E i \in DOMAIN applied[k] : applied[k][i] = c

(* What is left to be written is not written.                                *)
Unapplied(c) == \A k \in call[c].left : ~Has(c, k)

(* Whatever the records of a slice add to is left to be written, or written. *)
Accounted(c) ==
  call[c].at \in {"write", "average", "nil"} /\ (pump = "sqlUptime" => faults = 0) =>
    \A n \in DOMAIN slice[c] : TakesOf(P.kind, slice[c][n]) =>
      \A d \in Adds(slice[c][n]) :
        \/ Discards(pump, d)
        \/ <<OwnerOf(P.kind, slice[c][n]), d>> \in call[c].left
        \/ Has(c, <<OwnerOf(P.kind, slice[c][n]), d>>)

(* Why a call fails: a row that another call made without a hit, and this    *)
(* call has no hits for it.                                                  *)
Excuse(c) ==
  /\ P.db = "sql"
  /\ \E k \in DOMAIN rows :
       /\ SliceSum(P.kind, slice[applied[k][1]], k, Hits) = 0 /\ SliceSum(P.kind, slice[c], k, Hits) = 0
       /\ \E n \in DOMAIN slice[c] : WeightOf(P.kind, slice[c][n], k) > 0

Excused(c) == At(c, "error") /\ c \notin over /\ faults = 0 => Excuse(c)

(* Why the process ends: record n is an error, and the first record of its   *)
(* API before it has no hit.                                                 *)
Fatal(kind, s, n) ==
  /\ InErrorMap(s[n])
  /\ \E m \in 1 .. n - 1 : /\ TakesOf(kind, s[m]) /\ OwnerOf(kind, s[m]) = OwnerOf(kind, s[n])
                           /\ s[m].api = s[n].api /\ ~IsHit(s[m]) /\ IsFirst(kind, s, m)

DeathExplained == died => \E c \in Call : Aggregates(c) /\ Fatal(P.kind, slice[c], call[c].pos + 1)

IInv ==
  /\ Typed
  /\ \A c \in Call : CallInv(c)
  /\ \A k \in DOMAIN rows : RowInv(k)
  /\ \A c \in Call : Unapplied(c)
  /\ \A c \in Call : Accounted(c)
  /\ \A c \in Call : Excused(c)
  /\ DeathExplained

(* The operators of Aggregation and those above say the same.                *)
LEMMA Links ==
  /\ \A r : Takes(r) <=> TakesOf(P.kind, r)
  /\ \A r : Owner(r) = OwnerOf(P.kind, r)
  /\ \A r, k : Weight(r, k) = WeightOf(P.kind, r, k)
  /\ \A c, k, f : OfSlice(c, k, f) = SliceSum(P.kind, slice[c], k, f)
  /\ \A s, k, f : OfCalls(s, k, f) = CallSum(P.kind, slice, s, k, f)
<1>1. \A r : Takes(r) <=> TakesOf(P.kind, r)
  BY DEF Takes, TakesOf
<1>2. \A r : Owner(r) = OwnerOf(P.kind, r)
  BY DEF Owner, OwnerOf
<1>3. \A r, k : Weight(r, k) = WeightOf(P.kind, r, k)
  BY <1>1, <1>2 DEF Weight, WeightOf, TimesIn
<1>4. \A c, k, f : OfSlice(c, k, f) = SliceSum(P.kind, slice[c], k, f)
  <2> SUFFICES ASSUME NEW c, NEW k, NEW f PROVE OfSlice(c, k, f) = SliceSum(P.kind, slice[c], k, f)
    OBVIOUS
  <2>1. [n \in DOMAIN slice[c] |-> OfRecord(slice[c][n], k, f)] = Nums(P.kind, slice[c], k, f)
    BY <1>3 DEF OfRecord, Nums
  <2> QED
    BY <2>1 DEF OfSlice, SliceSum
<1>5. \A s, k, f : OfCalls(s, k, f) = CallSum(P.kind, slice, s, k, f)
  <2> SUFFICES ASSUME NEW s, NEW k, NEW f PROVE OfCalls(s, k, f) = CallSum(P.kind, slice, s, k, f)
    OBVIOUS
  <2>1. [i \in DOMAIN s |-> OfSlice(s[i], k, f)] = CallNums(P.kind, slice, s, k, f)
    BY <1>4 DEF CallNums
  <2> QED
    BY <2>1 DEF OfCalls, CallSum
<1> QED
  BY <1>1, <1>2, <1>3, <1>4, <1>5

LEMMA LinksAdd == \A c, r : Counting(c, r) = AddTo(P.kind, call[c].aggs, r)
BY Links DEF Counting, AddTo, AggsOf, AggOf

LEMMA LinksMerge ==
  ASSUME pump \in DOMAIN Profile
  PROVE  \A c, k : Merged(c, k) = MergeOf(pump, rows, k, New(c, k))
<1>1. P.db \in {"mongo", "sql"}
  BY ProfileFacts DEF P
<1> QED
  BY <1>1 DEF Merged, Document, MergeOf, Exists, P

(* Domains of tables of rows.                                                *)
LEMMA RowTablesFacts ==
  ASSUME NEW t
  PROVE  t \in RowTables <=> /\ DOMAIN t \subseteq Keys
                             /\ t = [k \in DOMAIN t |-> t[k]]
                             /\ \A k \in DOMAIN t : t[k] \in Counter
<1>1. ASSUME t \in RowTables
      PROVE  /\ DOMAIN t \subseteq Keys
             /\ t = [k \in DOMAIN t |-> t[k]]
             /\ \A k \in DOMAIN t : t[k] \in Counter
  <2>1. PICK K \in SUBSET Keys : t \in [K -> Counter]
    BY <1>1 DEF RowTables
  <2> QED
    BY <2>1
<1>2. ASSUME /\ DOMAIN t \subseteq Keys
             /\ t = [k \in DOMAIN t |-> t[k]]
             /\ \A k \in DOMAIN t : t[k] \in Counter
      PROVE  t \in RowTables
  <2>1. t \in [DOMAIN t -> Counter]
    BY <1>2
  <2>2. DOMAIN t \in SUBSET Keys
    BY <1>2
  <2> QED
    BY <2>1, <2>2 DEF RowTables
<1> QED
  BY <1>1, <1>2

(* The rows of a call, and what their new counters are.                      *)
LEMMA RowsOfFacts ==
  ASSUME NEW c \in Call, Typed
  PROVE  /\ RowsOf(c) = RowsFrom(pump, call[c].aggs)
         /\ RowsOf(c) \subseteq Keys
         /\ \A k \in RowsOf(c) : New(c, k) \in Counter /\ k[1] \in DOMAIN call[c].aggs
                                 /\ k[2] \in DOMAIN call[c].aggs[k[1]]
<1> DEFINE aggs == call[c].aggs
<1>1. aggs \in Tables
  BY DEF Typed, Calls
<1>2. DOMAIN aggs \subseteq AllOwners /\ \A o \in DOMAIN aggs : aggs[o] \in OwnerCounters
  BY <1>1, TablesFacts
<1>3. \A o \in DOMAIN aggs : DOMAIN aggs[o] \subseteq Dims /\ \A d \in DOMAIN aggs[o] : aggs[o][d] \in Counter
  BY <1>2, OwnerCountersFacts
<1>4. \A k : k \in RowsOf(c) <=> \E o \in DOMAIN aggs : \E d \in DOMAIN aggs[o] : k = <<o, d>> /\ ~DiscardAggregations(d)
  BY DEF RowsOf
<1> HIDE DEF aggs
<1>5. RowsOf(c) \subseteq Keys
  BY <1>2, <1>3, <1>4 DEF Keys
<1>7. RowsOf(c) = RowsFrom(pump, aggs)
  <2>1. \A k \in RowsFrom(pump, aggs) : k = <<k[1], k[2]>>
    BY DEF RowsFrom, Keys
  <2>2. \A d : DiscardAggregations(d) <=> Discards(pump, d)
    BY DEF DiscardAggregations, Discards
  <2>3. \A k \in RowsFrom(pump, aggs) : k \in RowsOf(c)
    BY <1>4, <2>1, <2>2 DEF RowsFrom
  <2>4. ASSUME NEW k \in RowsOf(c) PROVE k \in RowsFrom(pump, aggs)
    <3>1. PICK o \in DOMAIN aggs : \E d \in DOMAIN aggs[o] : k = <<o, d>> /\ ~DiscardAggregations(d)
      BY <1>4
    <3>2. PICK d \in DOMAIN aggs[o] : k = <<o, d>> /\ ~DiscardAggregations(d)
      BY <3>1
    <3>3. k[1] = o /\ k[2] = d
      BY <3>2
    <3> QED
      BY <1>5, <2>2, <3>2, <3>3 DEF RowsFrom
  <2> QED
    BY <2>3, <2>4
<1>6. \A k \in RowsOf(c) : New(c, k) \in Counter /\ k[1] \in DOMAIN aggs /\ k[2] \in DOMAIN aggs[k[1]]
  <2> SUFFICES ASSUME NEW k \in RowsOf(c)
               PROVE  New(c, k) \in Counter /\ k[1] \in DOMAIN aggs /\ k[2] \in DOMAIN aggs[k[1]]
    OBVIOUS
  <2>1. PICK o \in DOMAIN aggs : \E d \in DOMAIN aggs[o] : k = <<o, d>>
    BY <1>4
  <2>2. PICK d \in DOMAIN aggs[o] : k = <<o, d>>
    BY <2>1
  <2>3. k[1] = o /\ k[2] = d
    BY <2>2
  <2>4. New(c, k) = aggs[k[1]][k[2]]
    BY DEF New, aggs
  <2> QED
    BY <1>3, <2>3, <2>4
<1> QED
  BY <1>5, <1>6, <1>7 DEF aggs

LEMMA NewFacts ==
  ASSUME NEW c \in Call, Typed, CallInv(c), call[c].at \in {"write", "average"}, NEW k \in RowsOf(c)
  PROVE  /\ \A f \in Field : Counts(k, f) => Part(New(c, k), f) = SliceSum(P.kind, slice[c], k, f)
         /\ \E n \in DOMAIN slice[c] : Weight(slice[c][n], k) > 0
<1> DEFINE aggs == call[c].aggs
           s    == slice[c]
<1>1. s \in Seq(Record) /\ Len(s) \in Nat /\ DOMAIN s = 1 .. Len(s)
  BY DEF Typed
<1>2. Follows(P.kind, s, Len(s), aggs)
  BY DEF CallInv, Working
<1>3. New(c, k) \in Counter /\ k[1] \in DOMAIN aggs /\ k[2] \in DOMAIN aggs[k[1]] /\ k \in Keys
  BY RowsOfFacts
<1>4. New(c, k) = aggs[k[1]][k[2]]
  BY DEF New
<1> HIDE DEF aggs, s
<1>5. SumsRight(P.kind, s, Len(s), aggs) /\ Sources(P.kind, s, Len(s), aggs)
  BY <1>2 DEF Follows
<1>6. \A f \in Field : Counts(k, f) => Part(New(c, k), f) = SliceSum(P.kind, s, k, f)
  <2>1. \A f : PartIn(aggs, k, f) = Part(New(c, k), f)
    BY <1>3, <1>4 DEF PartIn, PartAt
  <2> QED
    BY <1>3, <1>5, <2>1 DEF SumsRight, SliceSum
<1>7. \E n \in DOMAIN s : Weight(s[n], k) > 0
  <2>1. k = <<k[1], k[2]>>
    BY <1>3 DEF Keys
  <2>2. PICK n \in 1 .. Len(s) : WeightOf(P.kind, s[n], <<k[1], k[2]>>) # 0
    BY <1>3, <1>5 DEF Sources
  <2>4. WeightOf(P.kind, s[n], k) \in Nat
    BY <1>1, NumsFacts, BytesField
  <2>5. Weight(s[n], k) = WeightOf(P.kind, s[n], k)
    BY Links
  <2> QED
    BY <1>1, <2>1, <2>2, <2>4, <2>5
<1> QED
  BY <1>6, <1>7 DEF s

-----------------------------------------------------------------------------
(* Rows B are written, with the counters of call c: what a statement of any  *)
(* kind leaves, whether it fails or not.                                     *)
Written(c, B) ==
  /\ rows' \in RowTables
  /\ applied' \in [DOMAIN rows' -> Seq(Call)]
  /\ \A k \in DOMAIN rows' :
       /\ applied'[k] # <<>>
       /\ IsInjective(applied'[k])
       /\ RowRight(P.kind, P.db, slice, k, rows'[k], applied'[k])
       /\ \A i \in DOMAIN applied'[k] :
            \/ applied'[k][i] = c /\ k \in B
            \/ k \in DOMAIN rows /\ \E j \in DOMAIN applied[k] : applied[k][j] = applied'[k][i]
  /\ \A k \in DOMAIN rows :
       /\ k \in DOMAIN rows' /\ applied'[k][1] = applied[k][1]
       /\ \A j \in DOMAIN applied[k] : \E i \in DOMAIN applied'[k] : applied'[k][i] = applied[k][j]
  /\ \A k \in B : k \in DOMAIN rows' /\ \E i \in DOMAIN applied'[k] : applied'[k][i] = c

LEMMA SameWrites ==
  ASSUME NEW c \in Call, Typed, \A k \in DOMAIN rows : RowInv(k), UNCHANGED <<rows, applied>>
  PROVE  Written(c, {})
<1>1. rows' \in RowTables /\ applied' \in [DOMAIN rows' -> Seq(Call)]
  BY DEF Typed
<1> QED
  BY <1>1 DEF Written, RowInv

LEMMA AveragesWrite ==
  ASSUME NEW c \in Call, Typed, \A k \in DOMAIN rows : RowInv(k), SetsAverages(c), UNCHANGED applied
  PROVE  Written(c, {})
<1> DEFINE seen == call[c].seen
           new(k) == IF k \in DOMAIN seen THEN AsTimeUpdate(rows[k], seen[k]) ELSE rows[k]
<1>1. rows' = [k \in DOMAIN rows |-> new(k)]
  BY DEF SetsAverages
<1>2. DOMAIN rows \subseteq Keys /\ \A k \in DOMAIN rows : rows[k] \in Counter
  BY RowTablesFacts DEF Typed
<1>3. \A k \in DOMAIN seen : seen[k] \in Counter
  <2>1. seen \in RowTables
    BY DEF Typed, Calls
  <2> HIDE DEF seen
  <2> QED
    BY <2>1, RowTablesFacts
<1> HIDE DEF seen
<1>4. ASSUME NEW k \in DOMAIN rows
      PROVE  new(k) \in Counter /\ \A f \in Field : Part(new(k), f) = Part(rows[k], f)
  BY <1>2, <1>3, AsTimeUpdateFacts
<1> HIDE DEF new
<1>5. DOMAIN rows' = DOMAIN rows /\ rows' = [k \in DOMAIN rows' |-> rows'[k]] /\ \A k \in DOMAIN rows : rows'[k] = new(k)
  BY <1>1
<1>6. rows' \in RowTables
  <2>1. \A k \in DOMAIN rows' : rows'[k] \in Counter
    BY <1>4, <1>5
  <2> QED
    BY <1>2, <1>5, <2>1, RowTablesFacts
<1>7. applied' \in [DOMAIN rows' -> Seq(Call)]
  BY <1>5 DEF Typed
<1>8. \A k \in DOMAIN rows' : RowRight(P.kind, P.db, slice, k, rows'[k], applied'[k])
  BY <1>4, <1>5 DEF RowInv, RowRight
<1> QED
  BY <1>5, <1>6, <1>7, <1>8 DEF Written, RowInv

(* p are the calls q and call c, which is not one of them.                   *)
OneMore(q, c, p) ==
  /\ p \in Seq(Call) /\ p # <<>> /\ IsInjective(p)
  /\ \A i \in DOMAIN p : p[i] = c \/ \E j \in DOMAIN q : q[j] = p[i]
  /\ \A j \in DOMAIN q : \E i \in DOMAIN p : p[i] = q[j]
  /\ \E i \in DOMAIN p : p[i] = c
  /\ q # <<>> => p[1] = q[1]

LEMMA AppendCall ==
  ASSUME NEW q \in Seq(Call), NEW c \in Call, IsInjective(q), \A i \in DOMAIN q : q[i] # c
  PROVE  OneMore(q, c, Append(q, c))
<1> SUFFICES ASSUME NEW p, p = Append(q, c) PROVE OneMore(q, c, p)
  OBVIOUS
<1>1. Len(q) \in Nat /\ DOMAIN q = 1 .. Len(q)
  OBVIOUS
<1>2. p \in Seq(Call) /\ Len(p) = Len(q) + 1 /\ DOMAIN p = 1 .. Len(q) + 1
  OBVIOUS
<1>3. p[Len(q) + 1] = c /\ \A i \in 1 .. Len(q) : p[i] = q[i]
  OBVIOUS
<1>4. q # <<>> => 1 \in 1 .. Len(q)
  BY <1>1
<1>5. Len(q) + 1 \in DOMAIN p /\ \A j \in DOMAIN q : j \in DOMAIN p
  BY <1>1, <1>2
<1>6. \A i \in DOMAIN p : i \in DOMAIN q \/ i = Len(q) + 1
  BY <1>1, <1>2
<1>7. \A i \in DOMAIN p : i \in DOMAIN q => p[i] = q[i]
  BY <1>1, <1>3
<1>8. IsInjective(p)
  <2> SUFFICES ASSUME NEW i \in DOMAIN p, NEW j \in DOMAIN p, p[i] = p[j] PROVE i = j
    BY DEF IsInjective
  <2>1. CASE i \in DOMAIN q /\ j \in DOMAIN q
    BY <1>7, <2>1 DEF IsInjective
  <2>2. CASE i \in DOMAIN q /\ j = Len(q) + 1
    BY <1>3, <1>7, <2>2
  <2>3. CASE i = Len(q) + 1 /\ j \in DOMAIN q
    BY <1>3, <1>7, <2>3
  <2> QED
    BY <1>6, <2>1, <2>2, <2>3
<1>9. p # <<>>
  BY <1>1, <1>2
<1>10. q # <<>> => p[1] = q[1]
  BY <1>3, <1>4
<1>11. \A i \in DOMAIN p : p[i] = c \/ \E j \in DOMAIN q : q[j] = p[i]
  BY <1>3, <1>6, <1>7
<1>12. \A j \in DOMAIN q : \E i \in DOMAIN p : p[i] = q[j]
  BY <1>5, <1>7
<1>13. \E i \in DOMAIN p : p[i] = c
  BY <1>3, <1>5
<1>14. p \in Seq(Call)
  BY <1>2
<1> QED
  BY <1>8, <1>9, <1>10, <1>11, <1>12, <1>13, <1>14 DEF OneMore

LEMMA MergesWrite ==
  ASSUME NEW c \in Call, Typed, CallInv(c), At(c, "write"), Unapplied(c), \A k \in DOMAIN rows : RowInv(k),
         NEW B, B \subseteq call[c].left, Merges(c, B)
  PROVE  Written(c, B)
<1> DEFINE new(k) == MergeOf(pump, rows, k, New(c, k))
           old(k) == IF k \in DOMAIN rows THEN applied[k] ELSE <<>>
<1>1. pump \in DOMAIN Profile /\ slice \in [Call -> Seq(Record)] /\ applied \in [DOMAIN rows -> Seq(Call)]
      /\ DOMAIN applied = DOMAIN rows
  BY DEF Typed
<1>2. DOMAIN rows \subseteq Keys /\ \A k \in DOMAIN rows : rows[k] \in Counter
  BY RowTablesFacts DEF Typed
<1>3. rows' = [k \in DOMAIN rows \cup B |-> IF k \in B THEN new(k) ELSE rows[k]]
  <2>1. \A k : Merged(c, k) = new(k)
    BY <1>1, LinksMerge
  <2> QED
    BY <2>1 DEF Merges
<1>4. applied' = [k \in DOMAIN rows \cup B |-> IF k \notin B THEN applied[k] ELSE Append(old(k), c)]
  BY <1>1 DEF Merges, Exists
<1>5. B \subseteq RowsOf(c) /\ B \subseteq Keys
  BY RowsOfFacts DEF CallInv
<1>6. \A k : k \in DOMAIN rows => old(k) = applied[k]
  OBVIOUS
<1>7. \A k : k \notin DOMAIN rows => old(k) = <<>>
  OBVIOUS
<1> HIDE DEF new, old
<1>8. \A k \in DOMAIN rows : applied[k] \in Seq(Call)
  BY <1>1
<1>9. ASSUME NEW k \in B
      PROVE  old(k) \in Seq(Call) /\ IsInjective(old(k)) /\ \A i \in DOMAIN old(k) : old(k)[i] # c
  <2>1. CASE k \in DOMAIN rows
    BY <1>6, <1>8, <2>1 DEF RowInv, Unapplied, Has
  <2>2. CASE k \notin DOMAIN rows
    <3>1. <<>> \in Seq(Call) /\ DOMAIN <<>> = {}
      OBVIOUS
    <3> QED
      BY <1>7, <2>2, <3>1 DEF IsInjective
  <2> QED
    BY <2>1, <2>2
<1>10. ASSUME NEW k \in B
       PROVE  new(k) \in Counter /\ RowRight(P.kind, P.db, slice, k, new(k), Append(old(k), c))
  <2> DEFINE n == New(c, k)
             q == old(k)
  <2>1. n \in Counter /\ \A f \in Field : Counts(k, f) => Part(n, f) = SliceSum(Profile[pump].kind, slice[c], k, f)
    BY <1>5, RowsOfFacts, NewFacts DEF At, P
  <2>2. k \in DOMAIN rows => rows[k] \in Counter /\ RowRight(Profile[pump].kind, Profile[pump].db, slice, k, rows[k], q)
    BY <1>2, <1>6 DEF RowInv, P
  <2>3. k \notin DOMAIN rows => q = <<>>
    BY <1>7
  <2>4. q \in Seq(Call)
    BY <1>9
  <2>5. \A b \in Call : slice[b] \in Seq(Record)
    BY <1>1
  <2> HIDE DEF n, q
  <2>6. /\ MergeOf(pump, rows, k, n) \in Counter
        /\ RowRight(Profile[pump].kind, Profile[pump].db, slice, k, MergeOf(pump, rows, k, n), Append(q, c))
    BY <1>1, <2>1, <2>2, <2>3, <2>4, <2>5, RowStep
  <2> QED
    BY <2>6 DEF n, q, new, P
<1>11. DOMAIN rows' = DOMAIN rows \cup B /\ DOMAIN applied' = DOMAIN rows \cup B
  BY <1>3, <1>4
<1>12. \A k \in DOMAIN rows' : rows'[k] = IF k \in B THEN new(k) ELSE rows[k]
  BY <1>3
<1>13. \A k \in DOMAIN rows' : applied'[k] = IF k \notin B THEN applied[k] ELSE Append(old(k), c)
  BY <1>3, <1>4
<1>14. rows' \in RowTables
  <2>1. rows' = [k \in DOMAIN rows' |-> rows'[k]]
    BY <1>3
  <2>2. \A k \in DOMAIN rows' : rows'[k] \in Counter
    BY <1>2, <1>10, <1>11, <1>12
  <2> QED
    BY <1>2, <1>5, <1>11, <2>1, <2>2, RowTablesFacts
<1>15. ASSUME NEW k \in B
       PROVE  OneMore(old(k), c, applied'[k])
  <2>1. applied'[k] = Append(old(k), c)
    BY <1>11, <1>13
  <2>2. \A q \in Seq(Call) : IsInjective(q) /\ (\A i \in DOMAIN q : q[i] # c) => OneMore(q, c, Append(q, c))
    BY AppendCall
  <2> QED
    BY <1>9, <2>1, <2>2
<1>16. applied' \in [DOMAIN rows' -> Seq(Call)]
  <2>1. applied' = [k \in DOMAIN rows' |-> applied'[k]]
    BY <1>4, <1>11
  <2>2. \A k \in DOMAIN rows' : applied'[k] \in Seq(Call)
    BY <1>8, <1>11, <1>13, <1>15 DEF OneMore
  <2> QED
    BY <2>1, <2>2
<1>17. ASSUME NEW k \in DOMAIN rows'
       PROVE  /\ applied'[k] # <<>>
              /\ IsInjective(applied'[k])
              /\ RowRight(P.kind, P.db, slice, k, rows'[k], applied'[k])
              /\ \A i \in DOMAIN applied'[k] :
                   \/ applied'[k][i] = c /\ k \in B
                   \/ k \in DOMAIN rows /\ \E j \in DOMAIN applied[k] : applied[k][j] = applied'[k][i]
  <2>1. CASE k \in B
    <3>1. RowRight(P.kind, P.db, slice, k, rows'[k], applied'[k])
      BY <1>10, <1>12, <1>13, <2>1
    <3>2. \A i \in DOMAIN applied'[k] :
            \/ applied'[k][i] = c
            \/ k \in DOMAIN rows /\ \E j \in DOMAIN applied[k] : applied[k][j] = applied'[k][i]
      <4>1. CASE k \in DOMAIN rows
        BY <1>6, <1>15, <2>1, <4>1 DEF OneMore
      <4>2. CASE k \notin DOMAIN rows
        <5>1. DOMAIN old(k) = {}
          BY <1>7, <4>2
        <5> QED
          BY <1>15, <2>1, <5>1 DEF OneMore
      <4> QED
        BY <4>1, <4>2
    <3> QED
      BY <1>15, <2>1, <3>1, <3>2 DEF OneMore
  <2>2. CASE k \notin B
    <3>1. k \in DOMAIN rows /\ rows'[k] = rows[k] /\ applied'[k] = applied[k]
      BY <1>11, <1>12, <1>13, <2>2
    <3> QED
      BY <3>1 DEF RowInv
  <2> QED
    BY <2>1, <2>2
<1>18. ASSUME NEW k \in DOMAIN rows
       PROVE  /\ k \in DOMAIN rows' /\ applied'[k][1] = applied[k][1]
              /\ \A j \in DOMAIN applied[k] : \E i \in DOMAIN applied'[k] : applied'[k][i] = applied[k][j]
  <2>1. k \in DOMAIN rows'
    BY <1>11
  <2>2. CASE k \in B
    <3>1. old(k) = applied[k] /\ applied[k] # <<>>
      BY <1>6 DEF RowInv
    <3> QED
      BY <1>15, <2>1, <2>2, <3>1 DEF OneMore
  <2>3. CASE k \notin B
    BY <1>13, <2>1, <2>3
  <2> QED
    BY <2>1, <2>2, <2>3
<1> QED
  BY <1>11, <1>14, <1>15, <1>16, <1>17, <1>18 DEF Written, OneMore

-----------------------------------------------------------------------------
(* What a step leaves alone keeps its part of the invariant.                 *)
LEMMA SameCall ==
  ASSUME NEW b \in Call, CallInv(b), pump' = pump, slice'[b] = slice[b], call'[b] = call[b],
         b > next' => b > next
  PROVE  CallInv(b)'
BY DEF CallInv, Working, At, P

LEMMA SameExcuse ==
  ASSUME NEW b \in Call, Excused(b), pump' = pump, slice' = slice, call'[b] = call[b], over \subseteq over',
         faults \in Nat, faults' \in Nat, faults' >= faults,
         \A k \in DOMAIN rows : k \in DOMAIN rows' /\ applied'[k][1] = applied[k][1]
  PROVE  Excused(b)'
<1>1. P' = P
  BY DEF P
<1>2. Excuse(b) => Excuse(b)'
  <2> SUFFICES ASSUME Excuse(b) PROVE Excuse(b)'
    OBVIOUS
  <2>1. PICK k \in DOMAIN rows :
          /\ SliceSum(P.kind, slice[applied[k][1]], k, Hits) = 0 /\ SliceSum(P.kind, slice[b], k, Hits) = 0
          /\ \E n \in DOMAIN slice[b] : WeightOf(P.kind, slice[b][n], k) > 0
    BY DEF Excuse
  <2> QED
    BY <1>1, <2>1 DEF Excuse
<1>3. faults' = 0 => faults = 0
  OBVIOUS
<1> QED
  BY <1>2, <1>3 DEF Excused, At

LEMMA SameAccount ==
  ASSUME NEW b \in Call, Accounted(b), pump' = pump, slice'[b] = slice[b], call'[b] = call[b],
         faults \in Nat, faults' \in Nat, faults' >= faults, \A k : Has(b, k) => Has(b, k)'
  PROVE  Accounted(b)'
<1>1. P' = P
  BY DEF P
<1>2. faults' = 0 => faults = 0
  OBVIOUS
<1> QED
  BY <1>1, <1>2 DEF Accounted

(* The slice, the rest of a call, and what it has counted of it, as a call   *)
(* is being written; then it goes on, returns, or fails.                     *)
GoesOn(c, B, new) ==
  /\ new.at \in {"write", "average"} /\ new.pos = call[c].pos /\ new.aggs = call[c].aggs
  /\ new.left \subseteq call[c].left \ B
  /\ (pump = "sqlUptime" => faults' = 0) => new.left = call[c].left \ B

Succeeds(c, new) == new = [Idle EXCEPT !.at = "nil"] /\ call[c].left = {}

GivesUp(c, new) == new = [Idle EXCEPT !.at = "error"] /\ (c \notin over /\ faults' = 0 => Excuse(c))

LEMMA WrittenHas ==
  ASSUME NEW c \in Call, NEW B, Written(c, B)
  PROVE  /\ \A b, k : Has(b, k) => Has(b, k)'
         /\ \A b, k : Has(b, k)' => Has(b, k) \/ (b = c /\ k \in B)
         /\ \A k \in B : Has(c, k)'
<1>1. \A b, k : Has(b, k) => Has(b, k)'
  <2> SUFFICES ASSUME NEW b, NEW k, Has(b, k) PROVE Has(b, k)'
    OBVIOUS
  <2>1. k \in DOMAIN rows
    BY DEF Has
  <2>2. PICK j \in DOMAIN applied[k] : applied[k][j] = b
    BY DEF Has
  <2>3. k \in DOMAIN rows' /\ \E i \in DOMAIN applied'[k] : applied'[k][i] = applied[k][j]
    BY <2>1 DEF Written
  <2> QED
    BY <2>2, <2>3 DEF Has
<1>2. \A b, k : Has(b, k)' => Has(b, k) \/ (b = c /\ k \in B)
  <2> SUFFICES ASSUME NEW b, NEW k, Has(b, k)' PROVE Has(b, k) \/ (b = c /\ k \in B)
    OBVIOUS
  <2>1. k \in DOMAIN rows'
    BY DEF Has
  <2>2. PICK i \in DOMAIN applied'[k] : applied'[k][i] = b
    BY DEF Has
  <2>3. \/ applied'[k][i] = c /\ k \in B
        \/ k \in DOMAIN rows /\ \E j \in DOMAIN applied[k] : applied[k][j] = applied'[k][i]
    BY <2>1 DEF Written
  <2> QED
    BY <2>2, <2>3 DEF Has
<1>3. \A k \in B : Has(c, k)'
  BY DEF Written, Has
<1> QED
  BY <1>1, <1>2, <1>3

LEMMA AfterWrite ==
  ASSUME IInv, NEW c \in Call, call[c].at \in {"write", "average"}, NEW B, B \subseteq call[c].left,
         Written(c, B), UNCHANGED <<pump, timed, slice, loop, died>>,
         faults' \in 0 .. MaxFaults, faults' >= faults,
         NEW new \in Calls, call' = [call EXCEPT ![c] = new],
         GoesOn(c, B, new) \/ Succeeds(c, new) \/ GivesUp(c, new)
  PROVE  IInv'
<1> USE DEF loop
<1>1. /\ Typed /\ (\A b \in Call : CallInv(b)) /\ (\A k \in DOMAIN rows : RowInv(k))
      /\ (\A b \in Call : Unapplied(b)) /\ (\A b \in Call : Accounted(b)) /\ (\A b \in Call : Excused(b))
      /\ DeathExplained
  BY DEF IInv
<1>2. /\ call'[c] = new /\ (\A b \in Call \ {c} : call'[b] = call[b]) /\ call' \in [Call -> Calls]
      /\ P' = P /\ faults \in Nat /\ faults' \in Nat
  BY <1>1, AggregationAssumption DEF Typed, P
<1>3. /\ \A b, k : Has(b, k) => Has(b, k)'
      /\ \A k \in B : Has(c, k)'
  BY WrittenHas
<1>4. Typed'
  BY <1>1, <1>2 DEF Typed, Written
<1>5. new.at \in {"write", "average", "nil", "error"} /\ new.left \subseteq call[c].left
  BY DEF GoesOn, Succeeds, GivesUp, Idle
<1>6. \A b \in Call : CallInv(b)'
  <2> SUFFICES ASSUME NEW b \in Call PROVE CallInv(b)'
    OBVIOUS
  <2>1. CASE b # c
    BY <1>1, <1>2, <2>1, SameCall
  <2>2. CASE b = c
    <3>1. CallInv(c) /\ ~(c > next)
      BY <1>1 DEF CallInv, At
    <3>2. CASE GoesOn(c, B, new)
      BY <1>2, <2>2, <3>1, <3>2 DEF GoesOn, CallInv, Working, At
    <3>3. CASE Succeeds(c, new) \/ GivesUp(c, new)
      <4>1. new = [Idle EXCEPT !.at = new.at] /\ new.at \in {"nil", "error"} /\ new.pos = 0 /\ new.left = {}
        BY <3>3 DEF Succeeds, GivesUp, Idle
      <4>2. 0 <= Len(slice[c])
        BY <1>1 DEF Typed
      <4> QED
        BY <1>2, <2>2, <3>1, <4>1, <4>2 DEF CallInv, Working, At
    <3> QED
      BY <3>2, <3>3
  <2> QED
    BY <2>1, <2>2
<1>7. ASSUME NEW k \in DOMAIN rows' PROVE RowInv(k)'
  <2>1. /\ applied'[k] # <<>> /\ IsInjective(applied'[k])
        /\ RowRight(P.kind, P.db, slice, k, rows'[k], applied'[k])
    BY DEF Written
  <2>2. ASSUME NEW i \in DOMAIN applied'[k] PROVE call'[applied'[k][i]].at \notin {"none", "aggregate"}
    <3> DEFINE b == applied'[k][i]
    <3>1. b \in Call
      BY <1>4 DEF Typed
    <3>2. CASE b = c
      BY <1>2, <1>5, <3>2
    <3>3. CASE b # c
      <4>1. k \in DOMAIN rows /\ \E j \in DOMAIN applied[k] : applied[k][j] = b
        BY <3>3 DEF Written
      <4>2. call[b].at \notin {"none", "aggregate"}
        BY <1>1, <4>1 DEF RowInv
      <4> QED
        BY <1>2, <3>1, <3>3, <4>2
    <3> QED
      BY <3>2, <3>3
  <2> QED
    BY <1>2, <2>1, <2>2 DEF RowInv
<1>8. \A b \in Call : Unapplied(b)'
  <2> SUFFICES ASSUME NEW b \in Call, NEW k \in call'[b].left PROVE ~Has(b, k)'
    BY DEF Unapplied
  <2>1. CASE b # c
    BY <1>1, <1>2, <2>1, WrittenHas DEF Unapplied
  <2>2. CASE b = c
    <3>1. k \in call[c].left \ B
      BY <1>2, <2>2 DEF GoesOn, Succeeds, GivesUp, Idle
    <3> QED
      BY <1>1, <2>2, <3>1, WrittenHas DEF Unapplied
  <2> QED
    BY <2>1, <2>2
<1>9. \A b \in Call : Accounted(b)'
  <2> SUFFICES ASSUME NEW b \in Call PROVE Accounted(b)'
    OBVIOUS
  <2>1. CASE b # c
    BY <1>1, <1>2, <2>1, SameAccount, WrittenHas
  <2>2. CASE b = c
    <3>1. SUFFICES ASSUME new.at \in {"write", "average", "nil"}, pump = "sqlUptime" => faults' = 0,
                          NEW n \in DOMAIN slice[c], TakesOf(P.kind, slice[c][n]), NEW d \in Adds(slice[c][n]),
                          NEW k, k = <<OwnerOf(P.kind, slice[c][n]), d>>
                   PROVE  Discards(pump, d) \/ k \in new.left \/ Has(c, k)'
      BY <1>2, <2>2 DEF Accounted
    <3>2. pump = "sqlUptime" => faults = 0
      BY <1>2, <3>1
    <3>3. Discards(pump, d) \/ k \in call[c].left \/ Has(c, k)
      BY <1>1, <3>1, <3>2 DEF Accounted
    <3>4. Has(c, k) => Has(c, k)'
      BY <1>3
    <3>5. k \in B => Has(c, k)'
      BY <1>3
    <3>6. k \in call[c].left \ B => k \in new.left
      BY <3>1 DEF GoesOn, Succeeds, GivesUp, Idle
    <3> QED
      BY <3>3, <3>4, <3>5, <3>6
  <2> QED
    BY <2>1, <2>2
<1>10. \A b \in Call : Excused(b)'
  <2> SUFFICES ASSUME NEW b \in Call PROVE Excused(b)'
    OBVIOUS
  <2>1. \A k \in DOMAIN rows : k \in DOMAIN rows' /\ applied'[k][1] = applied[k][1]
    BY DEF Written
  <2>2. CASE b # c
    BY <1>1, <1>2, <2>1, <2>2, SameExcuse
  <2>3. CASE b = c
    <3>1. SUFFICES ASSUME new.at = "error", c \notin over, faults' = 0 PROVE Excuse(c)'
      BY <1>2, <2>3 DEF Excused, At
    <3>2. Excuse(c)
      BY <3>1 DEF GoesOn, Succeeds, GivesUp, Idle
    <3>3. PICK k \in DOMAIN rows :
            /\ SliceSum(P.kind, slice[applied[k][1]], k, Hits) = 0 /\ SliceSum(P.kind, slice[c], k, Hits) = 0
            /\ \E n \in DOMAIN slice[c] : WeightOf(P.kind, slice[c][n], k) > 0
      BY <3>2 DEF Excuse
    <3> QED
      BY <1>2, <2>1, <3>2, <3>3 DEF Excuse
  <2> QED
    BY <2>2, <2>3
<1>11. DeathExplained'
  <2>1. CASE died
    <3>1. PICK b \in Call : Aggregates(b) /\ Fatal(P.kind, slice[b], call[b].pos + 1)
      BY <1>1, <2>1 DEF DeathExplained
    <3>2. b # c
      BY <3>1 DEF Aggregates, At
    <3> QED
      BY <1>2, <3>1, <3>2 DEF DeathExplained, Aggregates, At
  <2>2. CASE ~died
    BY <2>2 DEF DeathExplained
  <2> QED
    BY <2>1, <2>2
<1> QED
  BY <1>4, <1>6, <1>7, <1>8, <1>9, <1>10, <1>11 DEF IInv

-----------------------------------------------------------------------------
(* Writing, action by action.                                                *)
LEMMA IdleFacts ==
  /\ <<>> \in Tables /\ <<>> \in RowTables
  /\ \A how \in {"none", "aggregate", "write", "average", "nil", "error"} : [Idle EXCEPT !.at = how] \in Calls
<1>1. DOMAIN <<>> = {} /\ <<>> = [k \in DOMAIN <<>> |-> <<>>[k]]
  OBVIOUS
<1>2. <<>> \in Tables /\ <<>> \in RowTables
  BY <1>1, TablesFacts, RowTablesFacts
<1>3. NoValue \in AllOwners
  BY DEF AllOwners
<1> QED
  BY <1>2, <1>3 DEF Idle, Calls

LEMMA RefusedExcuses ==
  ASSUME IInv, NEW c \in Call, At(c, "write"), NEW B, B \subseteq call[c].left, Refused(c, B)
  PROVE  Excuse(c)
<1>1. /\ Typed /\ CallInv(c) /\ (\A k \in DOMAIN rows : RowInv(k)) /\ P.db = "sql"
  BY DEF IInv, Refused
<1>2. PICK k \in B : k \in DOMAIN rows /\ rows[k].hits + New(c, k).hits = 0
  BY DEF Refused, Exists, DividesByZero
<1>3. k \in RowsOf(c)
  BY <1>1, RowsOfFacts DEF CallInv
<1>4. rows[k] \in Counter /\ New(c, k) \in Counter
  BY <1>1, <1>2, <1>3, RowsOfFacts, RowTablesFacts DEF Typed
<1>5. rows[k].hits = 0 /\ New(c, k).hits = 0
  BY <1>2, <1>4 DEF Counter
<1>6. Part(rows[k], Hits) = 0 /\ Part(New(c, k), Hits) = 0
  BY <1>5, PartCases, BytesField
<1>7. Counts(k, Hits)
  BY BytesField DEF Counts
<1>8. SliceSum(P.kind, slice[c], k, Hits) = 0 /\ \E n \in DOMAIN slice[c] : Weight(slice[c][n], k) > 0
  BY <1>1, <1>3, <1>6, <1>7, BytesField, NewFacts DEF At
<1>9. CallSum(P.kind, slice, applied[k], k, Hits) = 0
  BY <1>1, <1>2, <1>6, <1>7, BytesField DEF RowInv, RowRight
<1>10. SliceSum(P.kind, slice[applied[k][1]], k, Hits) = 0
  <2>1. applied[k] \in Seq(Call) /\ applied[k] # <<>> /\ \A b \in Call : slice[b] \in Seq(Record)
    BY <1>1, <1>2 DEF Typed, RowInv
  <2> DEFINE q == applied[k]
             sl == slice
             kind == P.kind
  <2> HIDE DEF q, sl, kind
  <2>2. q \in Seq(Call) /\ q # <<>> /\ \A b \in Call : sl[b] \in Seq(Record)
    BY <2>1 DEF q, sl
  <2>4. CallSum(kind, sl, q, k, Hits) = 0
    BY <1>9 DEF q, sl, kind
  <2>5. SliceSum(kind, sl[q[1]], k, Hits) = 0
    BY <2>2, <2>4, FirstSlice
  <2> QED
    BY <2>5 DEF q, sl, kind
<1>11. \A n : Weight(slice[c][n], k) = WeightOf(P.kind, slice[c][n], k)
  BY Links
<1> QED
  BY <1>1, <1>2, <1>8, <1>10, <1>11 DEF Excuse

LEMMA WriteFacts ==
  ASSUME IInv, NEW c \in Call, At(c, "write")
  PROVE  /\ Typed /\ CallInv(c) /\ Unapplied(c) /\ (\A k \in DOMAIN rows : RowInv(k))
         /\ call[c] \in Calls /\ call[c].at = "write" /\ faults \in 0 .. MaxFaults /\ MaxFaults \in Nat
         /\ \A o \in Owners(c) : o \in AllOwners /\ \A B \in Batches(c, o) : B \subseteq call[c].left
<1>1. Typed /\ CallInv(c) /\ Unapplied(c) /\ (\A k \in DOMAIN rows : RowInv(k))
  BY DEF IInv
<1>2. call[c] \in Calls /\ call[c].at = "write" /\ faults \in 0 .. MaxFaults
  BY <1>1 DEF Typed, At
<1>3. \A k \in call[c].left : k[1] \in AllOwners
  BY <1>2 DEF Calls, Keys
<1>4. \A o \in Owners(c) : o \in AllOwners
  BY <1>3 DEF Owners
<1>5. \A o : \A B \in Batches(c, o) : B \subseteq call[c].left
  BY DEF Batches, kSubset
<1> QED
  BY <1>1, <1>2, <1>4, <1>5, AggregationAssumption

LEMMA InsertBatchKeeps ==
  ASSUME IInv, NEW c \in Call, InsertBatch(c)
  PROVE  IInv'
<1>1. At(c, "write") /\ UNCHANGED <<pump, timed, slice, loop, died, faults>>
  BY DEF InsertBatch
<1>0. PICK o \in Owners(c) : \E B \in Batches(c, o) : Merges(c, B) /\ NextBatch(c, o, B)
  BY DEF InsertBatch
<1>2. PICK B \in Batches(c, o) : Merges(c, B) /\ NextBatch(c, o, B)
  BY <1>0
<1>3. /\ Typed /\ CallInv(c) /\ Unapplied(c) /\ (\A k \in DOMAIN rows : RowInv(k))
      /\ call[c] \in Calls /\ call[c].at = "write" /\ faults \in 0 .. MaxFaults /\ MaxFaults \in Nat
      /\ o \in AllOwners /\ B \subseteq call[c].left
  BY <1>1, <1>2, WriteFacts
<1>4. Written(c, B)
  BY <1>1, <1>2, <1>3, MergesWrite
<1> DEFINE new == [call[c] EXCEPT !.left = @ \ B, !.owner = o]
<1>5. call' = [call EXCEPT ![c] = new]
  BY <1>2, <1>3 DEF NextBatch, Rest, Typed
<1>6. new \in Calls /\ GoesOn(c, B, new)
  BY <1>3 DEF Calls, GoesOn
<1> HIDE DEF new
<1>7. faults' \in 0 .. MaxFaults /\ faults' >= faults
  BY <1>1, <1>3
<1> QED
  BY <1>1, <1>3, <1>4, <1>5, <1>6, <1>7, AfterWrite

LEMMA InsertFailsKeeps ==
  ASSUME IInv, NEW c \in Call, InsertFails(c)
  PROVE  IInv'
<1>1. At(c, "write") /\ UNCHANGED <<pump, timed, slice, loop, died>>
  BY DEF InsertFails
<1>0. PICK o \in Owners(c) : \E B \in Batches(c, o) :
        /\ \/ UNCHANGED <<rows, applied>>
           \/ ~Refused(c, B) /\ Merges(c, B)
        /\ IF c \in over \/ Refused(c, B) THEN UNCHANGED faults ELSE Fault
        /\ AfterError(c, o, B)
  BY DEF InsertFails
<1>2. PICK B \in Batches(c, o) :
        /\ \/ UNCHANGED <<rows, applied>>
           \/ ~Refused(c, B) /\ Merges(c, B)
        /\ IF c \in over \/ Refused(c, B) THEN UNCHANGED faults ELSE Fault
        /\ AfterError(c, o, B)
  BY <1>0
<1>3. /\ Typed /\ CallInv(c) /\ Unapplied(c) /\ (\A k \in DOMAIN rows : RowInv(k))
      /\ call[c] \in Calls /\ call[c].at = "write" /\ faults \in 0 .. MaxFaults /\ MaxFaults \in Nat
      /\ o \in AllOwners /\ B \subseteq call[c].left
  BY <1>1, <1>2, WriteFacts
<1>4. PICK D \in {{}, B} : Written(c, D)
  BY <1>1, <1>2, <1>3, MergesWrite, SameWrites
<1>5. faults' \in 0 .. MaxFaults /\ faults' >= faults /\ (c \notin over /\ faults' = 0 => Refused(c, B))
  BY <1>2, <1>3 DEF Fault
<1>6. CASE P.error = "returned"
  <2> DEFINE new == [Idle EXCEPT !.at = "error"]
  <2>1. call' = [call EXCEPT ![c] = new]
    BY <1>2, <1>6 DEF AfterError, Ends
  <2>2. new \in Calls
    BY IdleFacts
  <2>3. GivesUp(c, new)
    BY <1>1, <1>3, <1>5, RefusedExcuses DEF GivesUp
  <2> HIDE DEF new
  <2>4. D \subseteq call[c].left
    BY <1>3
  <2> QED
    BY <1>1, <1>3, <1>4, <1>5, <2>1, <2>2, <2>3, <2>4, AfterWrite
<1>7. CASE P.error # "returned"
  <2> DEFINE new == [call[c] EXCEPT !.left = @ \ B, !.owner = o]
  <2>1. pump = "sqlUptime"
    BY <1>3, <1>7, ProfileFacts DEF Typed, P
  <2>2. faults' # 0
    <3>1. c \notin over
      BY <1>3, <2>1 DEF Typed
    <3>2. ~Refused(c, B)
      BY <2>1 DEF Refused
    <3> QED
      BY <1>5, <3>1, <3>2
  <2>3. call' = [call EXCEPT ![c] = new]
    BY <1>2, <1>3, <1>7 DEF AfterError, NextBatch, Rest, Typed
  <2>4. new \in Calls
    BY <1>3 DEF Calls
  <2>5. GoesOn(c, D, new)
    BY <1>3, <2>1, <2>2 DEF Calls, GoesOn
  <2> HIDE DEF new
  <2>6. D \subseteq call[c].left
    BY <1>3
  <2> QED
    BY <1>1, <1>3, <1>4, <1>5, <2>3, <2>4, <2>5, <2>6, AfterWrite
<1> QED
  BY <1>6, <1>7

LEMMA UpsertKeeps ==
  ASSUME IInv, NEW c \in Call, Upsert(c)
  PROVE  IInv'
<1>1. At(c, "write") /\ UNCHANGED <<pump, timed, slice, loop, died, faults>>
  BY DEF Upsert
<1>2. PICK o \in Owners(c) :
        LET B == {k \in call[c].left : k[1] = o}
        IN /\ Merges(c, B)
           /\ call' = [call EXCEPT ![c].left = @ \ B, ![c].owner = o, ![c].at = "average",
                                   ![c].seen = [k \in {j \in DOMAIN rows' : j[1] = o} |-> rows'[k]]]
  BY DEF Upsert
<1> DEFINE B    == {k \in call[c].left : k[1] = o}
           seen == [k \in {j \in DOMAIN rows' : j[1] = o} |-> rows'[k]]
<1>3. Merges(c, B) /\ call' = [call EXCEPT ![c].left = @ \ B, ![c].owner = o, ![c].at = "average", ![c].seen = seen]
  BY <1>2
<1>4. B \subseteq call[c].left
  OBVIOUS
<1>5. DOMAIN seen \subseteq DOMAIN rows' /\ seen = [k \in DOMAIN seen |-> seen[k]]
      /\ \A k \in DOMAIN seen : seen[k] = rows'[k]
  OBVIOUS
<1> HIDE DEF B, seen
<1>6. /\ Typed /\ CallInv(c) /\ Unapplied(c) /\ (\A k \in DOMAIN rows : RowInv(k))
      /\ call[c] \in Calls /\ call[c].at = "write" /\ faults \in 0 .. MaxFaults /\ MaxFaults \in Nat
      /\ o \in AllOwners
  BY <1>1, WriteFacts
<1>7. Written(c, B)
  BY <1>1, <1>3, <1>4, <1>6, MergesWrite
<1>8. seen \in RowTables
  <2>1. DOMAIN rows' \subseteq Keys /\ \A k \in DOMAIN rows' : rows'[k] \in Counter
    BY <1>7, RowTablesFacts DEF Written
  <2>2. DOMAIN seen \subseteq Keys /\ \A k \in DOMAIN seen : seen[k] \in Counter
    BY <1>5, <2>1
  <2> QED
    BY <1>5, <2>2, RowTablesFacts
<1> DEFINE new == [call[c] EXCEPT !.left = @ \ B, !.owner = o, !.at = "average", !.seen = seen]
<1>9. call' = [call EXCEPT ![c] = new]
  BY <1>3, <1>6 DEF Typed
<1>10. new \in Calls /\ GoesOn(c, B, new)
  BY <1>6, <1>8 DEF Calls, GoesOn
<1> HIDE DEF new
<1>11. faults' \in 0 .. MaxFaults /\ faults' >= faults
  BY <1>1, <1>6
<1> QED
  BY <1>1, <1>4, <1>6, <1>7, <1>9, <1>10, <1>11, AfterWrite

LEMMA UpsertFailsKeeps ==
  ASSUME IInv, NEW c \in Call, UpsertFails(c)
  PROVE  IInv'
<1>1. At(c, "write") /\ UNCHANGED <<pump, timed, slice, loop, died>>
      /\ (IF c \in over THEN UNCHANGED faults ELSE Fault) /\ Ends(c, "error")
  BY DEF UpsertFails
<1>2. PICK o \in Owners(c) : UNCHANGED <<rows, applied>> \/ Merges(c, {k \in call[c].left : k[1] = o})
  BY DEF UpsertFails
<1> DEFINE B   == {k \in call[c].left : k[1] = o}
           new == [Idle EXCEPT !.at = "error"]
<1>3. B \subseteq call[c].left /\ (UNCHANGED <<rows, applied>> \/ Merges(c, B))
  BY <1>2
<1> HIDE DEF B
<1>4. /\ Typed /\ CallInv(c) /\ Unapplied(c) /\ (\A k \in DOMAIN rows : RowInv(k))
      /\ call[c] \in Calls /\ call[c].at = "write" /\ faults \in 0 .. MaxFaults /\ MaxFaults \in Nat
  BY <1>1, WriteFacts
<1>5. PICK D \in {{}, B} : Written(c, D)
  BY <1>1, <1>3, <1>4, MergesWrite, SameWrites
<1>6. faults' \in 0 .. MaxFaults /\ faults' >= faults /\ (c \notin over => faults' # 0)
  BY <1>1, <1>4 DEF Fault
<1>7. call' = [call EXCEPT ![c] = new]
  BY <1>1 DEF Ends
<1>8. new \in Calls
  BY IdleFacts
<1>9. GivesUp(c, new)
  BY <1>6 DEF GivesUp
<1> HIDE DEF new
<1>10. D \subseteq call[c].left
  BY <1>3
<1> QED
  BY <1>1, <1>4, <1>5, <1>6, <1>7, <1>8, <1>9, <1>10, AfterWrite

LEMMA AverageFacts ==
  ASSUME IInv, NEW c \in Call, At(c, "average")
  PROVE  /\ Typed /\ CallInv(c) /\ Unapplied(c) /\ (\A k \in DOMAIN rows : RowInv(k))
         /\ call[c] \in Calls /\ call[c].at = "average" /\ faults \in 0 .. MaxFaults /\ MaxFaults \in Nat
<1>1. Typed /\ CallInv(c) /\ Unapplied(c) /\ (\A k \in DOMAIN rows : RowInv(k))
  BY DEF IInv
<1>2. call[c] \in Calls /\ call[c].at = "average" /\ faults \in 0 .. MaxFaults
  BY <1>1 DEF Typed, At
<1> QED
  BY <1>1, <1>2, AggregationAssumption

LEMMA AvgUpdateKeeps ==
  ASSUME IInv, NEW c \in Call, AvgUpdate(c)
  PROVE  IInv'
<1>1. At(c, "average") /\ SetsAverages(c) /\ UNCHANGED <<pump, timed, slice, applied, loop, died, faults>>
  BY DEF AvgUpdate
<1>2. /\ Typed /\ CallInv(c) /\ Unapplied(c) /\ (\A k \in DOMAIN rows : RowInv(k))
      /\ call[c] \in Calls /\ call[c].at = "average" /\ faults \in 0 .. MaxFaults /\ MaxFaults \in Nat
  BY <1>1, AverageFacts
<1>3. Written(c, {})
  BY <1>1, <1>2, AveragesWrite
<1> DEFINE new == [call[c] EXCEPT !.at = "write", !.seen = <<>>]
<1>4. call' = [call EXCEPT ![c] = new]
  BY <1>2 DEF AvgUpdate, Typed
<1>5. new \in Calls /\ GoesOn(c, {}, new)
  BY <1>2, IdleFacts DEF Calls, GoesOn
<1> HIDE DEF new
<1>6. faults' \in 0 .. MaxFaults /\ faults' >= faults /\ {} \subseteq call[c].left
  BY <1>1, <1>2
<1> QED
  BY <1>1, <1>2, <1>3, <1>4, <1>5, <1>6, AfterWrite

LEMMA AvgUpdateFailsKeeps ==
  ASSUME IInv, NEW c \in Call, AvgUpdateFails(c)
  PROVE  IInv'
<1>1. At(c, "average") /\ (UNCHANGED rows \/ SetsAverages(c)) /\ Ends(c, "error")
      /\ (IF c \in over THEN UNCHANGED faults ELSE Fault) /\ UNCHANGED <<pump, timed, slice, applied, loop, died>>
  BY DEF AvgUpdateFails
<1>2. /\ Typed /\ CallInv(c) /\ Unapplied(c) /\ (\A k \in DOMAIN rows : RowInv(k))
      /\ call[c] \in Calls /\ call[c].at = "average" /\ faults \in 0 .. MaxFaults /\ MaxFaults \in Nat
  BY <1>1, AverageFacts
<1>3. Written(c, {})
  BY <1>1, <1>2, AveragesWrite, SameWrites
<1> DEFINE new == [Idle EXCEPT !.at = "error"]
<1>4. call' = [call EXCEPT ![c] = new]
  BY <1>1 DEF Ends
<1>5. new \in Calls
  BY IdleFacts
<1>6. faults' \in 0 .. MaxFaults /\ faults' >= faults /\ {} \subseteq call[c].left /\ (c \notin over => faults' # 0)
  BY <1>1, <1>2 DEF Fault
<1>7. GivesUp(c, new)
  BY <1>6 DEF GivesUp
<1> HIDE DEF new
<1> QED
  BY <1>1, <1>2, <1>3, <1>4, <1>5, <1>6, <1>7, AfterWrite

LEMMA ReturnKeeps ==
  ASSUME IInv, NEW c \in Call, Return(c)
  PROVE  IInv'
<1>1. At(c, "write") /\ call[c].left = {} /\ Ends(c, "nil")
      /\ UNCHANGED <<pump, timed, slice, rows, applied, loop, died, faults>>
  BY DEF Return
<1>2. /\ Typed /\ CallInv(c) /\ Unapplied(c) /\ (\A k \in DOMAIN rows : RowInv(k))
      /\ call[c].at = "write" /\ faults \in 0 .. MaxFaults /\ MaxFaults \in Nat
  BY <1>1, WriteFacts
<1>3. Written(c, {})
  BY <1>1, <1>2, SameWrites
<1> DEFINE new == [Idle EXCEPT !.at = "nil"]
<1>4. call' = [call EXCEPT ![c] = new]
  BY <1>1 DEF Ends
<1>5. new \in Calls
  BY IdleFacts
<1>6. faults' \in 0 .. MaxFaults /\ faults' >= faults /\ {} \subseteq call[c].left
  BY <1>1, <1>2
<1>7. Succeeds(c, new)
  BY <1>1 DEF Succeeds
<1> HIDE DEF new
<1> QED
  BY <1>1, <1>2, <1>3, <1>4, <1>5, <1>6, <1>7, AfterWrite

-----------------------------------------------------------------------------
(* Aggregation, action by action.                                            *)
LEMMA AfterAggregate ==
  ASSUME IInv, NEW c \in Call, At(c, "aggregate"), ~died,
         UNCHANGED <<pump, timed, slice, rows, applied, loop, died, faults>>,
         NEW new \in Calls, call' = [call EXCEPT ![c] = new], new.at \in {"aggregate", "write"},
         CallInv(c)', Accounted(c)'
  PROVE  IInv'
<1> USE DEF loop
<1>1. /\ Typed /\ (\A b \in Call : CallInv(b)) /\ (\A k \in DOMAIN rows : RowInv(k))
      /\ (\A b \in Call : Unapplied(b)) /\ (\A b \in Call : Accounted(b)) /\ (\A b \in Call : Excused(b))
  BY DEF IInv
<1>2. /\ call'[c] = new /\ (\A b \in Call \ {c} : call'[b] = call[b]) /\ call' \in [Call -> Calls]
      /\ P' = P /\ faults \in Nat /\ faults' \in Nat
  BY <1>1, AggregationAssumption DEF Typed, P
<1>3. \A b, k : Has(b, k)' <=> Has(b, k)
  BY DEF Has
<1>4. Typed'
  BY <1>1, <1>2 DEF Typed
<1>5. \A b \in Call : CallInv(b)'
  <2>1. \A b \in Call \ {c} : CallInv(b)'
    BY <1>1, <1>2, SameCall
  <2> QED
    BY <2>1
<1>6. \A k \in DOMAIN rows : \A i \in DOMAIN applied[k] : applied[k][i] \in Call \ {c}
  BY <1>1 DEF RowInv, Typed, At
<1>7. \A k \in DOMAIN rows' : RowInv(k)'
  BY <1>1, <1>2, <1>6 DEF RowInv
<1>8. \A b \in Call : Unapplied(b)'
  <2>1. \A k : ~Has(c, k)
    BY <1>6 DEF Has
  <2> QED
    BY <1>1, <1>2, <1>3, <2>1 DEF Unapplied
<1>9. \A b \in Call : Accounted(b)'
  <2>1. \A b \in Call \ {c} : Accounted(b)'
    BY <1>1, <1>2, <1>3, SameAccount
  <2> QED
    BY <2>1
<1>10. \A b \in Call : Excused(b)'
  <2>1. \A b \in Call \ {c} : Excused(b)'
    BY <1>1, <1>2, SameExcuse
  <2>2. Excused(c)'
    BY <1>2 DEF Excused, At
  <2> QED
    BY <2>1, <2>2
<1>11. DeathExplained'
  BY DEF DeathExplained
<1> QED
  BY <1>4, <1>5, <1>7, <1>8, <1>9, <1>10, <1>11 DEF IInv

LEMMA AggregateFacts ==
  ASSUME IInv, NEW c \in Call, Aggregates(c)
  PROVE  /\ Typed /\ At(c, "aggregate") /\ CallInv(c)
         /\ slice[c] \in Seq(Record) /\ call[c] \in Calls /\ call[c].pos \in Nat /\ call[c].pos < Len(slice[c])
         /\ call[c].aggs \in Tables /\ call[c].left = {} /\ c <= next
         /\ Follows(P.kind, slice[c], call[c].pos, call[c].aggs)
         /\ NextRecord(c) = slice[c][call[c].pos + 1] /\ NextRecord(c) \in Record
<1>1. Typed /\ At(c, "aggregate") /\ CallInv(c) /\ call[c].pos < Len(slice[c])
  BY DEF IInv, Aggregates
<1>2. slice[c] \in Seq(Record) /\ call[c] \in Calls
  BY <1>1 DEF Typed
<1>3. call[c].pos \in Nat /\ call[c].aggs \in Tables
  BY <1>2 DEF Calls
<1>4. call[c].left = {} /\ Follows(P.kind, slice[c], call[c].pos, call[c].aggs)
  BY <1>1 DEF CallInv, At, Working
<1>5. ~(c > next)
  BY <1>1 DEF CallInv, At
<1>6. next \in Nat /\ c \in Nat
  BY <1>1, AggregationAssumption DEF Typed, Call
<1>7. NextRecord(c) = slice[c][call[c].pos + 1] /\ NextRecord(c) \in Record
  BY <1>1, <1>2, <1>3 DEF NextRecord
<1> QED
  BY <1>1, <1>2, <1>3, <1>4, <1>5, <1>6, <1>7

LEMMA AggregateKeeps ==
  ASSUME IInv, NEW c \in Call, Aggregate(c), ~died
  PROVE  IInv'
<1> DEFINE s    == slice[c]
           m    == call[c].pos
           aggs == call[c].aggs
           r    == NextRecord(c)
           add  == IF Takes(r) THEN Counting(c, r) ELSE aggs
           new  == [call[c] EXCEPT !.pos = @ + 1, !.aggs = add]
<1>1. Aggregates(c) /\ UNCHANGED <<pump, timed, slice, rows, applied, loop, died, faults>>
      /\ call' = [call EXCEPT ![c].pos = @ + 1, ![c].aggs = add]
  BY DEF Aggregate
<1>2. /\ Typed /\ At(c, "aggregate") /\ CallInv(c)
      /\ s \in Seq(Record) /\ call[c] \in Calls /\ m \in Nat /\ m < Len(s)
      /\ aggs \in Tables /\ call[c].left = {} /\ c <= next
      /\ Follows(P.kind, s, m, aggs)
      /\ r = s[m + 1] /\ r \in Record
  BY <1>1, AggregateFacts
<1>3. (Takes(r) <=> TakesOf(P.kind, r)) /\ Counting(c, r) = AddTo(P.kind, aggs, r)
  BY Links, LinksAdd
<1> HIDE DEF s, m, r, aggs
<1>4. add \in Tables /\ Follows(P.kind, s, m + 1, add)
  <2>1. CASE TakesOf(P.kind, r)
    <3>1. AddTo(P.kind, aggs, s[m + 1]) \in Tables /\ Follows(P.kind, s, m + 1, AddTo(P.kind, aggs, s[m + 1]))
      BY <1>2, <2>1, FollowsAdd
    <3> QED
      BY <1>2, <1>3, <2>1, <3>1
  <2>2. CASE ~TakesOf(P.kind, r)
    BY <1>2, <1>3, <2>2, FollowsSkip
  <2> QED
    BY <2>1, <2>2
<1> HIDE DEF add
<1>5. call' = [call EXCEPT ![c] = new]
  BY <1>1, <1>2 DEF Typed
<1>6. new \in Calls /\ new.at = "aggregate" /\ new.pos = m + 1 /\ new.aggs = add /\ new.left = {}
  <2>1. call[c].at = "aggregate" /\ call[c].pos = m /\ m + 1 \in Nat
    BY <1>2 DEF At, m
  <2>2. new \in Calls
    BY <1>2, <1>4, <2>1 DEF Calls
  <2>3. new.at = call[c].at /\ new.pos = call[c].pos + 1 /\ new.aggs = add /\ new.left = call[c].left
    BY <1>2 DEF Calls
  <2> QED
    BY <1>2, <2>1, <2>2, <2>3
<1> HIDE DEF new
<1>7. call'[c] = new /\ P' = P /\ slice' = slice /\ next' = next
  BY <1>1, <1>2, <1>5 DEF Typed, P, loop
<1>8. CallInv(c)'
  <2>1. ~(c > next) /\ m + 1 <= Len(s)
    <3>1. next \in Nat /\ c \in Nat /\ Len(s) \in Nat
      BY <1>2, AggregationAssumption DEF Typed, Call
    <3> QED
      BY <1>2, <3>1
  <2> QED
    BY <1>4, <1>6, <1>7, <2>1 DEF CallInv, Working, At, s
<1>9. Accounted(c)'
  BY <1>6, <1>7 DEF Accounted
<1> QED
  BY <1>1, <1>2, <1>5, <1>6, <1>8, <1>9, AfterAggregate

LEMMA AggregationEndsKeeps ==
  ASSUME IInv, NEW c \in Call, AggregationEnds(c), ~died
  PROVE  IInv'
<1> DEFINE s    == slice[c]
           aggs == call[c].aggs
           new  == [call[c] EXCEPT !.at = "write", !.left = RowsOf(c)]
<1>1. At(c, "aggregate") /\ call[c].pos = Len(s) /\ UNCHANGED <<pump, timed, slice, rows, applied, loop, died, faults>>
      /\ call' = [call EXCEPT ![c].at = "write", ![c].left = RowsOf(c)]
  BY DEF AggregationEnds
<1>2. Typed /\ CallInv(c) /\ s \in Seq(Record) /\ call[c] \in Calls
  BY DEF IInv, Typed
<1>3. RowsOf(c) = RowsFrom(pump, aggs) /\ RowsOf(c) \subseteq Keys
  BY <1>2, RowsOfFacts
<1>4. Follows(P.kind, s, Len(s), aggs) /\ aggs \in Tables /\ ~(c > next)
  BY <1>1, <1>2 DEF CallInv, At, Working, Calls
<1>5. call' = [call EXCEPT ![c] = new]
  BY <1>1, <1>2 DEF Typed
<1>6. new \in Calls /\ new.at = "write" /\ new.pos = Len(s) /\ new.aggs = aggs /\ new.left = RowsFrom(pump, aggs)
  BY <1>1, <1>2, <1>3 DEF Calls
<1> HIDE DEF new, aggs, s
<1>7. call'[c] = new /\ P' = P /\ slice' = slice /\ next' = next /\ pump' = pump
  BY <1>1, <1>2, <1>5 DEF Typed, P, loop
<1>8. CallInv(c)'
  <2>1. Len(s) \in Nat
    BY <1>2
  <2> QED
    BY <1>4, <1>6, <1>7, <2>1 DEF CallInv, Working, At, s
<1>9. Accounted(c)'
  <2> SUFFICES ASSUME NEW n \in DOMAIN s, TakesOf(P.kind, s[n]), NEW d \in Adds(s[n]), ~Discards(pump, d)
               PROVE  <<OwnerOf(P.kind, s[n]), d>> \in RowsFrom(pump, aggs)
    BY <1>6, <1>7 DEF Accounted, s
  <2>1. n \in 1 .. Len(s) /\ s[n] \in Record
    BY <1>2
  <2>2. OwnerOf(P.kind, s[n]) \in DOMAIN aggs /\ d \in DOMAIN aggs[OwnerOf(P.kind, s[n])]
    BY <1>4, <2>1 DEF Follows, Covered
  <2>3. OwnerOf(P.kind, s[n]) \in AllOwners /\ d \in Dims
    BY <2>1, AddsFacts DEF OwnerOf, AllOwners, Dims
  <2> QED
    BY <2>2, <2>3 DEF RowsFrom, Keys
<1> QED
  BY <1>1, <1>5, <1>6, <1>8, <1>9, AfterAggregate

LEMMA PanicKeeps ==
  ASSUME IInv, NEW c \in Call, Panic(c)
  PROVE  IInv'
<1> USE DEF loop
<1> DEFINE s == slice[c]
           m == call[c].pos
           r == NextRecord(c)
           aggs == call[c].aggs
           o == OwnerOf(P.kind, r)
           d == ApiDimension(r)
<1>1. Aggregates(c) /\ Takes(r) /\ Panics(AggsOf(c, r), r) /\ died'
      /\ UNCHANGED <<pump, timed, slice, call, rows, applied, loop, faults>>
  BY DEF Panic
<1>2. /\ Typed /\ m \in Nat /\ aggs \in Tables /\ r \in Record /\ r = s[m + 1]
      /\ MapsMade(P.kind, s, m, aggs)
  BY <1>1, AggregateFacts DEF Follows
<1>3. AggsOf(c, r) = AggOf(P.kind, aggs, r)
  BY Links DEF AggsOf, AggOf
<1>4. InErrorMap(r) /\ d \in DOMAIN AggOf(P.kind, aggs, r) /\ ~AggOf(P.kind, aggs, r)[d].made
  BY <1>1, <1>3 DEF Panics
<1> HIDE DEF s, m, r, aggs
<1>5. o \in DOMAIN aggs /\ AggOf(P.kind, aggs, r) = aggs[o]
  <2>1. CASE o \notin DOMAIN aggs
    <3>1. AggOf(P.kind, aggs, r) = NewAggregate
      BY <2>1 DEF AggOf
    <3>2. DOMAIN NewAggregate = {Total} /\ NewAggregate[Total].made
      BY <1>2, NewAggregateFacts
    <3> QED
      BY <1>4, <3>1, <3>2
  <2>2. CASE o \in DOMAIN aggs
    BY <2>2 DEF AggOf
  <2> QED
    BY <2>1, <2>2
<1> HIDE DEF o
<1>6. PICK n \in 1 .. m : /\ TakesOf(P.kind, s[n]) /\ OwnerOf(P.kind, s[n]) = o
                          /\ d \in OwnApi(s[n]) /\ ~IsHit(s[n]) /\ IsFirst(P.kind, s, n)
  <2>1. d \in DOMAIN aggs[o] /\ ~aggs[o][d].made
    BY <1>4, <1>5
  <2> HIDE DEF d
  <2> QED
    BY <1>2, <1>5, <2>1 DEF MapsMade
<1>7. s[n].api = r.api
  <2>1. d = ApiDimension(s[n])
    BY <1>6 DEF OwnApi
  <2> QED
    BY <2>1 DEF ApiDimension
<1>8. Fatal(P.kind, s, m + 1)
  <2>1. n \in 1 .. (m + 1) - 1
    BY <1>2
  <2> QED
    BY <1>2, <1>4, <1>6, <1>7, <2>1 DEF Fatal, o
<1>9. DeathExplained'
  <2>1. Aggregates(c)' /\ P' = P /\ slice' = slice /\ call' = call
    BY <1>1 DEF Aggregates, At, P
  <2> QED
    BY <1>8, <2>1 DEF DeathExplained, s, m
<1>10. P' = P /\ \A b, k : Has(b, k)' <=> Has(b, k)
  BY <1>1 DEF P, Has
<1>11. Typed'
  BY <1>1, <1>2 DEF Typed
<1>12. \A b \in Call : CallInv(b)'
  BY <1>1, <1>10 DEF IInv, CallInv, At, Working
<1>13. \A k \in DOMAIN rows' : RowInv(k)'
  BY <1>1, <1>10 DEF IInv, RowInv
<1>14. \A b \in Call : Unapplied(b)' /\ Accounted(b)'
  BY <1>1, <1>10 DEF IInv, Unapplied, Accounted
<1>15. \A b \in Call : Excused(b)'
  BY <1>1, <1>10 DEF IInv, Excused, Excuse, At
<1> QED
  BY <1>9, <1>11, <1>12, <1>13, <1>14, <1>15 DEF IInv

-----------------------------------------------------------------------------
(* The purge loop.                                                           *)

(* Nothing is counted yet.                                                   *)
LEMMA FollowsNone ==
  ASSUME NEW kind, NEW s
  PROVE  Follows(kind, s, 0, <<>>)
<1>1. DOMAIN <<>> = {}
  OBVIOUS
<1>2. SumsRight(kind, s, 0, <<>>)
  BY <1>1, SumOfNone DEF SumsRight, PartIn
<1> QED
  BY <1>1, <1>2 DEF Follows, TotalsThere, Covered, Sources, MapsMade

(* The purge loop goes on: neither calls nor rows change.                    *)
LEMMA LoopKeeps ==
  ASSUME IInv, UNCHANGED <<pump, timed, slice, call, rows, applied, next, died, faults>>,
         main' \in {"idle", "writing"}, main' = "writing" => next' # 0,
         over \subseteq over', over' \subseteq 1 .. next', ~timed => over' = {}
  PROVE  IInv'
<1>1. /\ P' = P
      /\ \A b, k : Has(b, k)' <=> Has(b, k)
  BY DEF P, Has
<1>2. Typed'
  BY DEF IInv, Typed
<1>3. \A b \in Call : CallInv(b)'
  BY <1>1 DEF IInv, CallInv, At, Working
<1>4. \A k \in DOMAIN rows' : RowInv(k)'
  BY <1>1 DEF IInv, RowInv
<1>5. \A b \in Call : Unapplied(b)' /\ Accounted(b)'
  BY <1>1 DEF IInv, Unapplied, Accounted
<1>6. \A b \in Call : Excused(b)'
  BY <1>1 DEF IInv, Excused, Excuse, At
<1>7. DeathExplained'
  BY <1>1 DEF IInv, DeathExplained, Aggregates, At
<1> QED
  BY <1>2, <1>3, <1>4, <1>5, <1>6, <1>7 DEF IInv

LEMMA WriteDoneKeeps ==
  ASSUME IInv, WriteDone
  PROVE  IInv'
<1>1. UNCHANGED <<pump, timed, slice, call, rows, applied, over, next, died, faults>> /\ main' = "idle"
  BY DEF WriteDone
<1>2. over \subseteq 1 .. next /\ (~timed => over = {})
  BY DEF IInv, Typed
<1> QED
  BY <1>1, <1>2, LoopKeeps

LEMMA DeadlineKeeps ==
  ASSUME IInv, Deadline
  PROVE  IInv'
<1>1. /\ UNCHANGED <<pump, timed, slice, call, rows, applied, next, died, faults>>
      /\ timed /\ main = "writing" /\ main' = "idle" /\ over' = over \cup {next}
  BY DEF Deadline
<1>2. over \subseteq 1 .. next /\ next # 0 /\ next \in 0 .. Len(Lengths) /\ Len(Lengths) \in Nat
  BY <1>1, AggregationAssumption DEF IInv, Typed
<1>3. over' \subseteq 1 .. next'
  BY <1>1, <1>2
<1> QED
  BY <1>1, <1>3, LoopKeeps

LEMMA StartWriteKeeps ==
  ASSUME IInv, StartWrite, ~died, NEW n \in Int, n = next + 1
  PROVE  IInv'
<1> USE DEF loop
<1>1. /\ main = "idle" /\ next < Len(Lengths) /\ next' = n /\ main' = "writing"
      /\ \E s \in BoundedSeq(Told, Lengths[n]) : slice' = [slice EXCEPT ![n] = s]
      /\ call' = [call EXCEPT ![n].at = "aggregate"]
      /\ UNCHANGED <<pump, timed, rows, applied, over, died, faults>>
  BY DEF StartWrite, Goes
<1>2. PICK s \in BoundedSeq(Told, Lengths[n]) : slice' = [slice EXCEPT ![n] = s]
  BY <1>1
<1>3. /\ Typed /\ (\A b \in Call : CallInv(b)) /\ (\A k \in DOMAIN rows : RowInv(k))
      /\ (\A b \in Call : Unapplied(b)) /\ (\A b \in Call : Accounted(b)) /\ (\A b \in Call : Excused(b))
  BY DEF IInv
<1>4. next \in Nat /\ Len(Lengths) \in Nat /\ n \in Call /\ n \in Nat /\ n > next /\ Lengths[n] \in Nat
      /\ \A b \in Call : b \in Nat
  BY <1>1, <1>3, AggregationAssumption DEF Typed, Call
<1>5. s \in Seq(Record)
  <2>1. Told \subseteq Record
    BY AggregationAssumption DEF Told
  <2>2. PICK m \in 0 .. Lengths[n] : s \in [1 .. m -> Told]
    BY DEF BoundedSeq, SeqOf
  <2>3. m \in Nat /\ s \in [1 .. m -> Record]
    BY <1>4, <2>1, <2>2
  <2> QED
    BY <2>3
<1> DEFINE new == [Idle EXCEPT !.at = "aggregate"]
<1>6. At(n, "none") /\ call[n] = [Idle EXCEPT !.at = call[n].at]
  <2>1. CallInv(n)
    BY <1>3, <1>4
  <2>2. n > next
    BY <1>4
  <2> QED
    BY <2>1, <2>2 DEF CallInv, At, Working
<1>7. call[n] = Idle /\ call' = [call EXCEPT ![n] = new]
  <2>1. call[n] = Idle
    BY <1>6 DEF At, Idle
  <2> QED
    BY <1>1, <1>3, <1>4, <2>1 DEF Typed
<1>8. new \in Calls /\ new.at = "aggregate" /\ new.pos = 0 /\ new.aggs = <<>> /\ new.left = {}
  BY IdleFacts DEF Idle
<1> HIDE DEF new
<1>9. /\ call'[n] = new /\ slice'[n] = s
      /\ \A b \in Call \ {n} : call'[b] = call[b] /\ slice'[b] = slice[b]
      /\ call' \in [Call -> Calls] /\ slice' \in [Call -> Seq(Record)]
  BY <1>2, <1>3, <1>4, <1>5, <1>7, <1>8 DEF Typed
<1>10. P' = P /\ \A b, k : Has(b, k)' <=> Has(b, k)
  BY <1>1 DEF P, Has
<1>11. Typed'
  <2>1. over' \subseteq 1 .. next' /\ next' \in 0 .. Len(Lengths) /\ next' # 0
    <3>1. over \subseteq 1 .. next /\ 1 .. next \subseteq 1 .. next + 1 /\ next + 1 \in 0 .. Len(Lengths)
      BY <1>1, <1>3, <1>4 DEF Typed
    <3> QED
      BY <1>1, <1>4, <3>1
  <2>2. applied' \in [DOMAIN rows' -> Seq(Call)] /\ rows' \in RowTables
    BY <1>1, <1>3 DEF Typed
  <2> QED
    BY <1>1, <1>3, <1>9, <2>1, <2>2 DEF Typed
<1>12. \A b \in Call : CallInv(b)'
  <2>1. ASSUME NEW b \in Call, b # n PROVE CallInv(b)'
    <3>1. b > next' => b > next
      BY <1>1, <1>4
    <3> QED
      BY <1>1, <1>3, <1>9, <2>1, <3>1, SameCall
  <2>2. CallInv(n)'
    <3>1. Follows(P.kind, s, 0, <<>>)
      BY FollowsNone
    <3>2. ~(n > next') /\ Len(s) \in Nat
      BY <1>1, <1>4, <1>5
    <3> QED
      BY <1>8, <1>9, <1>10, <3>1, <3>2 DEF CallInv, Working, At
  <2> QED
    BY <2>1, <2>2
<1>13. \A k \in DOMAIN rows : \A i \in DOMAIN applied[k] : applied[k][i] \in Call \ {n}
  BY <1>3, <1>6 DEF RowInv, Typed, At
<1>14. ASSUME NEW k \in DOMAIN rows' PROVE RowInv(k)'
  <2>1. /\ RowInv(k) /\ applied[k] \in Seq(Call) /\ DOMAIN applied[k] = 1 .. Len(applied[k])
        /\ applied'[k] = applied[k] /\ rows'[k] = rows[k] /\ k \in DOMAIN rows
    BY <1>1, <1>3 DEF Typed
  <2>2. \A i \in 1 .. Len(applied[k]) : slice[applied[k][i]] = slice'[applied[k][i]]
    BY <1>9, <1>13, <2>1
  <2>3. applied[k] # <<>> /\ RowRight(P.kind, P.db, slice, k, rows[k], applied[k])
    BY <2>1 DEF RowInv
  <2>4. RowRight(P.kind, P.db, slice', k, rows[k], applied[k])
    BY <2>1, <2>2, <2>3, RowSlices
  <2>5. \A i \in DOMAIN applied[k] : call'[applied[k][i]].at \notin {"none", "aggregate"}
    BY <1>9, <1>13, <2>1 DEF RowInv
  <2> QED
    BY <1>10, <2>1, <2>4, <2>5 DEF RowInv
<1>15. \A b \in Call : Unapplied(b)'
  <2>1. Unapplied(n)'
    BY <1>8, <1>9 DEF Unapplied
  <2> QED
    BY <1>3, <1>9, <1>10, <2>1 DEF Unapplied
<1>16. \A b \in Call : Accounted(b)'
  <2>1. Accounted(n)'
    BY <1>8, <1>9 DEF Accounted
  <2>2. faults \in Nat /\ faults' \in Nat /\ faults' >= faults
    BY <1>1, <1>3, AggregationAssumption DEF Typed
  <2>3. \A b \in Call \ {n} : Accounted(b)'
    BY <1>1, <1>3, <1>9, <1>10, <2>2, SameAccount
  <2> QED
    BY <2>1, <2>3
<1>17. ASSUME NEW b \in Call PROVE Excused(b)'
  <2>1. CASE b = n
    BY <1>8, <1>9, <2>1 DEF Excused, At
  <2>2. CASE b # n /\ call[b].at = "error" /\ b \notin over /\ faults = 0
    <3>1. Excuse(b)
      BY <1>3, <2>2 DEF Excused, At
    <3>2. PICK k \in DOMAIN rows :
            /\ SliceSum(P.kind, slice[applied[k][1]], k, Hits) = 0 /\ SliceSum(P.kind, slice[b], k, Hits) = 0
            /\ \E j \in DOMAIN slice[b] : WeightOf(P.kind, slice[b][j], k) > 0
      BY <3>1 DEF Excuse
    <3>3. slice'[applied[k][1]] = slice[applied[k][1]]
      <4>1. 1 \in DOMAIN applied[k]
        BY <1>3 DEF RowInv, Typed
      <4> QED
        BY <1>9, <1>13, <4>1
    <3>4. slice'[b] = slice[b] /\ k \in DOMAIN rows' /\ applied' = applied /\ P.db = "sql"
      BY <1>1, <1>9, <2>2, <3>1 DEF Excuse
    <3>5. Excuse(b)'
      BY <1>10, <3>2, <3>3, <3>4 DEF Excuse
    <3> QED
      BY <3>5 DEF Excused
  <2>3. CASE b # n /\ ~(call[b].at = "error" /\ b \notin over /\ faults = 0)
    BY <1>1, <1>9, <2>3 DEF Excused, At
  <2> QED
    BY <2>1, <2>2, <2>3
<1>18. DeathExplained'
  BY <1>1 DEF DeathExplained
<1> QED
  BY <1>11, <1>12, <1>14, <1>15, <1>16, <1>17, <1>18 DEF IInv

-----------------------------------------------------------------------------
LEMMA InitFacts == Init => IInv
<1> SUFFICES ASSUME Init PROVE IInv
  OBVIOUS
<1> USE DEF Init
<1>1. \A c \in Call : call[c] = Idle /\ slice[c] = <<>>
  OBVIOUS
<1>2. Idle \in Calls /\ Idle.at = "none" /\ Idle.pos = 0 /\ Idle.left = {} /\ Idle = [Idle EXCEPT !.at = Idle.at]
  <2>1. Idle \in Calls
    BY IdleFacts DEF Idle, Calls
  <2>2. \A i \in Calls : i = [i EXCEPT !.at = i.at]
    BY DEF Calls
  <2> QED
    BY <2>1, <2>2 DEF Idle
<1>3. rows = <<>> /\ DOMAIN rows = {} /\ DOMAIN applied = {} /\ rows \in RowTables
  BY IdleFacts
<1>4. Typed
  <2>1. slice \in [Call -> Seq(Record)] /\ call \in [Call -> Calls]
    BY <1>2
  <2>2. applied \in [DOMAIN rows -> Seq(Call)]
    BY <1>3
  <2>3. next \in 0 .. Len(Lengths) /\ faults \in 0 .. MaxFaults
    BY AggregationAssumption
  <2>4. timed \in BOOLEAN /\ (pump = "sqlUptime" => ~timed)
    <3>1. CASE pump = "sqlUptime"
      BY <3>1
    <3>2. CASE pump # "sqlUptime"
      BY <3>2
    <3> QED
      BY <3>1, <3>2
  <2> QED
    BY <1>3, <2>1, <2>2, <2>3, <2>4 DEF Typed
<1>5. \A c \in Call : CallInv(c)
  <2> SUFFICES ASSUME NEW c \in Call PROVE CallInv(c)
    OBVIOUS
  <2>1. Len(slice[c]) = 0
    BY <1>1
  <2> QED
    BY <1>1, <1>2, <2>1 DEF CallInv, At, Working
<1>6. \A c \in Call : Unapplied(c) /\ Accounted(c) /\ Excused(c)
  BY <1>1, <1>2 DEF Unapplied, Accounted, Excused, At
<1>7. DeathExplained
  BY DEF DeathExplained
<1> QED
  BY <1>3, <1>4, <1>5, <1>6, <1>7 DEF IInv

LEMMA NextKeeps == IInv /\ [Next]_vars => IInv'
<1> SUFFICES ASSUME IInv, [Next]_vars PROVE IInv'
  OBVIOUS
<1>1. CASE UNCHANGED vars
  <2>1. /\ UNCHANGED <<pump, timed, slice, call, rows, applied, next, died, faults>> /\ main' = main /\ over' = over
    BY <1>1 DEF vars, loop
  <2>2. /\ main \in {"idle", "writing"} /\ (main = "writing" => next # 0)
        /\ over \subseteq 1 .. next /\ (~timed => over = {})
    BY DEF IInv, Typed
  <2> QED
    BY <2>1, <2>2, LoopKeeps
<1>2. CASE ~died /\ \E c \in Call : WriteDataStep(c)
  <2>1. PICK c \in Call : WriteDataStep(c)
    BY <1>2
  <2>2. \/ Aggregate(c) \/ Panic(c) \/ AggregationEnds(c) \/ InsertBatch(c) \/ InsertFails(c)
        \/ Upsert(c) \/ UpsertFails(c) \/ AvgUpdate(c) \/ AvgUpdateFails(c) \/ Return(c)
    BY <2>1 DEF WriteDataStep
  <2>3. CASE Aggregate(c)
    BY <1>2, <2>3, AggregateKeeps
  <2>4. CASE Panic(c)
    BY <2>4, PanicKeeps
  <2>5. CASE AggregationEnds(c)
    BY <1>2, <2>5, AggregationEndsKeeps
  <2>6. CASE InsertBatch(c)
    BY <1>2, <2>6, InsertBatchKeeps
  <2>7. CASE InsertFails(c)
    BY <1>2, <2>7, InsertFailsKeeps
  <2>8. CASE Upsert(c)
    BY <1>2, <2>8, UpsertKeeps
  <2>9. CASE UpsertFails(c)
    BY <1>2, <2>9, UpsertFailsKeeps
  <2>10. CASE AvgUpdate(c)
    BY <1>2, <2>10, AvgUpdateKeeps
  <2>11. CASE AvgUpdateFails(c)
    BY <1>2, <2>11, AvgUpdateFailsKeeps
  <2>12. CASE Return(c)
    BY <1>2, <2>12, ReturnKeeps
  <2> QED
    BY <2>2, <2>3, <2>4, <2>5, <2>6, <2>7, <2>8, <2>9, <2>10, <2>11, <2>12
<1>3. CASE ~died /\ StartWrite
  <2>1. next + 1 \in Int
    BY DEF IInv, Typed
  <2> QED
    BY <1>3, <2>1, StartWriteKeeps
<1>4. CASE WriteDone
  BY <1>4, WriteDoneKeeps
<1>5. CASE Deadline
  BY <1>5, DeadlineKeeps
<1> QED
  BY <1>1, <1>2, <1>3, <1>4, <1>5 DEF Next

(* The inductive invariant: typed, the counters of a call follow the part of *)
(* its slice that it has aggregated, a row is what the calls merged into it  *)
(* add up to, what is left of a call is in no row yet and the rest of it is, *)
(* and a failed call and a dead process have their reason.                   *)
THEOREM Inductive == Spec => []IInv
BY InitFacts, NextKeeps, PTL DEF Spec

-----------------------------------------------------------------------------
(* What follows.                                                             *)

LEMMA Types == IInv => TypeOK
<1> SUFFICES ASSUME IInv PROVE TypeOK
  OBVIOUS
<1>1. Typed /\ \A c \in Call : CallInv(c)
  BY DEF IInv
<1>2. ASSUME NEW c \in Call
      PROVE  /\ slice[c] \in Seq(Record)
             /\ call[c].at \in {"none", "aggregate", "write", "average", "nil", "error"}
             /\ call[c].pos \in 0 .. Len(slice[c])
             /\ call[c].left \subseteq RowsOf(c)
  <2>1. call[c] \in Calls /\ slice[c] \in Seq(Record)
    BY <1>1 DEF Typed
  <2>2. call[c].pos \in Nat /\ Len(slice[c]) \in Nat
    BY <2>1 DEF Calls
  <2>3. call[c].pos <= Len(slice[c]) /\ call[c].left \subseteq RowsFrom(pump, call[c].aggs)
    BY <1>1 DEF CallInv
  <2>4. RowsOf(c) = RowsFrom(pump, call[c].aggs)
    BY <1>1, RowsOfFacts
  <2> QED
    BY <2>1, <2>2, <2>3, <2>4 DEF Calls
<1>3. \A k \in DOMAIN rows : IsCounter(rows[k])
  BY <1>1, RowTablesFacts, CounterIsOne DEF Typed
<1>4. next \in Call \cup {0}
  BY <1>1, AggregationAssumption DEF Typed, Call
<1> QED
  BY <1>1, <1>2, <1>3, <1>4 DEF TypeOK, Typed

LEMMA Adding == IInv => CountsAddUp
<1> SUFFICES ASSUME IInv PROVE CountsAddUp
  OBVIOUS
<1>1. ASSUME NEW k \in DOMAIN rows
      PROVE  /\ IsInjective(applied[k])
             /\ \A f \in Field : Counts(k, f) =>
                  Part(rows[k], f) = IF f = Bytes /\ P.db = "mongo" THEN OfSlice(Last(applied[k]), k, f)
                                     ELSE OfCalls(applied[k], k, f)
  <2>1. IsInjective(applied[k]) /\ RowRight(P.kind, P.db, slice, k, rows[k], applied[k])
    BY DEF IInv, RowInv
  <2>2. \A f : /\ OfSlice(Last(applied[k]), k, f) = SliceSum(P.kind, slice[Last(applied[k])], k, f)
               /\ OfCalls(applied[k], k, f) = CallSum(P.kind, slice, applied[k], k, f)
    BY Links
  <2> QED
    BY <2>1, <2>2 DEF RowRight
<1> QED
  BY <1>1, Types DEF CountsAddUp

LEMMA Honesty == IInv => HonestResult
<1> SUFFICES ASSUME IInv, NEW c \in Call, At(c, "nil"), pump = "sqlUptime" => faults = 0,
                    NEW n \in DOMAIN slice[c], Takes(slice[c][n]),
                    NEW d \in IF IsHit(slice[c][n]) THEN DOMAIN Times[slice[c][n]] ELSE {Total} \cup slice[c][n].extra,
                    ~(pump = "mongo" /\ d[1] \in Ignored)
             PROVE  /\ <<Owner(slice[c][n]), d>> \in DOMAIN rows
                    /\ c \in ToSet(applied[<<Owner(slice[c][n]), d>>])
  BY DEF HonestResult
<1> DEFINE r == slice[c][n]
           k == <<Owner(r), d>>
<1>1. d \in Adds(r) /\ TakesOf(P.kind, r) /\ Owner(r) = OwnerOf(P.kind, r) /\ ~Discards(pump, d)
  BY Links DEF Adds, Discards
<1>2. call[c].left = {}
  BY DEF IInv, CallInv, At, Working, Idle
<1>3. call[c].at \in {"write", "average", "nil"} /\ Accounted(c)
  BY DEF At, IInv
<1>4. Has(c, <<OwnerOf(P.kind, r), d>>)
  BY <1>1, <1>2, <1>3 DEF Accounted
<1>5. Has(c, k)
  BY <1>1, <1>4
<1> HIDE DEF k
<1>6. k \in DOMAIN rows /\ c \in ToSet(applied[k])
  BY <1>5 DEF Has, ToSet
<1> QED
  BY <1>6 DEF k

(* The first record of an API that a call aggregates.                        *)
LEMMA FirstIsMin ==
  ASSUME Typed, NEW c \in Call, NEW r \in Record, NEW m \in DOMAIN slice[c],
         Takes(slice[c][m]), Owner(slice[c][m]) = Owner(r), slice[c][m].api = r.api,
         ~IsHit(slice[c][m]), IsFirst(P.kind, slice[c], m)
  PROVE  StartsHitless(c, r)
<1> DEFINE s == slice[c]
           mine == {n \in DOMAIN s : Takes(s[n]) /\ Owner(s[n]) = Owner(r) /\ s[n].api = r.api}
<1>1. DOMAIN s = 1 .. Len(s) /\ Len(s) \in Nat
  BY DEF Typed
<1>2. m \in mine /\ m \in Nat
  BY <1>1
<1>3. ASSUME NEW n \in mine PROVE n \in Nat /\ m <= n
  <2>1. n \in 1 .. Len(s) /\ Takes(s[n]) /\ Owner(s[n]) = Owner(r) /\ s[n].api = r.api
    BY <1>1
  <2>2. \A j : (Takes(s[j]) <=> TakesOf(P.kind, s[j])) /\ Owner(s[j]) = OwnerOf(P.kind, s[j])
    BY Links
  <2>3. ~(n \in 1 .. m - 1)
    BY <2>1, <2>2 DEF IsFirst
  <2> QED
    BY <1>2, <2>1, <2>3
<1> DEFINE low == Min(mine)
<1>4. low = CHOOSE x \in mine : \A y \in mine : x <= y
  BY DEF Min
<1>5. low = m
  <2> HIDE DEF mine, low
  <2>1. low \in mine /\ \A y \in mine : low <= y
    <3>1. \A y \in mine : m <= y
      BY <1>3
    <3> QED
      BY <1>2, <1>4, <3>1
  <2> QED
    BY <1>2, <1>3, <2>1
<1>6. ~IsHit(s[low])
  BY <1>5
<1> QED
  BY <1>6 DEF StartsHitless

LEMMA Explained == IInv => FailsOnlyFor
<1> SUFFICES ASSUME IInv PROVE FailsOnlyFor
  OBVIOUS
<1>1. ASSUME died
      PROVE  \E c \in Call : Aggregates(c) /\ InErrorMap(NextRecord(c)) /\ StartsHitless(c, NextRecord(c))
  <2>1. PICK c \in Call : Aggregates(c) /\ Fatal(P.kind, slice[c], call[c].pos + 1)
    BY <1>1 DEF IInv, DeathExplained
  <2> DEFINE s == slice[c]
             r == NextRecord(c)
             p == call[c].pos
  <2>2. Typed /\ s \in Seq(Record) /\ p \in Nat /\ p < Len(s) /\ r = s[p + 1] /\ r \in Record
    BY <2>1, AggregateFacts
  <2> HIDE DEF s, r, p
  <2>3. Fatal(P.kind, s, p + 1)
    BY <2>1 DEF s, p
  <2>4. InErrorMap(r)
    BY <2>2, <2>3 DEF Fatal
  <2>5. PICK m \in 1 .. (p + 1) - 1 :
          /\ TakesOf(P.kind, s[m]) /\ OwnerOf(P.kind, s[m]) = OwnerOf(P.kind, r)
          /\ s[m].api = r.api /\ ~IsHit(s[m]) /\ IsFirst(P.kind, s, m)
    BY <2>2, <2>3 DEF Fatal
  <2>6. m \in DOMAIN s /\ Takes(s[m]) /\ Owner(s[m]) = Owner(r)
    BY <2>2, <2>5, Links
  <2>7. StartsHitless(c, r)
    BY <2>2, <2>5, <2>6, FirstIsMin DEF s
  <2> QED
    BY <2>1, <2>4, <2>7 DEF r
<1>2. ASSUME NEW c \in Call, At(c, "error"), c \notin over, faults = 0
      PROVE  /\ P.db = "sql"
             /\ \E k \in DOMAIN rows :
                  /\ OfSlice(applied[k][1], k, Hits) = 0 /\ OfSlice(c, k, Hits) = 0
                  /\ \E n \in DOMAIN slice[c] : Weight(slice[c][n], k) > 0
  <2>1. Excuse(c)
    BY <1>2 DEF IInv, Excused
  <2>2. PICK k \in DOMAIN rows :
          /\ SliceSum(P.kind, slice[applied[k][1]], k, Hits) = 0 /\ SliceSum(P.kind, slice[c], k, Hits) = 0
          /\ \E n \in DOMAIN slice[c] : WeightOf(P.kind, slice[c][n], k) > 0
    BY <2>1 DEF Excuse
  <2>3. OfSlice(applied[k][1], k, Hits) = 0 /\ OfSlice(c, k, Hits) = 0
    BY <2>2, Links
  <2>4. \E n \in DOMAIN slice[c] : Weight(slice[c][n], k) > 0
    BY <2>2, Links
  <2> QED
    BY <2>1, <2>3, <2>4 DEF Excuse
<1> QED
  BY <1>1, <1>2 DEF FailsOnlyFor

(* A row counts each of its calls once and holds what their records add up   *)
(* to, however the records are cut into slices and statements, whatever      *)
(* fails and however the calls of a pump overlap                             *)
(* (OnConflictAssignments, AsChange, WriteData of the aggregate pumps).      *)
THEOREM CountsAreRight == Spec => []CountsAddUp
BY Inductive, Adding, PTL

(* A call of WriteData returns nil only if every row that a record of its    *)
(* slice adds to has counted the call.                                       *)
THEOREM NilIsTrue == Spec => []HonestResult
BY Inductive, Honesty, PTL

(* The process ends in a pump only at an error of an API whose first record  *)
(* has no hit (the nil ErrorMap of incrementOrSetUnit); a call fails for a   *)
(* fault, its deadline, or the division by zero of a row without hits.       *)
THEOREM FailuresExplained == Spec => []FailsOnlyFor
BY Inductive, Explained, PTL

-----------------------------------------------------------------------------
(* Latencies: what the records of a slice say of the bounds of row k.        *)

HitFor(kind, r, k) == WeightOf(kind, r, k) # 0 /\ IsHit(r)

CleanFor(r, k) == IF k[2] = Total THEN IsSuccess(r) ELSE ~IsError(r) /\ ~GraphError(r, k)

FirstFor(kind, s, k, n) == HitFor(kind, s[n], k) /\ \A j \in 1 .. n - 1 : ~HitFor(kind, s[j], k)

(* A record without a hit has left a minimum of 0.                           *)
HitlessFor(kind, s, m, k) ==
  /\ \E n \in 1 .. m : WeightOf(kind, s[n], k) # 0 /\ ~IsHit(s[n])
  /\ k[2] = Total => \A n \in 1 .. m : ~HitFor(kind, s[n], k)

MaxRight(kind, s, m, k, x) ==
  /\ \A n \in 1 .. m : HitFor(kind, s[n], k) => s[n].latency <= x
  /\ x = 0 \/ \E n \in 1 .. m : HitFor(kind, s[n], k) /\ x = s[n].latency

MinRight(kind, s, m, k, x) ==
  /\ x \in Nat
  /\ \A n \in 1 .. m : HitFor(kind, s[n], k) /\ CleanFor(s[n], k) => x <= s[n].latency
  /\ \/ \E n \in 1 .. m : HitFor(kind, s[n], k) /\ CleanFor(s[n], k) /\ x = s[n].latency
     \/ \E n \in 1 .. m : FirstFor(kind, s, k, n) /\ x = s[n].latency
     \/ x = 0 /\ HitlessFor(kind, s, m, k)

MeansOf(sum, hits) == IF hits = 0 THEN {NoMean, <<0, 0>>} ELSE {<<sum, hits>>}

MeanRight(c) == c.mean \in MeansOf(c.sum, c.hits) /\ (c.hits = 0 => c.sum = 0)

MeansIn(agg) == \A d \in DOMAIN agg : MeanRight(agg[d])

BoundsRight(kind, s, m, k, c) == MaxRight(kind, s, m, k, c.max) /\ MinRight(kind, s, m, k, c.min)

(* The counters of a call that has looked at m records.                      *)
LatRight(kind, s, m, aggs) ==
  \A o \in DOMAIN aggs :
    /\ MeansIn(aggs[o])
    /\ kind # "uptime" => \A d \in DOMAIN aggs[o] : BoundsRight(kind, s, m, <<o, d>>, aggs[o][d])

(* What a counter with one more record in it is to be.                       *)
Raised(x, clean, old, new) ==
  /\ new.max = MaxOf(old.max, x)
  /\ new.min = IF old.min > x /\ clean THEN x ELSE old.min

SameBounds(old, new) == new.max = old.max /\ new.min = old.min

LEMMA SumUpLat ==
  ASSUME NEW b \in Counter, NEW c \in Counter
  PROVE  /\ SumUp(b, c).max = MaxOf(c.max, b.max)
         /\ SumUp(b, c).min = IF c.min > b.min /\ b.errors = 0 THEN b.min ELSE c.min
         /\ MeanRight(b) /\ MeanRight(c) => MeanRight(SumUp(b, c))
<1> DEFINE u == SumUp(b, c)
<1>1. /\ u.max = MaxOf(c.max, b.max) /\ u.min = IF LowersMin(b, c) THEN b.min ELSE c.min
      /\ u.mean = <<c.sum + b.sum, c.hits + b.hits>> /\ u.sum = c.sum + b.sum /\ u.hits = c.hits + b.hits
  BY DEF SumUp, Counter
<1>2. b.sum \in Nat /\ c.sum \in Nat /\ b.hits \in Nat /\ c.hits \in Nat
  BY DEF Counter
<1> HIDE DEF u
<1>3. ASSUME MeanRight(b), MeanRight(c)
      PROVE  MeanRight(u)
  <2>1. u.hits = 0 => u.sum = 0
    BY <1>1, <1>2, <1>3 DEF MeanRight
  <2>2. u.mean \in MeansOf(u.sum, u.hits)
    BY <1>1, <1>2, <2>1 DEF MeansOf
  <2> QED
    BY <2>1, <2>2 DEF MeanRight
<1> QED
  BY <1>1, <1>3 DEF LowersMin, u

LEMMA SameMean ==
  ASSUME NEW c, NEW d, MeanRight(c), d.mean = c.mean, d.sum = c.sum, d.hits = c.hits
  PROVE  MeanRight(d)
BY DEF MeanRight

LEMMA IncrementLat ==
  ASSUME NEW agg \in OwnerCounters, NEW D \in SUBSET Dims, NEW b \in Counter
  PROVE  LET new == incrementOrSetUnit(agg, D, b)
         IN /\ \A d \in DOMAIN agg \ D : new[d] = agg[d]
            /\ \A d \in DOMAIN agg \cap D : b.max = b.min => Raised(b.max, b.errors = 0, agg[d], new[d])
            /\ \A d \in D \ DOMAIN agg : SameBounds(b, new[d])
            /\ MeansIn(agg) /\ MeanRight(b) => MeansIn(new)
<1> DEFINE new == incrementOrSetUnit(agg, D, b)
           copy == [b EXCEPT !.made = TRUE]
<1>1. \A d \in DOMAIN agg : agg[d] \in Counter
  BY OwnerCountersFacts
<1>2. SameBounds(b, copy) /\ copy.mean = b.mean /\ copy.sum = b.sum /\ copy.hits = b.hits
  BY DEF Counter, SameBounds
<1>3. /\ DOMAIN new = DOMAIN agg \cup D
      /\ \A d \in DOMAIN agg \ D : new[d] = agg[d]
      /\ \A d \in DOMAIN agg \cap D : new[d] = SumUp(b, agg[d])
      /\ \A d \in D \ DOMAIN agg : new[d] = copy
  BY DEF incrementOrSetUnit
<1> HIDE DEF new, copy
<1>4. \A d \in DOMAIN agg \cap D : b.max = b.min => Raised(b.max, b.errors = 0, agg[d], new[d])
  BY <1>1, <1>3, SumUpLat DEF Raised
<1>5. \A d \in D \ DOMAIN agg : SameBounds(b, new[d])
  BY <1>2, <1>3
<1>6. ASSUME MeansIn(agg), MeanRight(b)
      PROVE  MeansIn(new)
  <2> SUFFICES ASSUME NEW d \in DOMAIN new
               PROVE  MeanRight(new[d])
    BY DEF MeansIn
  <2>1. CASE d \in DOMAIN agg \ D
    BY <1>3, <1>6, <2>1 DEF MeansIn
  <2>2. CASE d \in DOMAIN agg \cap D
    <3>1. MeanRight(agg[d]) /\ agg[d] \in Counter
      BY <1>1, <1>6, <2>2 DEF MeansIn
    <3> QED
      BY <1>3, <1>6, <2>2, <3>1, SumUpLat
  <2>3. CASE d \in D \ DOMAIN agg
    <3>1. MeanRight(copy)
      BY <1>2, <1>6, SameMean
    <3> QED
      BY <1>3, <2>3, <3>1
  <2> QED
    BY <1>3, <2>1, <2>2, <2>3
<1> QED
  BY <1>3, <1>4, <1>5, <1>6 DEF new

(* The counters one record makes.                                            *)
LEMMA CounterOfLat ==
  ASSUME NEW r \in Record
  PROVE  /\ MeanRight(CounterOf(r)) /\ MeanRight(GraphCounterOf(r))
         /\ r.kind # "uptime" =>
              /\ CounterOf(r).max = IF IsHit(r) THEN r.latency ELSE 0
              /\ CounterOf(r).min = CounterOf(r).max
         /\ SameBounds(CounterOf(r), GraphCounterOf(r))
<1> DEFINE own == CounterOf(r)
           g   == GraphCounterOf(r)
<1>1. own \in Counter
  BY CounterOfFacts
<1>2. /\ own.mean = IF IsHit(r) THEN <<r.latency, 1>> ELSE NoMean
      /\ own.hits = IF IsHit(r) THEN 1 ELSE 0
      /\ own.sum = IF IsHit(r) THEN r.latency ELSE 0
  BY DEF CounterOf, Zero
<1>3. /\ own.max = IF IsHit(r) THEN Bound(r) ELSE 0
      /\ own.min = IF IsHit(r) THEN Bound(r) ELSE 0
  BY DEF CounterOf, Zero
<1> HIDE DEF own
<1>4. MeanRight(own)
  BY <1>2 DEF MeanRight, MeansOf
<1>5. SameBounds(own, g) /\ g.mean = own.mean /\ g.sum = own.sum /\ g.hits = own.hits
  BY <1>1 DEF GraphCounterOf, own, SameBounds, Counter
<1> HIDE DEF g
<1>6. MeanRight(g)
  BY <1>4, <1>5, SameMean
<1> QED
  BY <1>3, <1>4, <1>5, <1>6 DEF own, g, Bound

LEMMA TotalLat ==
  ASSUME NEW r \in Record, NEW t \in Counter, IsHit(r)
  PROVE  /\ MeanRight(t) => MeanRight(AddToTotal(t, r))
         /\ r.kind # "uptime" =>
              /\ AddToTotal(t, r).max = MaxOf(t.max, r.latency)
              /\ AddToTotal(t, r).min = IF t.hits = 0 THEN r.latency
                                        ELSE IF t.min > r.latency /\ IsSuccess(r) THEN r.latency ELSE t.min
<1> DEFINE own == CounterOf(r)
           u   == SumUp(own, t)
           new == AddToTotal(t, r)
<1>1. own \in Counter /\ MeanRight(own)
  BY CounterOfFacts, CounterOfLat
<1>2. u \in Counter /\ u.max = MaxOf(t.max, own.max) /\ (MeanRight(t) => MeanRight(u))
  BY <1>1, SumUpFacts, SumUpLat
<1>3. new = [u EXCEPT !.min = IF t.hits = 0 THEN own.min
                              ELSE IF t.min > own.min /\ IsSuccess(r) THEN own.min ELSE t.min]
  BY DEF AddToTotal
<1>4. r.kind # "uptime" => own.max = r.latency /\ own.min = r.latency
  BY CounterOfLat
<1> HIDE DEF own, u, new
<1>5. /\ new.max = u.max /\ new.mean = u.mean /\ new.sum = u.sum /\ new.hits = u.hits
      /\ new.min = IF t.hits = 0 THEN own.min
                   ELSE IF t.min > own.min /\ IsSuccess(r) THEN own.min ELSE t.min
  BY <1>2, <1>3 DEF Counter
<1>6. MeanRight(t) => MeanRight(new)
  BY <1>2, <1>5, SameMean
<1> QED
  BY <1>2, <1>4, <1>5, <1>6 DEF new

(* Counters to which those with a bound x have been added, once or more      *)
(* often, in the dimensions D.                                               *)
Enlarged(agg, D, x, clean, new) ==
  /\ DOMAIN new = DOMAIN agg \cup D
  /\ \A d \in DOMAIN agg \ D : SameBounds(agg[d], new[d])
  /\ \A d \in DOMAIN agg \cap D : Raised(x, clean, agg[d], new[d])
  /\ \A d \in D \ DOMAIN agg : new[d].max = x /\ new[d].min = x

LEMMA EnlargedMore ==
  ASSUME NEW agg \in OwnerCounters, NEW D, NEW x \in Nat, NEW clean \in BOOLEAN, NEW mid \in OwnerCounters,
         Enlarged(agg, D, x, clean, mid), NEW E \in SUBSET Dims, NEW b \in Counter,
         b.max = x, b.min = x, b.errors = 0 <=> clean
  PROVE  Enlarged(agg, D \cup E, x, clean, incrementOrSetUnit(mid, E, b))
<1> DEFINE new == incrementOrSetUnit(mid, E, b)
<1>1. /\ DOMAIN new = DOMAIN mid \cup E
      /\ \A d \in DOMAIN mid \ E : new[d] = mid[d]
      /\ \A d \in DOMAIN mid \cap E : Raised(x, clean, mid[d], new[d])
      /\ \A d \in E \ DOMAIN mid : new[d].max = x /\ new[d].min = x
  <2>1. DOMAIN new = DOMAIN mid \cup E
    BY IncrementFacts
  <2>2. /\ \A d \in DOMAIN mid \ E : new[d] = mid[d]
        /\ \A d \in DOMAIN mid \cap E : b.max = b.min => Raised(b.max, b.errors = 0, mid[d], new[d])
        /\ \A d \in E \ DOMAIN mid : SameBounds(b, new[d])
    BY IncrementLat
  <2>3. (b.errors = 0) = clean
    OBVIOUS
  <2> HIDE DEF new
  <2> QED
    BY <2>1, <2>2, <2>3 DEF SameBounds
<1> HIDE DEF new
<1>2. /\ DOMAIN mid = DOMAIN agg \cup D
      /\ \A d \in DOMAIN agg \ D : SameBounds(agg[d], mid[d])
      /\ \A d \in DOMAIN agg \cap D : Raised(x, clean, agg[d], mid[d])
      /\ \A d \in D \ DOMAIN agg : mid[d].max = x /\ mid[d].min = x
  BY DEF Enlarged
<1>3. /\ \A d \in DOMAIN agg : agg[d].max \in Nat /\ agg[d].min \in Int
      /\ \A d \in DOMAIN mid : mid[d].max \in Nat /\ mid[d].min \in Int
  BY OwnerCountersFacts DEF Counter
<1>4. \A d \in DOMAIN agg \ (D \cup E) : SameBounds(agg[d], new[d])
  BY <1>1, <1>2
<1>5. ASSUME NEW d \in DOMAIN agg \cap (D \cup E)
      PROVE  Raised(x, clean, agg[d], new[d])
  <2>1. CASE d \in D \ E
    BY <1>1, <1>2, <2>1
  <2>2. CASE d \in E \ D
    <3>1. SameBounds(agg[d], mid[d]) /\ Raised(x, clean, mid[d], new[d])
      BY <1>1, <1>2, <2>2
    <3> QED
      BY <3>1 DEF Raised, SameBounds
  <2>3. CASE d \in D \cap E
    <3>1. Raised(x, clean, agg[d], mid[d]) /\ Raised(x, clean, mid[d], new[d]) /\ d \in DOMAIN mid
      BY <1>1, <1>2, <2>3
    <3> QED
      BY <1>3, <3>1 DEF Raised, MaxOf
  <2> QED
    BY <2>1, <2>2, <2>3
<1>6. ASSUME NEW d \in (D \cup E) \ DOMAIN agg
      PROVE  new[d].max = x /\ new[d].min = x
  <2>1. CASE d \in D \ E
    BY <1>1, <1>2, <2>1
  <2>2. CASE d \in E \ D
    BY <1>1, <1>2, <2>2
  <2>3. CASE d \in D \cap E
    <3>1. mid[d].max = x /\ mid[d].min = x /\ Raised(x, clean, mid[d], new[d])
      BY <1>1, <1>2, <2>3
    <3> QED
      BY <3>1 DEF Raised, MaxOf
  <2> QED
    BY <2>1, <2>2, <2>3
<1> QED
  BY <1>1, <1>2, <1>4, <1>5, <1>6 DEF Enlarged, new

LEMMA AddHitLat ==
  ASSUME NEW agg \in OwnerCounters, Total \in DOMAIN agg, NEW r \in Record, IsHit(r)
  PROVE  /\ MeansIn(agg) => MeansIn(AddHit(agg, r))
         /\ r.kind # "uptime" =>
              Enlarged([agg EXCEPT ![Total] = AddToTotal(@, r)], Dimensions(r) \cup TagsOf(r),
                       r.latency, ~IsError(r), AddHit(agg, r))
<1> DEFINE N    == Len(r.tags)
           own  == CounterOf(r)
           aggT == [agg EXCEPT ![Total] = AddToTotal(@, r)]
           x    == incrementOrSetUnit(aggT, Dimensions(r), own)
           Tag(n) == {TagDimension(r, i) : i \in TagsKept(r) \cap {n}}
<1>1. PICK g : TagSteps(g, N, x, r) /\ AddHit(agg, r) = g[N]
  BY AddHitIs
<1>2. N \in Nat /\ r.latency \in Nat /\ IsError(r) \in BOOLEAN
  BY RecordFacts DEF IsError
<1>3. /\ own \in Counter /\ MeanRight(own) /\ (own.errors = 0 <=> ~IsError(r))
      /\ r.kind # "uptime" => own.max = r.latency /\ own.min = r.latency
  BY CounterOfFacts, CounterOfLat DEF Flag
<1>4. /\ g[0] = x
      /\ \A n \in 1 .. N : g[n] = incrementOrSetUnit(g[n - 1], Tag(n), own)
  <2> HIDE DEF x, N
  <2>1. g = [n \in 0 .. N |-> IF n = 0 THEN x ELSE incrementOrSetUnit(g[n - 1], Tag(n), own)]
    BY <1>1 DEF TagSteps
  <2>2. 0 \in 0 .. N /\ \A n \in 1 .. N : n \in 0 .. N /\ n # 0
    BY <1>2
  <2> HIDE DEF Tag, own
  <2> QED
    BY <2>1, <2>2
<1>5. Dimensions(r) \in SUBSET Dims /\ \A n : Tag(n) \in SUBSET Dims
  <2>1. Dimensions(r) \cup TagsOf(r) \subseteq Dims
    BY TimesFacts
  <2> QED
    BY <2>1 DEF TagsOf
<1>6. \A d \in DOMAIN agg : agg[d] \in Counter
  BY OwnerCountersFacts
<1> HIDE DEF own, N
<1>7. /\ aggT \in OwnerCounters /\ DOMAIN aggT = DOMAIN agg
      /\ MeansIn(agg) => MeansIn(aggT)
  <2>1. AddToTotal(agg[Total], r) \in Counter /\ (MeanRight(agg[Total]) => MeanRight(AddToTotal(agg[Total], r)))
    BY <1>6, TotalFacts, TotalLat
  <2>2. DOMAIN aggT = DOMAIN agg /\ aggT = [d \in DOMAIN aggT |-> aggT[d]]
        /\ \A d \in DOMAIN agg : aggT[d] = IF d = Total THEN AddToTotal(agg[d], r) ELSE agg[d]
    OBVIOUS
  <2> HIDE DEF aggT
  <2>3. \A d \in DOMAIN aggT : aggT[d] \in Counter
    BY <1>6, <2>1, <2>2
  <2>4. DOMAIN agg \subseteq Dims
    BY OwnerCountersFacts
  <2>5. aggT \in OwnerCounters
    BY <2>2, <2>3, <2>4, OwnerCountersFacts
  <2>6. MeansIn(agg) => MeansIn(aggT)
    BY <2>1, <2>2 DEF MeansIn
  <2> QED
    BY <2>2, <2>5, <2>6
<1> HIDE DEF aggT
<1> DEFINE Upto(m) == Dimensions(r) \cup {TagDimension(r, i) : i \in {j \in TagsKept(r) : j <= m}}
           Good(m) == /\ g[m] \in OwnerCounters
                      /\ MeansIn(agg) => MeansIn(g[m])
                      /\ r.kind # "uptime" => Enlarged(aggT, Upto(m), r.latency, ~IsError(r), g[m])
           T == {m \in Nat : m <= N => Good(m)}
<1>8. Good(0)
  <2>1. x \in OwnerCounters /\ (MeansIn(agg) => MeansIn(x))
    <3>1. Dimensions(r) \in SUBSET Dims
      BY <1>5
    <3>2. aggT \in OwnerCounters
      BY <1>7
    <3> HIDE DEF own
    <3> QED
      BY <1>3, <1>7, <3>1, <3>2, IncrementFacts, IncrementLat
  <2>2. ASSUME r.kind # "uptime"
        PROVE  Enlarged(aggT, Upto(0), r.latency, ~IsError(r), x)
    <3>1. Enlarged(aggT, {}, r.latency, ~IsError(r), aggT)
      BY DEF Enlarged, SameBounds
    <3>2. Enlarged(aggT, {} \cup Dimensions(r), r.latency, ~IsError(r), x)
      BY <1>2, <1>3, <1>5, <1>7, <2>2, <3>1, EnlargedMore
    <3>3. {j \in TagsKept(r) : j <= 0} = {}
      BY RecordFacts DEF TagsKept
    <3>4. Upto(0) = {} \cup Dimensions(r)
      BY <3>3
    <3> QED
      BY <3>2, <3>4
  <2> HIDE DEF x
  <2> QED
    BY <1>4, <2>1, <2>2
<1>9. ASSUME NEW m \in Nat, m \in T
      PROVE  m + 1 \in T
  <2> SUFFICES ASSUME m + 1 <= N
               PROVE  Good(m + 1)
    OBVIOUS
  <2>1. Good(m) /\ m + 1 \in 1 .. N /\ (m + 1) - 1 = m
    BY <1>2, <1>9
  <2>2. g[m + 1] = incrementOrSetUnit(g[m], Tag(m + 1), own) /\ Tag(m + 1) \in SUBSET Dims
    BY <1>4, <1>5, <2>1
  <2>3. Upto(m + 1) = Upto(m) \cup Tag(m + 1)
    <3>1. \A j \in TagsKept(r) : j \in Nat
      BY RecordFacts DEF TagsKept
    <3>2. \A j \in TagsKept(r) : j <= m + 1 <=> j <= m \/ j = m + 1
      BY <3>1
    <3> QED
      BY <3>2
  <2>4. /\ g[m] \in OwnerCounters
        /\ MeansIn(agg) => MeansIn(g[m])
        /\ r.kind # "uptime" => Enlarged(aggT, Upto(m), r.latency, ~IsError(r), g[m])
    BY <2>1
  <2> DEFINE E   == Tag(m + 1)
             D   == Upto(m)
             old == g[m]
             new == g[m + 1]
  <2> HIDE DEF Upto, Tag, E, D, old, new
  <2>5. old \in OwnerCounters /\ E \in SUBSET Dims /\ new = incrementOrSetUnit(old, E, own)
    BY <2>2, <2>4 DEF E, old, new
  <2>6. new \in OwnerCounters
    BY <1>3, <2>5, IncrementFacts
  <2>7. MeansIn(agg) => MeansIn(new)
    <3>1. MeansIn(old) /\ MeanRight(own) => MeansIn(incrementOrSetUnit(old, E, own))
      BY <1>3, <2>5, IncrementLat
    <3> QED
      BY <1>3, <2>4, <2>5, <3>1 DEF old
  <2>8. ASSUME r.kind # "uptime"
        PROVE  Enlarged(aggT, D \cup E, r.latency, ~IsError(r), new)
    <3>1. Enlarged(aggT, D, r.latency, ~IsError(r), old)
      BY <2>4, <2>8 DEF D, old
    <3>2. own.max = r.latency /\ own.min = r.latency
      BY <1>3, <2>8
    <3>3. /\ own.errors = 0 <=> ~IsError(r)
          /\ (~IsError(r)) \in BOOLEAN
      BY <1>3 DEF IsError
    <3>4. Enlarged(aggT, D \cup E, r.latency, ~IsError(r), incrementOrSetUnit(old, E, own))
      BY <1>2, <1>3, <1>7, <2>5, <3>1, <3>2, <3>3, EnlargedMore
    <3> QED
      BY <2>5, <3>4
  <2> QED
    BY <2>3, <2>6, <2>7, <2>8 DEF D, E, new
<1> HIDE DEF T
<1>10. N \in T
  BY <1>2, <1>8, <1>9, InductiveSet DEF T
<1>11. Good(N)
  BY <1>2, <1>10 DEF T
<1>12. Upto(N) = Dimensions(r) \cup TagsOf(r)
  <2>1. \A j \in TagsKept(r) : j <= N
    BY RecordFacts DEF TagsKept, N
  <2> QED
    BY <2>1 DEF TagsOf
<1> HIDE DEF Upto
<1> QED
  BY <1>1, <1>11, <1>12 DEF aggT

LEMMA AddTrafficLat ==
  ASSUME NEW agg \in OwnerCounters, Total \in DOMAIN agg, NEW r \in Record
  PROVE  /\ MeansIn(agg) => MeansIn(AddTraffic(agg, r))
         /\ \A d \in DOMAIN agg : SameBounds(agg[d], AddTraffic(agg, r)[d])
         /\ \A d \in OwnApi(r) \ DOMAIN agg : SameBounds(Zero, AddTraffic(agg, r)[d])
<1> DEFINE api == OwnApi(r)
           own == CounterOf(r)
           old == [d \in DOMAIN agg \cup api |-> IF d \in DOMAIN agg THEN agg[d] ELSE Zero]
           new == AddTraffic(agg, r)
<1>1. new = [d \in DOMAIN agg \cup api |->
               IF d \in api \cup {Total} THEN [old[d] EXCEPT !.bytes = @ + own.bytes] ELSE old[d]]
  BY DEF AddTraffic, OwnApi
<1>2. DOMAIN new = DOMAIN agg \cup api
  BY <1>1
<1>3. /\ \A d \in DOMAIN agg : old[d] = agg[d] /\ agg[d] \in Counter
      /\ \A d \in api \ DOMAIN agg : old[d] = Zero
  BY OwnerCountersFacts
<1>4. Zero \in Counter /\ MeanRight(Zero)
  <2>1. EmptyBag \in CodeBag
    <3>1. 0 \in Int
      OBVIOUS
    <3> QED
      BY <3>1, SingleCode
  <2> QED
    BY <2>1 DEF Zero, Counter, NoMean, MeanRight, MeansOf
<1> HIDE DEF api, own, old, new
<1>5. ASSUME NEW d \in DOMAIN agg \cup api
      PROVE  SameBounds(old[d], new[d]) /\ (MeanRight(old[d]) => MeanRight(new[d]))
  <2>1. old[d] \in Counter
    BY <1>3, <1>4
  <2>2. new[d] = IF d \in api \cup {Total} THEN [old[d] EXCEPT !.bytes = @ + own.bytes] ELSE old[d]
    BY <1>1
  <2>3. /\ new[d].max = old[d].max /\ new[d].min = old[d].min
        /\ new[d].mean = old[d].mean /\ new[d].sum = old[d].sum /\ new[d].hits = old[d].hits
    BY <2>1, <2>2 DEF Counter
  <2> QED
    BY <2>3, SameMean DEF SameBounds
<1>6. MeansIn(agg) => MeansIn(new)
  BY <1>2, <1>3, <1>4, <1>5 DEF MeansIn
<1>7. /\ \A d \in DOMAIN agg : SameBounds(agg[d], new[d])
      /\ \A d \in api \ DOMAIN agg : SameBounds(Zero, new[d])
  BY <1>3, <1>5
<1> QED
  BY <1>6, <1>7 DEF new, api

(* What a record does to the bounds of a counter there is, and of a new one. *)
HitBounds(r, d, clean, old, new) ==
  /\ new.max = MaxOf(old.max, r.latency)
  /\ new.min = IF d = Total /\ old.hits = 0 THEN r.latency
               ELSE IF old.min > r.latency /\ clean THEN r.latency ELSE old.min

IdleBounds(r, d, old, new) ==
  /\ new.max = old.max
  /\ new.min = old.min \/ (new.min = 0 /\ d \in r.extra)

FirstBounds(r, new) ==
  /\ new.max = IF IsHit(r) THEN r.latency ELSE 0
  /\ new.min = new.max

LEMMA HitRecordLat ==
  ASSUME NEW agg \in OwnerCounters, Total \in DOMAIN agg, NEW r \in Record, IsHit(r), r.kind # "uptime"
  PROVE  LET new == AddRecord(agg, r)
         IN /\ \A d \in DOMAIN agg \ DOMAIN Times[r] : SameBounds(agg[d], new[d])
            /\ \A d \in DOMAIN new \ DOMAIN agg : FirstBounds(r, new[d])
            /\ \A d \in DOMAIN agg \cap DOMAIN Times[r] : \A o :
                 HitBounds(r, d, CleanFor(r, <<o, d>>), agg[d], new[d])
<1> DEFINE mid  == AddHit(agg, r)
           g    == GraphCounterOf(r)
           new  == AddRecord(agg, r)
           aggT == [agg EXCEPT ![Total] = AddToTotal(@, r)]
           D    == Dimensions(r) \cup TagsOf(r)
           lat  == r.latency
<1>1. /\ mid \in OwnerCounters /\ DOMAIN mid = DOMAIN agg \cup D
      /\ Enlarged(aggT, D, lat, ~IsError(r), mid)
  BY AddHitFacts, AddHitLat
<1>2. /\ DOMAIN aggT = DOMAIN agg
      /\ \A d \in DOMAIN agg : aggT[d] = IF d = Total THEN AddToTotal(agg[d], r) ELSE agg[d]
  OBVIOUS
<1>3. /\ g \in Counter /\ g.max = lat /\ g.min = lat /\ lat \in Nat
      /\ \A o : \A d \in r.extra : g.errors = 0 <=> ~IsError(r) /\ ~GraphError(r, <<o, d>>)
  <2>1. g \in Counter /\ lat \in Nat
    BY GraphCounterOfFacts, RecordFacts
  <2>2. g.max = lat /\ g.min = lat
    BY CounterOfLat DEF SameBounds
  <2>3. ASSUME NEW o, NEW d \in r.extra
        PROVE  g.errors = 0 <=> ~IsError(r) /\ ~GraphError(r, <<o, d>>)
    <3>1. <<"errors", 0>> \in Field
      BY DEF Field
    <3>2. Part(g, <<"errors", 0>>) = Unit(r, <<o, d>>, <<"errors", 0>>)
      BY <2>3, <3>1, GraphCounterOfFacts
    <3>3. Part(g, <<"errors", 0>>) = g.errors
      BY PartCases
    <3>4. Unit(r, <<o, d>>, <<"errors", 0>>) = Flag(IsError(r) \/ GraphError(r, <<o, d>>))
      BY UnitCases
    <3> HIDE DEF g
    <3> QED
      BY <3>2, <3>3, <3>4 DEF Flag
  <2> HIDE DEF g
  <2> QED
    BY <2>1, <2>2, <2>3
<1>4. new = incrementOrSetUnit(mid, r.extra, g)
  BY DEF AddRecord, incrementAggregate
<1>5. r.extra \in SUBSET Dims /\ DOMAIN Times[r] = {Total} \cup r.extra \cup D
  BY TimesFacts
<1>6. Total \notin r.extra \cup D /\ r.extra \cap D = {}
  BY Apart
<1>7. \A d \in DOMAIN agg : agg[d] \in Counter
  BY OwnerCountersFacts
<1>8. /\ AddToTotal(agg[Total], r).max = MaxOf(agg[Total].max, lat)
      /\ AddToTotal(agg[Total], r).min = IF agg[Total].hits = 0 THEN lat
                                         ELSE IF agg[Total].min > lat /\ IsSuccess(r) THEN lat ELSE agg[Total].min
  BY <1>7, TotalLat
<1> HIDE DEF mid, g, new, aggT, D, lat
<1>9. /\ DOMAIN new = DOMAIN mid \cup r.extra
      /\ \A d \in DOMAIN mid \ r.extra : new[d] = mid[d]
      /\ \A d \in DOMAIN mid \cap r.extra : Raised(lat, g.errors = 0, mid[d], new[d])
      /\ \A d \in r.extra \ DOMAIN mid : SameBounds(g, new[d])
  <2>0. mid \in OwnerCounters /\ g \in Counter /\ r.extra \in SUBSET Dims
    BY <1>1, <1>3, <1>5
  <2>1. DOMAIN new = DOMAIN mid \cup r.extra
    BY <1>4, <2>0, IncrementFacts
  <2>2. /\ \A d \in DOMAIN mid \ r.extra : new[d] = mid[d]
        /\ \A d \in DOMAIN mid \cap r.extra : g.max = g.min => Raised(g.max, g.errors = 0, mid[d], new[d])
        /\ \A d \in r.extra \ DOMAIN mid : SameBounds(g, new[d])
    BY <1>4, <2>0, IncrementLat
  <2> QED
    BY <1>3, <2>1, <2>2
<1>10. /\ \A d \in DOMAIN agg \ D : SameBounds(aggT[d], mid[d])
       /\ \A d \in DOMAIN agg \cap D : Raised(lat, ~IsError(r), aggT[d], mid[d])
       /\ \A d \in D \ DOMAIN agg : mid[d].max = lat /\ mid[d].min = lat
  BY <1>1, <1>2 DEF Enlarged
<1>11. ASSUME NEW d \in DOMAIN agg \ DOMAIN Times[r]
       PROVE  SameBounds(agg[d], new[d])
  <2>1. d # Total /\ d \notin r.extra /\ d \notin D
    BY <1>5, <1>11
  <2> QED
    BY <1>1, <1>2, <1>9, <1>10, <2>1
<1>12. ASSUME NEW d \in DOMAIN new \ DOMAIN agg
       PROVE  FirstBounds(r, new[d])
  <2>1. CASE d \in D
    BY <1>1, <1>6, <1>9, <1>10, <1>12, <2>1 DEF FirstBounds, lat
  <2>2. CASE d \notin D
    BY <1>1, <1>3, <1>9, <1>12, <2>2 DEF FirstBounds, SameBounds, lat
  <2> QED
    BY <2>1, <2>2
<1>13. ASSUME NEW d \in DOMAIN agg \cap DOMAIN Times[r], NEW o
       PROVE  HitBounds(r, d, CleanFor(r, <<o, d>>), agg[d], new[d])
  <2>1. CASE d = Total
    <3>1. d \notin r.extra /\ d \notin D /\ d \in DOMAIN mid \ r.extra
      BY <1>1, <1>6, <1>13, <2>1
    <3>2. SameBounds(AddToTotal(agg[Total], r), new[d])
      BY <1>2, <1>9, <1>10, <1>13, <2>1, <3>1
    <3>3. CleanFor(r, <<o, d>>) = IsSuccess(r)
      BY <2>1 DEF CleanFor, IsSuccess
    <3> QED
      BY <1>8, <2>1, <3>2, <3>3 DEF HitBounds, SameBounds, lat
  <2>2. CASE d \in r.extra
    <3>1. d # Total /\ d \notin D /\ d \in DOMAIN mid \cap r.extra
      BY <1>1, <1>6, <1>13, <2>2
    <3>2. SameBounds(agg[d], mid[d]) /\ Raised(lat, g.errors = 0, mid[d], new[d])
      BY <1>2, <1>9, <1>10, <1>13, <3>1
    <3>3. CleanFor(r, <<o, d>>) <=> g.errors = 0
      BY <1>3, <2>2, <3>1 DEF CleanFor
    <3> QED
      BY <3>1, <3>2, <3>3 DEF HitBounds, SameBounds, Raised, lat
  <2>3. CASE d \in D
    <3>1. d # Total /\ d \notin r.extra /\ d \in DOMAIN mid \ r.extra
      BY <1>1, <1>6, <1>13, <2>3
    <3>2. Raised(lat, ~IsError(r), agg[d], new[d])
      BY <1>2, <1>9, <1>10, <1>13, <2>3, <3>1
    <3>3. CleanFor(r, <<o, d>>) <=> ~IsError(r)
      BY <3>1 DEF CleanFor, GraphError
    <3> QED
      BY <3>1, <3>2, <3>3 DEF HitBounds, Raised, lat
  <2> QED
    BY <1>5, <1>13, <2>1, <2>2, <2>3
<1> QED
  BY <1>11, <1>12, <1>13 DEF new

LEMMA IdleRecordLat ==
  ASSUME NEW agg \in OwnerCounters, Total \in DOMAIN agg, NEW r \in Record, ~IsHit(r), r.kind # "uptime"
  PROVE  LET new == AddRecord(agg, r)
         IN /\ \A d \in DOMAIN agg : IdleBounds(r, d, agg[d], new[d])
            /\ \A d \in DOMAIN new \ DOMAIN agg : FirstBounds(r, new[d])
<1> DEFINE mid == AddTraffic(agg, r)
           g   == GraphCounterOf(r)
           new == AddRecord(agg, r)
<1>1. /\ mid \in OwnerCounters /\ DOMAIN mid = DOMAIN agg \cup OwnApi(r)
      /\ \A d \in DOMAIN agg : SameBounds(agg[d], mid[d])
      /\ \A d \in OwnApi(r) \ DOMAIN agg : SameBounds(Zero, mid[d])
  BY AddTrafficFacts, AddTrafficLat
<1>2. g \in Counter /\ g.max = 0 /\ g.min = 0
  BY GraphCounterOfFacts, CounterOfLat DEF SameBounds
<1>3. new = incrementOrSetUnit(mid, r.extra, g)
  BY DEF AddRecord, incrementAggregate
<1>4. r.extra \in SUBSET Dims /\ r.extra \cap OwnApi(r) = {}
  BY TimesFacts, OwnApiFacts
<1>5. \A d \in DOMAIN agg : agg[d].max \in Nat
  BY OwnerCountersFacts DEF Counter
<1> HIDE DEF mid, g, new
<1>6. /\ DOMAIN new = DOMAIN mid \cup r.extra
      /\ \A d \in DOMAIN mid \ r.extra : new[d] = mid[d]
      /\ \A d \in DOMAIN mid \cap r.extra : Raised(0, g.errors = 0, mid[d], new[d])
      /\ \A d \in r.extra \ DOMAIN mid : SameBounds(g, new[d])
  <2>0. mid \in OwnerCounters /\ g \in Counter /\ r.extra \in SUBSET Dims
    BY <1>1, <1>2, <1>4
  <2>1. DOMAIN new = DOMAIN mid \cup r.extra
    BY <1>3, <2>0, IncrementFacts
  <2>2. /\ \A d \in DOMAIN mid \ r.extra : new[d] = mid[d]
        /\ \A d \in DOMAIN mid \cap r.extra : g.max = g.min => Raised(g.max, g.errors = 0, mid[d], new[d])
        /\ \A d \in r.extra \ DOMAIN mid : SameBounds(g, new[d])
    BY <1>3, <2>0, IncrementLat
  <2> QED
    BY <1>2, <2>1, <2>2
<1>7. ASSUME NEW d \in DOMAIN agg
      PROVE  IdleBounds(r, d, agg[d], new[d])
  <2>1. CASE d \in r.extra
    BY <1>1, <1>5, <1>6, <2>1 DEF IdleBounds, SameBounds, Raised, MaxOf
  <2>2. CASE d \notin r.extra
    BY <1>1, <1>6, <2>2 DEF IdleBounds, SameBounds
  <2> QED
    BY <2>1, <2>2
<1>8. ASSUME NEW d \in DOMAIN new \ DOMAIN agg
      PROVE  FirstBounds(r, new[d])
  <2>1. CASE d \in OwnApi(r)
    BY <1>1, <1>4, <1>6, <1>8, <2>1 DEF FirstBounds, SameBounds, Zero
  <2>2. CASE d \notin OwnApi(r)
    BY <1>1, <1>2, <1>6, <1>8, <2>2 DEF FirstBounds, SameBounds
  <2> QED
    BY <2>1, <2>2
<1> QED
  BY <1>7, <1>8 DEF new

LEMMA RecordMeans ==
  ASSUME NEW agg \in OwnerCounters, Total \in DOMAIN agg, NEW r \in Record, MeansIn(agg)
  PROVE  MeansIn(AddRecord(agg, r))
<1> DEFINE mid == incrementAggregate(agg, r)
<1>1. mid \in OwnerCounters /\ MeansIn(mid)
  <2>1. CASE IsHit(r)
    BY <2>1, AddHitFacts, AddHitLat DEF incrementAggregate
  <2>2. CASE ~IsHit(r)
    BY <2>2, AddTrafficFacts, AddTrafficLat DEF incrementAggregate
  <2> QED
    BY <2>1, <2>2
<1>2. GraphCounterOf(r) \in Counter /\ MeanRight(GraphCounterOf(r)) /\ r.extra \in SUBSET Dims
  BY GraphCounterOfFacts, CounterOfLat, TimesFacts
<1> HIDE DEF mid
<1> QED
  BY <1>1, <1>2, IncrementLat DEF AddRecord, mid

(* Sums of natural numbers are equal only if the numbers are.                *)
LEMMA SumLess ==
  ASSUME NEW N \in Nat, NEW v, NEW w, \A n \in 1 .. N : v[n] \in Nat /\ w[n] \in Nat /\ v[n] <= w[n]
  PROVE  SumTo(v, N) = SumTo(w, N) => \A n \in 1 .. N : v[n] = w[n]
<1> DEFINE Good(m) == /\ SumTo(v, m) \in Nat /\ SumTo(w, m) \in Nat /\ SumTo(v, m) <= SumTo(w, m)
                      /\ SumTo(v, m) = SumTo(w, m) => \A n \in 1 .. m : v[n] = w[n]
           T == {m \in Nat : m <= N => Good(m)}
<1>1. Good(0)
  BY SumOfNone
<1>2. ASSUME NEW m \in Nat, m \in T
      PROVE  m + 1 \in T
  <2> SUFFICES ASSUME m + 1 <= N
               PROVE  Good(m + 1)
    OBVIOUS
  <2>1. Good(m)
    BY <1>2
  <2>2. v[m + 1] \in Nat /\ w[m + 1] \in Nat /\ v[m + 1] <= w[m + 1]
    OBVIOUS
  <2>3. /\ SumTo(v, m + 1) = SumTo(v, m) + v[m + 1]
        /\ SumTo(w, m + 1) = SumTo(w, m) + w[m + 1]
    BY SumStep
  <2>4. \A n \in 1 .. m + 1 : n \in 1 .. m \/ n = m + 1
    OBVIOUS
  <2>5. ASSUME SumTo(v, m + 1) = SumTo(w, m + 1)
        PROVE  \A n \in 1 .. m + 1 : v[n] = w[n]
    <3>1. SumTo(v, m) = SumTo(w, m) /\ v[m + 1] = w[m + 1]
      BY <2>1, <2>2, <2>3, <2>5
    <3> QED
      BY <2>1, <2>4, <3>1
  <2> QED
    BY <2>1, <2>2, <2>3, <2>5
<1> HIDE DEF T
<1>3. N \in T
  BY <1>1, <1>2, InductiveSet DEF T
<1> QED
  BY <1>3 DEF T

LEMMA NoHits ==
  ASSUME NEW kind, NEW s \in Seq(Record), NEW m \in 0 .. Len(s), NEW k,
         SumTo(Nums(kind, s, k, Hits), m) = 0
  PROVE  \A n \in 1 .. m : ~HitFor(kind, s[n], k)
<1> DEFINE w == Nums(kind, s, k, Hits)
           z == [n \in 1 .. m |-> 0]
<1>1. \A n \in 1 .. m : n \in 1 .. Len(s) /\ s[n] \in Record
  OBVIOUS
<1>2. \A n \in 1 .. m : w[n] = WeightOf(kind, s[n], k) * Unit(s[n], k, Hits) /\ w[n] \in Nat
                        /\ WeightOf(kind, s[n], k) \in Nat
  BY <1>1, BytesField, NumsFacts
<1>3. \A n \in 1 .. m : z[n] = 0
  OBVIOUS
<1> HIDE DEF w, z
<1>4. SumTo(z, m) = 0
  BY <1>3, SumOfZeros
<1>5. \A n \in 1 .. m : z[n] = w[n]
  <2>1. \A n \in 1 .. m : z[n] \in Nat /\ w[n] \in Nat /\ z[n] <= w[n]
    BY <1>2, <1>3
  <2>2. SumTo(z, m) = SumTo(w, m)
    BY <1>4 DEF w
  <2> QED
    BY <2>1, <2>2, SumLess
<1> SUFFICES ASSUME NEW n \in 1 .. m, HitFor(kind, s[n], k)
             PROVE  FALSE
  OBVIOUS
<1>6. Unit(s[n], k, Hits) = 1
  BY UnitCases DEF HitFor, Hits, Flag
<1>7. WeightOf(kind, s[n], k) * 1 = 0 /\ WeightOf(kind, s[n], k) \in Nat
  BY <1>2, <1>3, <1>5, <1>6
<1> QED
  BY <1>7 DEF HitFor

(* The bounds of a counter when one more record has been looked at: one      *)
(* that is no hit of its row, a hit, the first record of the row.            *)
LEMMA BoundsSkip ==
  ASSUME NEW kind, NEW s \in Seq(Record), NEW m \in Nat, m < Len(s), NEW k, NEW c, NEW y,
         BoundsRight(kind, s, m, k, c), ~HitFor(kind, s[m + 1], k), y.max = c.max,
         \/ y.min = c.min
         \/ y.min = 0 /\ k[2] # Total /\ WeightOf(kind, s[m + 1], k) # 0 /\ ~IsHit(s[m + 1])
  PROVE  BoundsRight(kind, s, m + 1, k, y)
<1>1. /\ \A n \in 1 .. m : n \in 1 .. m + 1 /\ s[n] \in Record
      /\ \A n \in 1 .. m + 1 : n \in 1 .. m \/ n = m + 1
      /\ m + 1 \in 1 .. m + 1 /\ \A n \in 1 .. m + 1 : s[n] \in Record
  OBVIOUS
<1>2. MaxRight(kind, s, m + 1, k, y.max)
  BY <1>1 DEF BoundsRight, MaxRight
<1>3. MinRight(kind, s, m, k, c.min)
  BY DEF BoundsRight
<1>4. CASE y.min = c.min
  <2>1. /\ c.min \in Nat
        /\ \A n \in 1 .. m + 1 : HitFor(kind, s[n], k) /\ CleanFor(s[n], k) => c.min <= s[n].latency
    BY <1>1, <1>3 DEF MinRight
  <2>2. HitlessFor(kind, s, m, k) => HitlessFor(kind, s, m + 1, k)
    BY <1>1 DEF HitlessFor
  <2> QED
    BY <1>1, <1>2, <1>3, <1>4, <2>1, <2>2 DEF BoundsRight, MinRight
<1>5. CASE y.min = 0 /\ k[2] # Total /\ WeightOf(kind, s[m + 1], k) # 0 /\ ~IsHit(s[m + 1])
  <2>1. HitlessFor(kind, s, m + 1, k)
    BY <1>1, <1>5 DEF HitlessFor
  <2>2. \A n \in 1 .. m + 1 : s[n].latency >= 0
    BY <1>1, RecordFacts
  <2> QED
    BY <1>2, <1>5, <2>1, <2>2 DEF BoundsRight, MinRight
<1> QED
  BY <1>4, <1>5

LEMMA MaxMore ==
  ASSUME NEW kind, NEW s \in Seq(Record), NEW m \in Nat, m < Len(s), NEW k, NEW x \in Nat,
         MaxRight(kind, s, m, k, x), HitFor(kind, s[m + 1], k)
  PROVE  MaxRight(kind, s, m + 1, k, MaxOf(x, s[m + 1].latency))
<1> DEFINE lat == s[m + 1].latency
           y   == MaxOf(x, lat)
<1>1. /\ \A n \in 1 .. m + 1 : (n \in 1 .. m \/ n = m + 1) /\ s[n] \in Record
      /\ \A n \in 1 .. m : n \in 1 .. m + 1
      /\ m + 1 \in 1 .. m + 1
  OBVIOUS
<1>2. \A n \in 1 .. m + 1 : s[n].latency \in Nat
  BY <1>1, RecordFacts
<1>3. lat \in Nat /\ x <= y /\ lat <= y /\ (y = x \/ y = lat) /\ y \in Nat
  BY <1>1, <1>2 DEF MaxOf
<1> HIDE DEF y
<1>4. \A n \in 1 .. m + 1 : HitFor(kind, s[n], k) => s[n].latency <= y
  <2> SUFFICES ASSUME NEW n \in 1 .. m + 1, HitFor(kind, s[n], k)
               PROVE  s[n].latency <= y
    OBVIOUS
  <2>1. CASE n \in 1 .. m
    <3>1. s[n].latency <= x
      BY <2>1 DEF MaxRight
    <3> QED
      BY <1>2, <1>3, <3>1
  <2> QED
    BY <1>1, <1>3, <2>1
<1>5. y = 0 \/ \E n \in 1 .. m + 1 : HitFor(kind, s[n], k) /\ y = s[n].latency
  <2>1. CASE y = lat
    BY <1>1, <2>1
  <2>2. CASE y = x
    BY <1>1, <2>2 DEF MaxRight
  <2> QED
    BY <1>3, <2>1, <2>2
<1> QED
  BY <1>4, <1>5 DEF MaxRight, y

LEMMA MinMore ==
  ASSUME NEW kind, NEW s \in Seq(Record), NEW m \in Nat, m < Len(s), NEW k, NEW x, NEW y,
         MinRight(kind, s, m, k, x), HitFor(kind, s[m + 1], k),
         NEW first \in BOOLEAN, first => \A n \in 1 .. m : ~HitFor(kind, s[n], k),
         k[2] = Total /\ (\A n \in 1 .. m : ~HitFor(kind, s[n], k)) => first,
         y = IF first THEN s[m + 1].latency
             ELSE IF x > s[m + 1].latency /\ CleanFor(s[m + 1], k) THEN s[m + 1].latency ELSE x
  PROVE  MinRight(kind, s, m + 1, k, y)
<1> DEFINE lat == s[m + 1].latency
           Hit(n) == HitFor(kind, s[n], k)
           Clear(n) == Hit(n) /\ CleanFor(s[n], k)
<1>1. /\ \A n \in 1 .. m + 1 : (n \in 1 .. m \/ n = m + 1) /\ s[n] \in Record
      /\ \A n \in 1 .. m : n \in 1 .. m + 1
      /\ m + 1 \in 1 .. m + 1 /\ (m + 1) - 1 = m
  OBVIOUS
<1>2. \A n \in 1 .. m + 1 : s[n].latency \in Nat
  BY <1>1, RecordFacts
<1>3. lat \in Nat /\ x \in Nat
  BY <1>1, <1>2 DEF MinRight
<1>4. CASE first
  <2>1. \A n \in 1 .. m : ~Hit(n)
    BY <1>4
  <2>2. FirstFor(kind, s, k, m + 1)
    BY <1>1, <2>1 DEF FirstFor
  <2>3. \A n \in 1 .. m + 1 : Clear(n) => lat <= s[n].latency
    <3>1. lat <= s[m + 1].latency
      BY <1>3
    <3> QED
      BY <1>1, <2>1, <3>1
  <2>4. y = lat
    BY <1>4
  <2> QED
    BY <1>1, <1>3, <2>2, <2>3, <2>4 DEF MinRight
<1>5. CASE ~first /\ x > lat /\ CleanFor(s[m + 1], k)
  <2>1. y = lat
    BY <1>5
  <2>2. \A n \in 1 .. m + 1 : Clear(n) => lat <= s[n].latency
    <3> SUFFICES ASSUME NEW n \in 1 .. m + 1, Clear(n)
                 PROVE  lat <= s[n].latency
      OBVIOUS
    <3>1. CASE n \in 1 .. m
      <4>1. x <= s[n].latency
        BY <3>1 DEF MinRight
      <4> QED
        BY <1>2, <1>3, <1>5, <4>1
    <3>2. CASE n = m + 1
      BY <1>3, <3>2
    <3> QED
      BY <1>1, <3>1, <3>2
  <2> QED
    BY <1>1, <1>3, <1>5, <2>1, <2>2 DEF MinRight
<1>6. CASE ~first /\ ~(x > lat /\ CleanFor(s[m + 1], k))
  <2>1. y = x
    BY <1>6
  <2>2. \A n \in 1 .. m + 1 : Clear(n) => x <= s[n].latency
    <3> SUFFICES ASSUME NEW n \in 1 .. m + 1, Clear(n)
                 PROVE  x <= s[n].latency
      OBVIOUS
    <3>1. CASE n \in 1 .. m
      BY <3>1 DEF MinRight
    <3>2. CASE n = m + 1
      BY <1>3, <1>6, <3>2
    <3> QED
      BY <1>1, <3>1, <3>2
  <2>3. ASSUME HitlessFor(kind, s, m, k)
        PROVE  HitlessFor(kind, s, m + 1, k)
    <3>1. k[2] # Total
      BY <1>6, <2>3 DEF HitlessFor
    <3> QED
      BY <1>1, <2>3, <3>1 DEF HitlessFor
  <2>4. \/ \E n \in 1 .. m : Clear(n) /\ x = s[n].latency
        \/ \E n \in 1 .. m : FirstFor(kind, s, k, n) /\ x = s[n].latency
        \/ x = 0 /\ HitlessFor(kind, s, m, k)
    BY DEF MinRight
  <2>5. \/ \E n \in 1 .. m + 1 : Clear(n) /\ x = s[n].latency
        \/ \E n \in 1 .. m + 1 : FirstFor(kind, s, k, n) /\ x = s[n].latency
        \/ x = 0 /\ HitlessFor(kind, s, m + 1, k)
    BY <1>1, <2>3, <2>4
  <2> QED
    BY <1>3, <2>1, <2>2, <2>5 DEF MinRight
<1> QED
  BY <1>4, <1>5, <1>6

LEMMA BoundsNew ==
  ASSUME NEW kind, NEW s \in Seq(Record), NEW m \in Nat, m < Len(s), NEW k, NEW y,
         \A n \in 1 .. m : ~HitFor(kind, s[n], k), WeightOf(kind, s[m + 1], k) # 0,
         FirstBounds(s[m + 1], y)
  PROVE  BoundsRight(kind, s, m + 1, k, y)
<1> DEFINE r == s[m + 1]
<1>1. /\ \A n \in 1 .. m + 1 : n \in 1 .. m \/ n = m + 1
      /\ m + 1 \in 1 .. m + 1 /\ (m + 1) - 1 = m /\ r \in Record
  OBVIOUS
<1>2. r.latency \in Nat
  BY <1>1, RecordFacts
<1>3. CASE IsHit(r)
  <2>1. y.max = r.latency /\ y.min = r.latency
    BY <1>3 DEF FirstBounds
  <2>2. HitFor(kind, r, k) /\ FirstFor(kind, s, k, m + 1)
    BY <1>1, <1>3 DEF HitFor, FirstFor
  <2>3. \A n \in 1 .. m + 1 : HitFor(kind, s[n], k) => s[n].latency = r.latency
    BY <1>1
  <2>4. MaxRight(kind, s, m + 1, k, y.max)
    BY <1>1, <1>2, <2>1, <2>2, <2>3 DEF MaxRight
  <2>5. MinRight(kind, s, m + 1, k, y.min)
    BY <1>1, <1>2, <2>1, <2>2, <2>3 DEF MinRight
  <2> QED
    BY <2>4, <2>5 DEF BoundsRight
<1>4. CASE ~IsHit(r)
  <2>1. y.max = 0 /\ y.min = 0
    BY <1>4 DEF FirstBounds
  <2>2. \A n \in 1 .. m + 1 : ~HitFor(kind, s[n], k)
    BY <1>1, <1>4 DEF HitFor
  <2>3. HitlessFor(kind, s, m + 1, k)
    BY <1>1, <1>4, <2>2 DEF HitlessFor
  <2> QED
    BY <2>1, <2>2, <2>3 DEF BoundsRight, MaxRight, MinRight
<1> QED
  BY <1>3, <1>4

LEMMA NoHitsSum ==
  ASSUME NEW kind, NEW s \in Seq(Record), NEW m \in 0 .. Len(s), NEW k,
         \A n \in 1 .. m : ~HitFor(kind, s[n], k)
  PROVE  SumTo(Nums(kind, s, k, Hits), m) = 0
<1>1. ASSUME NEW n \in 1 .. m
      PROVE  Nums(kind, s, k, Hits)[n] = 0
  <2>1. n \in 1 .. Len(s)
    OBVIOUS
  <2>2. /\ Nums(kind, s, k, Hits)[n] = WeightOf(kind, s[n], k) * Unit(s[n], k, Hits)
        /\ WeightOf(kind, s[n], k) \in Nat
    BY <2>1, BytesField, NumsFacts
  <2>3. Unit(s[n], k, Hits) = Flag(IsHit(s[n]))
    BY UnitCases DEF Hits
  <2>4. WeightOf(kind, s[n], k) = 0 \/ ~IsHit(s[n])
    BY DEF HitFor
  <2>5. \A a \in Nat : a * 0 = 0 /\ 0 * 1 = 0
    OBVIOUS
  <2> QED
    BY <2>2, <2>3, <2>4, <2>5 DEF Flag
<1> QED
  BY <1>1, SumOfZeros

LEMMA LatSkip ==
  ASSUME NEW kind, NEW s \in Seq(Record), NEW m \in Nat, m < Len(s), NEW aggs,
         LatRight(kind, s, m, aggs), ~TakesOf(kind, s[m + 1])
  PROVE  LatRight(kind, s, m + 1, aggs)
<1>1. \A k : ~HitFor(kind, s[m + 1], k)
  BY DEF HitFor, WeightOf
<1>2. ASSUME NEW k, NEW c, BoundsRight(kind, s, m, k, c)
      PROVE  BoundsRight(kind, s, m + 1, k, c)
  BY <1>1, <1>2, BoundsSkip
<1> QED
  BY <1>2 DEF LatRight

LEMMA LatAdd ==
  ASSUME NEW kind, NEW s \in Seq(Record), NEW m \in Nat, m < Len(s), NEW aggs \in Tables,
         Follows(kind, s, m, aggs), LatRight(kind, s, m, aggs), TakesOf(kind, s[m + 1])
  PROVE  LatRight(kind, s, m + 1, AddTo(kind, aggs, s[m + 1]))
<1> DEFINE n   == m + 1
           r   == s[n]
           o   == OwnerOf(kind, r)
           agg == AggOf(kind, aggs, r)
           add == AddRecord(agg, r)
           new == AddTo(kind, aggs, r)
<1>1. r \in Record /\ m \in 0 .. Len(s)
  OBVIOUS
<1>2. new = [p \in DOMAIN aggs \cup {o} |-> IF p = o THEN add ELSE aggs[p]]
  BY DEF AddTo
<1>3. TakesOf(kind, r) /\ r.kind = kind
  BY DEF TakesOf
<1> HIDE DEF r, agg, add, new
<1>4. TotalsThere(aggs) /\ SumsRight(kind, s, m, aggs) /\ Covered(kind, s, m, aggs)
  BY DEF Follows
<1>5. /\ agg \in OwnerCounters /\ Total \in DOMAIN agg /\ o \in AllOwners
      /\ \A d \in DOMAIN agg : agg[d] \in Counter
  BY <1>1, <1>4, AggOfFacts, OwnerCountersFacts DEF agg
<1>6. DOMAIN add = DOMAIN agg \cup Adds(r)
  BY <1>1, <1>5, AddRecordFacts DEF add
<1>7. agg = IF o \in DOMAIN aggs THEN aggs[o] ELSE NewAggregate
  BY DEF agg, AggOf
<1>8. /\ DOMAIN NewAggregate = {Total} /\ NewAggregate[Total].max = 0 /\ NewAggregate[Total].min = 0
      /\ NewAggregate[Total].hits = 0 /\ MeansIn(NewAggregate)
  BY DEF NewAggregate, Zero, MeansIn, MeanRight, MeansOf
<1>9. DOMAIN aggs \subseteq AllOwners /\ \A p \in DOMAIN aggs : aggs[p] \in OwnerCounters
  BY TablesFacts
<1> HIDE DEF o
<1>10. /\ DOMAIN new = DOMAIN aggs \cup {o} /\ new[o] = add /\ \A p \in DOMAIN aggs \ {o} : new[p] = aggs[p]
  BY <1>2
<1>11. \A p \in DOMAIN new : MeansIn(new[p])
  <2>1. MeansIn(agg)
    BY <1>7, <1>8 DEF LatRight
  <2>2. MeansIn(add)
    BY <1>1, <1>5, <2>1, RecordMeans DEF add
  <2> QED
    BY <1>10, <2>2 DEF LatRight
<1>12. ASSUME kind # "uptime", NEW p \in DOMAIN new \ {o}, NEW d \in DOMAIN new[p]
       PROVE  BoundsRight(kind, s, n, <<p, d>>, new[p][d])
  <2>1. BoundsRight(kind, s, m, <<p, d>>, new[p][d])
    BY <1>10, <1>12 DEF LatRight
  <2>2. ~HitFor(kind, s[m + 1], <<p, d>>)
    BY <1>12 DEF HitFor, WeightOf, o, r
  <2> QED
    BY <2>1, <2>2, BoundsSkip
<1>13. \A d : WeightOf(kind, r, <<o, d>>) = TimesIn(r, d)
  BY <1>3 DEF WeightOf, o
<1>14. \A d : (WeightOf(kind, r, <<o, d>>) # 0 <=> d \in DOMAIN Times[r])
  BY <1>1, <1>13, AddsFacts DEF TimesIn
<1>15. ASSUME kind # "uptime", NEW d \in DOMAIN add, o \in DOMAIN aggs, d \in DOMAIN aggs[o]
       PROVE  BoundsRight(kind, s, n, <<o, d>>, add[d])
  <2> DEFINE k == <<o, d>>
             c == agg[d]
             y == add[d]
  <2>1. agg = aggs[o] /\ c \in Counter /\ d \in DOMAIN agg
    BY <1>5, <1>7, <1>15
  <2>2. BoundsRight(kind, s, m, k, c)
    BY <1>15, <2>1 DEF LatRight
  <2>3. c.hits = SumTo(Nums(kind, s, k, Hits), m)
    <3>1. k \in Keys
      BY <1>5, <1>9, <1>15, <2>1, OwnerCountersFacts DEF Keys
    <3>2. Counts(k, Hits)
      BY BytesField DEF Counts
    <3>3. PartIn(aggs, k, Hits) = SumTo(Nums(kind, s, k, Hits), m)
      BY <1>4, <3>1, <3>2, BytesField DEF SumsRight
    <3>4. PartIn(aggs, k, Hits) = Part(c, Hits)
      BY <1>15, <2>1 DEF PartIn, PartAt
    <3>5. Part(c, Hits) = c.hits
      BY PartCases DEF Hits
    <3> QED
      BY <3>3, <3>4, <3>5
  <2>4. (\A j \in 1 .. m : ~HitFor(kind, s[j], k)) <=> c.hits = 0
    BY <1>1, <2>3, NoHits, NoHitsSum
  <2>5. k[2] = d
    OBVIOUS
  <2>6. CASE IsHit(r) /\ d \in DOMAIN Times[r]
    <3>1. HitFor(kind, s[m + 1], k)
      BY <1>14, <2>6 DEF HitFor, r
    <3>2. HitBounds(r, d, CleanFor(r, k), c, y)
      BY <1>1, <1>3, <1>5, <1>15, <2>1, <2>6, HitRecordLat DEF add
    <3> HIDE DEF k, c, y
    <3>3. c.max \in Nat /\ MaxRight(kind, s, m, k, c.max) /\ MinRight(kind, s, m, k, c.min)
      BY <2>1, <2>2 DEF BoundsRight, Counter
    <3>4. MaxRight(kind, s, m + 1, k, y.max)
      BY <3>1, <3>2, <3>3, MaxMore DEF HitBounds, r
    <3>5. MinRight(kind, s, m + 1, k, y.min)
      <4> DEFINE first == d = Total /\ c.hits = 0
      <4>1. first \in BOOLEAN /\ (first => \A j \in 1 .. m : ~HitFor(kind, s[j], k))
        BY <2>4
      <4>2. k[2] = Total /\ (\A j \in 1 .. m : ~HitFor(kind, s[j], k)) => first
        BY <2>4, <2>5
      <4>3. y.min = IF first THEN s[m + 1].latency
                    ELSE IF c.min > s[m + 1].latency /\ CleanFor(s[m + 1], k) THEN s[m + 1].latency ELSE c.min
        BY <3>2 DEF HitBounds, r
      <4> HIDE DEF first
      <4> QED
        BY <3>1, <3>3, <4>1, <4>2, <4>3, MinMore
    <3> QED
      BY <3>4, <3>5 DEF BoundsRight, k, y
  <2>7. CASE IsHit(r) /\ d \notin DOMAIN Times[r]
    <3>1. ~HitFor(kind, s[m + 1], k)
      BY <1>14, <2>7 DEF HitFor, r
    <3>2. SameBounds(c, y)
      BY <1>1, <1>3, <1>5, <1>15, <2>1, <2>7, HitRecordLat DEF add
    <3> HIDE DEF k, c, y
    <3> QED
      BY <2>2, <3>1, <3>2, BoundsSkip DEF SameBounds, k, y
  <2>8. CASE ~IsHit(r)
    <3>1. ~HitFor(kind, s[m + 1], k)
      BY <2>8 DEF HitFor, r
    <3>2. IdleBounds(r, d, c, y)
      BY <1>1, <1>3, <1>5, <1>15, <2>1, <2>8, IdleRecordLat DEF add
    <3>3. d \in r.extra => d # Total /\ WeightOf(kind, s[m + 1], k) # 0
      BY <1>1, <1>14, Apart, TimesFacts DEF r
    <3> HIDE DEF k, c, y
    <3>4. \/ y.min = c.min
          \/ y.min = 0 /\ k[2] # Total /\ WeightOf(kind, s[m + 1], k) # 0 /\ ~IsHit(s[m + 1])
      BY <2>5, <2>8, <3>2, <3>3 DEF IdleBounds, r
    <3>5. y.max = c.max
      BY <3>2 DEF IdleBounds
    <3> QED
      BY <2>2, <3>1, <3>4, <3>5, BoundsSkip DEF k, y
  <2> QED
    BY <2>6, <2>7, <2>8
<1>16. ASSUME kind # "uptime", NEW d \in DOMAIN add, ~(o \in DOMAIN aggs /\ d \in DOMAIN aggs[o])
       PROVE  BoundsRight(kind, s, n, <<o, d>>, add[d])
  <2>1. \A j \in 1 .. m : ~HitFor(kind, s[j], <<o, d>>)
    <3> SUFFICES ASSUME NEW j \in 1 .. m, HitFor(kind, s[j], <<o, d>>)
                 PROVE  FALSE
      OBVIOUS
    <3>1. s[j] \in Record
      OBVIOUS
    <3>2. TakesOf(kind, s[j]) /\ OwnerOf(kind, s[j]) = o /\ TimesIn(s[j], d) # 0 /\ IsHit(s[j])
      BY DEF HitFor, WeightOf
    <3>3. d \in Adds(s[j])
      BY <3>2 DEF TimesIn, Adds
    <3> QED
      BY <1>4, <1>16, <3>2, <3>3 DEF Covered
  <2>2. d \in Adds(r) /\ (d \in DOMAIN agg => o \notin DOMAIN aggs /\ d = Total)
    BY <1>1, <1>6, <1>7, <1>8, <1>16, AddsFacts
  <2>3. WeightOf(kind, s[m + 1], <<o, d>>) # 0
    BY <1>1, <1>14, <2>2, AddsFacts DEF r
  <2>4. FirstBounds(r, add[d])
    <3>1. CASE d \notin DOMAIN agg /\ IsHit(r)
      BY <1>1, <1>3, <1>5, <1>16, <3>1, HitRecordLat DEF add
    <3>2. CASE d \notin DOMAIN agg /\ ~IsHit(r)
      BY <1>1, <1>3, <1>5, <1>16, <3>2, IdleRecordLat DEF add
    <3>3. CASE d \in DOMAIN agg /\ IsHit(r)
      <4>1. agg[d].max = 0 /\ agg[d].hits = 0 /\ d = Total
        BY <1>7, <1>8, <2>2, <3>3
      <4>2. d \in DOMAIN Times[r]
        BY <1>1, <2>2, AddsFacts
      <4>3. HitBounds(r, d, CleanFor(r, <<o, d>>), agg[d], add[d])
        BY <1>1, <1>3, <1>5, <1>16, <3>3, <4>2, HitRecordLat DEF add
      <4>4. r.latency \in Nat
        BY <1>1, RecordFacts
      <4> QED
        BY <3>3, <4>1, <4>3, <4>4 DEF HitBounds, FirstBounds, MaxOf
    <3>4. CASE d \in DOMAIN agg /\ ~IsHit(r)
      <4>1. agg[d].max = 0 /\ agg[d].min = 0
        BY <1>7, <1>8, <2>2, <3>4
      <4>2. IdleBounds(r, d, agg[d], add[d])
        BY <1>1, <1>3, <1>5, <1>16, <3>4, IdleRecordLat DEF add
      <4> QED
        BY <3>4, <4>1, <4>2 DEF IdleBounds, FirstBounds
    <3> QED
      BY <3>1, <3>2, <3>3, <3>4
  <2> QED
    BY <2>1, <2>3, <2>4, BoundsNew DEF r
<1>17. ASSUME kind # "uptime", NEW p \in DOMAIN new, NEW d \in DOMAIN new[p]
       PROVE  BoundsRight(kind, s, n, <<p, d>>, new[p][d])
  <2>1. CASE p = o
    BY <1>10, <1>15, <1>16, <1>17, <2>1
  <2>2. CASE p # o
    BY <1>12, <1>17, <2>2
  <2> QED
    BY <2>1, <2>2
<1> QED
  BY <1>11, <1>17 DEF LatRight, new, r

(* A row that has counted the calls C.                                       *)
RowMax(kind, sl, C, k, x) ==
  /\ \A c \in C : \A n \in 1 .. Len(sl[c]) : HitFor(kind, sl[c][n], k) => sl[c][n].latency <= x
  /\ x = 0 \/ \E c \in C : \E n \in 1 .. Len(sl[c]) : HitFor(kind, sl[c][n], k) /\ x = sl[c][n].latency

RowMin(kind, db, sl, C, k, x) ==
  /\ x \in Nat \/ (db = "mongo" /\ x = Absent)
  /\ \A c \in C : \A n \in 1 .. Len(sl[c]) : HitFor(kind, sl[c][n], k) /\ CleanFor(sl[c][n], k) =>
       x \in Nat /\ x <= sl[c][n].latency
  /\ \/ \E c \in C : \E n \in 1 .. Len(sl[c]) :
          HitFor(kind, sl[c][n], k) /\ CleanFor(sl[c][n], k) /\ x = sl[c][n].latency
     \/ \E c \in C : \E n \in 1 .. Len(sl[c]) : FirstFor(kind, sl[c], k, n) /\ x = sl[c][n].latency
     \/ x = 0 /\ \E c \in C : HitlessFor(kind, sl[c], Len(sl[c]), k)
     \/ db = "mongo" /\ x = Absent

(* After the first m of the calls q.                                         *)
SumAfter(kind, sl, q, m, k, f) == CallSum(kind, sl, SubSeq(q, 1, m), k, f)

(* What a second update is going to write was right after some call.         *)
SeenRight(kind, sl, q, k, seen) ==
  \E m \in 0 .. Len(q) : /\ seen.sum = SumAfter(kind, sl, q, m, k, Sum)
                         /\ seen.hits = SumAfter(kind, sl, q, m, k, Hits)

MeanSeen(kind, sl, q, k, mean) ==
  \E m \in 0 .. Len(q) : mean \in MeansOf(SumAfter(kind, sl, q, m, k, Sum), SumAfter(kind, sl, q, m, k, Hits))

RowBounds(pm, sl, k, row, q) ==
  pm # "sqlUptime" => /\ RowMax(Profile[pm].kind, sl, ToSet(q), k, row.max)
                      /\ RowMin(Profile[pm].kind, Profile[pm].db, sl, ToSet(q), k, row.min)

(* The average of uptime data is that of the first call.                     *)
RowMean(pm, sl, k, row, q) ==
  LET kind == Profile[pm].kind
  IN /\ pm = "sqlUptime" => row.mean \in MeansOf(SliceSum(kind, sl[q[1]], k, Sum), SliceSum(kind, sl[q[1]], k, Hits))
     /\ Profile[pm].db = "sql" /\ pm # "sqlUptime" => MeanRight(row)
     /\ Profile[pm].db = "mongo" => MeanSeen(kind, sl, q, k, row.mean)

-----------------------------------------------------------------------------
(* The bounds and the average of a row that has counted one more call.       *)

LEMMA RowMaxMore ==
  ASSUME NEW kind, NEW sl, \A b \in Call : sl[b] \in Seq(Record), NEW C \in SUBSET Call, NEW c \in Call, NEW k,
         NEW x \in Nat, NEW y \in Nat, RowMax(kind, sl, C, k, x), MaxRight(kind, sl[c], Len(sl[c]), k, y)
  PROVE  RowMax(kind, sl, C \cup {c}, k, MaxOf(x, y))
<1> DEFINE z == MaxOf(x, y)
<1>1. x <= z /\ y <= z /\ (z = x \/ z = y) /\ z \in Nat
  BY DEF MaxOf
<1> HIDE DEF z
<1>2. ASSUME NEW b \in C \cup {c}, NEW n \in 1 .. Len(sl[b]), HitFor(kind, sl[b][n], k)
      PROVE  sl[b][n].latency <= z
  <2>1. b \in Call
    OBVIOUS
  <2>2. sl[b] \in Seq(Record)
    BY <2>1
  <2>3. sl[b][n].latency \in Nat
    BY <2>2, RecordFacts
  <2>4. CASE b \in C
    <3>1. sl[b][n].latency <= x
      BY <1>2, <2>4 DEF RowMax
    <3> QED
      BY <1>1, <2>3, <3>1
  <2>5. CASE b = c
    <3>1. sl[b][n].latency <= y
      BY <1>2, <2>5 DEF MaxRight
    <3> QED
      BY <1>1, <2>3, <3>1
  <2> QED
    BY <2>4, <2>5
<1>3. z = 0 \/ \E b \in C \cup {c} : \E n \in 1 .. Len(sl[b]) : HitFor(kind, sl[b][n], k) /\ z = sl[b][n].latency
  <2>1. CASE z = x
    <3>1. x = 0 \/ \E b \in C : \E n \in 1 .. Len(sl[b]) : HitFor(kind, sl[b][n], k) /\ x = sl[b][n].latency
      BY DEF RowMax
    <3> QED
      BY <2>1, <3>1
  <2>2. CASE z = y
    <3>1. y = 0 \/ \E n \in 1 .. Len(sl[c]) : HitFor(kind, sl[c][n], k) /\ y = sl[c][n].latency
      BY DEF MaxRight
    <3> QED
      BY <2>2, <3>1
  <2> QED
    BY <1>1, <2>1, <2>2
<1> QED
  BY <1>2, <1>3 DEF RowMax, z

(* A call none of whose hits is to lower the minimum, and calls with none.   *)
Unclean(kind, s, k) == \A n \in 1 .. Len(s) : ~(HitFor(kind, s[n], k) /\ CleanFor(s[n], k))

LEMMA RowMinFirst ==
  ASSUME NEW kind, NEW db, NEW sl, NEW C \in SUBSET Call, NEW c \in Call, NEW k, NEW y,
         \A b \in C : Unclean(kind, sl[b], k), MinRight(kind, sl[c], Len(sl[c]), k, y)
  PROVE  RowMin(kind, db, sl, C \cup {c}, k, y)
<1> DEFINE s == sl[c]
<1>1. y \in Nat
  BY DEF MinRight
<1>2. ASSUME NEW b \in C \cup {c}, NEW n \in 1 .. Len(sl[b]), HitFor(kind, sl[b][n], k), CleanFor(sl[b][n], k)
      PROVE  y \in Nat /\ y <= sl[b][n].latency
  <2>1. b = c
    BY <1>2 DEF Unclean
  <2> QED
    BY <1>1, <1>2, <2>1 DEF MinRight
<1>3. \/ \E n \in 1 .. Len(s) : HitFor(kind, s[n], k) /\ CleanFor(s[n], k) /\ y = s[n].latency
      \/ \E n \in 1 .. Len(s) : FirstFor(kind, s, k, n) /\ y = s[n].latency
      \/ y = 0 /\ HitlessFor(kind, s, Len(s), k)
  BY DEF MinRight
<1>4. c \in C \cup {c}
  OBVIOUS
<1> HIDE DEF s
<1>5. \/ \E b \in C \cup {c} : \E n \in 1 .. Len(sl[b]) :
           HitFor(kind, sl[b][n], k) /\ CleanFor(sl[b][n], k) /\ y = sl[b][n].latency
      \/ \E b \in C \cup {c} : \E n \in 1 .. Len(sl[b]) : FirstFor(kind, sl[b], k, n) /\ y = sl[b][n].latency
      \/ y = 0 /\ \E b \in C \cup {c} : HitlessFor(kind, sl[b], Len(sl[b]), k)
  BY <1>3, <1>4 DEF s
<1> QED
  BY <1>1, <1>2, <1>5 DEF RowMin

LEMMA RowMinSame ==
  ASSUME NEW kind, NEW db, NEW sl, NEW C \in SUBSET Call, NEW c \in Call, NEW k, NEW x,
         RowMin(kind, db, sl, C, k, x), Unclean(kind, sl[c], k)
  PROVE  RowMin(kind, db, sl, C \cup {c}, k, x)
<1>1. ASSUME NEW b \in C \cup {c}, NEW n \in 1 .. Len(sl[b]), HitFor(kind, sl[b][n], k), CleanFor(sl[b][n], k)
      PROVE  x \in Nat /\ x <= sl[b][n].latency
  <2>1. b \in C
    BY <1>1 DEF Unclean
  <2> QED
    BY <1>1, <2>1 DEF RowMin
<1>2. x \in Nat \/ (db = "mongo" /\ x = Absent)
  BY DEF RowMin
<1>3. \/ \E b \in C : \E n \in 1 .. Len(sl[b]) :
           HitFor(kind, sl[b][n], k) /\ CleanFor(sl[b][n], k) /\ x = sl[b][n].latency
      \/ \E b \in C : \E n \in 1 .. Len(sl[b]) : FirstFor(kind, sl[b], k, n) /\ x = sl[b][n].latency
      \/ x = 0 /\ \E b \in C : HitlessFor(kind, sl[b], Len(sl[b]), k)
      \/ db = "mongo" /\ x = Absent
  BY DEF RowMin
<1>4. \/ \E b \in C \cup {c} : \E n \in 1 .. Len(sl[b]) :
           HitFor(kind, sl[b][n], k) /\ CleanFor(sl[b][n], k) /\ x = sl[b][n].latency
      \/ \E b \in C \cup {c} : \E n \in 1 .. Len(sl[b]) : FirstFor(kind, sl[b], k, n) /\ x = sl[b][n].latency
      \/ x = 0 /\ \E b \in C \cup {c} : HitlessFor(kind, sl[b], Len(sl[b]), k)
      \/ db = "mongo" /\ x = Absent
  BY <1>3
<1> QED
  BY <1>1, <1>2, <1>4 DEF RowMin

LEMMA RowMinMore ==
  ASSUME NEW kind, NEW db, NEW sl, \A b \in Call : sl[b] \in Seq(Record), NEW C \in SUBSET Call, NEW c \in Call,
         NEW k, NEW x \in Nat, NEW y, RowMin(kind, db, sl, C, k, x), MinRight(kind, sl[c], Len(sl[c]), k, y)
  PROVE  RowMin(kind, db, sl, C \cup {c}, k, MinOf(x, y))
<1> DEFINE z == MinOf(x, y)
           s == sl[c]
<1>0. y \in Nat
  BY DEF MinRight
<1>1. z <= x /\ z <= y /\ (z = x \/ z = y) /\ z \in Nat
  BY <1>0 DEF MinOf
<1> HIDE DEF z
<1>2. ASSUME NEW b \in C \cup {c}, NEW n \in 1 .. Len(sl[b]), HitFor(kind, sl[b][n], k), CleanFor(sl[b][n], k)
      PROVE  z \in Nat /\ z <= sl[b][n].latency
  <2>1. b \in Call
    OBVIOUS
  <2>2. sl[b] \in Seq(Record)
    BY <2>1
  <2>3. sl[b][n].latency \in Nat
    BY <2>2, RecordFacts
  <2>4. CASE b \in C
    <3>1. x <= sl[b][n].latency
      BY <1>2, <2>4 DEF RowMin
    <3> QED
      BY <1>1, <2>3, <3>1
  <2>5. CASE b = c
    <3>1. y <= sl[b][n].latency
      BY <1>2, <2>5 DEF MinRight
    <3> QED
      BY <1>0, <1>1, <2>3, <3>1
  <2> QED
    BY <2>4, <2>5
<1>3. CASE z = x
  <2>1. \/ \E b \in C : \E n \in 1 .. Len(sl[b]) :
             HitFor(kind, sl[b][n], k) /\ CleanFor(sl[b][n], k) /\ x = sl[b][n].latency
        \/ \E b \in C : \E n \in 1 .. Len(sl[b]) : FirstFor(kind, sl[b], k, n) /\ x = sl[b][n].latency
        \/ x = 0 /\ \E b \in C : HitlessFor(kind, sl[b], Len(sl[b]), k)
        \/ db = "mongo" /\ x = Absent
    BY DEF RowMin
  <2>2. \/ \E b \in C \cup {c} : \E n \in 1 .. Len(sl[b]) :
             HitFor(kind, sl[b][n], k) /\ CleanFor(sl[b][n], k) /\ z = sl[b][n].latency
        \/ \E b \in C \cup {c} : \E n \in 1 .. Len(sl[b]) : FirstFor(kind, sl[b], k, n) /\ z = sl[b][n].latency
        \/ z = 0 /\ \E b \in C \cup {c} : HitlessFor(kind, sl[b], Len(sl[b]), k)
        \/ db = "mongo" /\ z = Absent
    BY <1>3, <2>1
  <2> QED
    BY <1>1, <1>2, <2>2 DEF RowMin, z
<1>4. CASE z = y
  <2>1. \/ \E n \in 1 .. Len(s) : HitFor(kind, s[n], k) /\ CleanFor(s[n], k) /\ y = s[n].latency
        \/ \E n \in 1 .. Len(s) : FirstFor(kind, s, k, n) /\ y = s[n].latency
        \/ y = 0 /\ HitlessFor(kind, s, Len(s), k)
    BY DEF MinRight
  <2>2. c \in C \cup {c}
    OBVIOUS
  <2> HIDE DEF s
  <2>3. \/ \E b \in C \cup {c} : \E n \in 1 .. Len(sl[b]) :
             HitFor(kind, sl[b][n], k) /\ CleanFor(sl[b][n], k) /\ z = sl[b][n].latency
        \/ \E b \in C \cup {c} : \E n \in 1 .. Len(sl[b]) : FirstFor(kind, sl[b], k, n) /\ z = sl[b][n].latency
        \/ z = 0 /\ \E b \in C \cup {c} : HitlessFor(kind, sl[b], Len(sl[b]), k)
    BY <1>4, <2>1, <2>2 DEF s
  <2> QED
    BY <1>1, <1>2, <2>3 DEF RowMin, z
<1> QED
  BY <1>1, <1>3, <1>4

LEMMA LatFields ==
  /\ Sum \in Field /\ Sum # Bytes /\ Sum # <<"success", 0>> /\ Sum = <<"sum", 0>>
  /\ <<"errors", 0>> \in Field /\ <<"errors", 0>> # Bytes /\ <<"errors", 0>> # <<"success", 0>>
  /\ Hits \in Field /\ Hits # Bytes /\ Hits # <<"success", 0>> /\ Hits = <<"hits", 0>>
  /\ \A k : Counts(k, Sum) /\ Counts(k, Hits) /\ Counts(k, <<"errors", 0>>)
BY DEF Sum, Hits, Bytes, Field, Counts

LEMMA ErrorIsHit ==
  ASSUME NEW r, r.code \in Int
  PROVE  IsError(r) => IsHit(r) /\ ~IsSuccess(r)
BY DEF IsError, IsHit, IsSuccess

(* All hits of a slice are errors: none of them lowers the minimum.          *)
LEMMA AllErrors ==
  ASSUME NEW kind \in {"rest", "mcp"}, NEW s \in Seq(Record), NEW k,
         SliceSum(kind, s, k, Hits) = SliceSum(kind, s, k, <<"errors", 0>>)
  PROVE  Unclean(kind, s, k)
<1> DEFINE v == Nums(kind, s, k, <<"errors", 0>>)
           w == Nums(kind, s, k, Hits)
           a(n) == WeightOf(kind, s[n], k)
<1>1. Len(s) \in Nat
  OBVIOUS
<1>2. ASSUME NEW n \in 1 .. Len(s)
      PROVE  /\ a(n) \in Nat /\ v[n] \in Nat /\ w[n] \in Nat /\ v[n] <= w[n]
             /\ v[n] = w[n] /\ HitFor(kind, s[n], k) => ~CleanFor(s[n], k)
  <2> DEFINE r == s[n]
  <2>1. r \in Record
    OBVIOUS
  <2>2. /\ v[n] = a(n) * Unit(r, k, <<"errors", 0>>) /\ w[n] = a(n) * Unit(r, k, Hits)
        /\ a(n) \in Nat /\ v[n] \in Nat /\ w[n] \in Nat
    BY LatFields, NumsFacts
  <2>3. Unit(r, k, <<"errors", 0>>) = Flag(IsError(r) \/ GraphError(r, k)) /\ Unit(r, k, Hits) = Flag(IsHit(r))
    BY UnitCases DEF Hits
  <2>4. r.code \in Int
    BY <2>1, RecordFacts
  <2>5. IsError(r) => IsHit(r) /\ ~IsSuccess(r)
    BY <2>4, ErrorIsHit
  <2> HIDE DEF r, v, w, a
  <2>6. \A e \in Nat : e * 0 = 0 /\ e * 1 = e
    OBVIOUS
  <2>7. CASE a(n) = 0
    <3>1. Flag(IsError(r) \/ GraphError(r, k)) \in {0, 1} /\ Flag(IsHit(r)) \in {0, 1}
      BY DEF Flag
    <3>2. v[n] = 0 /\ w[n] = 0
      BY <2>2, <2>3, <2>7, <3>1
    <3> QED
      BY <2>2, <2>7, <3>2 DEF HitFor, a, r
  <2>8. CASE a(n) # 0
    <3>1. r.kind = kind
      BY <2>8 DEF a, r, WeightOf, TakesOf
    <3>2. ~GraphError(r, k)
      BY <3>1 DEF GraphError
    <3>3. v[n] = IF IsError(r) THEN a(n) ELSE 0
      BY <2>2, <2>3, <2>6, <3>2 DEF Flag
    <3>4. w[n] = IF IsHit(r) THEN a(n) ELSE 0
      BY <2>2, <2>3, <2>6 DEF Flag
    <3>5. IsError(r) => ~CleanFor(r, k)
      BY <2>5 DEF CleanFor
    <3>6. HitFor(kind, r, k) => IsHit(r)
      BY DEF HitFor
    <3> QED
      BY <2>2, <2>5, <2>8, <3>3, <3>4, <3>5, <3>6 DEF r
  <2> QED
    BY <2>7, <2>8
<1> HIDE DEF v, w, a
<1>3. SumTo(v, Len(s)) = SumTo(w, Len(s))
  BY DEF SliceSum, v, w
<1>4. \A n \in 1 .. Len(s) : v[n] = w[n]
  BY <1>1, <1>2, <1>3, SumLess
<1> QED
  BY <1>2, <1>4 DEF Unclean

(* The bounds and the average that a merge leaves.                           *)
LEMMA MergeParts ==
  ASSUME NEW pm \in DOMAIN Profile, NEW t, NEW k, k \in DOMAIN t => t[k] \in Counter, NEW new \in Counter
  PROVE  LET out  == MergeOf(pm, t, k, new)
             base == IF k \in DOMAIN t THEN t[k] ELSE NoProperty
         IN /\ Profile[pm].db = "mongo" =>
                 /\ base.max \in Nat /\ out.max = MaxOf(base.max, new.max) /\ out.mean = base.mean
                 /\ out.min = IF new.hits = new.errors THEN base.min
                              ELSE IF base.min = Absent THEN new.min ELSE MinOf(base.min, new.min)
            /\ Profile[pm].db # "mongo" /\ k \notin DOMAIN t => out = new
            /\ pm = "sqlUptime" /\ k \in DOMAIN t => out.mean = t[k].mean
            /\ Profile[pm].db # "mongo" /\ pm # "sqlUptime" /\ k \in DOMAIN t =>
                 /\ out.max = MaxOf(t[k].max, new.max) /\ out.min = MinOf(t[k].min, new.min)
                 /\ out.hits = t[k].hits + new.hits /\ out.sum = t[k].sum + new.sum
                 /\ out.mean = <<out.sum, out.hits>>
<1> DEFINE out  == MergeOf(pm, t, k, new)
           base == IF k \in DOMAIN t THEN t[k] ELSE NoProperty
           doc  == generateBSONFromProperty(base, new)
           set  == OnConflictAssignments(t[k], new)
           upt  == OnConflictUptimeAssignments(t[k], new)
<1>1. NoProperty \in Counter
  <2>1. EmptyBag \in CodeBag
    <3>1. 0 \in Int
      OBVIOUS
    <3> QED
      BY <3>1, SingleCode
  <2>2. Zero \in Counter
    BY <2>1 DEF Zero, Counter, NoMean
  <2>3. Absent \in Int
    BY DEF Absent
  <2> QED
    BY <2>2, <2>3 DEF NoProperty, Counter
<1>2. base \in Counter
  BY <1>1
<1>3. pm = "sqlUptime" => Profile[pm].db # "mongo"
  BY ProfileFacts
<1>4. /\ Profile[pm].db = "mongo" =>
           out = IF k[2][1] \in {"methods", "primitives", "names"} THEN [doc EXCEPT !.bytes = base.bytes]
                 ELSE [doc EXCEPT !.made = TRUE]
      /\ Profile[pm].db # "mongo" /\ k \notin DOMAIN t => out = new
      /\ Profile[pm].db # "mongo" /\ k \in DOMAIN t /\ pm = "sqlUptime" => out = upt
      /\ Profile[pm].db # "mongo" /\ k \in DOMAIN t /\ pm # "sqlUptime" => out = set
  <2> HIDE DEF doc, set, upt, base
  <2> QED
    BY DEF MergeOf, doc, set, upt, base
<1>5. /\ doc.max = MaxOf(base.max, new.max) /\ doc.mean = base.mean /\ doc \in Counter
      /\ doc.min = IF new.hits = new.errors THEN base.min
                   ELSE IF base.min = Absent THEN new.min ELSE MinOf(base.min, new.min)
  <2>1. doc \in Counter
    BY <1>2, DocumentFacts
  <2> HIDE DEF base
  <2>2. /\ doc.max = MaxOf(base.max, new.max) /\ doc.mean = base.mean
        /\ doc.min = IF new.hits = new.errors THEN base.min
                     ELSE IF base.min = Absent THEN new.min ELSE MinOf(base.min, new.min)
    BY <1>2 DEF generateBSONFromProperty, Counter
  <2> QED
    BY <2>1, <2>2
<1> HIDE DEF out, doc, base
<1>6. Profile[pm].db = "mongo" => out.max = doc.max /\ out.min = doc.min /\ out.mean = doc.mean
  BY <1>4, <1>5 DEF Counter
<1>7. k \in DOMAIN t => upt.mean = t[k].mean
  BY DEF OnConflictUptimeAssignments, Counter
<1>8. k \in DOMAIN t =>
        /\ set.max = MaxOf(t[k].max, new.max) /\ set.min = MinOf(t[k].min, new.min)
        /\ set.hits = t[k].hits + new.hits /\ set.sum = t[k].sum + new.sum
        /\ set.mean = <<set.sum, set.hits>>
  BY DEF OnConflictAssignments, Counter
<1>9. base.max \in Nat
  BY <1>2 DEF Counter
<1> QED
  BY <1>3, <1>4, <1>5, <1>6, <1>7, <1>8, <1>9 DEF out, base

LEMMA AppendCalls ==
  ASSUME NEW q \in Seq(Call), NEW c \in Call
  PROVE  /\ ToSet(Append(q, c)) = ToSet(q) \cup {c}
         /\ ToSet(q) \in SUBSET Call
         /\ q = <<>> => ToSet(q) = {}
         /\ Append(q, c)[1] = IF q = <<>> THEN c ELSE q[1]
<1> DEFINE p == Append(q, c)
<1>1. /\ Len(q) \in Nat /\ DOMAIN q = 1 .. Len(q) /\ DOMAIN p = 1 .. Len(q) + 1
      /\ p[Len(q) + 1] = c /\ \A i \in 1 .. Len(q) : p[i] = q[i] /\ q[i] \in Call
      /\ q = <<>> => Len(q) = 0
      /\ q # <<>> => 1 \in 1 .. Len(q)
  OBVIOUS
<1> HIDE DEF p
<1>2. \A i \in 1 .. Len(q) : i \in 1 .. Len(q) + 1
  BY <1>1
<1>3. Len(q) + 1 \in 1 .. Len(q) + 1 /\ \A i \in 1 .. Len(q) + 1 : i \in 1 .. Len(q) \/ i = Len(q) + 1
  BY <1>1
<1>4. ToSet(p) = ToSet(q) \cup {c}
  <2>1. ASSUME NEW i \in DOMAIN p
        PROVE  p[i] \in ToSet(q) \cup {c}
    BY <1>1, <1>3 DEF ToSet
  <2>2. ASSUME NEW x \in ToSet(q) \cup {c}
        PROVE  x \in ToSet(p)
    BY <1>1, <1>2, <1>3 DEF ToSet
  <2>3. ToSet(p) \subseteq ToSet(q) \cup {c}
    BY <2>1 DEF ToSet
  <2> QED
    BY <2>2, <2>3
<1>5. ToSet(q) \in SUBSET Call /\ (q = <<>> => ToSet(q) = {})
  BY <1>1 DEF ToSet
<1>6. p[1] = IF q = <<>> THEN c ELSE q[1]
  BY <1>1
<1> QED
  BY <1>4, <1>5, <1>6 DEF p

LEMMA Prefix ==
  ASSUME NEW q \in Seq(Call), NEW c \in Call, NEW p, p = Append(q, c), NEW m \in 0 .. Len(q)
  PROVE  SubSeq(p, 1, m) = SubSeq(q, 1, m) /\ m \in 0 .. Len(p) /\ SubSeq(q, 1, m) \in Seq(Call)
OBVIOUS

LEMMA NoCallsSum ==
  ASSUME NEW kind, NEW sl, NEW e, e = <<>>, NEW k, NEW f
  PROVE  CallSum(kind, sl, e, k, f) = 0
<1>1. Len(e) = 0
  OBVIOUS
<1> QED
  BY <1>1, SumOfNone DEF CallSum

LEMMA NoCalls ==
  ASSUME NEW kind, NEW sl, NEW k
  PROVE  RowMax(kind, sl, {}, k, 0) /\ RowMin(kind, "mongo", sl, {}, k, Absent)
BY DEF RowMax, RowMin, Absent

LEMMA AbsentUnclean ==
  ASSUME NEW kind, NEW db, NEW sl, NEW C, NEW k, RowMin(kind, db, sl, C, k, Absent), NEW c \in C
  PROVE  Unclean(kind, sl[c], k)
<1>1. Absent \notin Nat
  BY DEF Absent
<1> QED
  BY <1>1 DEF RowMin, Unclean

LEMMA RowBoundsMore ==
  ASSUME NEW pm \in DOMAIN Profile, NEW sl, \A b \in Call : sl[b] \in Seq(Record), NEW k,
         NEW t, NEW q \in Seq(Call), NEW c \in Call, NEW new \in Counter,
         k \in DOMAIN t => t[k] \in Counter /\ RowBounds(pm, sl, k, t[k], q),
         k \notin DOMAIN t => q = <<>>,
         pm # "sqlUptime" => BoundsRight(Profile[pm].kind, sl[c], Len(sl[c]), k, new),
         SliceSum(Profile[pm].kind, sl[c], k, Hits) = new.hits,
         SliceSum(Profile[pm].kind, sl[c], k, <<"errors", 0>>) = new.errors
  PROVE  RowBounds(pm, sl, k, MergeOf(pm, t, k, new), Append(q, c))
<1> DEFINE out  == MergeOf(pm, t, k, new)
           kind == Profile[pm].kind
           db   == Profile[pm].db
           base == IF k \in DOMAIN t THEN t[k] ELSE NoProperty
           C    == ToSet(q)
<1> SUFFICES ASSUME pm # "sqlUptime"
             PROVE  RowMax(kind, sl, ToSet(Append(q, c)), k, out.max)
                    /\ RowMin(kind, db, sl, ToSet(Append(q, c)), k, out.min)
  BY DEF RowBounds
<1>0. k \in DOMAIN t => t[k] \in Counter
  OBVIOUS
<1>1. /\ db = "mongo" =>
           /\ base.max \in Nat /\ out.max = MaxOf(base.max, new.max)
           /\ out.min = IF new.hits = new.errors THEN base.min
                        ELSE IF base.min = Absent THEN new.min ELSE MinOf(base.min, new.min)
      /\ db # "mongo" /\ k \notin DOMAIN t => out = new
      /\ db # "mongo" /\ k \in DOMAIN t => out.max = MaxOf(t[k].max, new.max) /\ out.min = MinOf(t[k].min, new.min)
  <2>1. db = "mongo" =>
           /\ base.max \in Nat /\ out.max = MaxOf(base.max, new.max)
           /\ out.min = IF new.hits = new.errors THEN base.min
                        ELSE IF base.min = Absent THEN new.min ELSE MinOf(base.min, new.min)
    BY <1>0, MergeParts
  <2>2. db # "mongo" /\ k \notin DOMAIN t => out = new
    BY <1>0, MergeParts
  <2>3. db # "mongo" /\ k \in DOMAIN t => out.max = MaxOf(t[k].max, new.max) /\ out.min = MinOf(t[k].min, new.min)
    BY <1>0, MergeParts
  <2> QED
    BY <2>1, <2>2, <2>3
<1>2. ToSet(Append(q, c)) = C \cup {c} /\ C \in SUBSET Call /\ (k \notin DOMAIN t => C = {})
  BY AppendCalls
<1>3. db \in {"mongo", "sql"} /\ (db = "mongo" => kind \in {"rest", "mcp"})
  BY DEF Profile
<1>4. MaxRight(kind, sl[c], Len(sl[c]), k, new.max) /\ MinRight(kind, sl[c], Len(sl[c]), k, new.min)
  BY DEF BoundsRight
<1>5. k \in DOMAIN t => /\ t[k].max \in Nat
                        /\ RowMax(kind, sl, C, k, t[k].max) /\ RowMin(kind, db, sl, C, k, t[k].min)
  BY DEF RowBounds, Counter
<1>6. k \notin DOMAIN t => base.max = 0 /\ base.min = Absent
  BY DEF NoProperty, Zero
<1>7. new.max \in Nat /\ sl[c] \in Seq(Record)
  BY DEF Counter
<1>8. new.hits = new.errors /\ db = "mongo" => Unclean(kind, sl[c], k)
  BY <1>3, <1>7, AllErrors
<1>9. k \in DOMAIN t => base = t[k]
  OBVIOUS
<1> HIDE DEF out, kind, db, base, C
<1>10. RowMax(kind, sl, C \cup {c}, k, out.max)
  <2> DEFINE x == IF k \in DOMAIN t THEN t[k].max ELSE 0
  <2>1. x \in Nat /\ RowMax(kind, sl, C, k, x)
    BY <1>2, <1>5, NoCalls
  <2>2. out.max = MaxOf(x, new.max)
    <3>1. MaxOf(0, new.max) = new.max
      BY <1>7 DEF MaxOf
    <3> QED
      BY <1>1, <1>3, <1>6, <1>9, <3>1
  <2> HIDE DEF x
  <2> QED
    BY <1>2, <1>4, <1>7, <2>1, <2>2, RowMaxMore
<1>11. RowMin(kind, db, sl, C \cup {c}, k, out.min)
  <2>1. CASE db # "mongo" /\ k \notin DOMAIN t
    <3>1. \A b \in C : Unclean(kind, sl[b], k)
      BY <1>2, <2>1
    <3> QED
      BY <1>1, <1>2, <1>4, <2>1, <3>1, RowMinFirst
  <2>2. CASE db # "mongo" /\ k \in DOMAIN t
    <3>1. t[k].min \in Nat
      BY <1>5, <2>2 DEF RowMin
    <3> QED
      BY <1>1, <1>2, <1>4, <1>5, <2>2, <3>1, RowMinMore
  <2>3. CASE db = "mongo"
    <3>1. RowMin(kind, db, sl, C, k, base.min)
      BY <1>2, <1>5, <1>6, <1>9, <2>3, NoCalls
    <3>2. CASE new.hits = new.errors
      BY <1>1, <1>2, <1>8, <2>3, <3>1, <3>2, RowMinSame
    <3>3. CASE new.hits # new.errors /\ base.min = Absent
      <4>1. \A b \in C : Unclean(kind, sl[b], k)
        BY <3>1, <3>3, AbsentUnclean
      <4> QED
        BY <1>1, <1>2, <1>4, <2>3, <3>3, <4>1, RowMinFirst
    <3>4. CASE new.hits # new.errors /\ base.min # Absent
      <4>1. base.min \in Nat
        BY <3>1, <3>4 DEF RowMin
      <4> QED
        BY <1>1, <1>2, <1>4, <2>3, <3>1, <3>4, <4>1, RowMinMore
    <3> QED
      BY <3>2, <3>3, <3>4
  <2> QED
    BY <2>1, <2>2, <2>3
<1> QED
  BY <1>2, <1>10, <1>11 DEF out, kind, db

LEMMA RowMeanMore ==
  ASSUME NEW pm \in DOMAIN Profile, NEW sl, \A b \in Call : sl[b] \in Seq(Record), NEW k,
         NEW t, NEW q \in Seq(Call), NEW c \in Call, NEW new \in Counter,
         k \in DOMAIN t => t[k] \in Counter /\ q # <<>> /\ RowMean(pm, sl, k, t[k], q),
         k \notin DOMAIN t => q = <<>>, MeanRight(new),
         SliceSum(Profile[pm].kind, sl[c], k, Hits) = new.hits,
         SliceSum(Profile[pm].kind, sl[c], k, Sum) = new.sum
  PROVE  RowMean(pm, sl, k, MergeOf(pm, t, k, new), Append(q, c))
<1> DEFINE out  == MergeOf(pm, t, k, new)
           kind == Profile[pm].kind
           db   == Profile[pm].db
           base == IF k \in DOMAIN t THEN t[k] ELSE NoProperty
           p    == Append(q, c)
<1>1. /\ db = "mongo" => out.mean = base.mean
      /\ db # "mongo" /\ k \notin DOMAIN t => out = new
      /\ pm = "sqlUptime" /\ k \in DOMAIN t => out.mean = t[k].mean
      /\ db # "mongo" /\ pm # "sqlUptime" /\ k \in DOMAIN t =>
           out.hits = t[k].hits + new.hits /\ out.sum = t[k].sum + new.sum /\ out.mean = <<out.sum, out.hits>>
  BY MergeParts
<1>2. p[1] = IF q = <<>> THEN c ELSE q[1]
  BY AppendCalls
<1>3. db \in {"mongo", "sql"} /\ (pm = "sqlUptime" => db = "sql")
  BY ProfileFacts
<1>4. k \in DOMAIN t =>
        /\ q # <<>> /\ t[k].hits \in Nat /\ t[k].sum \in Nat
        /\ pm = "sqlUptime" => t[k].mean \in MeansOf(SliceSum(kind, sl[q[1]], k, Sum), SliceSum(kind, sl[q[1]], k, Hits))
        /\ db = "sql" /\ pm # "sqlUptime" => MeanRight(t[k])
        /\ db = "mongo" => MeanSeen(kind, sl, q, k, t[k].mean)
  BY DEF RowMean, Counter
<1>5. /\ new.hits \in Nat /\ new.sum \in Nat /\ new.mean \in MeansOf(new.sum, new.hits) /\ (new.hits = 0 => new.sum = 0)
  BY DEF MeanRight, Counter
<1>6. base.mean = IF k \in DOMAIN t THEN t[k].mean ELSE NoMean
  BY DEF NoProperty, Zero
<1>7. SliceSum(kind, sl[c], k, Hits) = new.hits /\ SliceSum(kind, sl[c], k, Sum) = new.sum
  OBVIOUS
<1> HIDE DEF out, kind, db, base
<1>8. pm = "sqlUptime" => out.mean \in MeansOf(SliceSum(kind, sl[p[1]], k, Sum), SliceSum(kind, sl[p[1]], k, Hits))
  <2>1. CASE k \in DOMAIN t
    BY <1>1, <1>2, <1>4, <2>1
  <2>2. CASE k \notin DOMAIN t
    BY <1>1, <1>2, <1>3, <1>5, <1>7, <2>2
  <2> QED
    BY <2>1, <2>2
<1>9. ASSUME db = "sql", pm # "sqlUptime"
      PROVE  MeanRight(out)
  <2>1. CASE k \in DOMAIN t
    <3>1. out.hits = 0 => out.sum = 0
      BY <1>1, <1>4, <1>5, <1>9, <2>1 DEF MeanRight
    <3> QED
      BY <1>1, <1>4, <1>5, <1>9, <2>1, <3>1 DEF MeanRight, MeansOf
  <2>2. CASE k \notin DOMAIN t
    BY <1>1, <1>9, <2>2
  <2> QED
    BY <2>1, <2>2
<1>10. ASSUME db = "mongo"
       PROVE  MeanSeen(kind, sl, p, k, out.mean)
  <2>1. CASE k \in DOMAIN t
    <3>1. PICK m \in 0 .. Len(q) :
            t[k].mean \in MeansOf(SumAfter(kind, sl, q, m, k, Sum), SumAfter(kind, sl, q, m, k, Hits))
      BY <1>4, <1>10, <2>1 DEF MeanSeen
    <3>0. p = Append(q, c)
      OBVIOUS
    <3> HIDE DEF p
    <3>2. SubSeq(p, 1, m) = SubSeq(q, 1, m) /\ m \in 0 .. Len(p)
      BY <3>0, Prefix
    <3>3. out.mean \in MeansOf(SumAfter(kind, sl, p, m, k, Sum), SumAfter(kind, sl, p, m, k, Hits))
      BY <1>1, <1>6, <1>10, <2>1, <3>1, <3>2 DEF SumAfter
    <3> QED
      BY <3>2, <3>3 DEF MeanSeen
  <2>2. CASE k \notin DOMAIN t
    <3> DEFINE e == SubSeq(p, 1, 0)
    <3>1. e = <<>> /\ 0 \in 0 .. Len(p) /\ e \in Seq(Call)
      OBVIOUS
    <3> HIDE DEF e, p
    <3>2. CallSum(kind, sl, e, k, Hits) = 0 /\ CallSum(kind, sl, e, k, Sum) = 0
      BY <3>1, NoCallsSum
    <3>3. NoMean \in MeansOf(SumAfter(kind, sl, p, 0, k, Sum), SumAfter(kind, sl, p, 0, k, Hits))
      BY <3>2 DEF SumAfter, MeansOf, e
    <3> QED
      BY <1>1, <1>6, <1>10, <2>2, <3>1, <3>3 DEF MeanSeen
  <2> QED
    BY <2>1, <2>2
<1> QED
  BY <1>8, <1>9, <1>10 DEF RowMean, out, kind, db

-----------------------------------------------------------------------------
(* The invariant of the latencies.                                           *)
CallLat(c) == Working(c) => LatRight(P.kind, slice[c], call[c].pos, call[c].aggs)

(* Without a timeout one call works at a time.                               *)
Alone == ~timed => \A c \in Call : Working(c) => main = "writing" /\ c = next

(* What a call has seen is right for an earlier state of the rows.           *)
SeenLat(c) ==
  At(c, "average") =>
    /\ P.db = "mongo"
    /\ \A k \in DOMAIN call[c].seen :
         /\ k \in DOMAIN rows
         /\ SeenRight(P.kind, slice, applied[k], k, call[c].seen[k])
         /\ ~timed => call[c].seen[k].sum = rows[k].sum /\ call[c].seen[k].hits = rows[k].hits

(* Without a timeout and without faults an average is behind only between    *)
(* the two updates.                                                          *)
MeanCurrent(k) ==
  P.db = "mongo" /\ ~timed /\ faults = 0 =>
    \/ rows[k].mean \in MeansOf(rows[k].sum, rows[k].hits)
    \/ \E c \in Call : At(c, "average") /\ k \in DOMAIN call[c].seen

(* With IInv: what makes the latencies of the rows right, inductively.        *)
LInv ==
  /\ \A c \in Call : CallLat(c)
  /\ Alone
  /\ \A c \in Call : SeenLat(c)
  /\ \A k \in DOMAIN rows : RowBounds(pump, slice, k, rows[k], applied[k])
  /\ \A k \in DOMAIN rows : RowMean(pump, slice, k, rows[k], applied[k])
  /\ \A k \in DOMAIN rows : MeanCurrent(k)

(* Nothing but the slices of its calls matters to the latencies of a row.    *)
LEMMA BoundsSlices ==
  ASSUME NEW pm, NEW sl, NEW other, NEW k, NEW row, NEW q, \A b \in ToSet(q) : sl[b] = other[b],
         RowBounds(pm, sl, k, row, q)
  PROVE  RowBounds(pm, other, k, row, q)
<1> DEFINE kind == Profile[pm].kind
           db   == Profile[pm].db
           C    == ToSet(q)
<1> SUFFICES ASSUME pm # "sqlUptime"
             PROVE  RowMax(kind, other, C, k, row.max) /\ RowMin(kind, db, other, C, k, row.min)
  BY DEF RowBounds
<1>1. RowMax(kind, sl, C, k, row.max) /\ RowMin(kind, db, sl, C, k, row.min) /\ \A b \in C : sl[b] = other[b]
  BY DEF RowBounds
<1> DEFINE x == row.max
           y == row.min
<1> HIDE DEF kind, db, C, x, y
<1>2. RowMax(kind, other, C, k, x)
  <2>1. ASSUME NEW b \in C, NEW n \in 1 .. Len(other[b]), HitFor(kind, other[b][n], k)
        PROVE  other[b][n].latency <= x
    BY <1>1, <2>1 DEF RowMax, x
  <2>2. x = 0 \/ \E b \in C : \E n \in 1 .. Len(other[b]) : HitFor(kind, other[b][n], k) /\ x = other[b][n].latency
    <3>1. x = 0 \/ \E b \in C : \E n \in 1 .. Len(sl[b]) : HitFor(kind, sl[b][n], k) /\ x = sl[b][n].latency
      BY <1>1 DEF RowMax, x
    <3> QED
      BY <1>1, <3>1
  <2> QED
    BY <2>1, <2>2 DEF RowMax
<1>3. RowMin(kind, db, other, C, k, y)
  <2>1. ASSUME NEW b \in C, NEW n \in 1 .. Len(other[b]), HitFor(kind, other[b][n], k), CleanFor(other[b][n], k)
        PROVE  y \in Nat /\ y <= other[b][n].latency
    BY <1>1, <2>1 DEF RowMin, y
  <2>2. \/ \E b \in C : \E n \in 1 .. Len(sl[b]) :
             HitFor(kind, sl[b][n], k) /\ CleanFor(sl[b][n], k) /\ y = sl[b][n].latency
        \/ \E b \in C : \E n \in 1 .. Len(sl[b]) : FirstFor(kind, sl[b], k, n) /\ y = sl[b][n].latency
        \/ y = 0 /\ \E b \in C : HitlessFor(kind, sl[b], Len(sl[b]), k)
        \/ db = "mongo" /\ y = Absent
    BY <1>1 DEF RowMin, y
  <2>3. \/ \E b \in C : \E n \in 1 .. Len(other[b]) :
             HitFor(kind, other[b][n], k) /\ CleanFor(other[b][n], k) /\ y = other[b][n].latency
        \/ \E b \in C : \E n \in 1 .. Len(other[b]) : FirstFor(kind, other[b], k, n) /\ y = other[b][n].latency
        \/ y = 0 /\ \E b \in C : HitlessFor(kind, other[b], Len(other[b]), k)
        \/ db = "mongo" /\ y = Absent
    BY <1>1, <2>2
  <2>4. y \in Nat \/ (db = "mongo" /\ y = Absent)
    BY <1>1 DEF RowMin, y
  <2> QED
    BY <2>1, <2>3, <2>4 DEF RowMin
<1> QED
  BY <1>2, <1>3 DEF x, y

LEMMA SumSlices ==
  ASSUME NEW kind, NEW sl, NEW other, NEW q \in Seq(Call), \A b \in ToSet(q) : sl[b] = other[b], NEW k, NEW f,
         NEW m \in 0 .. Len(q)
  PROVE  SumAfter(kind, sl, q, m, k, f) = SumAfter(kind, other, q, m, k, f)
<1> DEFINE p == SubSeq(q, 1, m)
           v == CallNums(kind, sl, p, k, f)
           w == CallNums(kind, other, p, k, f)
<1>1. Len(p) = m /\ m \in Nat /\ DOMAIN p = 1 .. m /\ \A i \in 1 .. m : p[i] = q[i] /\ i \in DOMAIN q
  OBVIOUS
<1> HIDE DEF p
<1>2. \A i \in 1 .. m : p[i] \in ToSet(q)
  BY <1>1 DEF ToSet
<1>3. \A i \in 1 .. m : v[i] = w[i]
  BY <1>1, <1>2 DEF CallNums
<1> HIDE DEF v, w
<1>4. SumTo(v, m) = SumTo(w, m)
  BY <1>1, <1>3, SumSame
<1> QED
  BY <1>1, <1>4 DEF SumAfter, CallSum, p, v, w

LEMMA SeenSlices ==
  ASSUME NEW kind, NEW sl, NEW other, NEW q \in Seq(Call), \A b \in ToSet(q) : sl[b] = other[b], NEW k, NEW seen,
         SeenRight(kind, sl, q, k, seen)
  PROVE  SeenRight(kind, other, q, k, seen)
<1>1. PICK m \in 0 .. Len(q) : /\ seen.sum = SumAfter(kind, sl, q, m, k, Sum)
                               /\ seen.hits = SumAfter(kind, sl, q, m, k, Hits)
  BY DEF SeenRight
<1>2. \A f : SumAfter(kind, sl, q, m, k, f) = SumAfter(kind, other, q, m, k, f)
  BY SumSlices
<1> QED
  BY <1>1, <1>2 DEF SeenRight

LEMMA MeanSlices ==
  ASSUME NEW pm, NEW sl, NEW other, NEW k, NEW row, NEW q \in Seq(Call), q # <<>>,
         \A b \in ToSet(q) : sl[b] = other[b], RowMean(pm, sl, k, row, q)
  PROVE  RowMean(pm, other, k, row, q)
<1> DEFINE kind == Profile[pm].kind
<1>1. sl[q[1]] = other[q[1]]
  <2>1. q[1] \in ToSet(q)
    BY DEF ToSet
  <2> QED
    BY <2>1
<1>2. ASSUME MeanSeen(kind, sl, q, k, row.mean)
      PROVE  MeanSeen(kind, other, q, k, row.mean)
  <2>1. PICK m \in 0 .. Len(q) :
          row.mean \in MeansOf(SumAfter(kind, sl, q, m, k, Sum), SumAfter(kind, sl, q, m, k, Hits))
    BY <1>2 DEF MeanSeen
  <2>2. \A f : SumAfter(kind, sl, q, m, k, f) = SumAfter(kind, other, q, m, k, f)
    BY SumSlices
  <2> QED
    BY <2>1, <2>2 DEF MeanSeen
<1> QED
  BY <1>1, <1>2 DEF RowMean

(* One more call does not take back what was right after an earlier one.     *)
LEMMA SeenMore ==
  ASSUME NEW kind, NEW sl, NEW q \in Seq(Call), NEW c \in Call, NEW k, NEW seen, SeenRight(kind, sl, q, k, seen)
  PROVE  SeenRight(kind, sl, Append(q, c), k, seen)
<1> DEFINE p == Append(q, c)
<1>1. p = Append(q, c)
  OBVIOUS
<1> HIDE DEF p
<1>2. PICK m \in 0 .. Len(q) : /\ seen.sum = SumAfter(kind, sl, q, m, k, Sum)
                               /\ seen.hits = SumAfter(kind, sl, q, m, k, Hits)
  BY DEF SeenRight
<1>3. SubSeq(p, 1, m) = SubSeq(q, 1, m) /\ m \in 0 .. Len(p)
  BY <1>1, Prefix
<1>4. SumAfter(kind, sl, q, m, k, Sum) = SumAfter(kind, sl, p, m, k, Sum)
      /\ SumAfter(kind, sl, q, m, k, Hits) = SumAfter(kind, sl, p, m, k, Hits)
  BY <1>3 DEF SumAfter
<1>5. SeenRight(kind, sl, p, k, seen)
  BY <1>2, <1>3, <1>4 DEF SeenRight
<1> QED
  BY <1>1, <1>5

(* The document as the first update has left it.                             *)
LEMMA SeenNow ==
  ASSUME NEW kind, NEW db, NEW sl, NEW q \in Seq(Call), NEW k, NEW row, RowRight(kind, db, sl, k, row, q)
  PROVE  SeenRight(kind, sl, q, k, row)
<1>1. SubSeq(q, 1, Len(q)) = q /\ Len(q) \in 0 .. Len(q)
  OBVIOUS
<1>2. row.sum = CallSum(kind, sl, q, k, Sum) /\ row.hits = CallSum(kind, sl, q, k, Hits)
  <2>1. Part(row, Sum) = CallSum(kind, sl, q, k, Sum) /\ Part(row, Hits) = CallSum(kind, sl, q, k, Hits)
    BY LatFields DEF RowRight
  <2> QED
    BY <2>1, PartCases DEF Sum, Hits
<1>3. row.sum = SumAfter(kind, sl, q, Len(q), k, Sum) /\ row.hits = SumAfter(kind, sl, q, Len(q), k, Hits)
  BY <1>1, <1>2 DEF SumAfter
<1> QED
  BY <1>1, <1>3 DEF SeenRight

(* The second update: bounds and counts stay, the average is that of seen.   *)
LEMMA AveragesLat ==
  ASSUME NEW row \in Counter, NEW seen \in Counter
  PROVE  LET new == AsTimeUpdate(row, seen)
         IN /\ new.max = row.max /\ new.min = row.min /\ new.sum = row.sum /\ new.hits = row.hits
            /\ new.mean \in MeansOf(seen.sum, seen.hits)
<1>1. seen.hits \in Nat
  BY DEF Counter
<1>2. AsTimeUpdate(row, seen).mean = IF seen.hits > 0 THEN <<seen.sum, seen.hits>> ELSE NoMean
  BY DEF AsTimeUpdate, Counter
<1>3. /\ AsTimeUpdate(row, seen).max = row.max /\ AsTimeUpdate(row, seen).min = row.min
      /\ AsTimeUpdate(row, seen).sum = row.sum /\ AsTimeUpdate(row, seen).hits = row.hits
  BY DEF AsTimeUpdate, Counter
<1>4. AsTimeUpdate(row, seen).mean \in MeansOf(seen.sum, seen.hits)
  BY <1>1, <1>2 DEF MeansOf
<1> QED
  BY <1>3, <1>4

-----------------------------------------------------------------------------
(* What call c writes leaves the latencies right; the other calls' documents *)
(* were right before.                                                        *)
LatWritten(c) ==
  /\ \A k \in DOMAIN rows' : RowBounds(pump, slice, k, rows'[k], applied'[k])
  /\ \A k \in DOMAIN rows' : RowMean(pump, slice, k, rows'[k], applied'[k])
  /\ \A k \in DOMAIN rows : k \in DOMAIN rows' /\ (applied'[k] = applied[k] \/ applied'[k] = Append(applied[k], c))

RowsLat ==
  /\ \A k \in DOMAIN rows : RowBounds(pump, slice, k, rows[k], applied[k])
  /\ \A k \in DOMAIN rows : RowMean(pump, slice, k, rows[k], applied[k])

LEMMA SameLat ==
  ASSUME NEW c \in Call, RowsLat, UNCHANGED <<rows, applied>>
  PROVE  LatWritten(c)
BY DEF LatWritten, RowsLat

(* What a call adds to row k.                                                *)
LEMMA NewLat ==
  ASSUME NEW c \in Call, Typed, CallInv(c), CallLat(c), call[c].at \in {"write", "average"}, NEW k \in RowsOf(c)
  PROVE  /\ New(c, k) \in Counter /\ MeanRight(New(c, k))
         /\ pump # "sqlUptime" => BoundsRight(P.kind, slice[c], Len(slice[c]), k, New(c, k))
         /\ SliceSum(P.kind, slice[c], k, Hits) = New(c, k).hits
         /\ SliceSum(P.kind, slice[c], k, Sum) = New(c, k).sum
         /\ SliceSum(P.kind, slice[c], k, <<"errors", 0>>) = New(c, k).errors
<1> DEFINE aggs == call[c].aggs
           new  == New(c, k)
<1>1. k \in Keys /\ new \in Counter /\ k[1] \in DOMAIN aggs /\ k[2] \in DOMAIN aggs[k[1]]
  BY RowsOfFacts
<1>2. k = <<k[1], k[2]>>
  BY <1>1 DEF Keys
<1>3. \A f \in Field : Counts(k, f) => Part(new, f) = SliceSum(P.kind, slice[c], k, f)
  BY NewFacts
<1>4. /\ Part(new, Hits) = SliceSum(P.kind, slice[c], k, Hits)
      /\ Part(new, Sum) = SliceSum(P.kind, slice[c], k, Sum)
      /\ Part(new, <<"errors", 0>>) = SliceSum(P.kind, slice[c], k, <<"errors", 0>>)
  BY <1>3, LatFields
<1>5. Part(new, Hits) = new.hits /\ Part(new, Sum) = new.sum /\ Part(new, <<"errors", 0>>) = new.errors
  BY PartCases DEF Hits, Sum
<1>6. LatRight(P.kind, slice[c], Len(slice[c]), aggs)
  BY DEF CallLat, CallInv, Working
<1>7. new = aggs[k[1]][k[2]]
  BY DEF New
<1> HIDE DEF new, aggs
<1>8. MeanRight(new)
  BY <1>1, <1>6, <1>7 DEF LatRight, MeansIn
<1>9. pump # "sqlUptime" => BoundsRight(P.kind, slice[c], Len(slice[c]), k, new)
  <2>1. pump # "sqlUptime" => P.kind # "uptime"
    BY ProfileFacts DEF Typed, P
  <2>2. pump # "sqlUptime" => BoundsRight(P.kind, slice[c], Len(slice[c]), <<k[1], k[2]>>, aggs[k[1]][k[2]])
    BY <1>1, <1>6, <2>1 DEF LatRight
  <2> QED
    BY <1>2, <1>7, <2>2
<1> QED
  BY <1>1, <1>4, <1>5, <1>8, <1>9 DEF new

(* What a merge makes of the rows.                                           *)
LEMMA MergesIs ==
  ASSUME NEW c \in Call, Typed, \A k \in DOMAIN rows : RowInv(k), NEW B, Merges(c, B)
  PROVE  /\ DOMAIN rows' = DOMAIN rows \cup B
         /\ \A k \in DOMAIN rows' \ B : rows'[k] = rows[k] /\ applied'[k] = applied[k]
         /\ \A k \in B : rows'[k] = MergeOf(pump, rows, k, New(c, k))
         /\ \A k \in B \cap DOMAIN rows : applied'[k] = Append(applied[k], c)
         /\ \A k \in B \ DOMAIN rows : applied'[k] = Append(<<>>, c)
<1>1. pump \in DOMAIN Profile /\ DOMAIN applied = DOMAIN rows
  BY DEF Typed
<1>2. \A k : Merged(c, k) = MergeOf(pump, rows, k, New(c, k))
  BY <1>1, LinksMerge
<1>3. rows' = [k \in DOMAIN rows \cup B |-> IF k \in B THEN MergeOf(pump, rows, k, New(c, k)) ELSE rows[k]]
  BY <1>2 DEF Merges
<1>4. applied' = [k \in DOMAIN rows \cup B |->
                    IF k \notin B THEN applied[k] ELSE Append(IF k \in DOMAIN rows THEN applied[k] ELSE <<>>, c)]
  BY <1>1 DEF Merges, Exists
<1> QED
  BY <1>3, <1>4

LEMMA MergesLat ==
  ASSUME NEW c \in Call, Typed, CallInv(c), CallLat(c), At(c, "write"), \A k \in DOMAIN rows : RowInv(k), RowsLat,
         NEW B, B \subseteq call[c].left, Merges(c, B)
  PROVE  LatWritten(c)
<1>1. pump \in DOMAIN Profile /\ slice \in [Call -> Seq(Record)] /\ applied \in [DOMAIN rows -> Seq(Call)]
  BY DEF Typed
<1>2. \A k \in DOMAIN rows : rows[k] \in Counter
  BY RowTablesFacts DEF Typed
<1>3. B \subseteq RowsOf(c)
  BY RowsOfFacts DEF CallInv
<1>4. /\ DOMAIN rows' = DOMAIN rows \cup B
      /\ \A k \in DOMAIN rows' \ B : rows'[k] = rows[k] /\ applied'[k] = applied[k]
      /\ \A k \in B : rows'[k] = MergeOf(pump, rows, k, New(c, k))
      /\ \A k \in B \cap DOMAIN rows : applied'[k] = Append(applied[k], c)
      /\ \A k \in B \ DOMAIN rows : applied'[k] = Append(<<>>, c)
  BY MergesIs
<1>5. ASSUME NEW k \in B
      PROVE  /\ RowBounds(pump, slice, k, rows'[k], applied'[k])
             /\ RowMean(pump, slice, k, rows'[k], applied'[k])
  <2> DEFINE n == New(c, k)
             q == IF k \in DOMAIN rows THEN applied[k] ELSE <<>>
  <2>1. /\ n \in Counter /\ MeanRight(n)
        /\ pump # "sqlUptime" => BoundsRight(Profile[pump].kind, slice[c], Len(slice[c]), k, n)
        /\ SliceSum(Profile[pump].kind, slice[c], k, Hits) = n.hits
        /\ SliceSum(Profile[pump].kind, slice[c], k, Sum) = n.sum
        /\ SliceSum(Profile[pump].kind, slice[c], k, <<"errors", 0>>) = n.errors
    BY <1>3, NewLat DEF At, P
  <2>2. k \in DOMAIN rows => /\ rows[k] \in Counter /\ q # <<>>
                             /\ RowBounds(pump, slice, k, rows[k], q) /\ RowMean(pump, slice, k, rows[k], q)
    BY <1>2 DEF RowInv, RowsLat
  <2>3. k \notin DOMAIN rows => q = <<>>
    OBVIOUS
  <2>4. q \in Seq(Call)
    <3>1. <<>> \in Seq(Call)
      OBVIOUS
    <3> QED
      BY <1>1, <3>1
  <2>5. \A b \in Call : slice[b] \in Seq(Record)
    BY <1>1
  <2>6. rows'[k] = MergeOf(pump, rows, k, n) /\ applied'[k] = Append(q, c)
    BY <1>4
  <2> HIDE DEF n, q
  <2>7. RowBounds(pump, slice, k, MergeOf(pump, rows, k, n), Append(q, c))
    BY <1>1, <2>1, <2>2, <2>3, <2>4, <2>5, RowBoundsMore
  <2>8. RowMean(pump, slice, k, MergeOf(pump, rows, k, n), Append(q, c))
    BY <1>1, <2>1, <2>2, <2>3, <2>4, <2>5, RowMeanMore
  <2> QED
    BY <2>6, <2>7, <2>8
<1>6. ASSUME NEW k \in DOMAIN rows' \ B
      PROVE  /\ RowBounds(pump, slice, k, rows'[k], applied'[k])
             /\ RowMean(pump, slice, k, rows'[k], applied'[k])
  BY <1>4 DEF RowsLat
<1>7. \A k \in DOMAIN rows : k \in DOMAIN rows' /\ (applied'[k] = applied[k] \/ applied'[k] = Append(applied[k], c))
  BY <1>4
<1> QED
  BY <1>5, <1>6, <1>7 DEF LatWritten

LEMMA AveragesIs ==
  ASSUME NEW c \in Call, Typed, SetsAverages(c)
  PROVE  /\ DOMAIN rows' = DOMAIN rows
         /\ \A k \in DOMAIN rows \ DOMAIN call[c].seen : rows'[k] = rows[k]
         /\ \A k \in DOMAIN rows \cap DOMAIN call[c].seen :
              /\ rows'[k].max = rows[k].max /\ rows'[k].min = rows[k].min
              /\ rows'[k].sum = rows[k].sum /\ rows'[k].hits = rows[k].hits
              /\ rows'[k].mean \in MeansOf(call[c].seen[k].sum, call[c].seen[k].hits)
<1> DEFINE seen == call[c].seen
<1>1. rows' = [k \in DOMAIN rows |-> IF k \in DOMAIN seen THEN AsTimeUpdate(rows[k], seen[k]) ELSE rows[k]]
  BY DEF SetsAverages
<1>2. \A k \in DOMAIN rows : rows[k] \in Counter
  BY RowTablesFacts DEF Typed
<1>3. \A k \in DOMAIN seen : seen[k] \in Counter
  <2>1. seen \in RowTables
    BY DEF Typed, Calls
  <2> HIDE DEF seen
  <2> QED
    BY <2>1, RowTablesFacts
<1> HIDE DEF seen
<1>4. ASSUME NEW k \in DOMAIN rows \cap DOMAIN seen
      PROVE  /\ rows'[k].max = rows[k].max /\ rows'[k].min = rows[k].min
             /\ rows'[k].sum = rows[k].sum /\ rows'[k].hits = rows[k].hits
             /\ rows'[k].mean \in MeansOf(seen[k].sum, seen[k].hits)
  <2>1. rows'[k] = AsTimeUpdate(rows[k], seen[k]) /\ rows[k] \in Counter /\ seen[k] \in Counter
    BY <1>1, <1>2, <1>3
  <2> QED
    BY <2>1, AveragesLat
<1>5. DOMAIN rows' = DOMAIN rows /\ \A k \in DOMAIN rows \ DOMAIN seen : rows'[k] = rows[k]
  BY <1>1
<1> QED
  BY <1>4, <1>5 DEF seen

LEMMA AverageWritesLat ==
  ASSUME NEW c \in Call, Typed, SeenLat(c), At(c, "average"), RowsLat, SetsAverages(c), UNCHANGED applied
  PROVE  LatWritten(c)
<1> DEFINE seen == call[c].seen
<1>1. /\ DOMAIN rows' = DOMAIN rows
      /\ \A k \in DOMAIN rows \ DOMAIN seen : rows'[k] = rows[k]
      /\ \A k \in DOMAIN rows \cap DOMAIN seen :
           /\ rows'[k].max = rows[k].max /\ rows'[k].min = rows[k].min
           /\ rows'[k].mean \in MeansOf(seen[k].sum, seen[k].hits)
  BY AveragesIs
<1>2. P.db = "mongo" /\ \A k \in DOMAIN seen : SeenRight(P.kind, slice, applied[k], k, seen[k])
  BY DEF SeenLat
<1> HIDE DEF seen
<1>3. ASSUME NEW k \in DOMAIN rows \cap DOMAIN seen
      PROVE  /\ RowBounds(pump, slice, k, rows'[k], applied'[k])
             /\ RowMean(pump, slice, k, rows'[k], applied'[k])
  <2>1. RowBounds(pump, slice, k, rows[k], applied[k])
    BY DEF RowsLat
  <2>2. RowBounds(pump, slice, k, rows'[k], applied'[k])
    BY <1>1, <2>1 DEF RowBounds
  <2>3. MeanSeen(P.kind, slice, applied[k], k, rows'[k].mean)
    <3>1. PICK m \in 0 .. Len(applied[k]) :
            /\ seen[k].sum = SumAfter(P.kind, slice, applied[k], m, k, Sum)
            /\ seen[k].hits = SumAfter(P.kind, slice, applied[k], m, k, Hits)
      BY <1>2 DEF SeenRight
    <3>2. rows'[k].mean \in MeansOf(seen[k].sum, seen[k].hits)
      BY <1>1
    <3> QED
      BY <3>1, <3>2 DEF MeanSeen
  <2>4. pump # "sqlUptime" /\ Profile[pump].db = "mongo"
    BY <1>2, ProfileFacts DEF P, Typed
  <2> QED
    BY <2>2, <2>3, <2>4 DEF RowMean, P
<1>4. ASSUME NEW k \in DOMAIN rows \ DOMAIN seen
      PROVE  /\ RowBounds(pump, slice, k, rows'[k], applied'[k])
             /\ RowMean(pump, slice, k, rows'[k], applied'[k])
  BY <1>1 DEF RowsLat
<1> QED
  BY <1>1, <1>3, <1>4 DEF LatWritten

-----------------------------------------------------------------------------
(* A step of call c that leaves the other calls alone.                       *)
LEMMA AfterStepLat ==
  ASSUME IInv, LInv, NEW c \in Call, Working(c), LatWritten(c), UNCHANGED <<pump, timed, slice, loop>>,
         NEW new, call' = [call EXCEPT ![c] = new], CallLat(c)', SeenLat(c)',
         \A k \in DOMAIN rows' : MeanCurrent(k)'
  PROVE  LInv'
<1>1. pump' = pump /\ P' = P /\ timed' = timed /\ slice' = slice /\ main' = main /\ next' = next
  BY DEF P, loop
<1>2. \A b \in Call \ {c} : call'[b] = call[b]
  BY DEF IInv, Typed
<1>3. ASSUME NEW b \in Call, b # c
      PROVE  CallLat(b)' /\ SeenLat(b)'
  <2>1. call'[b] = call[b] /\ CallLat(b) /\ SeenLat(b)
    BY <1>2, <1>3 DEF LInv
  <2>2. CallLat(b)'
    BY <1>1, <2>1 DEF CallLat, Working
  <2>3. SeenLat(b)'
    <3> SUFFICES ASSUME At(b, "average")
                 PROVE  P.db = "mongo" /\ \A k \in DOMAIN call[b].seen :
                          /\ k \in DOMAIN rows'
                          /\ SeenRight(P.kind, slice, applied'[k], k, call[b].seen[k])
                          /\ timed
      BY <1>1, <2>1 DEF SeenLat, At
    <3>1. P.db = "mongo" /\ \A k \in DOMAIN call[b].seen :
            k \in DOMAIN rows /\ SeenRight(P.kind, slice, applied[k], k, call[b].seen[k])
      BY <2>1 DEF SeenLat
    <3>2. timed
      <4>1. Working(b)
        BY DEF Working, At
      <4> QED
        BY <1>3, <4>1 DEF LInv, Alone
    <3>3. ASSUME NEW k \in DOMAIN call[b].seen
          PROVE  k \in DOMAIN rows' /\ SeenRight(P.kind, slice, applied'[k], k, call[b].seen[k])
      <4>1. k \in DOMAIN rows /\ applied[k] \in Seq(Call)
        BY <3>1, <3>3 DEF IInv, Typed
      <4>2. k \in DOMAIN rows' /\ (applied'[k] = applied[k] \/ applied'[k] = Append(applied[k], c))
        BY <4>1 DEF LatWritten
      <4>3. SeenRight(P.kind, slice, applied[k], k, call[b].seen[k])
        BY <3>1, <3>3
      <4>4. SeenRight(P.kind, slice, Append(applied[k], c), k, call[b].seen[k])
        BY <4>1, <4>3, SeenMore
      <4> QED
        BY <4>2, <4>3, <4>4
    <3> QED
      BY <3>1, <3>2, <3>3
  <2> QED
    BY <2>2, <2>3
<1>4. Alone'
  <2> SUFFICES ASSUME ~timed, NEW b \in Call, Working(b)'
               PROVE  main = "writing" /\ b = next
    BY <1>1 DEF Alone
  <2>1. Working(b)
    BY <1>2 DEF Working
  <2> QED
    BY <2>1 DEF LInv, Alone
<1>5. \A k \in DOMAIN rows' : RowBounds(pump', slice', k, rows'[k], applied'[k])
  BY <1>1 DEF LatWritten
<1>6. \A k \in DOMAIN rows' : RowMean(pump', slice', k, rows'[k], applied'[k])
  BY <1>1 DEF LatWritten
<1> QED
  BY <1>3, <1>4, <1>5, <1>6 DEF LInv

(* Averages that no second update is under way for.                          *)
LEMMA CurrentAlone ==
  ASSUME LInv, NEW c \in Call, Working(c), NEW k \in DOMAIN rows, P.db = "mongo", ~timed, faults = 0,
         At(c, "average") => k \notin DOMAIN call[c].seen
  PROVE  rows[k].mean \in MeansOf(rows[k].sum, rows[k].hits)
<1>1. \A b \in Call : At(b, "average") => b = c
  BY DEF LInv, Alone, Working, At
<1> QED
  BY <1>1 DEF LInv, MeanCurrent

(* In SQL the average is part of the statement.                              *)
LEMMA CurrentSql ==
  ASSUME P.db = "sql", pump' = pump, NEW k
  PROVE  MeanCurrent(k)'
<1>1. P' = P
  BY DEF P
<1> QED
  BY <1>1 DEF MeanCurrent

LEMMA StepFacts ==
  ASSUME IInv, LInv, NEW c \in Call
  PROVE  /\ Typed /\ CallInv(c) /\ (\A k \in DOMAIN rows : RowInv(k)) /\ RowsLat
         /\ CallLat(c) /\ SeenLat(c) /\ call[c] \in Calls /\ faults \in Nat /\ (~timed => over = {})
         /\ call \in [Call -> Calls]
<1>1. Typed /\ CallInv(c) /\ (\A k \in DOMAIN rows : RowInv(k))
  BY DEF IInv
<1>2. RowsLat /\ CallLat(c) /\ SeenLat(c)
  BY DEF LInv, RowsLat
<1> QED
  BY <1>1, <1>2, AggregationAssumption DEF Typed

(* The call goes on with its counters, or is over.                           *)
LEMMA StaysLat ==
  ASSUME NEW c \in Call, CallLat(c), Working(c), UNCHANGED <<pump, slice>>, NEW new, call'[c] = new,
         new.at \notin {"aggregate", "write", "average"} \/ (new.pos = call[c].pos /\ new.aggs = call[c].aggs)
  PROVE  CallLat(c)'
<1>1. P' = P
  BY DEF P
<1> QED
  BY <1>1 DEF CallLat, Working

LEMMA InsertBatchLat ==
  ASSUME IInv, LInv, NEW c \in Call, InsertBatch(c)
  PROVE  LInv'
<1>1. At(c, "write") /\ P.db = "sql" /\ UNCHANGED <<pump, timed, slice, loop, died, faults>>
  BY DEF InsertBatch
<1>0. PICK o \in Owners(c) : \E B \in Batches(c, o) : Merges(c, B) /\ NextBatch(c, o, B)
  BY DEF InsertBatch
<1>2. PICK B \in Batches(c, o) : Merges(c, B) /\ NextBatch(c, o, B)
  BY <1>0
<1>3. /\ Typed /\ CallInv(c) /\ (\A k \in DOMAIN rows : RowInv(k)) /\ RowsLat /\ CallLat(c)
      /\ call[c] \in Calls /\ call \in [Call -> Calls]
  BY StepFacts
<1>4. B \subseteq call[c].left
  BY <1>1, WriteFacts
<1>5. LatWritten(c)
  BY <1>1, <1>2, <1>3, <1>4, MergesLat
<1> DEFINE new == [call[c] EXCEPT !.left = Rest(c, B), !.owner = o]
<1>6. call' = [call EXCEPT ![c] = new] /\ call'[c] = new
  BY <1>2, <1>3 DEF NextBatch
<1>7. new.pos = call[c].pos /\ new.aggs = call[c].aggs /\ new.at = "write"
  BY <1>1, <1>3 DEF Calls, At
<1>8. Working(c)
  BY <1>1 DEF Working, At
<1> HIDE DEF new
<1>9. CallLat(c)'
  BY <1>1, <1>3, <1>6, <1>7, <1>8, StaysLat
<1>10. SeenLat(c)'
  BY <1>6, <1>7 DEF SeenLat, At
<1>11. \A k \in DOMAIN rows' : MeanCurrent(k)'
  BY <1>1, CurrentSql
<1> QED
  BY <1>1, <1>5, <1>6, <1>8, <1>9, <1>10, <1>11, AfterStepLat

LEMMA InsertFailsLat ==
  ASSUME IInv, LInv, NEW c \in Call, InsertFails(c)
  PROVE  LInv'
<1>1. At(c, "write") /\ P.db = "sql" /\ UNCHANGED <<pump, timed, slice, loop, died>>
  BY DEF InsertFails
<1>0. PICK o \in Owners(c) : \E B \in Batches(c, o) :
        (UNCHANGED <<rows, applied>> \/ Merges(c, B)) /\ AfterError(c, o, B)
  BY DEF InsertFails
<1>2. PICK B \in Batches(c, o) : (UNCHANGED <<rows, applied>> \/ Merges(c, B)) /\ AfterError(c, o, B)
  BY <1>0
<1>3. /\ Typed /\ CallInv(c) /\ (\A k \in DOMAIN rows : RowInv(k)) /\ RowsLat /\ CallLat(c)
      /\ call[c] \in Calls /\ call \in [Call -> Calls]
  BY StepFacts
<1>4. B \subseteq call[c].left
  BY <1>1, WriteFacts
<1>5. LatWritten(c)
  <2>1. CASE UNCHANGED <<rows, applied>>
    BY <1>3, <2>1, SameLat
  <2>2. CASE Merges(c, B)
    BY <1>1, <1>3, <1>4, <2>2, MergesLat
  <2> QED
    BY <1>2, <2>1, <2>2
<1> DEFINE on == [call[c] EXCEPT !.left = Rest(c, B), !.owner = o]
           no == [Idle EXCEPT !.at = "error"]
<1>6. PICK new \in {on, no} : call' = [call EXCEPT ![c] = new]
  <2>1. NextBatch(c, o, B) => call' = [call EXCEPT ![c] = on]
    BY <1>3 DEF NextBatch
  <2>2. Ends(c, "error") => call' = [call EXCEPT ![c] = no]
    BY DEF Ends
  <2> QED
    BY <1>2, <2>1, <2>2 DEF AfterError
<1>7. /\ on.pos = call[c].pos /\ on.aggs = call[c].aggs /\ on.at = "write" /\ no.at = "error"
  BY <1>1, <1>3 DEF Calls, At, Idle
<1>8. Working(c) /\ call'[c] = new
  BY <1>1, <1>3, <1>6 DEF Working, At
<1> HIDE DEF on, no
<1>9. CallLat(c)'
  BY <1>1, <1>3, <1>6, <1>7, <1>8, StaysLat
<1>10. SeenLat(c)'
  BY <1>6, <1>7, <1>8 DEF SeenLat, At
<1>11. \A k \in DOMAIN rows' : MeanCurrent(k)'
  BY <1>1, CurrentSql
<1> QED
  BY <1>1, <1>5, <1>6, <1>8, <1>9, <1>10, <1>11, AfterStepLat

LEMMA UpsertLat ==
  ASSUME IInv, IInv', LInv, NEW c \in Call, Upsert(c)
  PROVE  LInv'
<1>1. At(c, "write") /\ P.db = "mongo" /\ UNCHANGED <<pump, timed, slice, loop, died, faults>>
  BY DEF Upsert
<1>2. PICK o \in Owners(c) :
        LET B == {k \in call[c].left : k[1] = o}
        IN /\ Merges(c, B)
           /\ call' = [call EXCEPT ![c].left = @ \ B, ![c].owner = o, ![c].at = "average",
                                   ![c].seen = [k \in {j \in DOMAIN rows' : j[1] = o} |-> rows'[k]]]
  BY DEF Upsert
<1> DEFINE B    == {k \in call[c].left : k[1] = o}
           seen == [k \in {j \in DOMAIN rows' : j[1] = o} |-> rows'[k]]
           new  == [call[c] EXCEPT !.left = @ \ B, !.owner = o, !.at = "average", !.seen = seen]
<1>3. Merges(c, B) /\ call' = [call EXCEPT ![c].left = @ \ B, ![c].owner = o, ![c].at = "average", ![c].seen = seen]
  BY <1>2
<1>4. B \subseteq call[c].left /\ \A k \in B : k[1] = o
  OBVIOUS
<1>5. DOMAIN seen = {j \in DOMAIN rows' : j[1] = o} /\ \A k \in DOMAIN seen : seen[k] = rows'[k]
  OBVIOUS
<1> HIDE DEF B, seen
<1>6. /\ Typed /\ CallInv(c) /\ (\A k \in DOMAIN rows : RowInv(k)) /\ RowsLat /\ CallLat(c)
      /\ call[c] \in Calls /\ call \in [Call -> Calls]
  BY StepFacts
<1>7. LatWritten(c)
  BY <1>1, <1>3, <1>4, <1>6, MergesLat
<1>8. call' = [call EXCEPT ![c] = new] /\ call'[c] = new
  BY <1>3, <1>6
<1>9. new.pos = call[c].pos /\ new.aggs = call[c].aggs /\ new.at = "average" /\ new.seen = seen
  BY <1>6 DEF Calls
<1> HIDE DEF new
<1>10. Working(c) /\ P' = P
  BY <1>1 DEF Working, At, P
<1>11. CallLat(c)'
  BY <1>1, <1>6, <1>8, <1>9, <1>10, StaysLat
<1>12. SeenLat(c)'
  <2>1. ASSUME NEW k \in DOMAIN seen
        PROVE  k \in DOMAIN rows' /\ SeenRight(P.kind, slice, applied'[k], k, seen[k])
    <3>1. k \in DOMAIN rows' /\ seen[k] = rows'[k]
      BY <1>5
    <3>2. applied'[k] \in Seq(Call) /\ RowInv(k)'
      BY <3>1 DEF IInv, Typed
    <3>3. RowRight(P.kind, P.db, slice, k, rows'[k], applied'[k])
      BY <1>1, <1>10, <3>2 DEF RowInv
    <3> QED
      BY <3>1, <3>2, <3>3, SeenNow
  <2> QED
    BY <1>1, <1>5, <1>8, <1>9, <1>10, <2>1 DEF SeenLat
<1>13. ASSUME NEW k \in DOMAIN rows'
       PROVE  MeanCurrent(k)'
  <2>1. CASE k[1] = o
    BY <1>5, <1>8, <1>9, <2>1 DEF MeanCurrent, At
  <2>2. CASE k[1] # o
    <3>1. k \in DOMAIN rows /\ rows'[k] = rows[k]
      BY <1>3, <1>4, <1>6, <2>2, MergesIs
    <3> SUFFICES ASSUME ~timed, faults = 0
                 PROVE  rows[k].mean \in MeansOf(rows[k].sum, rows[k].hits)
      BY <1>1, <3>1 DEF MeanCurrent
    <3>2. ~At(c, "average")
      BY <1>1 DEF At
    <3> QED
      BY <1>1, <1>10, <3>1, <3>2, CurrentAlone
  <2> QED
    BY <2>1, <2>2
<1> QED
  BY <1>1, <1>7, <1>8, <1>10, <1>11, <1>12, <1>13, AfterStepLat

LEMMA UpsertFailsLat ==
  ASSUME IInv, LInv, NEW c \in Call, UpsertFails(c)
  PROVE  LInv'
<1>1. At(c, "write") /\ UNCHANGED <<pump, timed, slice, loop, died>>
      /\ (IF c \in over THEN UNCHANGED faults ELSE Fault) /\ Ends(c, "error")
  BY DEF UpsertFails
<1>2. PICK o \in Owners(c) : UNCHANGED <<rows, applied>> \/ Merges(c, {k \in call[c].left : k[1] = o})
  BY DEF UpsertFails
<1> DEFINE B   == {k \in call[c].left : k[1] = o}
           new == [Idle EXCEPT !.at = "error"]
<1>3. B \subseteq call[c].left /\ (UNCHANGED <<rows, applied>> \/ Merges(c, B))
  BY <1>2
<1> HIDE DEF B
<1>4. /\ Typed /\ CallInv(c) /\ (\A k \in DOMAIN rows : RowInv(k)) /\ RowsLat /\ CallLat(c)
      /\ call[c] \in Calls /\ call \in [Call -> Calls] /\ faults \in Nat /\ (~timed => over = {})
  BY StepFacts
<1>5. LatWritten(c)
  <2>1. CASE UNCHANGED <<rows, applied>>
    BY <1>4, <2>1, SameLat
  <2>2. CASE Merges(c, B)
    BY <1>1, <1>3, <1>4, <2>2, MergesLat
  <2> QED
    BY <1>3, <2>1, <2>2
<1>6. call' = [call EXCEPT ![c] = new] /\ call'[c] = new /\ new.at = "error"
  BY <1>1, <1>4 DEF Ends, Idle
<1> HIDE DEF new
<1>7. Working(c)
  BY <1>1 DEF Working, At
<1>8. CallLat(c)' /\ SeenLat(c)'
  BY <1>1, <1>4, <1>6, <1>7, StaysLat DEF SeenLat, At
<1>9. ASSUME NEW k \in DOMAIN rows'
      PROVE  MeanCurrent(k)'
  <2>1. ~timed => faults' # 0
    BY <1>1, <1>4 DEF Fault
  <2> QED
    BY <1>1, <2>1 DEF MeanCurrent
<1> QED
  BY <1>1, <1>5, <1>6, <1>7, <1>8, <1>9, AfterStepLat

LEMMA AvgUpdateLat ==
  ASSUME IInv, LInv, NEW c \in Call, AvgUpdate(c)
  PROVE  LInv'
<1>1. At(c, "average") /\ SetsAverages(c) /\ UNCHANGED <<pump, timed, slice, applied, loop, died, faults>>
  BY DEF AvgUpdate
<1>2. /\ Typed /\ CallInv(c) /\ RowsLat /\ CallLat(c) /\ SeenLat(c)
      /\ call[c] \in Calls /\ call \in [Call -> Calls] /\ faults \in Nat
  BY StepFacts
<1>3. LatWritten(c)
  BY <1>1, <1>2, AverageWritesLat
<1> DEFINE new == [call[c] EXCEPT !.at = "write", !.seen = <<>>]
<1>4. call' = [call EXCEPT ![c] = new] /\ call'[c] = new
  BY <1>2 DEF AvgUpdate
<1>5. new.pos = call[c].pos /\ new.aggs = call[c].aggs /\ new.at = "write"
  BY <1>2 DEF Calls
<1> HIDE DEF new
<1>6. Working(c) /\ P' = P
  BY <1>1 DEF Working, At, P
<1>7. CallLat(c)'
  BY <1>1, <1>2, <1>4, <1>5, <1>6, StaysLat
<1>8. SeenLat(c)'
  BY <1>4, <1>5 DEF SeenLat, At
<1>9. ASSUME NEW k \in DOMAIN rows'
      PROVE  MeanCurrent(k)'
  <2> DEFINE seen == call[c].seen
  <2>1. /\ DOMAIN rows' = DOMAIN rows
        /\ \A j \in DOMAIN rows \ DOMAIN seen : rows'[j] = rows[j]
        /\ \A j \in DOMAIN rows \cap DOMAIN seen :
             /\ rows'[j].sum = rows[j].sum /\ rows'[j].hits = rows[j].hits
             /\ rows'[j].mean \in MeansOf(seen[j].sum, seen[j].hits)
    BY <1>1, <1>2, AveragesIs
  <2>2. ~timed => \A j \in DOMAIN seen : seen[j].sum = rows[j].sum /\ seen[j].hits = rows[j].hits
    BY <1>1, <1>2 DEF SeenLat
  <2> HIDE DEF seen
  <2> SUFFICES ASSUME P.db = "mongo", ~timed, faults = 0
               PROVE  rows'[k].mean \in MeansOf(rows'[k].sum, rows'[k].hits)
    BY <1>1, <1>6 DEF MeanCurrent
  <2>3. CASE k \in DOMAIN seen
    <3>1. k \in DOMAIN rows \cap DOMAIN seen
      BY <2>1, <2>3
    <3> QED
      BY <2>1, <2>2, <3>1
  <2>4. CASE k \notin DOMAIN seen
    <3>1. k \in DOMAIN rows /\ rows'[k] = rows[k]
      BY <2>1, <2>4
    <3>2. rows[k].mean \in MeansOf(rows[k].sum, rows[k].hits)
      BY <1>6, <2>4, <3>1, CurrentAlone DEF seen
    <3> QED
      BY <3>1, <3>2
  <2> QED
    BY <2>3, <2>4
<1>10. UNCHANGED <<pump, timed, slice, loop>>
  BY <1>1
<1> QED
  BY <1>3, <1>4, <1>6, <1>7, <1>8, <1>9, <1>10, AfterStepLat

LEMMA AvgUpdateFailsLat ==
  ASSUME IInv, LInv, NEW c \in Call, AvgUpdateFails(c)
  PROVE  LInv'
<1>1. At(c, "average") /\ (UNCHANGED rows \/ SetsAverages(c)) /\ Ends(c, "error")
      /\ (IF c \in over THEN UNCHANGED faults ELSE Fault) /\ UNCHANGED <<pump, timed, slice, applied, loop, died>>
  BY DEF AvgUpdateFails
<1>2. /\ Typed /\ CallInv(c) /\ RowsLat /\ CallLat(c) /\ SeenLat(c)
      /\ call[c] \in Calls /\ call \in [Call -> Calls] /\ faults \in Nat /\ (~timed => over = {})
  BY StepFacts
<1>3. LatWritten(c)
  BY <1>1, <1>2, AverageWritesLat, SameLat
<1> DEFINE new == [Idle EXCEPT !.at = "error"]
<1>4. call' = [call EXCEPT ![c] = new] /\ call'[c] = new /\ new.at = "error"
  BY <1>1, <1>2 DEF Ends, Idle
<1> HIDE DEF new
<1>5. Working(c)
  BY <1>1 DEF Working, At
<1>6. CallLat(c)' /\ SeenLat(c)'
  BY <1>1, <1>2, <1>4, <1>5, StaysLat DEF SeenLat, At
<1>7. ASSUME NEW k \in DOMAIN rows'
      PROVE  MeanCurrent(k)'
  <2>1. ~timed => faults' # 0
    BY <1>1, <1>2 DEF Fault
  <2> QED
    BY <1>1, <2>1 DEF MeanCurrent
<1>8. UNCHANGED <<pump, timed, slice, loop>>
  BY <1>1
<1> QED
  BY <1>3, <1>4, <1>5, <1>6, <1>7, <1>8, AfterStepLat

(* Steps of a call that is not at its second update and does not write.      *)
LEMMA QuietStepLat ==
  ASSUME IInv, LInv, NEW c \in Call, Working(c), ~At(c, "average"),
         UNCHANGED <<pump, timed, slice, rows, applied, loop, died, faults>>,
         NEW new, call' = [call EXCEPT ![c] = new], new.at # "average", CallLat(c)'
  PROVE  LInv'
<1>1. Typed /\ RowsLat /\ call \in [Call -> Calls]
  BY StepFacts
<1>2. LatWritten(c)
  BY <1>1, SameLat
<1>3. call'[c] = new /\ \A b \in Call \ {c} : call'[b] = call[b]
  BY <1>1
<1>4. SeenLat(c)'
  BY <1>3 DEF SeenLat, At
<1>5. ASSUME NEW k \in DOMAIN rows'
      PROVE  MeanCurrent(k)'
  <2>1. P' = P /\ MeanCurrent(k)
    BY DEF P, LInv
  <2>2. \A b \in Call : At(b, "average") /\ k \in DOMAIN call[b].seen =>
          At(b, "average")' /\ k \in DOMAIN call'[b].seen
    BY <1>3 DEF At
  <2> QED
    BY <2>1, <2>2 DEF MeanCurrent
<1> QED
  BY <1>2, <1>4, <1>5, AfterStepLat

LEMMA ReturnLat ==
  ASSUME IInv, LInv, NEW c \in Call, Return(c)
  PROVE  LInv'
<1> DEFINE new == [Idle EXCEPT !.at = "nil"]
<1>1. At(c, "write") /\ UNCHANGED <<pump, timed, slice, rows, applied, loop, died, faults>>
      /\ call' = [call EXCEPT ![c] = new]
  BY DEF Return, Ends
<1>2. new.at = "nil" /\ Working(c) /\ ~At(c, "average")
  BY <1>1 DEF Idle, Working, At
<1>3. CallLat(c) /\ call'[c] = new
  BY <1>1, StepFacts
<1> HIDE DEF new
<1>4. CallLat(c)'
  BY <1>1, <1>2, <1>3, StaysLat
<1> QED
  BY <1>1, <1>2, <1>4, QuietStepLat

LEMMA AggregationEndsLat ==
  ASSUME IInv, LInv, NEW c \in Call, AggregationEnds(c)
  PROVE  LInv'
<1> DEFINE new == [call[c] EXCEPT !.at = "write", !.left = RowsOf(c)]
<1>1. At(c, "aggregate") /\ UNCHANGED <<pump, timed, slice, rows, applied, loop, died, faults>>
      /\ call' = [call EXCEPT ![c].at = "write", ![c].left = RowsOf(c)]
  BY DEF AggregationEnds
<1>2. CallLat(c) /\ call[c] \in Calls /\ call \in [Call -> Calls]
  BY StepFacts
<1>3. call' = [call EXCEPT ![c] = new] /\ call'[c] = new
  BY <1>1, <1>2
<1>4. new.at = "write" /\ new.pos = call[c].pos /\ new.aggs = call[c].aggs
  BY <1>2 DEF Calls
<1> HIDE DEF new
<1>5. Working(c) /\ ~At(c, "average")
  BY <1>1 DEF Working, At
<1>6. CallLat(c)'
  BY <1>1, <1>2, <1>3, <1>4, <1>5, StaysLat
<1> QED
  BY <1>1, <1>3, <1>4, <1>5, <1>6, QuietStepLat

LEMMA AggregateLat ==
  ASSUME IInv, LInv, NEW c \in Call, Aggregate(c)
  PROVE  LInv'
<1> DEFINE s    == slice[c]
           m    == call[c].pos
           aggs == call[c].aggs
           r    == NextRecord(c)
           add  == IF Takes(r) THEN Counting(c, r) ELSE aggs
           new  == [call[c] EXCEPT !.pos = @ + 1, !.aggs = add]
<1>1. Aggregates(c) /\ UNCHANGED <<pump, timed, slice, rows, applied, loop, died, faults>>
      /\ call' = [call EXCEPT ![c].pos = @ + 1, ![c].aggs = add]
  BY DEF Aggregate
<1>2. /\ At(c, "aggregate") /\ s \in Seq(Record) /\ m \in Nat /\ m < Len(s)
      /\ aggs \in Tables /\ Follows(P.kind, s, m, aggs) /\ r = s[m + 1]
  BY <1>1, AggregateFacts
<1>3. (Takes(r) <=> TakesOf(P.kind, r)) /\ Counting(c, r) = AddTo(P.kind, aggs, r)
  BY Links, LinksAdd
<1>4. CallLat(c) /\ call[c] \in Calls /\ call \in [Call -> Calls]
  BY StepFacts
<1>5. Working(c) /\ ~At(c, "average")
  BY <1>2 DEF Working, At
<1>6. LatRight(P.kind, s, m, aggs)
  BY <1>4, <1>5 DEF CallLat
<1> HIDE DEF s, m, r, aggs
<1>7. LatRight(P.kind, s, m + 1, add)
  <2>1. CASE TakesOf(P.kind, r)
    <3>1. LatRight(P.kind, s, m + 1, AddTo(P.kind, aggs, s[m + 1]))
      BY <1>2, <1>6, <2>1, LatAdd
    <3> QED
      BY <1>2, <1>3, <2>1, <3>1
  <2>2. CASE ~TakesOf(P.kind, r)
    BY <1>2, <1>3, <1>6, <2>2, LatSkip
  <2> QED
    BY <2>1, <2>2
<1> HIDE DEF add
<1>8. call' = [call EXCEPT ![c] = new] /\ call'[c] = new
  BY <1>1, <1>4
<1>9. new.at = "aggregate" /\ new.pos = m + 1 /\ new.aggs = add
  BY <1>2, <1>4 DEF Calls, At, m
<1> HIDE DEF new
<1>10. P' = P /\ slice' = slice
  BY <1>1 DEF P
<1>11. CallLat(c)'
  BY <1>7, <1>8, <1>9, <1>10 DEF CallLat, s
<1>12. new.at # "average"
  BY <1>9
<1> QED
  BY <1>1, <1>5, <1>8, <1>11, <1>12, QuietStepLat

(* Neither calls nor rows change.                                            *)
LEMMA LoopLat ==
  ASSUME IInv, LInv, UNCHANGED <<pump, timed, slice, call, rows, applied, faults>>, Alone'
  PROVE  LInv'
<1>1. P' = P
  BY DEF P
<1>2. \A c \in Call : CallLat(c)'
  BY <1>1 DEF LInv, CallLat, Working
<1>3. \A c \in Call : SeenLat(c)'
  BY <1>1 DEF LInv, SeenLat, At
<1>4. /\ \A k \in DOMAIN rows' : RowBounds(pump', slice', k, rows'[k], applied'[k])
      /\ \A k \in DOMAIN rows' : RowMean(pump', slice', k, rows'[k], applied'[k])
  BY DEF LInv
<1>5. \A k \in DOMAIN rows' : MeanCurrent(k)'
  BY <1>1 DEF LInv, MeanCurrent, At
<1> QED
  BY <1>2, <1>3, <1>4, <1>5 DEF LInv

LEMMA PanicLat ==
  ASSUME IInv, LInv, NEW c \in Call, Panic(c)
  PROVE  LInv'
<1>1. UNCHANGED <<pump, timed, slice, call, rows, applied, faults>> /\ main' = main /\ next' = next
  BY DEF Panic, loop
<1>2. Alone'
  BY <1>1 DEF LInv, Alone, Working
<1> QED
  BY <1>1, <1>2, LoopLat

LEMMA WriteDoneLat ==
  ASSUME IInv, LInv, WriteDone
  PROVE  LInv'
<1>1. UNCHANGED <<pump, timed, slice, call, rows, applied, faults>> /\ Returned(next)
  BY DEF WriteDone
<1>2. ~timed => \A c \in Call : ~Working(c)
  BY <1>1 DEF LInv, Alone, Working, Returned
<1>3. Alone'
  BY <1>1, <1>2 DEF Alone, Working
<1> QED
  BY <1>1, <1>3, LoopLat

LEMMA DeadlineLat ==
  ASSUME IInv, LInv, Deadline
  PROVE  LInv'
<1>1. UNCHANGED <<pump, timed, slice, call, rows, applied, faults>> /\ timed
  BY DEF Deadline
<1>2. Alone'
  BY <1>1 DEF Alone
<1> QED
  BY <1>1, <1>2, LoopLat

LEMMA StartWriteLat ==
  ASSUME IInv, LInv, StartWrite, NEW n \in Int, n = next + 1
  PROVE  LInv'
<1>1. /\ main = "idle" /\ next < Len(Lengths) /\ next' = n /\ main' = "writing"
      /\ \E s \in BoundedSeq(Told, Lengths[n]) : slice' = [slice EXCEPT ![n] = s]
      /\ call' = [call EXCEPT ![n].at = "aggregate"]
      /\ UNCHANGED <<pump, timed, rows, applied, over, died, faults>>
  BY DEF StartWrite, Goes
<1>2. /\ Typed /\ (\A b \in Call : CallInv(b)) /\ (\A k \in DOMAIN rows : RowInv(k))
  BY DEF IInv
<1>3. next \in Nat /\ n \in Call /\ n > next
  BY <1>1, <1>2, AggregationAssumption DEF Typed, Call
<1>4. At(n, "none") /\ call[n] = [Idle EXCEPT !.at = call[n].at]
  <2>1. CallInv(n)
    BY <1>2, <1>3
  <2> QED
    BY <1>3, <2>1 DEF CallInv, At, Working
<1>5. /\ call'[n] = [Idle EXCEPT !.at = "aggregate"]
      /\ \A b \in Call \ {n} : call'[b] = call[b] /\ slice'[b] = slice[b]
  <2>1. call[n] = Idle
    BY <1>4 DEF At, Idle
  <2>2. call \in [Call -> Calls] /\ slice \in [Call -> Seq(Record)]
    BY <1>2 DEF Typed
  <2> QED
    BY <1>1, <1>3, <2>1, <2>2
<1>6. call'[n].at = "aggregate" /\ call'[n].aggs = <<>>
  BY <1>5 DEF Idle
<1>7. P' = P
  BY <1>1 DEF P
<1>8. ASSUME NEW k \in DOMAIN rows
      PROVE  /\ applied[k] \in Seq(Call) /\ applied[k] # <<>>
             /\ \A b \in ToSet(applied[k]) : slice[b] = slice'[b]
  <2>1. applied[k] \in Seq(Call) /\ RowInv(k)
    BY <1>2 DEF Typed
  <2>2. \A i \in DOMAIN applied[k] : applied[k][i] \in Call \ {n}
    BY <1>4, <2>1 DEF RowInv, At
  <2>3. \A b \in ToSet(applied[k]) : b \in Call \ {n}
    BY <2>2 DEF ToSet
  <2> QED
    BY <1>5, <2>1, <2>3 DEF RowInv
<1>9. ASSUME NEW b \in Call
      PROVE  CallLat(b)' /\ SeenLat(b)'
  <2>1. CASE b = n
    <3>1. LatRight(P.kind, slice'[n], call'[n].pos, <<>>)
      BY DEF LatRight
    <3> QED
      BY <1>6, <1>7, <2>1, <3>1 DEF CallLat, SeenLat, At
  <2>2. CASE b # n
    <3>1. call'[b] = call[b] /\ slice'[b] = slice[b] /\ CallLat(b) /\ SeenLat(b)
      BY <1>5, <2>2 DEF LInv
    <3>2. CallLat(b)'
      BY <1>7, <3>1 DEF CallLat, Working
    <3>3. SeenLat(b)'
      <4> SUFFICES ASSUME At(b, "average")
                   PROVE  P.db = "mongo" /\ \A k \in DOMAIN call[b].seen :
                            /\ k \in DOMAIN rows
                            /\ SeenRight(P.kind, slice', applied[k], k, call[b].seen[k])
                            /\ ~timed => call[b].seen[k].sum = rows[k].sum /\ call[b].seen[k].hits = rows[k].hits
        BY <1>1, <1>7, <3>1 DEF SeenLat, At
      <4>1. P.db = "mongo" /\ \A k \in DOMAIN call[b].seen :
                            /\ k \in DOMAIN rows
                            /\ SeenRight(P.kind, slice, applied[k], k, call[b].seen[k])
                            /\ ~timed => call[b].seen[k].sum = rows[k].sum /\ call[b].seen[k].hits = rows[k].hits
        BY <3>1 DEF SeenLat
      <4>2. ASSUME NEW k \in DOMAIN call[b].seen
            PROVE  SeenRight(P.kind, slice', applied[k], k, call[b].seen[k])
        <5>1. k \in DOMAIN rows /\ SeenRight(P.kind, slice, applied[k], k, call[b].seen[k])
          BY <4>1, <4>2
        <5> QED
          BY <1>8, <5>1, SeenSlices
      <4> QED
        BY <4>1, <4>2
    <3> QED
      BY <3>2, <3>3
  <2> QED
    BY <2>1, <2>2
<1>10. Alone'
  <2>1. ~timed => \A b \in Call : ~Working(b)
    BY <1>1 DEF LInv, Alone
  <2>2. ~timed => \A b \in Call : Working(b)' => b = n
    BY <1>5, <2>1 DEF Working
  <2> QED
    BY <1>1, <2>2 DEF Alone
<1>11. ASSUME NEW k \in DOMAIN rows'
       PROVE  /\ RowBounds(pump', slice', k, rows'[k], applied'[k])
              /\ RowMean(pump', slice', k, rows'[k], applied'[k])
  <2>1. k \in DOMAIN rows /\ RowBounds(pump, slice, k, rows[k], applied[k]) /\ RowMean(pump, slice, k, rows[k], applied[k])
    BY <1>1 DEF LInv
  <2>2. applied[k] \in Seq(Call) /\ applied[k] # <<>> /\ \A b \in ToSet(applied[k]) : slice[b] = slice'[b]
    BY <1>8, <2>1
  <2>3. RowBounds(pump, slice', k, rows[k], applied[k])
    BY <2>1, <2>2, BoundsSlices
  <2>4. RowMean(pump, slice', k, rows[k], applied[k])
    BY <2>1, <2>2, MeanSlices
  <2> QED
    BY <1>1, <2>3, <2>4
<1>12. ASSUME NEW k \in DOMAIN rows'
       PROVE  MeanCurrent(k)'
  <2>1. MeanCurrent(k)
    BY <1>1 DEF LInv
  <2>2. \A b \in Call : At(b, "average") /\ k \in DOMAIN call[b].seen =>
          At(b, "average")' /\ k \in DOMAIN call'[b].seen
    BY <1>4, <1>5 DEF At
  <2> QED
    BY <1>1, <1>7, <2>1, <2>2 DEF MeanCurrent
<1> QED
  BY <1>9, <1>10, <1>11, <1>12 DEF LInv

LEMMA InitLat == Init => LInv
<1> SUFFICES ASSUME Init PROVE LInv
  OBVIOUS
<1>1. \A c \in Call : call[c].at = "none"
  BY DEF Init, Idle
<1>2. DOMAIN rows = {}
  BY DEF Init
<1> QED
  BY <1>1, <1>2 DEF LInv, CallLat, SeenLat, Alone, Working, At

LEMMA NextLat == IInv /\ IInv' /\ LInv /\ [Next]_vars => LInv'
<1> SUFFICES ASSUME IInv, IInv', LInv, [Next]_vars PROVE LInv'
  OBVIOUS
<1>1. CASE UNCHANGED vars
  <2>1. UNCHANGED <<pump, timed, slice, call, rows, applied, faults>> /\ main' = main /\ next' = next
    BY <1>1 DEF vars, loop
  <2>2. Alone'
    BY <2>1 DEF LInv, Alone, Working
  <2> QED
    BY <2>1, <2>2, LoopLat
<1>2. ASSUME NEW c \in Call, WriteDataStep(c)
      PROVE  LInv'
  <2>1. CASE Aggregate(c)
    BY <2>1, AggregateLat
  <2>2. CASE Panic(c)
    BY <2>2, PanicLat
  <2>3. CASE AggregationEnds(c)
    BY <2>3, AggregationEndsLat
  <2>4. CASE InsertBatch(c)
    BY <2>4, InsertBatchLat
  <2>5. CASE InsertFails(c)
    BY <2>5, InsertFailsLat
  <2>6. CASE Upsert(c)
    BY <2>6, UpsertLat
  <2>7. CASE UpsertFails(c)
    BY <2>7, UpsertFailsLat
  <2>8. CASE AvgUpdate(c)
    BY <2>8, AvgUpdateLat
  <2>9. CASE AvgUpdateFails(c)
    BY <2>9, AvgUpdateFailsLat
  <2>10. CASE Return(c)
    BY <2>10, ReturnLat
  <2> QED
    BY <1>2, <2>1, <2>2, <2>3, <2>4, <2>5, <2>6, <2>7, <2>8, <2>9, <2>10 DEF WriteDataStep
<1>3. CASE StartWrite
  <2>1. next + 1 \in Int
    BY AggregationAssumption DEF IInv, Typed
  <2> QED
    BY <1>3, <2>1, StartWriteLat
<1>4. CASE WriteDone
  BY <1>4, WriteDoneLat
<1>5. CASE Deadline
  BY <1>5, DeadlineLat
<1> QED
  BY <1>1, <1>2, <1>3, <1>4, <1>5 DEF Next

(* The latencies of what a call has counted (incrementOrSetUnit), of the     *)
(* rows (OnConflictAssignments, AsChange) and of what a second update is     *)
(* about to set (AsTimeUpdate), under every step.                            *)
THEOREM LatencyInductive == Spec => []LInv
<1>1. IInv /\ LInv /\ [Next]_vars => LInv'
  BY NextKeeps, NextLat
<1> QED
  BY <1>1, InitLat, Inductive, PTL DEF Spec

-----------------------------------------------------------------------------
(* What follows for the bounds and averages of the rows.                     *)
LEMMA GreatestIs ==
  ASSUME NEW S \in SUBSET Nat, NEW x \in S, \A y \in S : y <= x
  PROVE  Max(S) = x
<1> DEFINE top == Max(S)
<1>1. top = CHOOSE z \in S : \A y \in S : z >= y
  BY DEF Max
<1> HIDE DEF top
<1>2. top \in S /\ \A y \in S : top >= y
  <2>1. x \in S /\ \A y \in S : x >= y
    OBVIOUS
  <2> QED
    BY <1>1, <2>1
<1>3. top = x
  <2>1. top <= x /\ x <= top /\ top \in Nat /\ x \in Nat
    BY <1>2
  <2> QED
    BY <2>1
<1> QED
  BY <1>3 DEF top

LEMMA LeastIs ==
  ASSUME NEW S \in SUBSET Nat, S # {}
  PROVE  Min(S) \in S /\ \A y \in S : Min(S) <= y
<1>1. \E x \in S : \A y \in S : x <= y
  BY LeastElement
<1>2. Min(S) = CHOOSE z \in S : \A y \in S : z <= y
  BY DEF Min
<1> QED
  BY <1>1, <1>2

LEMMA HitIs ==
  ASSUME NEW r \in Record, NEW k
  PROVE  /\ OfRecord(r, k, Hits) > 0 <=> HitFor(P.kind, r, k)
         /\ Clean(r, k) <=> CleanFor(r, k)
         /\ Weight(r, k) > 0 <=> WeightOf(P.kind, r, k) # 0
<1>1. Weight(r, k) = WeightOf(P.kind, r, k)
  BY Links
<1>2. WeightOf(P.kind, r, k) \in Nat
  BY AddsFacts DEF WeightOf
<1>3. Unit(r, k, Hits) = Flag(IsHit(r)) /\ Unit(r, k, <<"errors", 0>>) = Flag(IsError(r) \/ GraphError(r, k))
  BY UnitCases DEF Hits
<1> DEFINE w == WeightOf(P.kind, r, k)
<1>4. OfRecord(r, k, Hits) = w * Flag(IsHit(r))
  BY <1>1, <1>3 DEF OfRecord
<1> HIDE DEF w
<1>5. OfRecord(r, k, Hits) > 0 <=> w # 0 /\ IsHit(r)
  <2>1. w \in Nat
    BY <1>2 DEF w
  <2>2. CASE IsHit(r)
    BY <1>4, <2>1, <2>2 DEF Flag
  <2>3. CASE ~IsHit(r)
    BY <1>4, <2>1, <2>3 DEF Flag
  <2> QED
    BY <2>2, <2>3
<1>6. Clean(r, k) <=> CleanFor(r, k)
  BY <1>3 DEF Clean, CleanFor, Flag
<1> QED
  BY <1>1, <1>2, <1>5, <1>6 DEF HitFor, w

(* The hits that s counts in row k, one by one.                              *)
LEMMA HitsAre ==
  ASSUME Typed, NEW s \in Seq(Call), NEW k
  PROVE  /\ \A r \in HitsOf(s, k) : \E c \in ToSet(s) : \E n \in 1 .. Len(slice[c]) :
              r = slice[c][n] /\ HitFor(P.kind, slice[c][n], k)
         /\ \A c \in ToSet(s) : \A n \in 1 .. Len(slice[c]) :
              HitFor(P.kind, slice[c][n], k) => slice[c][n] \in HitsOf(s, k)
         /\ HitsOf(s, k) \subseteq Record
<1>1. \A c \in ToSet(s) : c \in Call /\ slice[c] \in Seq(Record) /\ DOMAIN slice[c] = 1 .. Len(slice[c])
  BY DEF Typed, ToSet
<1>2. \A c \in ToSet(s) : \A n \in 1 .. Len(slice[c]) :
        slice[c][n] \in Record /\ (OfRecord(slice[c][n], k, Hits) > 0 <=> HitFor(P.kind, slice[c][n], k))
  BY <1>1, HitIs
<1> DEFINE Of(c) == {slice[c][n] : n \in {m \in DOMAIN slice[c] : OfRecord(slice[c][m], k, Hits) > 0}}
<1>3. HitsOf(s, k) = UNION {Of(c) : c \in ToSet(s)}
  BY DEF HitsOf
<1>4. ASSUME NEW c \in ToSet(s)
      PROVE  /\ \A r \in Of(c) : \E n \in 1 .. Len(slice[c]) : r = slice[c][n] /\ HitFor(P.kind, slice[c][n], k)
             /\ \A n \in 1 .. Len(slice[c]) : HitFor(P.kind, slice[c][n], k) => slice[c][n] \in Of(c)
             /\ Of(c) \subseteq Record
  BY <1>1, <1>2
<1> HIDE DEF Of
<1> QED
  BY <1>3, <1>4

LEMMA FirstHitIs ==
  ASSUME Typed, NEW c \in Call, NEW k, NEW n \in 1 .. Len(slice[c]), FirstFor(P.kind, slice[c], k, n)
  PROVE  OfSlice(c, k, Hits) > 0 /\ FirstHit(c, k) = slice[c][n]
<1> DEFINE s    == slice[c]
           mine == {m \in DOMAIN s : OfRecord(s[m], k, Hits) > 0}
<1>1. s \in Seq(Record) /\ DOMAIN s = 1 .. Len(s) /\ Len(s) \in Nat /\ Len(s) \in 0 .. Len(s)
  BY DEF Typed
<1>2. n \in 1 .. Len(s) /\ HitFor(P.kind, s[n], k) /\ \A j \in 1 .. n - 1 : ~HitFor(P.kind, s[j], k)
  BY DEF FirstFor
<1>3. \A m \in 1 .. Len(s) : OfRecord(s[m], k, Hits) > 0 <=> HitFor(P.kind, s[m], k)
  BY <1>1, HitIs
<1>4. n \in mine /\ mine \subseteq Nat /\ \A m \in mine : n <= m
  <2>1. ASSUME NEW m \in mine PROVE n <= m
    <3>1. m \in 1 .. Len(s) /\ HitFor(P.kind, s[m], k)
      BY <1>1, <1>3
    <3>2. ~(m \in 1 .. n - 1)
      BY <1>2, <3>1
    <3> QED
      BY <3>1, <3>2
  <2>2. n \in mine
    BY <1>1, <1>2, <1>3
  <2> QED
    BY <1>1, <2>1, <2>2
<1>5. OfSlice(c, k, Hits) > 0
  <2>1. OfSlice(c, k, Hits) = SumTo(Nums(P.kind, s, k, Hits), Len(s))
    BY Links DEF SliceSum
  <2>2. OfSlice(c, k, Hits) \in Nat
    <3>1. OfSlice(c, k, Hits) = SliceSum(P.kind, s, k, Hits)
      BY Links
    <3> HIDE DEF s
    <3>2. SliceSum(P.kind, s, k, Hits) \in Nat
      BY <1>1, LatFields, NumsFacts
    <3> QED
      BY <3>1, <3>2
  <2>3. OfSlice(c, k, Hits) # 0
    <3> HIDE DEF s
    <3> QED
      BY <1>1, <1>2, <2>1, NoHits
  <2> QED
    BY <2>2, <2>3
<1>6. FirstHit(c, k) = s[Min(mine)]
  BY DEF FirstHit
<1> HIDE DEF mine, s
<1> DEFINE low == Min(mine)
<1>7. low \in mine /\ \A y \in mine : low <= y
  BY <1>4, LeastIs
<1> HIDE DEF low
<1>8. low = n
  <2>1. low \in Nat /\ n \in Nat /\ low <= n /\ n <= low
    BY <1>4, <1>7
  <2> QED
    BY <2>1
<1> QED
  BY <1>5, <1>6, <1>8 DEF s, low

LEMMA HitlessIs ==
  ASSUME Typed, NEW c \in Call, NEW k, HitlessFor(P.kind, slice[c], Len(slice[c]), k)
  PROVE  Hitless(c, k)
<1> DEFINE s == slice[c]
<1>1. s \in Seq(Record) /\ DOMAIN s = 1 .. Len(s) /\ Len(s) \in 0 .. Len(s)
  BY DEF Typed
<1>2. PICK n \in 1 .. Len(s) : WeightOf(P.kind, s[n], k) # 0 /\ ~IsHit(s[n])
  BY DEF HitlessFor
<1>3. Weight(s[n], k) > 0
  <2>1. s[n] \in Record
    BY <1>1
  <2> QED
    BY <1>2, <2>1, HitIs
<1>4. ASSUME k[2] = Total
      PROVE  OfSlice(c, k, Hits) = 0
  <2>1. OfSlice(c, k, Hits) = SumTo(Nums(P.kind, s, k, Hits), Len(s))
    BY Links DEF SliceSum
  <2>2. \A m \in 1 .. Len(s) : ~HitFor(P.kind, s[m], k)
    BY <1>4 DEF HitlessFor
  <2> HIDE DEF s
  <2> QED
    BY <1>1, <2>1, <2>2, NoHitsSum
<1> QED
  BY <1>1, <1>2, <1>3, <1>4 DEF Hitless

LEMMA MaxFollows ==
  ASSUME Typed, NEW s \in Seq(Call), NEW k, NEW x, RowMax(P.kind, slice, ToSet(s), k, x)
  PROVE  x = Max({r.latency : r \in HitsOf(s, k)} \cup {0})
<1> DEFINE H == HitsOf(s, k)
           S == {r.latency : r \in H} \cup {0}
<1>1. /\ \A r \in H : \E c \in ToSet(s) : \E n \in 1 .. Len(slice[c]) :
           r = slice[c][n] /\ HitFor(P.kind, slice[c][n], k)
      /\ \A c \in ToSet(s) : \A n \in 1 .. Len(slice[c]) : HitFor(P.kind, slice[c][n], k) => slice[c][n] \in H
      /\ H \subseteq Record
  BY HitsAre
<1> HIDE DEF H
<1>2. \A r \in H : r.latency \in Nat
  BY <1>1, RecordFacts
<1>3. S \in SUBSET Nat
  BY <1>2
<1>4. x = 0 \/ \E c \in ToSet(s) : \E n \in 1 .. Len(slice[c]) :
        HitFor(P.kind, slice[c][n], k) /\ x = slice[c][n].latency
  BY DEF RowMax
<1>5. x \in S
  BY <1>1, <1>4
<1>6. \A y \in S : y <= x
  <2>1. \A r \in H : r.latency <= x
    BY <1>1 DEF RowMax
  <2>2. x \in Nat
    BY <1>3, <1>5
  <2> QED
    BY <2>1, <2>2
<1> HIDE DEF S
<1>7. Max(S) = x
  BY <1>3, <1>5, <1>6, GreatestIs
<1> QED
  BY <1>7 DEF S, H

CleanOf(s, k) == {r.latency : r \in {h \in HitsOf(s, k) : Clean(h, k)}}

LEMMA MinFollows ==
  ASSUME Typed, NEW s \in Seq(Call), NEW k, NEW x, RowMin(P.kind, P.db, slice, ToSet(s), k, x)
  PROVE  /\ CleanOf(s, k) # {} => x \in 0 .. Min(CleanOf(s, k))
         /\ \/ x \in CleanOf(s, k)
            \/ \E c \in ToSet(s) : OfSlice(c, k, Hits) > 0 /\ x = FirstHit(c, k).latency
            \/ x = 0 /\ \E c \in ToSet(s) : Hitless(c, k)
            \/ P.db = "mongo" /\ x = Absent
<1> DEFINE H     == HitsOf(s, k)
           clean == {r.latency : r \in {h \in H : Clean(h, k)}}
<1>0. CleanOf(s, k) = clean
  BY DEF CleanOf
<1>1. /\ \A r \in H : \E c \in ToSet(s) : \E n \in 1 .. Len(slice[c]) :
           r = slice[c][n] /\ HitFor(P.kind, slice[c][n], k)
      /\ \A c \in ToSet(s) : \A n \in 1 .. Len(slice[c]) : HitFor(P.kind, slice[c][n], k) => slice[c][n] \in H
      /\ H \subseteq Record
  BY HitsAre
<1> HIDE DEF H
<1>2. \A r \in H : r.latency \in Nat /\ (Clean(r, k) <=> CleanFor(r, k))
  BY <1>1, RecordFacts, HitIs
<1>3. clean \in SUBSET Nat
  BY <1>2
<1>4. \A c \in ToSet(s) : c \in Call
  BY DEF ToSet
<1>5. ASSUME clean # {}
      PROVE  x \in 0 .. Min(clean)
  <2>1. \A y \in clean : x \in Nat /\ x <= y
    BY <1>1, <1>2 DEF RowMin
  <2> DEFINE low == Min(clean)
  <2> HIDE DEF clean
  <2>2. low \in clean
    BY <1>3, <1>5, LeastIs
  <2> HIDE DEF low
  <2>3. low \in Nat /\ x \in Nat /\ x <= low
    BY <1>3, <2>1, <2>2
  <2>4. x \in 0 .. low
    BY <2>3
  <2> QED
    BY <2>4 DEF low
<1>6. ASSUME NEW c \in ToSet(s), NEW n \in 1 .. Len(slice[c]), HitFor(P.kind, slice[c][n], k),
             CleanFor(slice[c][n], k), x = slice[c][n].latency
      PROVE  x \in clean
  <2>1. slice[c][n] \in H
    BY <1>1, <1>6
  <2>2. Clean(slice[c][n], k)
    BY <1>2, <1>6, <2>1
  <2> QED
    BY <1>6, <2>1, <2>2
<1>7. ASSUME NEW c \in ToSet(s), NEW n \in 1 .. Len(slice[c]), FirstFor(P.kind, slice[c], k, n), x = slice[c][n].latency
      PROVE  \E b \in ToSet(s) : OfSlice(b, k, Hits) > 0 /\ x = FirstHit(b, k).latency
  <2>1. OfSlice(c, k, Hits) > 0 /\ FirstHit(c, k) = slice[c][n]
    BY <1>4, <1>7, FirstHitIs
  <2> QED
    BY <1>7, <2>1
<1>8. ASSUME NEW c \in ToSet(s), HitlessFor(P.kind, slice[c], Len(slice[c]), k)
      PROVE  Hitless(c, k)
  BY <1>4, <1>8, HitlessIs
<1>9. \/ \E c \in ToSet(s) : \E n \in 1 .. Len(slice[c]) :
           HitFor(P.kind, slice[c][n], k) /\ CleanFor(slice[c][n], k) /\ x = slice[c][n].latency
      \/ \E c \in ToSet(s) : \E n \in 1 .. Len(slice[c]) : FirstFor(P.kind, slice[c], k, n) /\ x = slice[c][n].latency
      \/ x = 0 /\ \E c \in ToSet(s) : HitlessFor(P.kind, slice[c], Len(slice[c]), k)
      \/ P.db = "mongo" /\ x = Absent
  BY DEF RowMin
<1>10. \/ x \in clean
       \/ \E c \in ToSet(s) : OfSlice(c, k, Hits) > 0 /\ x = FirstHit(c, k).latency
       \/ x = 0 /\ \E c \in ToSet(s) : Hitless(c, k)
       \/ P.db = "mongo" /\ x = Absent
  <2> HIDE DEF clean
  <2>1. CASE \E c \in ToSet(s) : \E n \in 1 .. Len(slice[c]) :
               FirstFor(P.kind, slice[c], k, n) /\ x = slice[c][n].latency
    BY <1>7, <2>1
  <2>2. CASE x = 0 /\ \E c \in ToSet(s) : HitlessFor(P.kind, slice[c], Len(slice[c]), k)
    BY <1>8, <2>2
  <2>3. CASE \E c \in ToSet(s) : \E n \in 1 .. Len(slice[c]) :
               HitFor(P.kind, slice[c][n], k) /\ CleanFor(slice[c][n], k) /\ x = slice[c][n].latency
    BY <1>6, <2>3
  <2>4. CASE P.db = "mongo" /\ x = Absent
    BY <2>4
  <2> QED
    BY <1>9, <2>1, <2>2, <2>3, <2>4
<1> HIDE DEF clean
<1> QED
  BY <1>0, <1>5, <1>10

LEMMA MeanIs ==
  ASSUME NEW s, NEW k
  PROVE  Mean(s, k) = MeansOf(CallSum(P.kind, slice, s, k, Sum), CallSum(P.kind, slice, s, k, Hits))
BY Links DEF Mean, MeansOf

LEMMA Latency == IInv /\ LInv => LatenciesFollow
<1> SUFFICES ASSUME IInv, LInv, NEW k \in DOMAIN rows
             PROVE  LET s == applied[k]
                    IN /\ pump = "sqlUptime" \/ BoundsOf(s, k)
                       /\ pump = "sqlUptime" => rows[k].mean \in Mean(<<s[1]>>, k)
                       /\ P.db = "sql" /\ pump # "sqlUptime" => rows[k].mean \in Mean(s, k)
                       /\ P.db = "mongo" =>
                            \/ rows[k].mean \in Mean(s, k)
                            \/ /\ \E m \in 0 .. Len(s) : rows[k].mean \in Mean(SubSeq(s, 1, m), k)
                               /\ timed \/ faults > 0 \/ \E c \in Call : At(c, "average")
  BY DEF LatenciesFollow
<1> DEFINE s == applied[k]
<1>1. /\ Typed /\ s \in Seq(Call) /\ s # <<>> /\ RowRight(P.kind, P.db, slice, k, rows[k], s)
      /\ \A b \in Call : slice[b] \in Seq(Record)
      /\ faults \in Nat
  BY AggregationAssumption DEF IInv, Typed, RowInv
<1>2. RowBounds(pump, slice, k, rows[k], s) /\ RowMean(pump, slice, k, rows[k], s) /\ MeanCurrent(k)
  BY DEF LInv
<1>3. rows[k].sum = CallSum(P.kind, slice, s, k, Sum) /\ rows[k].hits = CallSum(P.kind, slice, s, k, Hits)
  <2>1. Part(rows[k], Sum) = CallSum(P.kind, slice, s, k, Sum) /\ Part(rows[k], Hits) = CallSum(P.kind, slice, s, k, Hits)
    BY <1>1, LatFields DEF RowRight
  <2> QED
    BY <2>1, PartCases DEF Sum, Hits
<1> HIDE DEF s
<1>4. pump = "sqlUptime" \/ BoundsOf(s, k)
  <2> SUFFICES ASSUME pump # "sqlUptime" PROVE BoundsOf(s, k)
    OBVIOUS
  <2>1. RowMax(P.kind, slice, ToSet(s), k, rows[k].max) /\ RowMin(P.kind, P.db, slice, ToSet(s), k, rows[k].min)
    BY <1>2 DEF RowBounds, P
  <2>2. rows[k].max = Max({r.latency : r \in HitsOf(s, k)} \cup {0})
    BY <1>1, <2>1, MaxFollows
  <2>3. /\ CleanOf(s, k) # {} => rows[k].min \in 0 .. Min(CleanOf(s, k))
        /\ \/ rows[k].min \in CleanOf(s, k)
           \/ \E c \in ToSet(s) : OfSlice(c, k, Hits) > 0 /\ rows[k].min = FirstHit(c, k).latency
           \/ rows[k].min = 0 /\ \E c \in ToSet(s) : Hitless(c, k)
           \/ P.db = "mongo" /\ rows[k].min = Absent
    BY <1>1, <2>1, MinFollows
  <2> QED
    BY <2>2, <2>3 DEF BoundsOf, CleanOf
<1>5. ASSUME pump = "sqlUptime"
      PROVE  rows[k].mean \in Mean(<<s[1]>>, k)
  <2> DEFINE b == s[1]
             e == <<>>
             p == Append(e, b)
  <2>1. b \in Call /\ <<s[1]>> = p /\ e \in Seq(Call)
    BY <1>1
  <2>2. rows[k].mean \in MeansOf(SliceSum(P.kind, slice[b], k, Sum), SliceSum(P.kind, slice[b], k, Hits))
    BY <1>2, <1>5 DEF RowMean, P
  <2>3. \A f : CallSum(P.kind, slice, e, k, f) = 0
    BY NoCallsSum
  <2> HIDE DEF p, e, b
  <2>4. \A f \in Field : /\ CallSum(P.kind, slice, Append(e, b), k, f)
                              = CallSum(P.kind, slice, e, k, f) + SliceSum(P.kind, slice[b], k, f)
                         /\ SliceSum(P.kind, slice[b], k, f) \in Int
    <3>1. slice[b] \in Seq(Record)
      BY <1>1, <2>1
    <3>2. \A f \in Field : SliceSum(P.kind, slice[b], k, f) \in Int
      BY <3>1, NumsFacts
    <3>3. \A f \in Field : CallSum(P.kind, slice, Append(e, b), k, f)
                              = CallSum(P.kind, slice, e, k, f) + SliceSum(P.kind, slice[b], k, f)
      BY <1>1, <2>1, CallSumFacts
    <3> QED
      BY <3>2, <3>3
  <2>5. /\ CallSum(P.kind, slice, p, k, Sum) = SliceSum(P.kind, slice[b], k, Sum)
        /\ CallSum(P.kind, slice, p, k, Hits) = SliceSum(P.kind, slice[b], k, Hits)
    BY <2>3, <2>4, LatFields DEF p
  <2> QED
    BY <2>1, <2>2, <2>5, MeanIs
<1>6. ASSUME P.db = "sql", pump # "sqlUptime"
      PROVE  rows[k].mean \in Mean(s, k)
  <2>1. MeanRight(rows[k])
    BY <1>2, <1>6 DEF RowMean, P
  <2> QED
    BY <1>3, <2>1, MeanIs DEF MeanRight
<1>7. ASSUME P.db = "mongo"
      PROVE  \/ rows[k].mean \in Mean(s, k)
             \/ /\ \E m \in 0 .. Len(s) : rows[k].mean \in Mean(SubSeq(s, 1, m), k)
                /\ timed \/ faults > 0 \/ \E c \in Call : At(c, "average")
  <2>1. \E m \in 0 .. Len(s) : rows[k].mean \in Mean(SubSeq(s, 1, m), k)
    <3>1. MeanSeen(P.kind, slice, s, k, rows[k].mean)
      BY <1>2, <1>7 DEF RowMean, P
    <3> QED
      BY <3>1, MeanIs DEF MeanSeen, SumAfter
  <2>2. \/ rows[k].mean \in Mean(s, k)
        \/ timed \/ faults > 0 \/ \E c \in Call : At(c, "average")
    BY <1>1, <1>2, <1>3, <1>7, MeanIs DEF MeanCurrent
  <2> QED
    BY <2>1, <2>2
<1> QED
  BY <1>4, <1>5, <1>6, <1>7 DEF s

(* Whatever way the records are cut into slices, and whatever fails: the     *)
(* bounds of a row are those of its hits, and its average is that of its     *)
(* counters, or of an earlier state in MongoDB.                              *)
THEOREM LatenciesAreRight == Spec => []LatenciesFollow
BY Inductive, LatencyInductive, Latency, PTL

=============================================================================
