--------------------------- MODULE MongoWrite_proofs ---------------------------
(* Theorems about WriteData of the pumps that write records to MongoDB, for  *)
(* every slice, every limit and every order in which the goroutines run.     *)
EXTENDS MongoWrite, DataFacts, TLAPS

-----------------------------------------------------------------------------
(* The inductive invariant.                                                  *)

Kept(k) == ~Skips(k) /\ (pump = "selective" => ~TooLarge(k))
Count   == Len(batches)

Types ==
  /\ TypeOK
  /\ Len(slice) <= MaxItems
  /\ Len(data) <= Len(slice) /\ Ascending(data)

(* Where the call is.                                                        *)
Stage ==
  /\ pc = "select" => data = <<>> /\ i = 1
  /\ pc \in {"gather", "returned"} => i > Len(data)

(* What AccumulateSet has of the records it has looked at: each one that it  *)
(* keeps is in thisResultSet or in a batch, in one only, and thisResultSet   *)
(* is the last batch once the last record is appended.                       *)
Packed ==
  /\ \A b, d \in Batch : b # d => batches[b] \cap batches[d] = {}
  /\ \A b \in Batch : \A k \in batches[b] : \E n \in 1 .. i - 1 : data[n] = k
  /\ \A k \in current : \E n \in 1 .. i - 1 : data[n] = k
  /\ \A n \in 1 .. i - 1 :
       Kept(data[n]) => data[n] \in current \/ \E b \in Batch : data[n] \in batches[b]
  /\ Count <= i - 1
  /\ i <= Len(data) =>
       /\ \A b \in Batch : batches[b] \cap current = {}
       /\ current # {} => Count + 1 <= i - 1
  /\ i > Len(data) /\ data # <<>> /\ Kept(data[Len(data)]) => Count > 0 /\ batches[Count] = current

(* The sizes: a batch is over the limit only if it holds a single record.    *)
Sized ==
  /\ total = SizeOf(current)
  /\ total <= MaxInsertBatchSizeBytes \/ Cardinality(current) = 1
  /\ BatchFits

(* The goroutines: a batch is written when its goroutine has inserted it,    *)
(* and before only by nobody.                                                *)
Inserted ==
  pump # "selective" =>
    /\ pc \in {"select", "accumulate", "gather", "returned"}
    /\ pc \in {"select", "accumulate"} =>
         /\ inserters = <<>> /\ errCh = <<>> /\ received = 0
         /\ \A k \in Pos : written[k] = 0
    /\ pc \in {"gather", "returned"} => Len(inserters) = Count
    /\ broken \subseteq DOMAIN inserters
    /\ \A b \in DOMAIN inserters :
         /\ inserters[b] = "insert" => b \notin broken /\ \A k \in batches[b] : written[k] = 0
         /\ inserters[b] \in {"sendNil", "done"} /\ b \notin broken =>
              \A k \in batches[b] : written[k] = 1
         /\ inserters[b] = "sendErr" => b \in broken

(* The selective pump comes to each organisation once, and has not written   *)
(* any record of those it has not come to.                                   *)
Collected ==
  pump = "selective" =>
    /\ inserters = <<>> /\ errCh = <<>>
    /\ \A k \in Pos : slice[k].org \in orgs => written[k] = 0
    /\ pc \in {"accumulate", "gather"} => \A n \in DOMAIN data : slice[data[n]].org \notin orgs
    /\ pc = "select" => \A k \in Pos : written[k] = 0
    /\ pc = "accumulate" => \A n \in DOMAIN data : written[data[n]] = 0
    /\ pc = "gather" => \A b \in Batch : b > received => \A k \in batches[b] : written[k] = 0

(* Success: the goroutines that have inserted their batch and sent nil.      *)
Good == {b \in DOMAIN inserters : inserters[b] = "done" /\ b \notin broken}

NilsOnly(p) == \A q \in 1 .. p : errCh[q] = "nil"

(* The results: an error that was sent is still in the channel as long as    *)
(* WriteData gathers, and before the first one are only results of success.  *)
Gathered ==
  /\ result # "none" <=> pc = "returned"
  /\ pump # "selective" =>
       /\ pc = "gather" =>
            /\ \A b \in broken : inserters[b] = "sendErr" \/ \E q \in DOMAIN errCh : errCh[q] = "err"
            /\ \A p \in 0 .. Len(errCh) : NilsOnly(p) => received + p <= Cardinality(Good)
       /\ result = "nil" => broken = {} /\ \A b \in DOMAIN inserters : inserters[b] = "done"

OnceEach == \A k \in Pos : written[k] <= 1

IInv == /\ Types /\ Stage /\ Packed /\ Sized
        /\ Inserted /\ Collected /\ OnceEach /\ Gathered

-----------------------------------------------------------------------------
(* The size of a batch.                                                      *)

(* The sums that SizeOf(S) is made of.                                       *)
IsSums(g, S) ==
  g = [n \in 0 .. Len(slice) |->
         IF n = 0 THEN 0 ELSE g[n - 1] + (IF n \in S THEN slice[n].size ELSE 0)]

LEMMA SizeIsSum ==
  ASSUME slice \in Seq(Item), NEW S \in SUBSET Pos
  PROVE  \E g \in [0 .. Len(slice) -> Nat] :
           IsSums(g, S) /\ SizeOf(S) = g[Len(slice)]
<1> DEFINE N == Len(slice)
           w == [n \in 1 .. N |-> IF n \in S THEN slice[n].size ELSE 0]
<1>1. N \in Nat /\ w \in [1 .. N -> Nat]
  BY ItemAssumption
<1>2. \E g : IsSums(g, S)
  <2>1. PICK g \in [0 .. N -> Nat] : g[0] = 0 /\ \A n \in 1 .. N : g[n] = g[n - 1] + w[n]
    <3> HIDE DEF N, w
    <3> QED
      BY <1>1, SumsExist
  <2>2. \A n \in 0 .. N : g[n] = IF n = 0 THEN 0 ELSE g[n - 1] + (IF n \in S THEN slice[n].size ELSE 0)
    BY <1>1, <2>1
  <2>3. IsSums(g, S)
    BY <2>1, <2>2 DEF IsSums
  <2> QED
    BY <2>3
<1> DEFINE h == CHOOSE g : IsSums(g, S)
<1>3. IsSums(h, S)
  BY <1>2
<1>4. SizeOf(S) = h[N]
  BY DEF SizeOf, IsSums
<1> HIDE DEF h
<1>5. h \in [0 .. N -> Nat]
  <2> DEFINE T == {n \in Nat : n <= N => h[n] \in Nat}
  <2>1. 0 \in T
    BY <1>1, <1>3 DEF IsSums
  <2>2. ASSUME NEW n \in Nat, n \in T
        PROVE  n + 1 \in T
    <3> SUFFICES ASSUME n + 1 <= N
                 PROVE  h[n + 1] \in Nat
      OBVIOUS
    <3>1. n + 1 \in 0 .. N /\ n + 1 # 0 /\ (n + 1) - 1 = n /\ h[n] \in Nat /\ n + 1 \in 1 .. N
      BY <1>1, <2>2
    <3>2. h[n + 1] = h[n] + w[n + 1]
      BY <1>1, <1>3, <3>1 DEF IsSums
    <3> HIDE DEF w
    <3> QED
      BY <1>1, <3>1, <3>2
  <2> HIDE DEF T
  <2>3. Nat \subseteq T
    BY <2>1, <2>2, InductiveSet
  <2>4. \A n \in 0 .. N : h[n] \in Nat
    BY <1>1, <2>3 DEF T
  <2> QED
    BY <1>3, <2>4 DEF IsSums
<1> QED
  BY <1>3, <1>4, <1>5

(* The size of a set is the sum over its members, whatever their order.      *)
LEMMA SizeFacts ==
  ASSUME slice \in Seq(Item)
  PROVE  /\ SizeOf({}) = 0
         /\ \A S \in SUBSET Pos : SizeOf(S) \in Nat
         /\ \A S \in SUBSET Pos : \A k \in Pos \ S : SizeOf(S \cup {k}) = SizeOf(S) + slice[k].size
<1> DEFINE N == Len(slice)
<1>0. N \in Nat /\ Pos = 1 .. N /\ \A k \in Pos : slice[k].size \in Nat
  BY ItemAssumption DEF Pos
<1>1. ASSUME NEW S \in SUBSET Pos, NEW R \in SUBSET Pos, NEW k \in 0 .. N, k # 0 => k \notin S,
             R = IF k = 0 THEN {} ELSE S \cup {k}, k = 0 => S = {}
      PROVE  /\ k = 0 => SizeOf(S) = 0
             /\ k # 0 => SizeOf(R) = SizeOf(S) + slice[k].size
  <2>1. PICK f \in [0 .. N -> Nat] : IsSums(f, S) /\ SizeOf(S) = f[N]
    BY SizeIsSum
  <2>2. PICK g \in [0 .. N -> Nat] : IsSums(g, R) /\ SizeOf(R) = g[N]
    BY SizeIsSum
  <2> DEFINE e == IF k = 0 THEN 0 ELSE slice[k].size
             T == {n \in Nat : n <= N => g[n] = IF n < k THEN f[n] ELSE f[n] + e}
  <2>3. e \in Nat
    BY <1>0
  <2>31. f[0] = 0 /\ g[0] = 0
    BY <1>0, <2>1, <2>2 DEF IsSums
  <2>4. \A n \in 1 .. N : /\ f[n] = f[n - 1] + (IF n \in S THEN slice[n].size ELSE 0)
                         /\ g[n] = g[n - 1] + (IF n \in R THEN slice[n].size ELSE 0)
    <3> TAKE n \in 1 .. N
    <3>1. n \in 0 .. N /\ n # 0
      BY <1>0
    <3> QED
      BY <2>1, <2>2, <3>1 DEF IsSums
  <2>5. 0 \in T
    BY <1>0, <1>1, <2>31
  <2>6. ASSUME NEW m \in Nat, m \in T
        PROVE  m + 1 \in T
    <3> SUFFICES ASSUME m + 1 <= N
                 PROVE  g[m + 1] = IF m + 1 < k THEN f[m + 1] ELSE f[m + 1] + e
      OBVIOUS
    <3> DEFINE n == m + 1
    <3>1. n \in 1 .. N /\ n - 1 = m /\ m \in 0 .. N /\ f[m] \in Nat /\ g[m] \in Nat
          /\ g[m] = IF m < k THEN f[m] ELSE f[m] + e
      BY <1>0, <2>6
    <3>2. slice[n].size \in Nat
      BY <1>0, <3>1
    <3>3. /\ f[n] = f[m] + (IF n \in S THEN slice[n].size ELSE 0)
          /\ g[n] = g[m] + (IF n \in R THEN slice[n].size ELSE 0)
      BY <2>4, <3>1
    <3>4. n # k => (n \in R <=> n \in S)
      BY <1>1
    <3>5. n = k => n \in R /\ n \notin S /\ e = slice[n].size
      BY <1>1
    <3>6. n \in Nat /\ (m < k <=> n < k \/ n = k) /\ (n = k => ~(n < k))
      BY <1>1
    <3> HIDE DEF n, e
    <3>7. CASE n = k
      BY <2>3, <3>1, <3>2, <3>3, <3>5, <3>6, <3>7
    <3>8. CASE n # k
      BY <2>3, <3>1, <3>2, <3>3, <3>4, <3>6, <3>8
    <3>9. g[n] = IF n < k THEN f[n] ELSE f[n] + e
      BY <3>7, <3>8
    <3> QED
      BY <3>9 DEF n
  <2> HIDE DEF T
  <2>7. N \in T
    BY <1>0, <2>5, <2>6, InductiveSet
  <2>8. g[N] = f[N] + e
    BY <1>0, <1>1, <2>7 DEF T
  <2>9. CASE k = 0
    <3>1. R = S
      BY <1>1, <2>9
    <3> DEFINE U == {n \in Nat : n <= N => f[n] = 0}
    <3>2. 0 \in U
      BY <2>31
    <3>3. ASSUME NEW m \in Nat, m \in U
          PROVE  m + 1 \in U
      <4>1. ASSUME m + 1 <= N
            PROVE  f[m + 1] = 0
        <5>1. m + 1 \in 1 .. N /\ (m + 1) - 1 = m /\ f[m] = 0
          BY <1>0, <3>3, <4>1
        <5>2. f[m + 1] = f[m] + 0
          BY <1>1, <2>4, <2>9, <5>1
        <5> QED
          BY <5>1, <5>2
      <4> QED
        BY <4>1
    <3> HIDE DEF U
    <3>4. N \in U
      BY <1>0, <3>2, <3>3, InductiveSet
    <3> QED
      BY <1>0, <2>1, <2>9, <3>4 DEF U
  <2>10. CASE k # 0
    BY <2>1, <2>2, <2>8, <2>10
  <2> QED
    BY <2>9, <2>10
<1>2. SizeOf({}) = 0
  BY <1>0, <1>1
<1>3. \A S \in SUBSET Pos : SizeOf(S) \in Nat
  BY <1>0, SizeIsSum
<1>4. ASSUME NEW S \in SUBSET Pos, NEW k \in Pos \ S
      PROVE  SizeOf(S \cup {k}) = SizeOf(S) + slice[k].size
  <2>1. k \in 0 .. N /\ k # 0 /\ S \cup {k} \in SUBSET Pos
    BY <1>0
  <2> QED
    BY <1>1, <2>1
<1> QED
  BY <1>2, <1>3, <1>4

LEMMA SizeStays ==
  ASSUME slice' = slice, NEW S
  PROVE  SizeOf(S)' = SizeOf(S)
BY DEF SizeOf

-----------------------------------------------------------------------------
(* The order of the records.                                                 *)

LEMMA OneMore ==
  ASSUME NEW n \in Nat, NEW Q \in SUBSET (1 .. n), NEW R, n + 1 \in R, Q \subseteq R,
         NEW c \in Nat, \E s \in [1 .. c -> Q] : Ascending(s)
  PROVE  \E t \in [1 .. c + 1 -> R] : Ascending(t)
<1>0. PICK s \in [1 .. c -> Q] : Ascending(s)
  OBVIOUS
<1> DEFINE t == [m \in 1 .. c + 1 |-> IF m <= c THEN s[m] ELSE n + 1]
<1>1. \A m \in 1 .. c : s[m] \in 1 .. n /\ s[m] \in R
  OBVIOUS
<1>2. t \in [1 .. c + 1 -> R]
  BY <1>1
<1>3. \A j, k \in 1 .. c : j < k => s[j] < s[k]
  BY <1>0 DEF Ascending
<1>4. Ascending(t)
  BY <1>1, <1>2, <1>3 DEF Ascending
<1> QED
  BY <1>2, <1>4

LEMMA OrderExists ==
  ASSUME NEW N \in Nat, NEW S \in SUBSET (1 .. N)
  PROVE  \E s \in [1 .. Cardinality(S) -> S] : Ascending(s)
<1> DEFINE T == {n \in Nat : \A R \in SUBSET (1 .. n) :
                   \E s \in [1 .. Cardinality(R) -> R] : Ascending(s)}
<1>1. 0 \in T
  <2>1. ASSUME NEW R \in SUBSET (1 .. 0)
        PROVE  \E s \in [1 .. Cardinality(R) -> R] : Ascending(s)
    <3>0. R = {}
      OBVIOUS
    <3>1. Cardinality(R) = 0
      BY <3>0, FS_EmptySet
    <3> DEFINE s == [n \in 1 .. 0 |-> n]
    <3>2. s \in [1 .. Cardinality(R) -> R] /\ Ascending(s)
      BY <3>0, <3>1 DEF Ascending
    <3> QED
      BY <3>2
  <2> QED
    BY <2>1
<1>2. ASSUME NEW n \in Nat, n \in T
      PROVE  n + 1 \in T
  <2>1. ASSUME NEW R \in SUBSET (1 .. n + 1)
        PROVE  \E s \in [1 .. Cardinality(R) -> R] : Ascending(s)
    <3> DEFINE Q == R \ {n + 1}
    <3>1. Q \in SUBSET (1 .. n)
      OBVIOUS
    <3>2. PICK s \in [1 .. Cardinality(Q) -> Q] : Ascending(s)
      BY <1>2, <3>1
    <3>3. CASE n + 1 \notin R
      BY <3>2, <3>3
    <3>4. CASE n + 1 \in R
      <4>0. IsFiniteSet(1 .. n + 1)
        BY FS_Interval
      <4>1. IsFiniteSet(R)
        BY <4>0, FS_Subset
      <4>2. IsFiniteSet(Q) /\ Cardinality(Q) = Cardinality(R) - 1
            /\ Cardinality(Q) \in Nat /\ Cardinality(R) \in Nat
        BY <3>4, <4>1, FS_RemoveElement, FS_CardinalityType
      <4>3. Q \subseteq R /\ n + 1 \in R
        BY <3>4
      <4> HIDE DEF Q
      <4>4. Cardinality(R) = Cardinality(Q) + 1
        BY <4>2
      <4>5. \E t \in [1 .. Cardinality(Q) + 1 -> R] : Ascending(t)
        <5>1. Cardinality(Q) \in Nat /\ \E u \in [1 .. Cardinality(Q) -> Q] : Ascending(u)
          BY <3>2, <4>2
        <5>2. Q \in SUBSET (1 .. n)
          BY <3>1
        <5> QED
          BY <4>3, <5>1, <5>2, OneMore
      <4> QED
        BY <4>4, <4>5
    <3> QED
      BY <3>3, <3>4
  <2> QED
    BY <2>1
<1> HIDE DEF T
<1>3. N \in T
  BY <1>1, <1>2, InductiveSet
<1> QED
  BY <1>3 DEF T

LEMMA InOrderFacts ==
  ASSUME slice \in Seq(Item), NEW S \in SUBSET Pos
  PROVE  /\ InOrder(S) \in Seq(Pos) /\ Len(InOrder(S)) <= Len(slice) /\ Ascending(InOrder(S))
         /\ \A n \in DOMAIN InOrder(S) : InOrder(S)[n] \in S
         /\ S = {} => InOrder(S) = <<>>
<1>1. Len(slice) \in Nat /\ Pos = 1 .. Len(slice)
  BY DEF Pos
<1>2. IsFiniteSet(S) /\ Cardinality(S) \in Nat /\ Cardinality(S) <= Len(slice)
  <2>1. IsFiniteSet(Pos) /\ Cardinality(Pos) = Len(slice)
    BY <1>1, FS_Interval
  <2> QED
    BY <1>1, <2>1, FS_Subset, FS_CardinalityType
<1>3. InOrder(S) \in [1 .. Cardinality(S) -> S] /\ Ascending(InOrder(S))
  BY <1>1, OrderExists DEF InOrder
<1>4. InOrder(S) \in Seq(Pos) /\ Len(InOrder(S)) = Cardinality(S)
      /\ DOMAIN InOrder(S) = 1 .. Cardinality(S)
  <2>1. InOrder(S) \in [1 .. Cardinality(S) -> Pos]
    BY <1>3
  <2> QED
    BY <1>2, <2>1
<1>5. S = {} => InOrder(S) = <<>>
  BY <1>4, FS_EmptySet
<1> QED
  BY <1>2, <1>3, <1>4, <1>5

-----------------------------------------------------------------------------
(* The type invariant.                                                       *)

LEMMA TypeFacts ==
  ASSUME Types
  PROVE  /\ slice \in Seq(Item) /\ Len(slice) \in Nat /\ Pos = 1 .. Len(slice)
         /\ data \in Seq(Pos) /\ Len(data) \in Nat /\ DOMAIN data = 1 .. Len(data)
         /\ i \in Nat /\ i >= 1 /\ i <= Len(data) + 1
         /\ \A n \in 1 .. Len(data) : data[n] \in Pos
         /\ \A m, n \in 1 .. Len(data) : data[m] = data[n] => m = n
         /\ \A k \in Pos : slice[k] \in Item /\ slice[k].size \in Nat /\ slice[k].org \in Org \cup {NoOrg}
         /\ batches \in Seq(SUBSET Pos) /\ Count \in Nat /\ Batch = 1 .. Count
         /\ \A b \in Batch : batches[b] \subseteq Pos
         /\ DOMAIN inserters = 1 .. Len(inserters) /\ Len(inserters) \in Nat
         /\ received \in Nat /\ received <= Count
<1>1. /\ slice \in Seq(Item) /\ Len(slice) \in Nat /\ Pos = 1 .. Len(slice)
      /\ data \in Seq(Pos) /\ Len(data) \in Nat /\ DOMAIN data = 1 .. Len(data)
      /\ i \in Nat /\ i >= 1 /\ i <= Len(data) + 1
      /\ batches \in Seq(SUBSET Pos) /\ Count \in Nat /\ Batch = 1 .. Count
      /\ DOMAIN inserters = 1 .. Len(inserters) /\ Len(inserters) \in Nat
      /\ received \in Nat /\ received <= Count
  BY DEF Types, TypeOK, Pos, Batch, Count
<1>2. \A n \in 1 .. Len(data) : data[n] \in Pos
  BY <1>1
<1>3. \A k \in Pos : slice[k] \in Item
  BY <1>1
<1>4. \A b \in Batch : batches[b] \subseteq Pos
  <2>1. \A b \in Batch : batches[b] \in SUBSET Pos
    BY <1>1 DEF Count
  <2> QED
    BY <2>1
<1>5. \A k \in Pos : slice[k].size \in Nat /\ slice[k].org \in Org \cup {NoOrg}
  BY <1>3, ItemAssumption
<1>6. \A m, n \in 1 .. Len(data) : m < n => data[m] < data[n]
  BY <1>1 DEF Types, Ascending
<1>7. \A m, n \in 1 .. Len(data) : data[m] = data[n] => m = n
  <2> TAKE m, n \in 1 .. Len(data)
  <2>1. data[m] \in Nat /\ data[n] \in Nat
    BY <1>1, <1>2
  <2> QED
    BY <1>1, <1>6, <2>1
<1> QED
  BY <1>1, <1>2, <1>3, <1>4, <1>5, <1>7

LEMMA WrittenFacts ==
  ASSUME Types, NEW S \in SUBSET Pos, written' = Written(S)
  PROVE  /\ written' \in [Pos -> Nat]
         /\ \A k \in S : written'[k] = written[k] + 1
         /\ \A k \in Pos \ S : written'[k] = written[k]
BY DEF Types, TypeOK, Written

(* An insert that fails has written a part of the batch.                     *)
LEMMA InsertFacts ==
  ASSUME Types, NEW b \in Batch,
         \/ written' = Written(batches[b])
         \/ \E H \in Heads(batches[b]) : written' = Written(H)
  PROVE  /\ written' \in [Pos -> Nat]
         /\ \A k \in Pos : written[k] \in Nat
         /\ \A k \in Pos \ batches[b] : written'[k] = written[k]
         /\ \A k \in batches[b] : written'[k] = written[k] \/ written'[k] = written[k] + 1
<1>0. \A k \in Pos : written[k] \in Nat
  BY DEF Types, TypeOK
<1>1. PICK S \in SUBSET batches[b] : written' = Written(S)
  BY DEF Heads
<1>2. S \in SUBSET Pos /\ batches[b] \subseteq Pos
  BY TypeFacts
<1> QED
  BY <1>0, <1>1, <1>2, WrittenFacts

LEMMA SelectedFacts ==
  ASSUME pump \in Pumps, pump # "selective"
  PROVE  Selected \in SUBSET Pos
BY DEF Selected, Pumps

LEMMA PosStays ==
  ASSUME input' = input
  PROVE  /\ pump' = pump /\ slice' = slice /\ Pos' = Pos
         /\ \A k : Kept(k)' = Kept(k) /\ TooLarge(k)' = TooLarge(k)
<1>1. pump' = pump /\ slice' = slice
  BY DEF input
<1>2. Pos' = Pos
  BY <1>1 DEF Pos
<1>3. ASSUME NEW k
      PROVE  Kept(k)' = Kept(k) /\ TooLarge(k)' = TooLarge(k)
  BY <1>1 DEF Kept, Skips, TooLarge, Is
<1> QED
  BY <1>1, <1>2, <1>3

LEMMA GoroutinesOfBatches ==
  ASSUME Types, Inserted, Collected, NEW b \in DOMAIN inserters
  PROVE  /\ b \in Batch /\ pump # "selective" /\ pc \in {"gather", "returned"}
         /\ Len(inserters) = Count
<1>1. inserters # <<>>
  BY TypeFacts
<1>2. pump # "selective" /\ pc \in {"gather", "returned"} /\ Len(inserters) = Count
  BY <1>1 DEF Inserted, Collected
<1> QED
  BY <1>2, TypeFacts

(* An iteration of AccumulateSet, the batches it closes and its record.      *)
Closed == IF ~Fits(data[i]) /\ current # {} THEN Append(batches, current) ELSE batches
NewSet == IF Fits(data[i]) THEN current \cup {data[i]} ELSE {data[i]}

LEMMA AccumulateFacts ==
  ASSUME Types, accumulate
  PROVE  /\ i \in 1 .. Len(data) /\ data[i] \in Pos /\ slice[data[i]].size \in Nat /\ i' = i + 1
         /\ total \in Nat /\ current \in SUBSET Pos /\ Kept(data[i])
         /\ i' \in 1 .. Len(data) + 1 /\ total' \in Nat
         /\ total' = IF Fits(data[i]) THEN total + slice[data[i]].size ELSE slice[data[i]].size
         /\ current' = NewSet /\ NewSet \in SUBSET Pos
         /\ batches' = IF i = Len(data) THEN Append(Closed, NewSet) ELSE Closed
         /\ Closed \in Seq(SUBSET Pos) /\ batches' \in Seq(SUBSET Pos)
         /\ Len(Closed) = IF ~Fits(data[i]) /\ current # {} THEN Count + 1 ELSE Count
         /\ Len(batches') = IF i = Len(data) THEN Len(Closed) + 1 ELSE Len(Closed)
<1>1. /\ i \in 1 .. Len(data) /\ data[i] \in Pos /\ slice[data[i]].size \in Nat /\ i' = i + 1
      /\ total \in Nat /\ current \in SUBSET Pos /\ Kept(data[i])
  <2>1. i <= Len(data) /\ ~Skips(data[i]) /\ (pump = "selective" => ~TooLarge(data[i])) /\ i' = i + 1
    BY DEF accumulate
  <2>2. i \in 1 .. Len(data)
    BY <2>1, TypeFacts
  <2>3. total \in Nat /\ current \in SUBSET Pos
    BY DEF Types, TypeOK
  <2> QED
    BY <2>1, <2>2, <2>3, TypeFacts DEF Kept
<1>2. /\ total' = IF Fits(data[i]) THEN total + slice[data[i]].size ELSE slice[data[i]].size
      /\ current' = NewSet
      /\ batches' = IF i = Len(data) THEN Append(Closed, NewSet) ELSE Closed
  BY DEF accumulate, NewSet, Closed, IsLastItem
<1>3. NewSet \in SUBSET Pos
  BY <1>1 DEF NewSet
<1>4. Closed \in Seq(SUBSET Pos)
      /\ Len(Closed) = IF ~Fits(data[i]) /\ current # {} THEN Count + 1 ELSE Count
  BY <1>1, TypeFacts, AppendFacts DEF Closed, Count
<1>5. /\ batches' \in Seq(SUBSET Pos)
      /\ Len(batches') = IF i = Len(data) THEN Len(Closed) + 1 ELSE Len(Closed)
  BY <1>2, <1>3, <1>4, AppendFacts
<1>6. i' \in 1 .. Len(data) + 1 /\ total' \in Nat
  BY <1>1, <1>2
<1> QED
  BY <1>1, <1>2, <1>3, <1>4, <1>5, <1>6

LEMMA InputStays ==
  ASSUME Next
  PROVE  input' = input
BY DEF Next, WriteDataStep, InserterStep, SelectRecords, GroupByOrg, NextCollection, SkipItem,
       accumulate, StartInserts, Receive, AllReceived, InsertNext, CollectionDone,
       InsertBatch, SendErr, SendNil

LEMMA KeptStays ==
  ASSUME input' = input, data' = data
  PROVE  /\ \A n : Kept(data[n])' = Kept(data[n])
         /\ Kept(data[Len(data)])' = Kept(data[Len(data)])
BY PosStays DEF Kept, Skips, TooLarge, Is

LEMMA TypesStep ==
  ASSUME Types, Stage, Packed, Inserted, Collected, Next
  PROVE  Types'
<1> DEFINE States == {"insert", "sendErr", "sendNil", "done"}
<1>1. pump' = pump /\ slice' = slice /\ Pos' = Pos /\ Len(slice') = Len(slice)
  BY InputStays, PosStays
<1> USE TypeFacts
<1>2. CASE SelectRecords
  <2>1. Selected \in SUBSET Pos
    BY <1>2, SelectedFacts DEF SelectRecords, Types, TypeOK
  <2>2. data' \in Seq(Pos) /\ Len(data') <= Len(slice) /\ Ascending(data')
    BY <1>2, <2>1, InOrderFacts DEF SelectRecords
  <2>3. i = 1 /\ i \in 1 .. Len(data') + 1
    BY <1>2, <2>2 DEF SelectRecords, Stage
  <2>4. pc' \in {"returned", "accumulate"} /\ result' \in {"none", "nil", "err"}
    BY <1>2 DEF SelectRecords, Return, Types, TypeOK
  <2> QED
    BY <1>1, <1>2, <2>2, <2>3, <2>4 DEF SelectRecords, Types, TypeOK
<1>3. CASE GroupByOrg
  <2>1. orgs' \subseteq Org
    BY <1>3 DEF GroupByOrg, OrgsOfRecords
  <2>2. pc' \in {"returned", "collection", "panic"} /\ result' \in {"none", "nil", "err"}
    BY <1>3 DEF GroupByOrg, Return, Types, TypeOK
  <2> QED
    BY <1>1, <1>3, <2>1, <2>2 DEF GroupByOrg, acc, Types, TypeOK
<1>4. ASSUME NEW o \in orgs, NextCollection(o)
      PROVE  Types'
  <2> DEFINE S == {k \in Pos : ~Is(k, "mcp") /\ slice[k].org = o}
  <2>1. data' \in Seq(Pos) /\ Len(data') <= Len(slice) /\ Ascending(data')
    BY <1>4, InOrderFacts DEF NextCollection
  <2>2. batches' \in Seq(SUBSET Pos) /\ Len(batches') = 0 /\ i' = 1 /\ 1 \in 1 .. Len(data') + 1
        /\ Len(data') \in Nat
    BY <1>4, <2>1 DEF NextCollection
  <2>3. received' \in 0 .. Len(batches') /\ total' \in Nat /\ current' \subseteq Pos'
    BY <1>4, <2>2 DEF NextCollection
  <2>4. errCh' \in Seq({"err", "nil"}) /\ Len(errCh') <= Len(batches')
    <3>1. pump = "selective" /\ errCh = <<>>
      BY <1>4 DEF NextCollection, Inserted, Collected
    <3> QED
      BY <1>4, <2>2, <3>1 DEF NextCollection, Types, TypeOK
  <2> QED
    BY <1>1, <1>4, <2>1, <2>2, <2>3, <2>4 DEF NextCollection, Types, TypeOK
<1>5. CASE SkipItem
  <2>1. i' \in 1 .. Len(data) + 1
    BY <1>5 DEF SkipItem
  <2> QED
    BY <1>1, <1>5, <2>1 DEF SkipItem, Types, TypeOK
<1>6. CASE accumulate
  <2>1. i' \in 1 .. Len(data) + 1 /\ total' \in Nat /\ current' \in SUBSET Pos
    BY <1>6, AccumulateFacts
  <2>2. cut' \in SUBSET Pos
    BY <1>6, AccumulateFacts DEF accumulate, Types, TypeOK
  <2>3. batches' \in Seq(SUBSET Pos) /\ Len(batches') >= Len(batches) /\ Len(batches') \in Nat
    <3>1. batches' \in Seq(SUBSET Pos) /\ Len(batches') \in {Len(Closed), Len(Closed) + 1}
          /\ Len(Closed) \in {Count, Count + 1}
      BY <1>6, AccumulateFacts
    <3> QED
      BY <3>1, TypeFacts DEF Count
  <2>4. UNCHANGED <<orgs, pc, data, inserters, errCh, received, result, written, broken>>
    BY <1>6 DEF accumulate
  <2>5. received' \in 0 .. Len(batches') /\ Len(errCh') <= Len(batches')
    <3>1. received \in 0 .. Len(batches) /\ Len(errCh) <= Len(batches) /\ Len(errCh) \in Nat
          /\ Len(batches) \in Nat
      BY DEF Types, TypeOK
    <3> QED
      BY <2>3, <2>4, <3>1
  <2>6. Len(data') <= Len(slice') /\ Ascending(data')
    BY <1>1, <2>4 DEF Types
  <2> QED
    BY <1>1, <2>1, <2>2, <2>3, <2>4, <2>5, <2>6 DEF Types, TypeOK
<1>7. CASE StartInserts
  <2>1. batches' \in Seq(SUBSET Pos) /\ Len(batches') >= Count /\ Len(batches') \in Nat
    BY <1>7, AppendFacts DEF StartInserts, Types, TypeOK, Count
  <2>2. inserters' \in Seq(States)
    <3>1. [b \in 1 .. Len(batches') |-> "insert"] \in Seq(States)
      BY <2>1
    <3> QED
      BY <1>7, <3>1 DEF StartInserts, Types, TypeOK
  <2>3. pc' \in {"returned", "gather"} /\ result' \in {"none", "nil", "err"}
    BY <1>7 DEF StartInserts, Return, Types, TypeOK
  <2> QED
    BY <1>1, <1>7, <2>1, <2>2, <2>3 DEF StartInserts, Types, TypeOK, Count
<1>8. CASE Receive
  <2>1. errCh \in Seq({"err", "nil"}) /\ Len(errCh) <= Len(batches) /\ Len(batches) \in Nat
    BY DEF Types, TypeOK
  <2>2. errCh' \in Seq({"err", "nil"}) /\ Len(errCh') <= Len(batches)
    BY <1>8, <2>1, TailFacts DEF Receive
  <2>3. /\ pc' \in {"returned", "gather"} /\ result' \in {"none", "nil", "err"}
        /\ received' \in 0 .. Len(batches)
    BY <1>8, <2>1 DEF Receive, Return, Types, TypeOK
  <2> QED
    BY <1>1, <1>8, <2>2, <2>3 DEF Receive, acc, Types, TypeOK
<1>9. CASE AllReceived
  BY <1>1, <1>9 DEF AllReceived, Return, acc, Types, TypeOK
<1>10. CASE InsertNext
  <2>1. received + 1 \in Batch /\ received + 1 \in 0 .. Len(batches) /\ received + 1 <= i - 1
    BY <1>10 DEF InsertNext, Packed, Count
  <2>2. written' \in [Pos -> Nat]
    BY <1>10, <2>1, InsertFacts DEF InsertNext
  <2>3. received + 1 \in 1 .. MaxItems
    BY <2>1, ItemAssumption DEF Types
  <2>4. broken' \subseteq 1 .. MaxItems
    BY <1>10, <2>3 DEF InsertNext, Types, TypeOK
  <2> QED
    BY <1>1, <1>10, <2>1, <2>2, <2>4 DEF InsertNext, acc, Types, TypeOK
<1>11. CASE CollectionDone
  BY <1>1, <1>11 DEF CollectionDone, Return, acc, Types, TypeOK
<1>12. ASSUME NEW b \in 1 .. MaxItems, InsertBatch(b)
       PROVE  Types'
  <2>0. b \in Batch
    BY <1>12, GoroutinesOfBatches DEF InsertBatch
  <2>1. written' \in [Pos -> Nat]
    BY <1>12, <2>0, InsertFacts DEF InsertBatch
  <2>2. inserters' \in Seq(States)
    <3>1. PICK e \in States : inserters' = [inserters EXCEPT ![b] = e]
      BY <1>12 DEF InsertBatch
    <3>2. inserters \in Seq(States) /\ b \in DOMAIN inserters
      BY <1>12 DEF InsertBatch, Types, TypeOK
    <3> QED
      BY <3>1, <3>2, ExceptFacts
  <2>3. broken' \subseteq 1 .. MaxItems
    BY <1>12 DEF InsertBatch, Types, TypeOK
  <2> QED
    BY <1>1, <1>12, <2>1, <2>2, <2>3 DEF InsertBatch, acc, Types, TypeOK
<1>13. ASSUME NEW b \in 1 .. MaxItems, SendErr(b) \/ SendNil(b)
       PROVE  Types'
  <2>1. inserters' \in Seq(States)
    <3>1. PICK e \in States : inserters' = [inserters EXCEPT ![b] = e]
      BY <1>13 DEF SendErr, SendNil
    <3>2. inserters \in Seq(States) /\ b \in DOMAIN inserters
      BY <1>13 DEF SendErr, SendNil, Types, TypeOK
    <3> QED
      BY <3>1, <3>2, ExceptFacts
  <2>2. errCh' \in Seq({"err", "nil"}) /\ Len(errCh') <= Len(batches)
    <3>1. errCh \in Seq({"err", "nil"}) /\ Len(errCh) < Len(batches) /\ Len(batches) \in Nat
          /\ Len(errCh) \in Nat
      BY <1>13 DEF SendErr, SendNil, ErrChCapacity, Types, TypeOK
    <3>2. PICK m \in {"err", "nil"} : errCh' = Append(errCh, m)
      BY <1>13 DEF SendErr, SendNil
    <3>3. errCh' \in Seq({"err", "nil"}) /\ Len(errCh') = Len(errCh) + 1
      BY <3>1, <3>2, AppendFacts
    <3> QED
      BY <3>1, <3>3
  <2> QED
    BY <1>1, <1>13, <2>1, <2>2 DEF SendErr, SendNil, acc, Types, TypeOK
<1> QED
  BY <1>2, <1>3, <1>4, <1>5, <1>6, <1>7, <1>8, <1>9, <1>10, <1>11, <1>12, <1>13
  DEF Next, WriteDataStep, InserterStep

LEMMA StageStep ==
  ASSUME Types, Stage, Next
  PROVE  Stage'
<1>1. CASE SelectRecords
  <2>1. pump \in Pumps /\ Selected \in SUBSET Pos /\ pc' \in {"returned", "accumulate"} /\ i' = i
        /\ data' = InOrder(Selected) /\ (pc' = "returned" => Selected = {})
    BY <1>1, SelectedFacts DEF SelectRecords, Return, Types, TypeOK
  <2>2. pc' = "returned" => data' = <<>>
    BY <2>1, InOrderFacts, TypeFacts
  <2>3. i = 1
    BY <1>1 DEF SelectRecords, Stage
  <2> QED
    BY <2>1, <2>2, <2>3 DEF Stage
<1>2. CASE GroupByOrg
  BY <1>2 DEF GroupByOrg, Return, acc, Stage
<1>3. CASE \E o \in orgs : NextCollection(o)
  BY <1>3 DEF NextCollection, Stage
<1>4. CASE SkipItem \/ accumulate
  BY <1>4 DEF SkipItem, accumulate, Stage
<1>5. CASE StartInserts
  <2>1. pc' \in {"returned", "gather"} /\ i' = i /\ data' = data /\ i > Len(data)
    BY <1>5 DEF StartInserts, Return
  <2> QED
    BY <2>1 DEF Stage
<1>6. CASE Receive \/ AllReceived \/ InsertNext \/ CollectionDone
           \/ \E b \in 1 .. MaxItems : InserterStep(b)
  <2>1. /\ i' = i /\ data' = data
        /\ pc # "select" => pc' # "select"
        /\ pc' \in {"gather", "returned"} => pc \in {"gather", "returned"}
    BY <1>6 DEF Receive, AllReceived, InsertNext, CollectionDone, Return, acc,
                InserterStep, InsertBatch, SendErr, SendNil
  <2>2. pc = "select" => pc' = "select"
    BY <1>6 DEF Receive, AllReceived, InsertNext, CollectionDone,
                InserterStep, InsertBatch, SendErr, SendNil
  <2> QED
    BY <2>1, <2>2 DEF Stage
<1> QED
  BY <1>1, <1>2, <1>3, <1>4, <1>5, <1>6 DEF Next, WriteDataStep

-----------------------------------------------------------------------------
(* AccumulateSet.                                                            *)

LEMMA PackedFresh ==
  ASSUME i' = 1, batches' = <<>>, current' = {}, data' \in Seq(Pos)
  PROVE  Packed'
<1>1. Count' = 0 /\ Batch' = {}
  BY DEF Count, Batch
<1> QED
  BY <1>1 DEF Packed

(* The record that comes next is not in any batch yet.                       *)
LEMMA NextIsNew ==
  ASSUME Types, Packed, i \in 1 .. Len(data)
  PROVE  data[i] \notin current /\ \A b \in Batch : data[i] \notin batches[b]
<1>1. \A n \in 1 .. i - 1 : n \in 1 .. Len(data) /\ n # i
  BY TypeFacts
<1>2. \A n \in 1 .. i - 1 : data[n] # data[i]
  BY <1>1, TypeFacts
<1> QED
  BY <1>2 DEF Packed

LEMMA ClosedFacts ==
  ASSUME Types, Packed, accumulate
  PROVE  /\ \A b \in 1 .. Len(Closed) : b <= Count => b \in Batch /\ Closed[b] = batches[b]
         /\ \A b \in 1 .. Len(Closed) : b > Count => b = Count + 1 /\ Closed[b] = current
         /\ \A b \in 1 .. Len(Closed) : batches'[b] = Closed[b]
         /\ i = Len(data) => batches'[Len(Closed) + 1] = NewSet
         /\ Len(Closed) \in Nat /\ Count \in Nat
<1>1. /\ Len(Closed) = IF ~Fits(data[i]) /\ current # {} THEN Count + 1 ELSE Count
      /\ Closed \in Seq(SUBSET Pos) /\ NewSet \in SUBSET Pos /\ current \in SUBSET Pos
      /\ batches' = IF i = Len(data) THEN Append(Closed, NewSet) ELSE Closed
  BY AccumulateFacts
<1>2. batches \in Seq(SUBSET Pos) /\ Count = Len(batches) /\ Count \in Nat /\ Batch = 1 .. Count
  BY TypeFacts DEF Count
<1>3. /\ \A b \in 1 .. Len(Closed) : b <= Count => b \in Batch /\ Closed[b] = batches[b]
      /\ \A b \in 1 .. Len(Closed) : b > Count => b = Count + 1 /\ Closed[b] = current
  <2>1. CASE ~Fits(data[i]) /\ current # {}
    <3>1. Closed = Append(batches, current) /\ Len(Closed) = Count + 1
      BY <1>1, <2>1 DEF Closed
    <3>2. /\ \A b \in 1 .. Count : Closed[b] = batches[b]
          /\ Closed[Count + 1] = current
      BY <1>1, <1>2, <3>1, AppendFacts
    <3> QED
      BY <1>2, <3>1, <3>2
  <2>2. CASE ~(~Fits(data[i]) /\ current # {})
    <3>1. Closed = batches /\ Len(Closed) = Count
      BY <1>1, <2>2 DEF Closed
    <3> QED
      BY <1>2, <3>1
  <2> QED
    BY <2>1, <2>2
<1>4. /\ \A b \in 1 .. Len(Closed) : batches'[b] = Closed[b]
      /\ i = Len(data) => batches'[Len(Closed) + 1] = NewSet
  BY <1>1, AppendFacts
<1> QED
  BY <1>1, <1>2, <1>3, <1>4

LEMMA AccumulatePacks ==
  ASSUME Types, Packed, accumulate
  PROVE  Packed'
<1> DEFINE C == Len(Closed)
           k == data[i]
           N == Len(data)
<1>0. /\ i \in 1 .. N /\ i' = i + 1 /\ N \in Nat /\ Kept(k) /\ k \in Pos /\ data' = data
      /\ current' = NewSet /\ Count \in Nat /\ C \in Nat
      /\ C = IF ~Fits(k) /\ current # {} THEN Count + 1 ELSE Count
      /\ Len(batches') = IF i = N THEN C + 1 ELSE C
      /\ \A n : Kept(data[n])' = Kept(data[n])
  BY AccumulateFacts, TypeFacts, ClosedFacts, KeptStays DEF accumulate
<1>1. k \notin current /\ \A b \in Batch : k \notin batches[b]
  BY <1>0, NextIsNew
<1>2. /\ \A b, d \in Batch : b # d => batches[b] \cap batches[d] = {}
      /\ \A b \in Batch : batches[b] \cap current = {}
      /\ current # {} => Count + 1 <= i - 1
      /\ Count <= i - 1
  BY <1>0 DEF Packed
<1>3. NewSet = IF Fits(k) THEN current \cup {k} ELSE {k}
  BY DEF NewSet
<1>4. /\ \A b \in 1 .. C : b <= Count => b \in Batch /\ Closed[b] = batches[b]
      /\ \A b \in 1 .. C : b > Count => b = Count + 1 /\ Closed[b] = current
      /\ \A b \in 1 .. C : batches'[b] = Closed[b]
      /\ i = N => batches'[C + 1] = NewSet
  BY ClosedFacts
<1>5. Batch' = 1 .. Len(batches') /\ Count' = Len(batches')
  BY DEF Batch, Count
<1> HIDE DEF C, k, N
<1>6. /\ \A b, d \in 1 .. C : b # d => Closed[b] \cap Closed[d] = {}
      /\ \A b \in 1 .. C : Closed[b] \cap NewSet = {}
  <2>1. ASSUME NEW b \in 1 .. C, NEW d \in 1 .. C, b # d
        PROVE  Closed[b] \cap Closed[d] = {}
    <3>1. CASE b <= Count /\ d <= Count
      BY <1>2, <1>4, <2>1, <3>1
    <3>2. CASE b <= Count /\ ~(d <= Count)
      BY <1>0, <1>2, <1>4, <2>1, <3>2
    <3>3. CASE ~(b <= Count) /\ d <= Count
      BY <1>0, <1>2, <1>4, <2>1, <3>3
    <3>4. CASE ~(b <= Count) /\ ~(d <= Count)
      BY <1>0, <1>4, <2>1, <3>4
    <3> QED
      BY <3>1, <3>2, <3>3, <3>4
  <2>2. ASSUME NEW b \in 1 .. C
        PROVE  Closed[b] \cap NewSet = {}
    <3>1. CASE b <= Count
      BY <1>1, <1>2, <1>3, <1>4, <3>1
    <3>2. CASE ~(b <= Count)
      <4>1. Closed[b] = current /\ ~Fits(k)
        BY <1>0, <1>4, <3>2
      <4> QED
        BY <1>1, <1>3, <4>1
    <3> QED
      BY <3>1, <3>2
  <2> QED
    BY <2>1, <2>2
<1>7. \A b \in Batch' : b \in 1 .. C \/ (b = C + 1 /\ i = N)
  BY <1>0, <1>5
<1>8. \A b, d \in Batch' : b # d => batches'[b] \cap batches'[d] = {}
  <2> TAKE b, d \in Batch'
  <2> HAVE b # d
  <2>1. CASE b \in 1 .. C /\ d \in 1 .. C
    BY <1>4, <1>6, <2>1
  <2>2. CASE b \in 1 .. C /\ d = C + 1 /\ i = N
    BY <1>4, <1>6, <2>2
  <2>3. CASE d \in 1 .. C /\ b = C + 1 /\ i = N
    BY <1>4, <1>6, <2>3
  <2> QED
    BY <1>7, <2>1, <2>2, <2>3
<1>9. \A m \in current \cup {k} : \E n \in 1 .. i' - 1 : data'[n] = m
  <2>1. \A m \in current : \E n \in 1 .. i - 1 : data[n] = m
    BY DEF Packed
  <2>2. i \in 1 .. i' - 1 /\ data'[i] = k /\ \A n \in 1 .. i - 1 : n \in 1 .. i' - 1
    BY <1>0 DEF k
  <2> QED
    BY <1>0, <2>1, <2>2
<1>10. NewSet \subseteq current \cup {k}
  BY <1>3
<1>11. \A b \in 1 .. C : \A m \in Closed[b] : \E n \in 1 .. i' - 1 : data'[n] = m
  <2> TAKE b \in 1 .. C
  <2>1. CASE b <= Count
    <3>1. \A m \in batches[b] : \E n \in 1 .. i - 1 : data[n] = m
      BY <1>4, <2>1 DEF Packed
    <3>2. \A n \in 1 .. i - 1 : n \in 1 .. i' - 1
      BY <1>0
    <3> QED
      BY <1>0, <1>4, <2>1, <3>1, <3>2
  <2>2. CASE ~(b <= Count)
    BY <1>0, <1>4, <1>9, <2>2
  <2> QED
    BY <2>1, <2>2
<1>12. \A b \in Batch' : \A m \in batches'[b] : \E n \in 1 .. i' - 1 : data'[n] = m
  BY <1>4, <1>7, <1>9, <1>10, <1>11
<1>13. ASSUME NEW n \in 1 .. i' - 1, Kept(data[n])
       PROVE  data[n] \in NewSet \/ \E b \in 1 .. C : data[n] \in Closed[b]
  <2>1. CASE n = i
    BY <1>3, <2>1 DEF k
  <2>2. CASE n # i
    <3>1. data[n] \in current \/ \E b \in Batch : data[n] \in batches[b]
      BY <1>0, <1>13, <2>2 DEF Packed
    <3>2. ASSUME NEW b \in Batch, data[n] \in batches[b]
          PROVE  b \in 1 .. C /\ data[n] \in Closed[b]
      <4>1. b \in 1 .. C /\ b <= Count
        BY <1>0 DEF Batch, Count
      <4> QED
        BY <1>4, <3>2, <4>1
    <3>3. CASE data[n] \in current /\ Fits(k)
      BY <1>3, <3>3
    <3>4. CASE data[n] \in current /\ ~Fits(k)
      <4>1. C = Count + 1
        BY <1>0, <3>4
      <4>2. C \in 1 .. C /\ C > Count
        BY <1>0, <4>1
      <4> QED
        BY <1>4, <3>4, <4>2
    <3> QED
      BY <3>1, <3>2, <3>3, <3>4
  <2> QED
    BY <2>1, <2>2
<1>14. \A b \in 1 .. C : b \in Batch'
  BY <1>0, <1>5
<1>15. \A n \in 1 .. i' - 1 :
         Kept(data[n])' => data'[n] \in current' \/ \E b \in Batch' : data'[n] \in batches'[b]
  BY <1>0, <1>4, <1>13, <1>14
<1>16. Count' <= i' - 1
  BY <1>0, <1>2, <1>5
<1>17. i' <= N => /\ \A b \in Batch' : batches'[b] \cap current' = {}
                  /\ current' # {} => Count' + 1 <= i' - 1
  <2> HAVE i' <= N
  <2>1. i # N
    BY <1>0
  <2>2. \A b \in Batch' : batches'[b] \cap current' = {}
    BY <1>0, <1>4, <1>6, <1>7, <2>1
  <2>3. Count' + 1 <= i' - 1
    BY <1>0, <1>2, <1>5, <2>1
  <2> QED
    BY <2>2, <2>3
<1>18. i' > N => Count' > 0 /\ batches'[Count'] = current'
  <2> HAVE i' > N
  <2>1. i = N /\ Count' = C + 1
    BY <1>0, <1>5
  <2> QED
    BY <1>0, <1>4, <2>1
<1> QED
  BY <1>0, <1>8, <1>9, <1>10, <1>12, <1>15, <1>16, <1>17, <1>18 DEF Packed, N

LEMMA PackedStep ==
  ASSUME Types, Stage, Packed, Next
  PROVE  Packed'
<1>1. CASE SelectRecords
  <2>1. /\ i' = i /\ batches' = batches /\ current' = current /\ i = 1
    BY <1>1 DEF SelectRecords, Stage
  <2>2. batches = <<>> /\ current = {}
    BY <2>1, TypeFacts DEF Packed, Count
  <2>3. data' \in Seq(Pos)
    BY <1>1, SelectedFacts, InOrderFacts, TypeFacts DEF SelectRecords, Types, TypeOK
  <2> QED
    BY <2>1, <2>2, <2>3, PackedFresh
<1>2. ASSUME NEW o \in orgs, NextCollection(o)
      PROVE  Packed'
  <2>1. data' \in Seq(Pos)
    BY <1>2, InOrderFacts, TypeFacts DEF NextCollection
  <2> QED
    BY <1>2, <2>1, PackedFresh DEF NextCollection
<1>3. CASE SkipItem
  <2>1. /\ i \in 1 .. Len(data) /\ i' = i + 1 /\ ~Kept(data[i]) /\ Len(data) \in Nat
        /\ data' = data /\ batches' = batches /\ current' = current /\ input' = input
    BY <1>3, TypeFacts DEF SkipItem, Kept
  <2>2. Count' = Count /\ Batch' = Batch /\ Count \in Nat
    BY <2>1, TypeFacts DEF Count, Batch
  <2>3. /\ \A n \in 1 .. i - 1 : n \in 1 .. i' - 1
        /\ \A n \in 1 .. i' - 1 : n = i \/ n \in 1 .. i - 1
        /\ i - 1 <= i' - 1
    BY <2>1
  <2>4. /\ \A b \in Batch : \A k \in batches[b] : \E n \in 1 .. i' - 1 : data[n] = k
        /\ \A k \in current : \E n \in 1 .. i' - 1 : data[n] = k
    BY <2>3 DEF Packed
  <2>5. \A n \in 1 .. i' - 1 :
          Kept(data[n]) => data[n] \in current \/ \E b \in Batch : data[n] \in batches[b]
    BY <2>1, <2>3 DEF Packed
  <2>6. Count <= i' - 1 /\ (i' <= Len(data) /\ current # {} => Count + 1 <= i' - 1)
    BY <2>1, <2>2 DEF Packed
  <2>7. i' > Len(data) => i = Len(data)
    BY <2>1
  <2> QED
    BY <2>1, <2>2, <2>4, <2>5, <2>6, <2>7, KeptStays DEF Packed
<1>4. CASE accumulate
  BY <1>4, AccumulatePacks
<1>5. CASE StartInserts /\ Remainder
  <2>1. /\ batches = <<>> /\ Count = 0 /\ Batch = {} /\ current # {} /\ current \in SUBSET Pos
        /\ data' = data /\ i' = i /\ current' = current /\ input' = input /\ i > Len(data)
        /\ batches' = <<current>>
    BY <1>5 DEF StartInserts, Remainder, Count, Batch, Types, TypeOK
  <2>2. Count' = 1 /\ Batch' = {1} /\ batches'[1] = current
    BY <2>1 DEF Count, Batch
  <2>3. \E n \in 1 .. i - 1 : TRUE
    BY <2>1 DEF Packed
  <2>4. 1 <= i - 1
    BY <2>3, TypeFacts
  <2>5. ~(i <= Len(data))
    BY <2>1, TypeFacts
  <2>6. \A n \in 1 .. i - 1 : Kept(data[n]) => data[n] \in current
    BY <2>1 DEF Packed
  <2> QED
    BY <2>1, <2>2, <2>4, <2>5, <2>6, KeptStays DEF Packed
<1>6. CASE UNCHANGED <<input, data, i, batches, current>>
  BY <1>6, KeptStays DEF Packed, Batch, Count
<1>7. \/ GroupByOrg \/ (StartInserts /\ ~Remainder) \/ Receive \/ AllReceived \/ InsertNext \/ CollectionDone
      \/ \E b \in 1 .. MaxItems : InserterStep(b)
      => UNCHANGED <<input, data, i, batches, current>>
  BY DEF GroupByOrg, StartInserts, Receive, AllReceived, InsertNext, CollectionDone, acc,
         InserterStep, InsertBatch, SendErr, SendNil
<1> QED
  BY <1>1, <1>2, <1>3, <1>4, <1>5, <1>6, <1>7 DEF Next, WriteDataStep

(* A batch that is added respects the limit, as thisResultSet does.          *)
Fine(S) == SizeOf(S) <= MaxInsertBatchSizeBytes \/ Cardinality(S) = 1

LEMMA SizedStep ==
  ASSUME Types, Stage, Packed, Sized, Next
  PROVE  Sized'
<1>0. /\ slice' = slice
      /\ \A S : SizeOf(S)' = SizeOf(S)
  BY InputStays, PosStays, SizeStays
<1>1. /\ \A b \in Batch : Fine(batches[b])
      /\ Fine(current) /\ total = SizeOf(current)
  BY DEF Sized, BatchFits, Fine
<1>2. ASSUME total' = SizeOf(current'), Fine(current'), \A b \in Batch' : Fine(batches'[b])
      PROVE  Sized'
  <2>1. \A b \in Batch' : SizeOf(batches[b])' = SizeOf(batches'[b])
    BY <1>0 DEF SizeOf
  <2>2. SizeOf(current)' = SizeOf(current')
    BY <1>0 DEF SizeOf
  <2> QED
    BY <1>2, <2>1, <2>2 DEF Sized, BatchFits, Fine
<1>3. SizeOf({}) = 0 /\ Fine({}) /\ \A S \in SUBSET Pos : SizeOf(S) \in Nat
  BY TypeFacts, SizeFacts, ItemAssumption DEF Fine
<1>4. CASE batches' = <<>> /\ current' = {} /\ total' = 0
  <2>1. Batch' = {}
    BY <1>4 DEF Batch
  <2> QED
    BY <1>2, <1>3, <1>4, <2>1
<1>5. CASE accumulate
  <2> DEFINE k == data[i]
  <2>1. /\ k \in Pos /\ slice[k].size \in Nat /\ total \in Nat /\ current \in SUBSET Pos
        /\ total' = IF Fits(k) THEN total + slice[k].size ELSE slice[k].size
        /\ current' = NewSet /\ i \in 1 .. Len(data)
    BY <1>5, AccumulateFacts
  <2>2. k \notin current
    BY <2>1, NextIsNew
  <2>3. SizeOf({k}) = slice[k].size
    <3>1. SizeOf({} \cup {k}) = SizeOf({}) + slice[k].size
      BY <2>1, SizeFacts, TypeFacts
    <3>2. {} \cup {k} = {k}
      OBVIOUS
    <3> QED
      BY <1>3, <2>1, <3>1, <3>2
  <2>4. SizeOf(current \cup {k}) = SizeOf(current) + slice[k].size
    BY <2>1, <2>2, SizeFacts, TypeFacts
  <2>5. Fine({k})
    BY FS_Singleton DEF Fine
  <2>6. total' = SizeOf(current') /\ Fine(current')
    <3>1. CASE Fits(k)
      <4>1. current' = current \cup {k} /\ total' = total + slice[k].size
        BY <2>1, <3>1 DEF NewSet
      <4>2. total + slice[k].size <= MaxInsertBatchSizeBytes
        BY <2>1, <3>1, ItemAssumption DEF Fits
      <4> QED
        BY <1>1, <2>4, <4>1, <4>2 DEF Fine
    <3>2. CASE ~Fits(k)
      <4>1. current' = {k} /\ total' = slice[k].size
        BY <2>1, <3>2 DEF NewSet
      <4> QED
        BY <2>3, <2>5, <4>1
    <3> QED
      BY <3>1, <3>2
  <2>7. \A b \in Batch' : Fine(batches'[b])
    <3>1. \A b \in 1 .. Len(Closed) : Fine(Closed[b])
      BY <1>1, <1>5, ClosedFacts
    <3>2. \A b \in Batch' : b \in 1 .. Len(Closed) \/ (b = Len(Closed) + 1 /\ i = Len(data))
      <4>1. Len(Closed) \in Nat /\ Len(batches') = IF i = Len(data) THEN Len(Closed) + 1 ELSE Len(Closed)
        BY <1>5, AccumulateFacts, ClosedFacts
      <4> QED
        BY <4>1 DEF Batch
    <3> QED
      BY <1>5, <2>1, <2>6, <3>1, <3>2, ClosedFacts
  <2> QED
    BY <1>2, <2>6, <2>7
<1>6. CASE StartInserts /\ Remainder
  <2>1. batches' = <<current>> /\ total' = total /\ current' = current
    BY <1>6 DEF StartInserts, Remainder
  <2>2. Batch' = {1} /\ batches'[1] = current
    BY <2>1 DEF Batch
  <2> QED
    BY <1>1, <1>2, <2>1, <2>2
<1>7. CASE UNCHANGED <<total, current, batches>>
  <2>1. Batch' = Batch
    BY <1>7 DEF Batch
  <2> QED
    BY <1>1, <1>2, <1>7, <2>1
<1>8. CASE \E o \in orgs : NextCollection(o)
  BY <1>4, <1>8 DEF NextCollection
<1>9. \/ SelectRecords \/ GroupByOrg \/ SkipItem \/ (StartInserts /\ ~Remainder)
      \/ Receive \/ AllReceived \/ InsertNext \/ CollectionDone
      \/ \E b \in 1 .. MaxItems : InserterStep(b)
      => UNCHANGED <<total, current, batches>>
  BY DEF SelectRecords, GroupByOrg, SkipItem, StartInserts, Receive, AllReceived, InsertNext, CollectionDone, acc,
         InserterStep, InsertBatch, SendErr, SendNil
<1> QED
  BY <1>5, <1>6, <1>7, <1>8, <1>9 DEF Next, WriteDataStep

-----------------------------------------------------------------------------
(* The goroutines.                                                           *)

(* A step of a goroutine changes its own state only.                         *)
LEMMA InserterMoves ==
  ASSUME Types, NEW b \in DOMAIN inserters, NEW e \in {"insert", "sendErr", "sendNil", "done"},
         inserters' = [inserters EXCEPT ![b] = e]
  PROVE  /\ DOMAIN inserters' = DOMAIN inserters /\ Len(inserters') = Len(inserters)
         /\ inserters'[b] = e
         /\ \A d \in DOMAIN inserters \ {b} : inserters'[d] = inserters[d]
<1>1. inserters \in Seq({"insert", "sendErr", "sendNil", "done"})
  BY DEF Types, TypeOK
<1> QED
  BY <1>1, ExceptFacts

LEMMA BatchStays ==
  ASSUME batches' = batches
  PROVE  Batch' = Batch /\ Count' = Count
BY DEF Batch, Count

LEMMA NoInserters ==
  ASSUME inserters = <<>>
  PROVE  DOMAIN inserters = {} /\ Len(inserters) = 0
OBVIOUS

LEMMA InsertedStep ==
  ASSUME Types, Stage, Packed, Inserted, Collected, Next, Types'
  PROVE  Inserted'
<1>0. input' = input /\ pump' = pump /\ Pos' = Pos
  BY InputStays, PosStays
<1> SUFFICES ASSUME pump # "selective"
             PROVE  Inserted'
  BY <1>0 DEF Inserted
<1>1. /\ pc \in {"select", "accumulate", "gather", "returned"}
      /\ pc \in {"select", "accumulate"} =>
           /\ inserters = <<>> /\ errCh = <<>> /\ received = 0
           /\ \A k \in Pos : written[k] = 0
      /\ pc \in {"gather", "returned"} => Len(inserters) = Count
      /\ broken \subseteq DOMAIN inserters
      /\ \A b \in DOMAIN inserters :
           /\ inserters[b] = "insert" => b \notin broken /\ \A k \in batches[b] : written[k] = 0
           /\ inserters[b] \in {"sendNil", "done"} /\ b \notin broken =>
                \A k \in batches[b] : written[k] = 1
           /\ inserters[b] = "sendErr" => b \in broken
  BY DEF Inserted
<1>2. CASE SelectRecords
  <2>1. pc = "select" /\ pc' \in {"returned", "accumulate"} /\ batches' = batches
        /\ UNCHANGED <<inserters, errCh, received, written, broken>>
    BY <1>2 DEF SelectRecords, Return
  <2>2. inserters = <<>> /\ Count = 0
    BY <1>1, <2>1, TypeFacts DEF Stage, Packed
  <2> QED
    BY <1>0, <1>1, <2>1, <2>2, NoInserters, BatchStays DEF Inserted
<1>3. CASE SkipItem \/ accumulate
  <2>1. pc = "accumulate" /\ UNCHANGED <<pc, inserters, errCh, received, written, broken>>
    BY <1>3 DEF SkipItem, accumulate
  <2>2. inserters = <<>>
    BY <1>1, <2>1
  <2> QED
    BY <1>0, <1>1, <2>1, <2>2, NoInserters DEF Inserted
<1>4. CASE StartInserts
  <2>1. /\ pc = "accumulate" /\ pc' \in {"returned", "gather"}
        /\ inserters' = [b \in 1 .. Len(batches') |-> "insert"]
        /\ UNCHANGED <<written, broken>>
    BY <1>4 DEF StartInserts, Return
  <2>2. broken = {} /\ \A k \in Pos : written[k] = 0
    BY <1>1, <2>1, NoInserters
  <2>3. batches' \in Seq(SUBSET Pos) /\ Len(batches') \in Nat
    BY <1>0 DEF Types, TypeOK
  <2>4. /\ Len(inserters') = Len(batches') /\ DOMAIN inserters' = 1 .. Len(batches')
        /\ \A b \in DOMAIN inserters' : inserters'[b] = "insert"
    BY <2>1, <2>3
  <2>5. \A b \in 1 .. Len(batches') : batches'[b] \in SUBSET Pos
    BY <2>3
  <2> QED
    BY <1>0, <2>1, <2>2, <2>4, <2>5 DEF Inserted, Count
<1>5. CASE UNCHANGED <<pc, inserters, written, broken, batches>> /\ pc \in {"gather", "returned"}
  BY <1>0, <1>1, <1>5, BatchStays DEF Inserted
<1>6. CASE Receive \/ AllReceived
  <2>1. /\ pc = "gather" /\ pc' \in {"gather", "returned"}
        /\ UNCHANGED <<inserters, written, broken, batches>>
    BY <1>6 DEF Receive, AllReceived, Return, acc
  <2> QED
    BY <1>0, <1>1, <2>1, BatchStays DEF Inserted
<1>7. ASSUME NEW b \in DOMAIN inserters, InsertBatch(b)
      PROVE  Inserted'
  <2>1. b \in Batch /\ pc \in {"gather", "returned"} /\ DOMAIN inserters = Batch
    BY GoroutinesOfBatches, TypeFacts
  <2>2. /\ inserters[b] = "insert" /\ UNCHANGED <<pc, batches>>
        /\ \/ /\ written' = Written(batches[b]) /\ broken' = broken
              /\ inserters' = [inserters EXCEPT ![b] = "sendNil"]
           \/ /\ \E H \in Heads(batches[b]) : written' = Written(H)
              /\ inserters' = [inserters EXCEPT ![b] = "sendErr"]
              /\ broken' = broken \cup {b}
    BY <1>7 DEF InsertBatch, acc
  <2>3. \A k \in Pos \ batches[b] : written'[k] = written[k]
    BY <2>1, <2>2, InsertFacts
  <2>4. ASSUME NEW d \in DOMAIN inserters, d # b
        PROVE  \A k \in batches[d] : written'[k] = written[k]
    <3>1. batches[d] \cap batches[b] = {} /\ batches[d] \subseteq Pos
      BY <2>1, <2>4, TypeFacts DEF Packed
    <3> QED
      BY <2>3, <3>1
  <2>5. DOMAIN inserters' = DOMAIN inserters /\ Len(inserters') = Len(inserters)
        /\ \A d \in DOMAIN inserters \ {b} : inserters'[d] = inserters[d]
    BY <2>2, InserterMoves
  <2>6. broken' \subseteq broken \cup {b} /\ broken \subseteq broken'
    BY <2>2
  <2>7. \A d \in DOMAIN inserters \ {b} :
          /\ inserters'[d] = "insert" => d \notin broken' /\ \A k \in batches[d] : written'[k] = 0
          /\ inserters'[d] \in {"sendNil", "done"} /\ d \notin broken' =>
               \A k \in batches[d] : written'[k] = 1
          /\ inserters'[d] = "sendErr" => d \in broken'
    BY <1>1, <2>4, <2>5, <2>6
  <2>8. /\ inserters'[b] \in {"sendNil", "sendErr"}
        /\ inserters'[b] = "sendErr" => b \in broken'
    BY <2>2, InserterMoves
  <2>9. inserters'[b] = "sendNil" => \A k \in batches[b] : written'[k] = 1
    <3>1. inserters'[b] = "sendNil" => written' = Written(batches[b])
      BY <2>2, InserterMoves
    <3>2. batches[b] \in SUBSET Pos /\ \A k \in batches[b] : written[k] = 0
      BY <1>1, <2>1, <2>2, TypeFacts
    <3>3. written' = Written(batches[b]) => \A k \in batches[b] : written'[k] = 0 + 1
      BY <3>2, WrittenFacts
    <3> QED
      BY <3>1, <3>3
  <2>10. \A d \in DOMAIN inserters' :
           /\ inserters'[d] = "insert" => d \notin broken' /\ \A k \in batches'[d] : written'[k] = 0
           /\ inserters'[d] \in {"sendNil", "done"} /\ d \notin broken' =>
                \A k \in batches'[d] : written'[k] = 1
           /\ inserters'[d] = "sendErr" => d \in broken'
    BY <2>2, <2>5, <2>7, <2>8, <2>9
  <2>11. Count' = Count /\ broken' \subseteq DOMAIN inserters'
    BY <1>1, <2>2, <2>5, <2>6, BatchStays
  <2> QED
    BY <1>0, <1>1, <2>1, <2>2, <2>5, <2>10, <2>11 DEF Inserted
<1>8. ASSUME NEW b \in DOMAIN inserters, SendErr(b) \/ SendNil(b)
      PROVE  Inserted'
  <2>1. pc \in {"gather", "returned"}
    BY GoroutinesOfBatches
  <2>2. PICK e \in {"sendNil", "done"} : /\ inserters' = [inserters EXCEPT ![b] = e]
                                         /\ UNCHANGED <<pc, batches, written, broken>>
    BY <1>8 DEF SendErr, SendNil, acc
  <2>3. inserters[b] = "sendNil" \/ b \in broken
    BY <1>1, <1>8 DEF SendErr, SendNil
  <2>4. /\ DOMAIN inserters' = DOMAIN inserters /\ Len(inserters') = Len(inserters)
        /\ inserters'[b] = e
        /\ \A d \in DOMAIN inserters \ {b} : inserters'[d] = inserters[d]
    BY <2>2, InserterMoves
  <2>5. \A d \in DOMAIN inserters' :
          /\ inserters'[d] = "insert" => d \notin broken' /\ \A k \in batches'[d] : written'[k] = 0
          /\ inserters'[d] \in {"sendNil", "done"} /\ d \notin broken' =>
               \A k \in batches'[d] : written'[k] = 1
          /\ inserters'[d] = "sendErr" => d \in broken'
    BY <1>1, <2>2, <2>3, <2>4
  <2> QED
    BY <1>0, <1>1, <2>1, <2>2, <2>4, <2>5, BatchStays DEF Inserted
<1>9. ~GroupByOrg /\ ~InsertNext /\ ~CollectionDone /\ \A o \in orgs : ~NextCollection(o)
  BY <1>1 DEF GroupByOrg, InsertNext, CollectionDone, NextCollection
<1> QED
  BY <1>2, <1>3, <1>4, <1>6, <1>7, <1>8, <1>9
  DEF Next, WriteDataStep, InserterStep, InsertBatch, SendErr, SendNil

(* The selective pump.                                                       *)
LEMMA CollectedStep ==
  ASSUME Types, Stage, Packed, Inserted, Collected, Next
  PROVE  Collected'
<1>0. input' = input /\ pump' = pump /\ slice' = slice /\ Pos' = Pos
  BY InputStays, PosStays
<1> SUFFICES ASSUME pump = "selective"
             PROVE  Collected'
  BY <1>0 DEF Collected
<1>1. /\ inserters = <<>> /\ errCh = <<>>
      /\ \A k \in Pos : slice[k].org \in orgs => written[k] = 0
      /\ pc \in {"accumulate", "gather"} => \A n \in DOMAIN data : slice[data[n]].org \notin orgs
      /\ pc = "select" => \A k \in Pos : written[k] = 0
      /\ pc = "accumulate" => \A n \in DOMAIN data : written[data[n]] = 0
      /\ pc = "gather" => \A b \in Batch : b > received => \A k \in batches[b] : written[k] = 0
  BY DEF Collected
<1>2. CASE GroupByOrg
  <2>1. pc = "select" /\ pc' \in {"panic", "returned", "collection"} /\ UNCHANGED <<inserters, errCh, written>>
    BY <1>2 DEF GroupByOrg, Return
  <2> QED
    BY <1>0, <1>1, <2>1 DEF Collected
<1>3. ASSUME NEW o \in orgs, NextCollection(o)
      PROVE  Collected'
  <2> DEFINE S == {k \in Pos : ~Is(k, "mcp") /\ slice[k].org = o}
  <2>1. /\ pc' = "accumulate" /\ orgs' = orgs \ {o} /\ data' = InOrder(S)
        /\ UNCHANGED <<inserters, errCh, written>>
    BY <1>3 DEF NextCollection
  <2>2. \A n \in DOMAIN data' : data'[n] \in S
    <3> HIDE DEF S
    <3>1. S \in SUBSET Pos
      BY DEF S
    <3> QED
      BY <2>1, <3>1, InOrderFacts, TypeFacts
  <2>3. \A n \in DOMAIN data' : slice[data'[n]].org \notin orgs' /\ written'[data'[n]] = 0
    BY <1>1, <2>1, <2>2
  <2>4. \A k \in Pos : slice[k].org \in orgs' => written'[k] = 0
    BY <1>1, <2>1
  <2> QED
    BY <1>0, <1>1, <2>1, <2>3, <2>4 DEF Collected
<1>4. CASE SkipItem \/ accumulate
  <2>1. pc = "accumulate" /\ UNCHANGED <<pc, data, orgs, inserters, errCh, written>>
    BY <1>4 DEF SkipItem, accumulate
  <2> QED
    BY <1>0, <1>1, <2>1 DEF Collected
<1>5. CASE StartInserts
  <2>1. /\ pc = "accumulate" /\ pc' = "gather" /\ i > Len(data)
        /\ UNCHANGED <<data, orgs, batches, inserters, errCh, written>>
    BY <1>5 DEF StartInserts, Remainder
  <2>2. \A b \in Batch : \A k \in batches[b] : written[k] = 0
    <3>1. \A n \in 1 .. i - 1 : n \in DOMAIN data
      BY TypeFacts
    <3> QED
      BY <1>1, <2>1, <3>1 DEF Packed
  <2> QED
    BY <1>0, <1>1, <2>1, <2>2, BatchStays DEF Collected
<1>6. CASE InsertNext
  <2> DEFINE b == received + 1
  <2>1. /\ pc = "gather" /\ b \in Batch /\ received' = b /\ b > received
        /\ UNCHANGED <<pc, data, orgs, batches, inserters, errCh>>
        /\ \/ written' = Written(batches[b])
           \/ \E H \in Heads(batches[b]) : written' = Written(H)
    BY <1>6, TypeFacts DEF InsertNext, acc, Count
  <2>2. \A k \in Pos \ batches[b] : written'[k] = written[k]
    BY <2>1, InsertFacts
  <2>3. \A k \in batches[b] : slice[k].org \notin orgs
    <3>1. \A n \in 1 .. i - 1 : n \in DOMAIN data
      BY TypeFacts
    <3> QED
      BY <1>1, <2>1, <3>1 DEF Packed
  <2>4. \A k \in Pos : slice[k].org \in orgs => written'[k] = 0
    BY <1>1, <2>2, <2>3
  <2>5. ASSUME NEW d \in Batch, d > b
        PROVE  \A k \in batches[d] : written'[k] = 0
    <3>1. d > received /\ d # b /\ b \in Batch /\ batches[d] \subseteq Pos
      BY <2>1, <2>5, TypeFacts
    <3>2. batches[d] \cap batches[b] = {}
      BY <3>1 DEF Packed
    <3> QED
      BY <1>1, <2>1, <2>2, <3>1, <3>2
  <2> HIDE DEF b
  <2> QED
    BY <1>0, <1>1, <2>1, <2>4, <2>5, BatchStays DEF Collected
<1>7. CASE CollectionDone
  <2>1. pc' \in {"returned", "collection"} /\ UNCHANGED <<orgs, inserters, errCh, written>>
    BY <1>7 DEF CollectionDone, Return
  <2> QED
    BY <1>0, <1>1, <2>1 DEF Collected
<1>8. ~SelectRecords /\ ~Receive /\ ~AllReceived /\ \A b \in 1 .. MaxItems : ~InserterStep(b)
  BY <1>1, NoInserters DEF SelectRecords, Receive, AllReceived, InserterStep, InsertBatch, SendErr, SendNil
<1> QED
  BY <1>2, <1>3, <1>4, <1>5, <1>6, <1>7, <1>8 DEF Next, WriteDataStep

LEMMA OnceStep ==
  ASSUME Types, Packed, Inserted, Collected, OnceEach, Next
  PROVE  OnceEach'
<1>0. Pos' = Pos
  BY InputStays, PosStays
<1>1. ASSUME NEW b \in Batch, \A k \in batches[b] : written[k] = 0,
             \/ written' = Written(batches[b])
             \/ \E H \in Heads(batches[b]) : written' = Written(H)
      PROVE  OnceEach'
  <2>1. ASSUME NEW k \in Pos
        PROVE  written'[k] <= 1
    <3>1. CASE k \in batches[b]
      <4>1. written'[k] = 0 \/ written'[k] = 0 + 1
        BY <1>1, <3>1, InsertFacts
      <4> QED
        BY <4>1
    <3>2. CASE k \notin batches[b]
      BY <1>1, <3>2, InsertFacts DEF OnceEach
    <3> QED
      BY <3>1, <3>2
  <2> QED
    BY <1>0, <2>1 DEF OnceEach
<1>2. ASSUME NEW b \in DOMAIN inserters, InsertBatch(b)
      PROVE  OnceEach'
  <2>1. b \in Batch /\ pump # "selective"
    BY GoroutinesOfBatches
  <2>2. \A k \in batches[b] : written[k] = 0
    BY <1>2, <2>1 DEF InsertBatch, Inserted
  <2> QED
    BY <1>1, <1>2, <2>1, <2>2 DEF InsertBatch
<1>3. CASE InsertNext
  <2>1. received + 1 \in Batch /\ received + 1 > received
    BY <1>3, TypeFacts DEF InsertNext, Count
  <2>2. \A k \in batches[received + 1] : written[k] = 0
    BY <1>3, <2>1 DEF InsertNext, Collected
  <2> QED
    BY <1>1, <1>3, <2>1, <2>2 DEF InsertNext
<1>4. CASE UNCHANGED written
  BY <1>0, <1>4 DEF OnceEach
<1> QED
  BY <1>2, <1>3, <1>4
  DEF Next, WriteDataStep, InserterStep, SelectRecords, GroupByOrg, NextCollection, SkipItem,
      accumulate, StartInserts, Receive, AllReceived, CollectionDone, InsertBatch, SendErr, SendNil

-----------------------------------------------------------------------------
(* The results.                                                              *)

LEMMA GoodFacts ==
  ASSUME Types
  PROVE  /\ Good \subseteq DOMAIN inserters /\ IsFiniteSet(Good) /\ Cardinality(Good) \in Nat
         /\ Cardinality(Good) <= Len(inserters)
         /\ Cardinality(Good) = Len(inserters) => Good = DOMAIN inserters
<1>0. Len(inserters) \in Nat /\ DOMAIN inserters = 1 .. Len(inserters)
  BY TypeFacts
<1>1. IsFiniteSet(1 .. Len(inserters)) /\ Cardinality(1 .. Len(inserters)) = Len(inserters)
  BY <1>0, UpTo
<1>2. Good \in SUBSET (1 .. Len(inserters))
  BY <1>0 DEF Good
<1> QED
  BY <1>0, <1>1, <1>2, FS_Subset, FS_CardinalityType

LEMMA ErrChFacts ==
  ASSUME Types
  PROVE  errCh \in Seq({"err", "nil"}) /\ Len(errCh) \in Nat /\ DOMAIN errCh = 1 .. Len(errCh)
         /\ received \in Nat
BY TypeFacts DEF Types, TypeOK

(* A result that is appended, of a goroutine that sends it for the first time. *)
LEMMA SendKeeps ==
  ASSUME Types, Inserted, Collected, Gathered, NEW b \in DOMAIN inserters, SendErr(b) \/ SendNil(b),
         pc = "gather"
  PROVE  /\ \A d \in broken : inserters'[d] = "sendErr" \/ \E q \in DOMAIN errCh' : errCh'[q] = "err"
         /\ \A p \in 0 .. Len(errCh') :
              (\A q \in 1 .. p : errCh'[q] = "nil") => received + p <= Cardinality(Good')
<1> DEFINE n == Len(errCh)
<1>0. pump # "selective" /\ broken \subseteq DOMAIN inserters
  BY GoroutinesOfBatches DEF Inserted
<1>1. /\ \A d \in broken : inserters[d] = "sendErr" \/ \E q \in DOMAIN errCh : errCh[q] = "err"
      /\ \A p \in 0 .. n : (\A q \in 1 .. p : errCh[q] = "nil") => received + p <= Cardinality(Good)
  BY <1>0 DEF Gathered, NilsOnly
<1>2. errCh \in Seq({"err", "nil"}) /\ n \in Nat /\ DOMAIN errCh = 1 .. n /\ received \in Nat
  BY ErrChFacts
<1>3. PICK m \in {"err", "nil"}, e \in {"sendNil", "done"} :
        /\ errCh' = Append(errCh, m) /\ inserters' = [inserters EXCEPT ![b] = e] /\ broken' = broken
        /\ m = "err" => inserters[b] = "sendErr"
        /\ m = "nil" => inserters[b] = "sendNil" /\ e = "done"
  BY DEF SendErr, SendNil
<1>4. /\ Len(errCh') = n + 1 /\ DOMAIN errCh' = 1 .. n + 1
      /\ \A q \in 1 .. n : errCh'[q] = errCh[q]
      /\ errCh'[n + 1] = m
  BY <1>2, <1>3, AppendFacts
<1>5. /\ DOMAIN inserters' = DOMAIN inserters /\ inserters'[b] = e
      /\ \A d \in DOMAIN inserters \ {b} : inserters'[d] = inserters[d]
  BY <1>3, InserterMoves
<1>6. IsFiniteSet(Good) /\ Cardinality(Good) \in Nat
  BY GoodFacts
<1>7. m = "err" => b \in broken /\ Good' = Good
  <2> HAVE m = "err"
  <2>1. inserters[b] = "sendErr"
    BY <1>3
  <2>2. b \in broken
    BY <1>0, <2>1 DEF Inserted
  <2> QED
    BY <1>3, <1>5, <2>1, <2>2 DEF Good
<1>8. m = "nil" /\ b \in broken => Good' = Good
  BY <1>3, <1>5 DEF Good
<1>9. m = "nil" /\ b \notin broken => Good' = Good \cup {b} /\ b \notin Good
  BY <1>3, <1>5 DEF Good
<1> HIDE DEF n
<1>10. \A q \in DOMAIN errCh : q \in DOMAIN errCh' /\ errCh'[q] = errCh[q]
  BY <1>2, <1>4
<1>11. ASSUME NEW d \in broken
       PROVE  inserters'[d] = "sendErr" \/ \E q \in DOMAIN errCh' : errCh'[q] = "err"
  <2>1. CASE \E q \in DOMAIN errCh : errCh[q] = "err"
    BY <1>10, <2>1
  <2>2. CASE inserters[d] = "sendErr" /\ d # b
    BY <1>0, <1>5, <2>2
  <2>3. CASE inserters[d] = "sendErr" /\ d = b
    <3>1. m = "err" /\ n + 1 \in DOMAIN errCh'
      BY <1>2, <1>3, <1>4, <2>3
    <3> QED
      BY <1>4, <3>1
  <2> QED
    BY <1>1, <2>1, <2>2, <2>3
<1>12. ASSUME NEW p \in 0 .. n + 1, \A q \in 1 .. p : errCh'[q] = "nil"
       PROVE  received + p <= Cardinality(Good')
  <2>1. Cardinality(Good') = Cardinality(Good) \/ Cardinality(Good') = Cardinality(Good) + 1
    BY <1>3, <1>6, <1>7, <1>8, <1>9, FS_AddElement
  <2>2. CASE p <= n
    <3>1. p \in 0 .. n /\ \A q \in 1 .. p : errCh[q] = "nil"
      BY <1>2, <1>4, <1>12, <2>2
    <3>2. received + p <= Cardinality(Good)
      BY <1>1, <3>1
    <3> QED
      BY <1>2, <1>6, <2>1, <3>1, <3>2
  <2>3. CASE ~(p <= n)
    <3>1. p = n + 1 /\ n + 1 \in 1 .. p /\ \A q \in 1 .. n : q \in 1 .. p
      BY <1>2, <2>3
    <3>2. m = "nil" /\ \A q \in 1 .. n : errCh[q] = "nil"
      BY <1>4, <1>12, <3>1
    <3>3. b \notin broken
      <4>1. SUFFICES ASSUME b \in broken
                     PROVE  FALSE
        OBVIOUS
      <4>2. inserters[b] = "sendNil"
        BY <1>3, <3>2
      <4>3. \E q \in DOMAIN errCh : errCh[q] = "err"
        BY <1>1, <4>1, <4>2
      <4> QED
        BY <1>2, <3>2, <4>3
    <3>4. n \in 0 .. n
      BY <1>2
    <3>5. received + n <= Cardinality(Good)
      BY <1>1, <3>2, <3>4
    <3>6. Cardinality(Good') = Cardinality(Good) + 1
      BY <1>6, <1>9, <3>2, <3>3, FS_AddElement
    <3> QED
      BY <1>2, <1>6, <3>1, <3>5, <3>6
  <2> QED
    BY <2>2, <2>3
<1> QED
  BY <1>4, <1>11, <1>12

LEMMA GatheredStep ==
  ASSUME Types, Stage, Packed, Inserted, Collected, Gathered, Next
  PROVE  Gathered'
<1>0. pump' = pump
  BY InputStays, PosStays
<1>1. result # "none" <=> pc = "returned"
  BY DEF Gathered
<1>2. result' # "none" <=> pc' = "returned"
  BY <1>1 DEF Next, WriteDataStep, InserterStep, SelectRecords, GroupByOrg, NextCollection, SkipItem,
              accumulate, StartInserts, Receive, AllReceived, InsertNext, CollectionDone,
              InsertBatch, SendErr, SendNil, Return
<1> SUFFICES ASSUME pump # "selective"
             PROVE  Gathered'
  BY <1>0, <1>2 DEF Gathered
<1>3. /\ pc = "gather" =>
           /\ \A b \in broken : inserters[b] = "sendErr" \/ \E q \in DOMAIN errCh : errCh[q] = "err"
           /\ \A p \in 0 .. Len(errCh) : (\A q \in 1 .. p : errCh[q] = "nil") => received + p <= Cardinality(Good)
      /\ result = "nil" => broken = {} /\ \A b \in DOMAIN inserters : inserters[b] = "done"
      /\ broken \subseteq DOMAIN inserters
      /\ pc \in {"select", "accumulate"} => inserters = <<>> /\ errCh = <<>> /\ received = 0
      /\ pc \in {"gather", "returned"} => Len(inserters) = Count
  BY DEF Gathered, NilsOnly, Inserted
<1>4. ASSUME \/ pc' # "gather"
             \/ /\ \A b \in broken' : inserters'[b] = "sendErr" \/ \E q \in DOMAIN errCh' : errCh'[q] = "err"
                /\ \A p \in 0 .. Len(errCh') :
                     (\A q \in 1 .. p : errCh'[q] = "nil") => received' + p <= Cardinality(Good'),
             result' = "nil" => broken' = {} /\ \A b \in DOMAIN inserters' : inserters'[b] = "done"
      PROVE  Gathered'
  BY <1>0, <1>2, <1>4 DEF Gathered, NilsOnly
<1>5. CASE SelectRecords
  <2>1. pc = "select" /\ pc' # "gather" /\ UNCHANGED <<inserters, broken>>
    BY <1>5 DEF SelectRecords, Return
  <2> QED
    BY <1>3, <1>4, <2>1, NoInserters
<1>6. CASE SkipItem \/ accumulate
  <2>1. pc = "accumulate" /\ UNCHANGED <<pc, result, inserters, broken>>
    BY <1>6 DEF SkipItem, accumulate
  <2> QED
    BY <1>3, <1>4, <2>1
<1>7. CASE StartInserts
  <2>1. /\ pc = "accumulate" /\ pc' \in {"returned", "gather"}
        /\ inserters' = [b \in 1 .. Len(batches') |-> "insert"]
        /\ UNCHANGED <<broken, errCh, received>>
        /\ result' = "nil" => result = "nil" \/ batches' = <<>>
    BY <1>7 DEF StartInserts, Return
  <2>2. broken = {} /\ errCh = <<>> /\ received = 0 /\ result = "none"
    BY <1>1, <1>3, <2>1, NoInserters
  <2>3. batches' = <<>> => \A b \in DOMAIN inserters' : inserters'[b] = "done"
    BY <2>1
  <2>4. \A p \in 0 .. Len(errCh') : received' + p <= Cardinality(Good')
    <3>1. Good' = {}
      BY <2>1 DEF Good
    <3>2. Len(errCh') = 0 /\ Cardinality(Good') = 0 /\ received' = 0
      BY <2>1, <2>2, <3>1, FS_EmptySet
    <3> QED
      BY <3>2
  <2> QED
    BY <1>4, <2>1, <2>2, <2>3, <2>4
<1>8. CASE Receive
  <2>1. /\ pc = "gather" /\ errCh # <<>> /\ errCh' = Tail(errCh) /\ UNCHANGED <<inserters, broken>>
        /\ \/ pc' = "returned" /\ result' = "err"
           \/ pc' = pc /\ result' = result /\ received' = received + 1 /\ Head(errCh) # "err"
    BY <1>8 DEF Receive, Return
  <2>2. CASE pc' = "returned" /\ result' = "err"
    BY <1>4, <2>2
  <2>3. CASE pc' = pc /\ result' = result /\ received' = received + 1 /\ Head(errCh) # "err"
    <3> DEFINE n == Len(errCh)
    <3>1. /\ errCh[1] = "nil" /\ n \in Nat \ {0} /\ Len(errCh') = n - 1 /\ DOMAIN errCh' = 1 .. n - 1
          /\ DOMAIN errCh = 1 .. n /\ received \in Nat
          /\ \A q \in 1 .. n - 1 : errCh'[q] = errCh[q + 1]
      BY <2>1, <2>3, ErrChFacts, TailFacts
    <3>2. Good' = Good /\ Cardinality(Good) \in Nat
      BY <2>1, GoodFacts DEF Good
    <3> HIDE DEF n
    <3>3. ASSUME NEW q \in DOMAIN errCh, errCh[q] = "err"
          PROVE  \E r \in DOMAIN errCh' : errCh'[r] = "err"
      <4>1. q - 1 \in 1 .. n - 1 /\ (q - 1) + 1 = q
        BY <3>1, <3>3
      <4>2. errCh'[q - 1] = "err" /\ q - 1 \in DOMAIN errCh'
        BY <3>1, <3>3, <4>1
      <4> QED
        BY <4>2
    <3>4. \A b \in broken' : inserters'[b] = "sendErr" \/ \E q \in DOMAIN errCh' : errCh'[q] = "err"
      BY <1>3, <2>1, <3>3
    <3>5. ASSUME NEW p \in 0 .. n - 1, \A q \in 1 .. p : errCh'[q] = "nil"
          PROVE  received' + p <= Cardinality(Good')
      <4>1. p + 1 \in 0 .. n
        BY <3>1
      <4>2. \A q \in 1 .. p + 1 : errCh[q] = "nil"
        <5> TAKE q \in 1 .. p + 1
        <5>1. CASE q = 1
          BY <3>1, <5>1
        <5>2. CASE q # 1
          <6>1. q - 1 \in 1 .. p /\ q - 1 \in 1 .. n - 1 /\ (q - 1) + 1 = q
            BY <3>1, <5>2
          <6> QED
            BY <3>1, <3>5, <6>1
        <5> QED
          BY <5>1, <5>2
      <4>3. received + (p + 1) <= Cardinality(Good)
        BY <1>3, <2>1, <4>1, <4>2 DEF n
      <4> QED
        BY <2>3, <3>1, <3>2, <4>3
    <3>6. result' # "nil"
      BY <1>1, <2>1, <2>3
    <3> QED
      BY <1>4, <3>1, <3>4, <3>5, <3>6
  <2> QED
    BY <2>1, <2>2, <2>3
<1>9. CASE AllReceived
  <2>1. /\ pc = "gather" /\ pc' = "returned" /\ received = Count /\ UNCHANGED <<inserters, broken>>
    BY <1>9 DEF AllReceived, Return, Count
  <2>2. received <= Cardinality(Good)
    <3>1. 0 \in 0 .. Len(errCh) /\ received + 0 = received
      BY ErrChFacts
    <3>2. received + 0 <= Cardinality(Good)
      BY <1>3, <2>1, <3>1
    <3> QED
      BY <3>1, <3>2
  <2>3. Len(inserters) = received
    BY <1>3, <2>1
  <2>4. Good = DOMAIN inserters
    BY <2>2, <2>3, GoodFacts, TypeFacts
  <2>5. broken = {} /\ \A b \in DOMAIN inserters : inserters[b] = "done"
    BY <1>3, <2>4 DEF Good
  <2> QED
    BY <1>4, <2>1, <2>5
<1>10. ASSUME NEW b \in DOMAIN inserters, InserterStep(b)
       PROVE  Gathered'
  <2>1. /\ UNCHANGED <<pc, result, received>> /\ inserters[b] # "done"
    BY <1>10 DEF InserterStep, InsertBatch, SendErr, SendNil
  <2>2. result' # "nil"
    BY <1>3, <2>1
  <2>3. CASE pc # "gather"
    BY <1>4, <2>1, <2>2, <2>3
  <2>4. CASE pc = "gather" /\ InsertBatch(b)
    <3>1. PICK e \in {"sendNil", "sendErr"} :
            /\ inserters' = [inserters EXCEPT ![b] = e]
            /\ broken' = IF e = "sendErr" THEN broken \cup {b} ELSE broken
            /\ errCh' = errCh /\ inserters[b] = "insert"
      BY <2>4 DEF InsertBatch
    <3>2. /\ DOMAIN inserters' = DOMAIN inserters /\ inserters'[b] = e
          /\ \A d \in DOMAIN inserters \ {b} : inserters'[d] = inserters[d]
      BY <3>1, InserterMoves
    <3>3. Good' = Good
      BY <3>1, <3>2 DEF Good
    <3>4. \A d \in broken' : inserters'[d] = "sendErr" \/ \E q \in DOMAIN errCh' : errCh'[q] = "err"
      <4> TAKE d \in broken'
      <4>1. CASE d = b
        <5>1. b \notin broken
          BY <3>1 DEF Inserted
        <5> QED
          BY <3>1, <3>2, <4>1, <5>1
      <4>2. CASE d # b
        <5>1. d \in broken /\ d \in DOMAIN inserters
          BY <1>3, <3>1, <4>2
        <5> QED
          BY <1>3, <2>4, <3>1, <3>2, <4>2, <5>1
      <4> QED
        BY <4>1, <4>2
    <3> QED
      BY <1>3, <1>4, <2>1, <2>2, <2>4, <3>1, <3>3, <3>4
  <2>5. CASE pc = "gather" /\ (SendErr(b) \/ SendNil(b))
    <3>1. broken' = broken
      BY <2>5 DEF SendErr, SendNil
    <3> QED
      BY <1>4, <2>1, <2>2, <2>5, <3>1, SendKeeps
  <2> QED
    BY <1>10, <2>3, <2>4, <2>5 DEF InserterStep
<1>11. ~GroupByOrg /\ ~InsertNext /\ ~CollectionDone /\ \A o \in orgs : ~NextCollection(o)
  BY DEF GroupByOrg, InsertNext, CollectionDone, NextCollection, Inserted
<1> QED
  BY <1>5, <1>6, <1>7, <1>8, <1>9, <1>10, <1>11
  DEF Next, WriteDataStep, InserterStep, InsertBatch, SendErr, SendNil

-----------------------------------------------------------------------------
(* The theorems.                                                             *)

LEMMA InitSlice ==
  ASSUME Init
  PROVE  slice \in Seq(Item) /\ Len(slice) <= MaxItems /\ Pos = 1 .. Len(slice)
<1>1. PICK n \in 0 .. MaxItems : slice \in [1 .. n -> Item]
  BY DEF Init
<1>2. n \in Nat /\ MaxItems \in Nat /\ n <= MaxItems
  BY ItemAssumption
<1>3. slice \in Seq(Item) /\ Len(slice) = n
  BY <1>1, <1>2
<1> QED
  BY <1>2, <1>3 DEF Pos

(* A call of WriteData keeps every record it accumulates in one place only,  *)
(* gives every batch to one goroutine, and counts a success for a goroutine  *)
(* that is done with a batch it has inserted, as long as no error came.      *)
THEOREM Inductive == Spec => []IInv
<1>1. ASSUME Init
      PROVE  IInv
  <2>1. /\ slice \in Seq(Item) /\ Len(slice) <= MaxItems /\ Pos = 1 .. Len(slice)
        /\ Len(slice) \in Nat
    BY <1>1, InitSlice
  <2>2. Len(data) = 0 /\ Len(batches) = 0 /\ Len(inserters) = 0 /\ Len(errCh) = 0
        /\ DOMAIN inserters = {} /\ DOMAIN data = {} /\ Batch = {} /\ Count = 0
    BY <1>1 DEF Init, Batch, Count
  <2>3. written \in [Pos -> Nat] /\ \A k \in Pos : written[k] = 0
    BY <1>1 DEF Init
  <2>4. Types
    BY <1>1, <2>1, <2>2, <2>3 DEF Init, Types, TypeOK, Ascending
  <2>5. Stage /\ Packed
    BY <1>1, <2>2 DEF Init, Stage, Packed
  <2>6. Sized
    <3>1. SizeOf(current) = 0
      BY <1>1, <2>1, SizeFacts DEF Init
    <3> QED
      BY <1>1, <2>2, <3>1, ItemAssumption DEF Init, Sized, BatchFits
  <2>7. Inserted /\ Collected /\ OnceEach /\ Gathered
    BY <1>1, <2>2, <2>3 DEF Init, Inserted, Collected, OnceEach, Gathered
  <2> QED
    BY <2>4, <2>5, <2>6, <2>7 DEF IInv
<1>2. ASSUME IInv, [Next]_vars
      PROVE  IInv'
  <2> USE <1>2 DEF IInv
  <2>1. CASE Next
    <3>1. Types'
      BY <2>1, TypesStep
    <3> QED
      BY <2>1, <3>1, StageStep, PackedStep, SizedStep, InsertedStep, CollectedStep, OnceStep, GatheredStep
  <2>2. CASE UNCHANGED vars
    <3>1. UNCHANGED <<pump, slice, data, i, total, current, batches, orgs, pc, inserters, errCh,
                      received, result, written, cut, broken>>
      BY <2>2 DEF vars, input, acc
    <3>2. Types' /\ Stage' /\ OnceEach'
      BY <3>1 DEF Types, TypeOK, Stage, OnceEach, Pos, Ascending
    <3>3. Packed'
      BY <3>1, KeptStays DEF Packed, Batch, Count, input
    <3>4. Sized'
      BY <3>1 DEF Sized, BatchFits, SizeOf, Batch
    <3>5. Inserted' /\ Collected' /\ Gathered'
      BY <3>1 DEF Inserted, Collected, Gathered, Pos, Batch, Count, NilsOnly, Good
    <3> QED
      BY <3>2, <3>3, <3>4, <3>5
  <2> QED
    BY <1>2, <2>1, <2>2
<1> QED
  BY <1>1, <1>2, PTL DEF Spec

(* The types of the call, for every slice.                                   *)
THEOREM Typed == Spec => []TypeOK
<1>1. IInv => TypeOK
  BY DEF IInv, Types
<1> QED
  BY <1>1, Inductive, PTL

(* A call inserts no record twice, in whatever order its goroutines insert   *)
(* the batches, and although the selective pump accumulates again and again. *)
THEOREM InsertedOnce == Spec => []NoRecordTwice
<1>1. IInv => NoRecordTwice
  BY DEF IInv, Types, OnceEach, NoRecordTwice
<1> QED
  BY <1>1, Inductive, PTL

(* WriteData returns nil only when every batch was inserted whole, also with *)
(* the mongo pump, whose goroutines send nil after an error.                 *)
THEOREM SuccessIsHonest == Spec => []HonestResult
<1>1. ASSUME IInv
      PROVE  HonestResult
  <2> SUFFICES ASSUME result = "nil", pump # "selective"
               PROVE  broken = {} /\ \A b \in Batch : \A k \in batches[b] : written[k] = 1
    BY DEF HonestResult
  <2>1. pc = "returned" /\ broken = {} /\ \A b \in DOMAIN inserters : inserters[b] = "done"
    BY <1>1 DEF IInv, Gathered
  <2>2. Len(inserters) = Count /\ DOMAIN inserters = Batch
    BY <1>1, <2>1, TypeFacts DEF IInv, Inserted
  <2> QED
    BY <1>1, <2>1, <2>2 DEF IInv, Inserted
<1> QED
  BY <1>1, Inductive, PTL

(* AccumulateSet forgets no record unless it skips the last one, and packs   *)
(* no batch over the limit but a single record that is over it by itself.    *)
THEOREM AllAccumulated == Spec => []NothingForgotten
<1>1. ASSUME IInv
      PROVE  NothingForgotten
  <2> USE <1>1 DEF IInv
  <2>1. BatchFits
    BY DEF Sized
  <2>2. ASSUME Accumulated, LastKept, NEW n \in 1 .. Len(data), Wanted(data[n])
        PROVE  \E b \in Batch : data[n] \in batches[b]
    <3>1. i > Len(data) /\ data # <<>> /\ Kept(data[Len(data)])
      BY <2>2 DEF Stage, Accumulated, LastKept, Kept
    <3>2. Kept(data[n])
      BY <2>2 DEF Wanted, Kept, Skips, Types, TypeOK, Pumps
    <3>3. n \in 1 .. i - 1
      BY <3>1, TypeFacts
    <3>4. Count > 0 /\ batches[Count] = current /\ Count \in Batch
      BY <3>1, TypeFacts DEF Packed
    <3> QED
      BY <3>2, <3>3, <3>4 DEF Packed
  <2> QED
    BY <2>1, <2>2 DEF NothingForgotten
<1> QED
  BY <1>1, Inductive, PTL

==============================================================================
