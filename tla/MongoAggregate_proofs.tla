------------------------ MODULE MongoAggregate_proofs ------------------------
(* Theorems about MongoAggregate, for any records, aggregation times, limits *)
(* of a document and number of calls.                                        *)
EXTENDS MongoAggregate, DataFacts

-----------------------------------------------------------------------------
(* The inductive invariant.                                                  *)

Where == {"none", "aggregate", "group", "upsert", "average", "nil", "error"}

Calls  == [at : Where, pos : Nat, todo : SUBSET Org, org : Org \cup {NoOrg}, coll : Coll]
Groups == [ts : Nat \cup {Unset}, members : SUBSET Nat]

Reached(c, where) == call[c].at \in where

(* What is kept of calls and groups, and of calls to come.                   *)
Shapes ==
  /\ config \in BOOLEAN \X BOOLEAN \X BOOLEAN
  /\ call \in [Call -> Calls]
  /\ groups \in [Call -> [Org -> Groups]]
  /\ slice \in [Call -> Seq(Record)]
  /\ main = "writing" => next # 0
  /\ \A c \in Call : c > next => At(c, "none")
  /\ \A c \in Call : At(c, "none") => slice[c] = <<>> /\ call[c].pos = 0 /\ groups[c] = Reset

(* A run restarts with a shorter time, so that heals is never capped.        *)
HealBound == \A c \in Call : heals[c] + aggTime <= Hour

(* The groups are what AggregateData has read of the slice.                  *)
GroupsOf(c) ==
  /\ \A o \in Org, n \in Nat :
       n \in groups[c][o].members <=> n \in 1 .. call[c].pos /\ slice[c][n].org = o
  /\ \A o \in Org : groups[c][o].members # {} => groups[c][o].ts \in Nat
  /\ Reached(c, {"group", "upsert", "average"}) =>
       /\ call[c].pos = Len(slice[c])
       /\ \A o \in call[c].todo : groups[c][o].members # {}
  /\ Reached(c, {"upsert", "average"}) =>
       /\ call[c].org \in Org \ call[c].todo
       /\ groups[c][call[c].org].members # {}

GroupsFollow == \A c \in Call : GroupsOf(c)

(* This run has yet to count the records of the group in the collection.     *)
Pending(c, o, coll) ==
  \/ o \in call[c].todo
  \/ /\ o = call[c].org
     /\ \/ At(c, "upsert") /\ (coll = call[c].coll \/ coll = "mixed")
        \/ At(c, "average") /\ call[c].coll = "own" /\ coll = "mixed"

Past(c, n, coll) ==
  /\ slice[c][n].org \in Org
  /\ Reached(c, {"group", "upsert", "average"})
  /\ ~Pending(c, slice[c][n].org, coll)

(* The copies of a record: one of each run before this, and one of this.     *)
CopiesOf(c, n, coll) ==
  /\ IsFiniteSet(Copies(coll, <<c, n>>))
  /\ Cardinality(Copies(coll, <<c, n>>)) <=
       heals[c] + IF Past(c, n, coll) \/ Returned(c) THEN 1 ELSE 0
  /\ slice[c][n].org \in Org /\ (coll = "own" \/ mixed) /\ (Past(c, n, coll) \/ At(c, "nil")) =>
       Copies(coll, <<c, n>>) # {}

CopiesFollow == \A c \in Call : \A n \in DOMAIN slice[c], coll \in Coll : CopiesOf(c, n, coll)

ErrorOf(c) == At(c, "error") /\ healing => c \in failed \/ aggTime = 1

ErrorMeans == \A c \in Call : ErrorOf(c)

(* The whole inductive invariant.                                            *)
IInv == TypeOK /\ Shapes /\ HealBound /\ GroupsFollow /\ CopiesFollow /\ ErrorMeans

-----------------------------------------------------------------------------
(* Bags, and the copies of a record.                                         *)

LEMMA BagPlus ==
  ASSUME NEW B, IsABag(B), NEW S
  PROVE  /\ IsABag(B (+) SetToBag(S)) /\ DOMAIN (B (+) SetToBag(S)) = DOMAIN B \cup S
         /\ \A e \in DOMAIN B \cup S :
              (B (+) SetToBag(S))[e] = (IF e \in DOMAIN B THEN B[e] ELSE 0) + IF e \in S THEN 1 ELSE 0
BY DEF IsABag, (+), SetToBag

LEMMA NoBag == IsABag(EmptyBag) /\ DOMAIN EmptyBag = {}
BY DEF IsABag, EmptyBag, SetToBag

DocsTyped == \A k \in DOMAIN docs : IsABag(docs[k]) /\ BagToSet(docs[k]) \subseteq Item

LEMMA CopiesPairs ==
  ASSUME NEW coll, NEW i
  PROVE  /\ \A k, j : <<k, j>> \in Copies(coll, i) <=>
                k \in DOMAIN docs /\ k[1] = coll /\ j \in 1 .. InDocument(k, i)
         /\ \A p \in Copies(coll, i) : p = <<p[1], p[2]>>
BY DEF Copies

LEMMA DocumentType ==
  ASSUME DocsTyped, NEW k
  PROVE  /\ IsABag(Document(k))
         /\ DOMAIN Document(k) \subseteq Item
         /\ \A i \in DOMAIN Document(k) : Document(k)[i] \in Nat \ {0}
<1>1. IsABag(Document(k)) /\ DOMAIN Document(k) \subseteq Item
  BY NoBag DEF DocsTyped, Document, BagToSet
<1> QED
  BY <1>1 DEF IsABag

LEMMA InDocumentType ==
  ASSUME DocsTyped, NEW k \in DOMAIN docs, NEW i
  PROVE  InDocument(k, i) \in Nat
BY DocumentType DEF InDocument, Document

(* The documents after an upsert.                                            *)
LEMMA AfterUpsert ==
  ASSUME DocsTyped, NEW c, docs' = Counted(c), NEW key, key = KeyOf(c)
  PROVE  /\ DOMAIN docs' = DOMAIN docs \cup {key}
         /\ \A k \in DOMAIN docs' : k # key => docs'[k] = docs[k]
         /\ IsABag(docs'[key])
         /\ DOMAIN docs'[key] = DOMAIN Document(key) \cup Items(c)
         /\ \A i : (IF i \in DOMAIN docs'[key] THEN docs'[key][i] ELSE 0) =
              (IF key \in DOMAIN docs THEN InDocument(key, i) ELSE 0)
              + IF i \in Items(c) THEN 1 ELSE 0
<1> DEFINE I == Items(c)
           D == Document(key)
<1>1. docs' = [k \in DOMAIN docs \cup {key} |-> IF k = key THEN Document(k) (+) SetToBag(I) ELSE docs[k]]
  BY DEF Counted
<1>2. IsABag(D)
  BY DocumentType
<1>3. /\ DOMAIN docs' = DOMAIN docs \cup {key}
      /\ \A k \in DOMAIN docs' : k # key => docs'[k] = docs[k]
      /\ docs'[key] = D (+) SetToBag(I)
  BY <1>1
<1> HIDE DEF I, D
<1>4. /\ IsABag(docs'[key]) /\ DOMAIN docs'[key] = DOMAIN D \cup I
      /\ \A e \in DOMAIN D \cup I :
           docs'[key][e] = (IF e \in DOMAIN D THEN D[e] ELSE 0) + IF e \in I THEN 1 ELSE 0
  BY <1>2, <1>3, BagPlus
<1>5. ASSUME NEW i
      PROVE  (IF i \in DOMAIN docs'[key] THEN docs'[key][i] ELSE 0) =
             (IF key \in DOMAIN docs THEN InDocument(key, i) ELSE 0) + IF i \in I THEN 1 ELSE 0
  <2>1. (IF key \in DOMAIN docs THEN InDocument(key, i) ELSE 0) = IF i \in DOMAIN D THEN D[i] ELSE 0
    BY NoBag DEF InDocument, D, Document
  <2>2. i \in DOMAIN D => D[i] \in Nat
    BY DocumentType DEF D
  <2> QED
    BY <1>4, <2>1, <2>2
<1> QED
  BY <1>3, <1>4, <1>5 DEF I, D

(* An upsert adds one copy of each record of its group to its collection.    *)
LEMMA OneMore ==
  ASSUME DocsTyped, NEW c, docs' = Counted(c), NEW coll, NEW i
  PROVE  IF i \in Items(c) /\ coll = call[c].coll
         THEN \E e : Copies(coll, i)' = Copies(coll, i) \cup {e}
         ELSE Copies(coll, i)' = Copies(coll, i)
<1> PICK key : key = KeyOf(c)
  OBVIOUS
<1> DEFINE C == Copies(coll, i)
           old == IF key \in DOMAIN docs THEN InDocument(key, i) ELSE 0
           one == IF i \in Items(c) THEN 1 ELSE 0
<1>1. key[1] = call[c].coll
  BY DEF KeyOf
<1>2. /\ DOMAIN docs' = DOMAIN docs \cup {key}
      /\ \A k \in DOMAIN docs' : k # key => docs'[k] = docs[k]
      /\ InDocument(key, i)' = old + one
  <2>1. /\ DOMAIN docs' = DOMAIN docs \cup {key}
        /\ \A k \in DOMAIN docs' : k # key => docs'[k] = docs[k]
        /\ (IF i \in DOMAIN docs'[key] THEN docs'[key][i] ELSE 0) = old + one
    BY AfterUpsert
  <2>2. InDocument(key, i)' = old + one
    BY <2>1 DEF InDocument
  <2> QED
    BY <2>1, <2>2
<1>3. old \in Nat
  BY InDocumentType
<1>4. ASSUME NEW k \in DOMAIN docs, k # key
      PROVE  InDocument(k, i)' = InDocument(k, i)
  BY <1>2, <1>4 DEF InDocument
<1>5. /\ \A k, j : <<k, j>> \in C <=> k \in DOMAIN docs /\ k[1] = coll /\ j \in 1 .. InDocument(k, i)
      /\ \A p \in C : p = <<p[1], p[2]>>
  BY CopiesPairs
<1>6. \A k, j : <<k, j>> \in C' <=> k \in DOMAIN docs' /\ k[1] = coll /\ j \in 1 .. InDocument(k, i)'
  BY DEF Copies
<1>7. \A p \in C' : p = <<p[1], p[2]>>
  BY DEF Copies
<1>8. \A k, j : <<k, j>> \in C' <=>
        <<k, j>> \in C \/ (k = key /\ coll = call[c].coll /\ j \in 1 .. old + one /\ ~(j \in 1 .. old))
  <2> TAKE k, j
  <2>1. CASE k = key
    <3>1. <<k, j>> \in C <=> key[1] = coll /\ j \in 1 .. old
      <4> HIDE DEF C
      <4> QED
        BY <1>3, <1>5, <2>1
    <3>2. <<k, j>> \in C' <=> key[1] = coll /\ j \in 1 .. old + one
      BY <1>2, <1>6, <2>1
    <3> HIDE DEF C, old
    <3>3. j \in 1 .. old => j \in 1 .. old + one
      BY <1>3
    <3> QED
      BY <1>1, <2>1, <3>1, <3>2, <3>3
  <2>2. CASE k # key
    <3> HIDE DEF C
    <3> QED
      BY <1>2, <1>4, <1>5, <1>6, <2>2
  <2> QED
    BY <2>1, <2>2
<1> HIDE DEF C, old
<1>9. CASE i \in Items(c) /\ coll = call[c].coll
  <2>0. \A j : (j \in 1 .. old + one /\ ~(j \in 1 .. old)) <=> j = old + 1
    BY <1>3, <1>9
  <2>1. \A k, j : <<k, j>> \in C' <=> <<k, j>> \in C \cup {<<key, old + 1>>}
    <3> TAKE k, j
    <3> HIDE DEF one
    <3>1. <<k, j>> = <<key, old + 1>> <=> k = key /\ j = old + 1
      OBVIOUS
    <3>2. <<k, j>> \in C' <=> <<k, j>> \in C \/ (k = key /\ j = old + 1)
      BY <1>8, <1>9, <2>0
    <3> QED
      BY <3>1, <3>2
  <2>2. C' = C \cup {<<key, old + 1>>}
    BY <1>5, <1>7, <2>1
  <2> QED
    BY <1>9, <2>2 DEF C
<1>10. CASE ~(i \in Items(c) /\ coll = call[c].coll)
  <2>0. coll = call[c].coll => \A j : ~(j \in 1 .. old + one /\ ~(j \in 1 .. old))
    BY <1>3, <1>10
  <2>1. \A k, j : <<k, j>> \in C' <=> <<k, j>> \in C
    <3> HIDE DEF one
    <3> QED
      BY <1>8, <2>0
  <2>2. C' = C
    BY <1>5, <1>7, <2>1
  <2> QED
    BY <1>10, <2>2 DEF C
<1> QED
  BY <1>9, <1>10

(* No document counts what is in no slice.                                   *)
LEMMA NoCopies ==
  ASSUME DocsTyped, NEW coll, NEW i, i \notin Item
  PROVE  Copies(coll, i) = {}
<1>1. \A k \in DOMAIN docs : InDocument(k, i) = 0
  BY DEF DocsTyped, InDocument, BagToSet
<1>2. \A p \in Copies(coll, i) : FALSE
  BY <1>1, CopiesPairs
<1> QED
  BY <1>2

LEMMA SameCopies ==
  ASSUME UNCHANGED docs, NEW coll, NEW i
  PROVE  Copies(coll, i)' = Copies(coll, i)
BY DEF Copies, InDocument

-----------------------------------------------------------------------------
(* A step of one call leaves the others alone.                               *)

LEMMA GroupsSame ==
  ASSUME NEW d, GroupsOf(d), call'[d] = call[d], groups'[d] = groups[d], slice'[d] = slice[d]
  PROVE  GroupsOf(d)'
BY DEF GroupsOf, Reached

LEMMA CopiesSame ==
  ASSUME NEW d, NEW n, NEW coll, CopiesOf(d, n, coll),
         call'[d] = call[d], slice'[d] = slice[d], heals'[d] = heals[d], mixed' = mixed,
         Copies(coll, <<d, n>>)' = Copies(coll, <<d, n>>)
  PROVE  CopiesOf(d, n, coll)'
<1>1. Past(d, n, coll)' = Past(d, n, coll) /\ Returned(d)' = Returned(d) /\ At(d, "nil")' = At(d, "nil")
  BY DEF Past, Pending, Reached, Returned, At
<1> QED
  BY <1>1 DEF CopiesOf

(* What a step of call c has to keep, for IInv to be kept.                   *)
StepOf(c) ==
  /\ UNCHANGED <<config, slice, loop>>
  /\ call' \in [Call -> Calls] /\ groups' \in [Call -> [Org -> Groups]] /\ heals' \in [Call -> Nat]
  /\ \A d \in Call \ {c} : call'[d] = call[d] /\ groups'[d] = groups[d] /\ heals'[d] = heals[d]
  /\ failed' \in {failed, failed \cup {c}} /\ faults' \in 0 .. MaxFaults
  /\ aggTime' \in 1 .. aggTime /\ last' \in Time \cup {Unset}
  /\ call'[c].at # "none" /\ call'[c].pos <= Len(slice[c])
  /\ heals'[c] + aggTime' <= Hour

LEMMA StepFrame ==
  ASSUME IInv, NEW c \in Call, ~At(c, "none"), StepOf(c),
         DOMAIN docs' \subseteq Key, DocsTyped',
         \A d \in Call \ {c} : \A n \in DOMAIN slice[d], coll \in Coll :
           Copies(coll, <<d, n>>)' = Copies(coll, <<d, n>>),
         GroupsOf(c)', ErrorOf(c)',
         \A n \in DOMAIN slice[c], coll \in Coll : CopiesOf(c, n, coll)'
  PROVE  IInv'
<1> USE DEF StepOf
<1>1. /\ mixed' = mixed /\ healing' = healing /\ slice' = slice
      /\ over' = over /\ main' = main /\ next' = next
  BY DEF config, loop
<1>2. /\ aggTime \in 1 .. Hour /\ slice \in [Call -> Seq(Record)]
      /\ heals \in [Call -> 0 .. Hour] /\ HealBound
      /\ \A d \in Call : call[d].pos \in 0 .. Len(slice[d])
  BY DEF IInv, TypeOK, Shapes
<1>3. GroupsFollow'
  <2> SUFFICES ASSUME NEW d \in Call
               PROVE  GroupsOf(d)'
    BY DEF GroupsFollow
  <2>1. CASE d # c
    BY <1>1, <2>1, GroupsSame DEF IInv, GroupsFollow
  <2> QED
    BY <2>1
<1>4. CopiesFollow'
  <2> SUFFICES ASSUME NEW d \in Call, NEW n \in DOMAIN slice[d], NEW coll \in Coll
               PROVE  CopiesOf(d, n, coll)'
    BY <1>1 DEF CopiesFollow
  <2>1. CASE d # c
    <3>1. CopiesOf(d, n, coll) /\ Copies(coll, <<d, n>>)' = Copies(coll, <<d, n>>)
      BY <2>1 DEF IInv, CopiesFollow
    <3> QED
      BY <1>1, <2>1, <3>1, CopiesSame
  <2> QED
    BY <2>1
<1>5. ErrorMeans'
  <2> SUFFICES ASSUME NEW d \in Call
               PROVE  ErrorOf(d)'
    BY DEF ErrorMeans
  <2>1. CASE d # c
    <3>1. failed \subseteq failed' /\ (aggTime = 1 => aggTime' = 1)
      BY <1>2, MongoAggregateAssumption
    <3>2. ErrorOf(d) /\ call'[d] = call[d]
      BY <2>1 DEF IInv, ErrorMeans
    <3> QED
      BY <1>1, <3>1, <3>2 DEF ErrorOf, At
  <2> QED
    BY <2>1
<1>6. HealBound'
  <2> SUFFICES ASSUME NEW d \in Call
               PROVE  heals'[d] + aggTime' <= Hour
    BY DEF HealBound
  <2>1. CASE d # c
    <3>1. heals'[d] = heals[d] /\ heals[d] + aggTime <= Hour /\ heals[d] \in 0 .. Hour
      BY <1>2, <2>1 DEF HealBound
    <3> QED
      BY <1>2, <3>1, MongoAggregateAssumption
  <2> QED
    BY <2>1
<1>7. Shapes'
  <2>1. \A d \in Call : call'[d].at = "none" => call'[d] = call[d] /\ groups'[d] = groups[d]
    OBVIOUS
  <2>2. call'[c].at # "none" /\ ~(c > next)
    BY DEF IInv, Shapes
  <2>3. ASSUME NEW d \in Call
        PROVE  /\ d > next' => At(d, "none")'
               /\ At(d, "none")' => slice'[d] = <<>> /\ call'[d].pos = 0 /\ groups'[d] = Reset'
    BY <1>1, <2>1, <2>2 DEF IInv, Shapes, At, Reset
  <2>4. config' \in BOOLEAN \X BOOLEAN \X BOOLEAN /\ (main' = "writing" => next' # 0)
    BY <1>1 DEF IInv, Shapes
  <2>5. slice' \in [Call -> Seq(Record)]
    BY <1>1, <1>2
  <2> QED
    BY <2>3, <2>4, <2>5 DEF Shapes
<1>8. TypeOK'
  <2>1. /\ aggTime' \in 1 .. Hour /\ last' \in (Time \cup {Unset})'
        /\ over' \subseteq 1 .. next' /\ main' \in {"idle", "writing"} /\ next' \in Call \cup {0}
        /\ failed' \subseteq Call /\ faults' \in 0 .. MaxFaults
    BY <1>1, <1>2, MongoAggregateAssumption DEF IInv, TypeOK, Time
  <2>2. heals' \in [Call -> 0 .. Hour]
    <3>1. ASSUME NEW d \in Call
          PROVE  heals'[d] \in 0 .. Hour
      <4>1. heals'[d] \in Nat /\ heals'[d] + aggTime' <= Hour /\ aggTime' \in 1 .. Hour
        BY <1>6, <2>1 DEF HealBound
      <4> QED
        BY <4>1, MongoAggregateAssumption
    <3> QED
      BY <3>1
  <2>3. ASSUME NEW d \in Call
        PROVE  /\ slice'[d] \in Seq(Record)
               /\ call'[d].at \in {"none", "aggregate", "group", "upsert", "average", "nil", "error"}
               /\ call'[d].pos \in 0 .. Len(slice'[d])
               /\ call'[d].todo \subseteq Org
               /\ call'[d].org \in Org \cup {NoOrg}
               /\ call'[d].coll \in Coll
               /\ \A o \in Org : groups'[d][o].ts \in Nat \cup {Unset}
                                 /\ groups'[d][o].members \subseteq 1 .. call'[d].pos
    <3>1. call'[d] \in Calls /\ slice'[d] \in Seq(Record) /\ \A o \in Org : groups'[d][o] \in Groups
      BY <1>1, <1>2
    <3>2. call'[d].pos <= Len(slice'[d])
      <4>1. CASE d # c
        <5>1. call[d].pos \in 0 .. Len(slice[d]) /\ call'[d] = call[d] /\ Len(slice[d]) \in Nat
          BY <1>2, <4>1
        <5> HIDE DEF StepOf
        <5> QED
          BY <1>1, <5>1
      <4> QED
        BY <1>1, <4>1
    <3>3. ASSUME NEW o \in Org
          PROVE  groups'[d][o].members \subseteq 1 .. call'[d].pos
      <4>1. groups'[d][o].members \subseteq Nat
        BY <3>1 DEF Groups
      <4>2. \A n \in Nat : n \in groups'[d][o].members => n \in 1 .. call'[d].pos
        BY <1>3 DEF GroupsFollow, GroupsOf
      <4> QED
        BY <4>1, <4>2
    <3> QED
      BY <3>1, <3>2, <3>3 DEF Calls, Where, Groups
  <2>4. \A k \in DOMAIN docs' : IsABag(docs'[k]) /\ BagToSet(docs'[k]) \subseteq Item'
    BY DEF DocsTyped
  <2>5. DOMAIN docs' \subseteq Key'
    BY DEF Key, Coll
  <2> HIDE DEF StepOf
  <2> QED
    BY <2>1, <2>2, <2>3, <2>4, <2>5 DEF TypeOK, Coll
<1> QED
  BY <1>3, <1>4, <1>5, <1>6, <1>7, <1>8 DEF IInv

-----------------------------------------------------------------------------
(* The steps of WriteData.                                                   *)

LEMMA CallFacts ==
  ASSUME IInv, NEW c \in Call
  PROVE  /\ call[c] \in Calls /\ groups[c] \in [Org -> Groups] /\ heals[c] \in Nat
         /\ slice[c] \in Seq(Record) /\ Len(slice[c]) \in Nat /\ DOMAIN slice[c] = 1 .. Len(slice[c])
         /\ call[c].pos \in 0 .. Len(slice[c])
         /\ \A n \in 1 .. Len(slice[c]) :
              /\ slice[c][n] \in Record /\ slice[c][n].time \in Time /\ slice[c][n].time \in Nat
              /\ slice[c][n].org \in Org \cup {NoOrg}
         /\ GroupsOf(c) /\ ErrorOf(c)
         /\ \A n \in DOMAIN slice[c], coll \in Coll : CopiesOf(c, n, coll)
<1>1. /\ call[c] \in Calls /\ groups[c] \in [Org -> Groups] /\ heals[c] \in Nat
      /\ slice[c] \in Seq(Record) /\ call[c].pos \in 0 .. Len(slice[c])
  BY DEF IInv, TypeOK, Shapes
<1>2. Len(slice[c]) \in Nat /\ DOMAIN slice[c] = 1 .. Len(slice[c])
  BY <1>1
<1>3. ASSUME NEW n \in 1 .. Len(slice[c])
      PROVE  /\ slice[c][n] \in Record /\ slice[c][n].time \in Time /\ slice[c][n].time \in Nat
             /\ slice[c][n].org \in Org \cup {NoOrg}
  <2>1. slice[c][n] \in Record
    BY <1>1, <1>2
  <2> QED
    BY <2>1, MongoAggregateAssumption DEF Time
<1> QED
  BY <1>1, <1>2, <1>3 DEF IInv, GroupsFollow, ErrorMeans, CopiesFollow

LEMMA CommonFacts ==
  ASSUME IInv
  PROVE  /\ aggTime \in 1 .. Hour /\ Hour \in Nat \ {0} /\ last \in Time \cup {Unset}
         /\ call \in [Call -> Calls] /\ groups \in [Call -> [Org -> Groups]] /\ heals \in [Call -> Nat]
         /\ faults \in 0 .. MaxFaults /\ DOMAIN docs \subseteq Key /\ DocsTyped
         /\ Time \subseteq Nat /\ NoOrg \notin Org
         /\ \A c \in Call : heals[c] + aggTime <= Hour
<1>1. Time \subseteq Nat
  BY MongoAggregateAssumption DEF Time
<1> QED
  BY <1>1, MongoAggregateAssumption DEF IInv, TypeOK, Shapes, HealBound, DocsTyped

LEMMA CopiesKept ==
  ASSUME NEW c, NEW n, NEW coll, CopiesOf(c, n, coll),
         slice'[c] = slice[c], mixed' = mixed, Copies(coll, <<c, n>>)' = Copies(coll, <<c, n>>),
         heals[c] \in Nat, heals'[c] \in Nat, heals[c] <= heals'[c],
         Past(c, n, coll) \/ Returned(c) => Past(c, n, coll)' \/ Returned(c)' \/ heals[c] < heals'[c],
         slice[c][n].org \in Org /\ (coll = "own" \/ mixed) /\ (Past(c, n, coll)' \/ At(c, "nil")') =>
           Past(c, n, coll) \/ At(c, "nil")
  PROVE  CopiesOf(c, n, coll)'
<1> DEFINE C == Copies(coll, <<c, n>>)
<1>1. IsFiniteSet(C) /\ C' = C /\ Cardinality(C) \in Nat
  BY FS_CardinalityType DEF CopiesOf
<1>2. Cardinality(C) <= heals'[c] + IF Past(c, n, coll)' \/ Returned(c)' THEN 1 ELSE 0
  <2>1. Cardinality(C) <= heals[c] + IF Past(c, n, coll) \/ Returned(c) THEN 1 ELSE 0
    BY DEF CopiesOf
  <2> HIDE DEF C
  <2> QED
    BY <1>1, <2>1
<1> QED
  BY <1>1, <1>2 DEF CopiesOf

(* Docs and slices stay: so do the copies.                                   *)
LEMMA DocsKept ==
  ASSUME IInv, UNCHANGED <<docs, slice>>
  PROVE  /\ DOMAIN docs' \subseteq Key /\ DocsTyped'
         /\ \A coll, i : Copies(coll, i)' = Copies(coll, i)
<1>1. DocsTyped'
  BY CommonFacts DEF DocsTyped, Item
<1> QED
  BY <1>1, CommonFacts, SameCopies

LEMMA DocTimeType ==
  ASSUME IInv, NEW t \in Time
  PROVE  DocTime(t) \in Nat /\ (aggTime # Hour => DocTime(t) \in Time)
<1>1. /\ t \in Nat /\ Hour \in Nat \ {0} /\ aggTime \in 1 .. Hour /\ last \in Time \cup {Unset}
      /\ Time \subseteq Nat
  BY CommonFacts
<1>2. HourOf(t) \in Nat
  <2> DEFINE q == t \div Hour
             r == t % Hour
  <2>1. q \in Int /\ r \in 0 .. Hour - 1 /\ t = Hour * q + r
    BY <1>1, Quotient
  <2>2. (q <= -1 => Hour * q <= -Hour) /\ Hour * q \in Int
    BY <1>1, <2>1, Multiples
  <2>3. q >= 0 => Hour * q >= 0
    BY <1>1, <2>1
  <2> HIDE DEF q, r
  <2>4. t - r >= 0
    BY <1>1, <2>1, <2>2, <2>3
  <2> QED
    BY <1>1, <2>1, <2>4 DEF HourOf, r
<1>3. Remembered(t) \in Time
  BY <1>1 DEF Remembered
<1> QED
  BY <1>1, <1>2, <1>3 DEF DocTime

LEMMA AggregateStep ==
  ASSUME IInv, NEW c \in Call, Aggregate(c)
  PROVE  IInv'
<1> DEFINE n == call[c].pos + 1
           r == slice[c][n]
<1>1. /\ At(c, "aggregate") /\ call[c].pos < Len(slice[c])
      /\ call' = [call EXCEPT ![c].pos = n]
      /\ UNCHANGED <<config, aggTime, docs, slice, heals, failed, loop, faults>>
  BY DEF Aggregate
<1>2. call[c].pos \in 0 .. Len(slice[c]) /\ n \in 1 .. Len(slice[c]) /\ n \in Nat
  BY <1>1, CallFacts
<1>3. r.org \in Org \cup {NoOrg} /\ r.time \in Time
  BY <1>2, CallFacts
<1> HIDE DEF r
<1>4. \/ r.org = NoOrg /\ UNCHANGED <<groups, last>>
      \/ /\ r.org # NoOrg /\ groups[c][r.org].members = {}
         /\ groups' = [groups EXCEPT ![c][r.org] = [ts |-> DocTime(r.time), members |-> {n}]]
         /\ last' = IF aggTime = Hour THEN last ELSE DocTime(r.time)
      \/ /\ r.org # NoOrg /\ groups[c][r.org].members # {}
         /\ groups' = [groups EXCEPT ![c][r.org].members = @ \cup {n}]
         /\ UNCHANGED last
  BY DEF Aggregate, r
<1>5. /\ DocTime(r.time) \in Nat /\ (aggTime # Hour => DocTime(r.time) \in Time)
  BY <1>3, DocTimeType
<1>6. /\ call' \in [Call -> Calls] /\ call'[c] = [call[c] EXCEPT !.pos = n]
      /\ \A d \in Call \ {c} : call'[d] = call[d]
  <2>1. call \in [Call -> Calls] /\ [call[c] EXCEPT !.pos = n] \in Calls
    BY <1>2, CallFacts, CommonFacts DEF Calls
  <2> QED
    BY <1>1, <2>1
<1>7. /\ groups' \in [Call -> [Org -> Groups]]
      /\ \A d \in Call \ {c} : groups'[d] = groups[d]
      /\ \A o \in Org : groups'[c][o].members =
           IF o = r.org THEN groups[c][o].members \cup {n} ELSE groups[c][o].members
      /\ \A o \in Org : groups'[c][o].members # {} => groups'[c][o].ts \in Nat
  <2>1. groups \in [Call -> [Org -> Groups]] /\ NoOrg \notin Org
    BY CommonFacts
  <2>2. \A o \in Org : groups[c][o].members # {} => groups[c][o].ts \in Nat
    BY CallFacts DEF GroupsOf
  <2>3. CASE r.org = NoOrg
    BY <1>4, <2>1, <2>2, <2>3
  <2>4. CASE /\ r.org # NoOrg /\ groups[c][r.org].members = {}
             /\ groups' = [groups EXCEPT ![c][r.org] = [ts |-> DocTime(r.time), members |-> {n}]]
    <3>1. [ts |-> DocTime(r.time), members |-> {n}] \in Groups /\ r.org \in Org
      BY <1>2, <1>3, <1>5, <2>4 DEF Groups
    <3> QED
      BY <1>5, <2>1, <2>2, <2>4, <3>1
  <2>5. CASE /\ r.org # NoOrg /\ groups[c][r.org].members # {}
             /\ groups' = [groups EXCEPT ![c][r.org].members = @ \cup {n}]
    <3>1. r.org \in Org /\ groups[c][r.org] \in Groups /\ groups[c][r.org].ts \in Nat
      BY <1>3, <2>1, <2>2, <2>5
    <3>2. /\ [groups[c][r.org] EXCEPT !.members = @ \cup {n}] \in Groups
          /\ [groups[c][r.org] EXCEPT !.members = @ \cup {n}].members = groups[c][r.org].members \cup {n}
          /\ [groups[c][r.org] EXCEPT !.members = @ \cup {n}].ts = groups[c][r.org].ts
      BY <1>2, <3>1 DEF Groups
    <3> QED
      BY <2>1, <2>2, <2>5, <3>1, <3>2
  <2> QED
    BY <1>4, <2>3, <2>4, <2>5
<1>8. /\ call'[c].pos = n /\ call'[c].at = "aggregate" /\ call[c].at = "aggregate"
  <2>1. call[c] \in Calls
    BY CallFacts
  <2> QED
    BY <1>1, <1>6, <2>1 DEF Calls, At
<1>9. last' \in Time \cup {Unset}
  BY <1>4, <1>5, CommonFacts
<1>10. StepOf(c)
  <2>1. aggTime' \in 1 .. aggTime /\ heals'[c] + aggTime' <= Hour
    BY <1>1, CommonFacts
  <2>2. /\ failed' = failed /\ faults' \in 0 .. MaxFaults /\ heals' \in [Call -> Nat]
        /\ \A d \in Call \ {c} : heals'[d] = heals[d]
    BY <1>1, CommonFacts
  <2>3. call'[c].at # "none" /\ call'[c].pos <= Len(slice[c])
    BY <1>2, <1>8
  <2> QED
    BY <1>1, <1>6, <1>7, <1>9, <2>1, <2>2, <2>3 DEF StepOf
<1>11. GroupsOf(c)'
  <2>1. ASSUME NEW o \in Org, NEW m \in Nat
        PROVE  m \in groups'[c][o].members <=> m \in 1 .. call'[c].pos /\ slice'[c][m].org = o
    <3>1. m \in groups[c][o].members <=> m \in 1 .. call[c].pos /\ slice[c][m].org = o
      BY CallFacts DEF GroupsOf
    <3>2. m \in 1 .. n <=> m \in 1 .. call[c].pos \/ m = n
      BY <1>2
    <3>3. m \in groups'[c][o].members <=> m \in groups[c][o].members \/ (o = r.org /\ m = n)
      BY <1>7
    <3>4. m = n => slice[c][m].org = r.org
      BY DEF r
    <3> QED
      BY <1>1, <1>8, <3>1, <3>2, <3>3, <3>4
  <2> QED
    BY <1>7, <1>8, <2>1 DEF GroupsOf, Reached
<1>12. ErrorOf(c)'
  BY <1>8 DEF ErrorOf, At
<1>13. ASSUME NEW m \in DOMAIN slice[c], NEW coll \in Coll
       PROVE  CopiesOf(c, m, coll)'
  <2>1. /\ ~Past(c, m, coll) /\ ~Past(c, m, coll)' /\ ~Returned(c) /\ ~At(c, "nil")'
    BY <1>8 DEF Past, Reached, Returned, At
  <2>2. Copies(coll, <<c, m>>)' = Copies(coll, <<c, m>>)
    BY <1>1, SameCopies
  <2>3. CopiesOf(c, m, coll) /\ heals[c] \in Nat
    BY CallFacts
  <2> QED
    BY <1>1, <2>1, <2>2, <2>3, CopiesKept DEF config
<1> QED
  BY <1>1, <1>8, <1>10, <1>11, <1>12, <1>13, StepFrame, DocsKept DEF At

(* A step that goes on with another call[c], and leaves the rest.            *)
LEMMA CallOnly ==
  ASSUME IInv, NEW c \in Call, ~At(c, "none"),
         NEW rec \in Calls, call' = [call EXCEPT ![c] = rec],
         rec.at # "none", rec.pos = call[c].pos,
         UNCHANGED <<config, aggTime, last, docs, slice, groups, heals, failed, loop, faults>>,
         GroupsOf(c)', ErrorOf(c)',
         \A n \in DOMAIN slice[c], coll \in Coll :
           /\ Past(c, n, coll) \/ Returned(c) => Past(c, n, coll)' \/ Returned(c)'
           /\ slice[c][n].org \in Org /\ (coll = "own" \/ mixed) /\ (Past(c, n, coll)' \/ At(c, "nil")') =>
                Past(c, n, coll) \/ At(c, "nil")
  PROVE  IInv'
<1>1. call' \in [Call -> Calls] /\ call'[c] = rec /\ \A d \in Call \ {c} : call'[d] = call[d]
  BY CommonFacts
<1>2. StepOf(c)
  <2>1. aggTime' \in 1 .. aggTime /\ heals'[c] + aggTime' <= Hour /\ faults' \in 0 .. MaxFaults
        /\ last' \in Time \cup {Unset}
    BY CommonFacts
  <2>2. groups' \in [Call -> [Org -> Groups]] /\ heals' \in [Call -> Nat]
    BY CommonFacts
  <2>3. call'[c].at # "none" /\ call'[c].pos <= Len(slice[c])
    BY <1>1, CallFacts
  <2> QED
    BY <1>1, <2>1, <2>2, <2>3 DEF StepOf
<1>3. ASSUME NEW n \in DOMAIN slice[c], NEW coll \in Coll
      PROVE  CopiesOf(c, n, coll)'
  <2>1. Copies(coll, <<c, n>>)' = Copies(coll, <<c, n>>)
    BY SameCopies
  <2>2. CopiesOf(c, n, coll) /\ heals[c] \in Nat /\ heals'[c] = heals[c] /\ mixed' = mixed
    BY CallFacts DEF config
  <2> QED
    BY <2>1, <2>2, CopiesKept
<1> QED
  BY <1>2, <1>3, StepFrame, DocsKept

LEMMA AggregatedStep ==
  ASSUME IInv, NEW c \in Call, Aggregated(c)
  PROVE  IInv'
<1> DEFINE T == {o \in Org : groups[c][o].members # {}}
           rec == [call[c] EXCEPT !.at = "group", !.todo = T]
<1>1. /\ At(c, "aggregate") /\ call[c].pos = Len(slice[c])
      /\ call' = [call EXCEPT ![c] = rec]
      /\ UNCHANGED <<config, aggTime, last, docs, slice, groups, heals, failed, loop, faults>>
  BY DEF Aggregated
<1>2. /\ rec \in Calls /\ rec.at = "group" /\ rec.todo = T /\ rec.pos = call[c].pos
      /\ call[c].at = "aggregate" /\ call'[c] = rec
  BY <1>1, CallFacts, CommonFacts DEF Calls, Where, At
<1> HIDE DEF rec
<1>3. GroupsOf(c)'
  <2>1. GroupsOf(c)
    BY CallFacts
  <2> QED
    BY <1>1, <1>2, <2>1 DEF GroupsOf, Reached
<1>4. ErrorOf(c)' /\ ~At(c, "none") /\ ~Returned(c) /\ ~At(c, "nil")'
  BY <1>2 DEF ErrorOf, At, Returned
<1>5. ASSUME NEW n \in DOMAIN slice[c], NEW coll \in Coll
      PROVE  ~Past(c, n, coll) /\ ~Past(c, n, coll)'
  <2>1. ~Past(c, n, coll)
    BY <1>2 DEF Past, Reached
  <2>2. slice[c][n].org \in Org => slice[c][n].org \in T
    <3>1. n \in Nat /\ n \in 1 .. call[c].pos
      BY <1>1, CallFacts
    <3> QED
      BY <3>1, CallFacts DEF GroupsOf
  <2>3. ~Past(c, n, coll)'
    BY <1>1, <1>2, <2>2 DEF Past, Pending
  <2> QED
    BY <2>1, <2>3
<1> QED
  BY <1>1, <1>2, <1>3, <1>4, <1>5, CallOnly

LEMMA NextGroupStep ==
  ASSUME IInv, NEW c \in Call, NextGroup(c)
  PROVE  IInv'
<1>1. PICK p \in call[c].todo :
        call' = [call EXCEPT ![c].at = "upsert", ![c].org = p, ![c].coll = "own", ![c].todo = @ \ {p}]
  BY DEF NextGroup
<1> DEFINE rec == [call[c] EXCEPT !.at = "upsert", !.org = p, !.coll = "own", !.todo = @ \ {p}]
<1>2. /\ At(c, "group")
      /\ call' = [call EXCEPT ![c] = rec]
      /\ UNCHANGED <<config, aggTime, last, docs, slice, groups, heals, failed, loop, faults>>
  BY <1>1 DEF NextGroup
<1>3. /\ rec \in Calls /\ rec.at = "upsert" /\ rec.todo = call[c].todo \ {p} /\ rec.pos = call[c].pos
      /\ rec.org = p /\ rec.coll = "own" /\ p \in Org
      /\ call[c].at = "group" /\ call'[c] = rec
  BY <1>1, <1>2, CallFacts, CommonFacts DEF Calls, Where, At, Coll
<1> HIDE DEF rec
<1>4. GroupsOf(c)'
  <2>1. GroupsOf(c)
    BY CallFacts
  <2> QED
    BY <1>1, <1>2, <1>3, <2>1 DEF GroupsOf, Reached
<1>5. ErrorOf(c)' /\ ~At(c, "none") /\ ~Returned(c) /\ ~At(c, "nil")'
  BY <1>3 DEF ErrorOf, At, Returned
<1>6. ASSUME NEW n \in DOMAIN slice[c], NEW coll \in Coll
      PROVE  Past(c, n, coll)' <=> Past(c, n, coll)
  BY <1>1, <1>2, <1>3 DEF Past, Pending, Reached, At, Coll
<1> QED
  BY <1>2, <1>3, <1>4, <1>5, <1>6, CallOnly

LEMMA ReturnStep ==
  ASSUME IInv, NEW c \in Call, Return(c)
  PROVE  IInv'
<1> DEFINE rec == [call[c] EXCEPT !.at = "nil"]
<1>1. /\ At(c, "group") /\ call[c].todo = {}
      /\ call' = [call EXCEPT ![c] = rec]
      /\ UNCHANGED <<config, aggTime, last, docs, slice, groups, heals, failed, loop, faults>>
  BY DEF Return, Goes
<1>2. /\ rec \in Calls /\ rec.at = "nil" /\ rec.pos = call[c].pos
      /\ call[c].at = "group" /\ call'[c] = rec
  BY <1>1, CallFacts, CommonFacts DEF Calls, Where, At
<1>3. rec.pos = call[c].pos /\ rec.at = "nil"
  BY <1>2
<1> HIDE DEF rec
<1>4. GroupsOf(c)'
  <2>1. GroupsOf(c)
    BY CallFacts
  <2> QED
    BY <1>1, <1>2, <2>1 DEF GroupsOf, Reached
<1>5. ErrorOf(c)' /\ ~At(c, "none") /\ Returned(c)'
  BY <1>2 DEF ErrorOf, At, Returned
<1>6. ASSUME NEW n \in DOMAIN slice[c], NEW coll \in Coll
      PROVE  slice[c][n].org \in Org => Past(c, n, coll)
  BY <1>1, <1>2 DEF Past, Pending, Reached, At
<1> QED
  BY <1>1, <1>2, <1>4, <1>5, <1>6, CallOnly

LEMMA AvgUpdateStep ==
  ASSUME IInv, NEW c \in Call, AvgUpdate(c)
  PROVE  IInv'
<1> DEFINE more == [call[c] EXCEPT !.at = "upsert", !.coll = "mixed"]
           done == [call[c] EXCEPT !.at = "group"]
           rec  == IF MixedNext(c) THEN more ELSE done
<1>1. /\ At(c, "average")
      /\ call' = [call EXCEPT ![c] = rec]
      /\ UNCHANGED <<config, aggTime, last, docs, slice, groups, heals, failed, loop, faults>>
  BY DEF AvgUpdate
<1>2. /\ rec \in Calls /\ rec.pos = call[c].pos /\ rec.todo = call[c].todo /\ rec.org = call[c].org
      /\ call[c].at = "average" /\ call'[c] = rec
      /\ IF MixedNext(c) THEN rec.at = "upsert" /\ rec.coll = "mixed" ELSE rec.at = "group"
  BY <1>1, CallFacts, CommonFacts DEF Calls, Where, At, Coll
<1> HIDE DEF rec
<1>4. GroupsOf(c)'
  <2>1. GroupsOf(c)
    BY CallFacts
  <2> QED
    BY <1>1, <1>2, <2>1 DEF GroupsOf, Reached
<1>5. ErrorOf(c)' /\ ~At(c, "none") /\ ~Returned(c) /\ ~At(c, "nil")' /\ rec.at # "none"
  BY <1>2 DEF ErrorOf, At, Returned
<1>6. ASSUME NEW n \in DOMAIN slice[c], NEW coll \in Coll
      PROVE  /\ Past(c, n, coll) => Past(c, n, coll)'
             /\ (coll = "own" \/ mixed) /\ Past(c, n, coll)' => Past(c, n, coll)
  <2>1. call[c].coll \in {"own", "mixed"} /\ coll \in {"own", "mixed"}
    BY CallFacts DEF Calls, Coll
  <2> QED
    BY <1>1, <1>2, <2>1 DEF Past, Pending, Reached, At, MixedNext
<1> QED
  BY <1>1, <1>2, <1>4, <1>5, <1>6, CallOnly

LEMMA CannotHealStep ==
  ASSUME IInv, NEW c \in Call, CannotHeal(c)
  PROVE  IInv'
<1> DEFINE rec == [call[c] EXCEPT !.at = "error"]
<1>1. /\ At(c, "upsert") \/ At(c, "average")
      /\ ~CanHeal
      /\ call' = [call EXCEPT ![c] = rec]
      /\ UNCHANGED <<config, aggTime, last, docs, slice, groups, heals, failed, loop, faults>>
  BY DEF CannotHeal, Goes, TooLarge
<1>2. /\ rec \in Calls /\ rec.at = "error" /\ rec.pos = call[c].pos
      /\ call[c].at \in {"upsert", "average"} /\ call'[c] = rec
  BY <1>1, CallFacts, CommonFacts DEF Calls, Where, At
<1> HIDE DEF rec
<1>4. GroupsOf(c)'
  <2>1. GroupsOf(c)
    BY CallFacts
  <2> QED
    BY <1>1, <1>2, <2>1 DEF GroupsOf, Reached
<1>5. ErrorOf(c)' /\ ~At(c, "none") /\ Returned(c)' /\ ~At(c, "nil")' /\ ~Returned(c)
  BY <1>1, <1>2 DEF ErrorOf, At, Returned, CanHeal, config
<1>6. ASSUME NEW n \in DOMAIN slice[c], NEW coll \in Coll
      PROVE  ~Past(c, n, coll)'
  BY <1>2 DEF Past, Reached
<1> QED
  BY <1>1, <1>2, <1>5, <1>4, <1>6, CallOnly

(* What an upsert does to the copies: one more of each record of the group.  *)
LEMMA UpsertDocs ==
  ASSUME IInv, NEW c \in Call, At(c, "upsert"), docs' = Counted(c), slice' = slice
  PROVE  /\ DOMAIN docs' \subseteq Key /\ DocsTyped'
         /\ \A d \in Call \ {c} : \A n \in DOMAIN slice[d], coll \in Coll :
              Copies(coll, <<d, n>>)' = Copies(coll, <<d, n>>)
         /\ \A n \in DOMAIN slice[c], coll \in Coll :
              IF slice[c][n].org = call[c].org /\ coll = call[c].coll
              THEN /\ IsFiniteSet(Copies(coll, <<c, n>>)') /\ Copies(coll, <<c, n>>)' # {}
                   /\ Cardinality(Copies(coll, <<c, n>>)') \in Nat
                   /\ Cardinality(Copies(coll, <<c, n>>)') <= heals[c] + 1
              ELSE Copies(coll, <<c, n>>)' = Copies(coll, <<c, n>>)
<1> DEFINE p == call[c].org
           M == groups[c][p].members
           key == KeyOf(c)
<1>1. /\ p \in Org /\ M # {} /\ groups[c][p].ts \in Nat /\ call[c].coll \in Coll
      /\ M \subseteq Nat /\ \A m \in Nat : m \in M <=> m \in DOMAIN slice[c] /\ slice[c][m].org = p
  <2>1. GroupsOf(c) /\ call[c] \in Calls /\ groups[c] \in [Org -> Groups]
    BY CallFacts
  <2>2. call[c].at = "upsert"
    BY DEF At
  <2>3. /\ p \in Org /\ M # {} /\ call[c].pos = Len(slice[c])
        /\ \A m \in Nat : m \in M <=> m \in 1 .. call[c].pos /\ slice[c][m].org = p
    BY <2>1, <2>2 DEF GroupsOf, Reached
  <2>4. groups[c][p].ts \in Nat
    BY <2>1, <2>3 DEF GroupsOf
  <2>5. groups[c][p] \in Groups /\ call[c].coll \in Coll
    BY <2>1, <2>3 DEF Calls
  <2>6. DOMAIN slice[c] = 1 .. Len(slice[c])
    BY CallFacts
  <2> QED
    BY <2>3, <2>4, <2>5, <2>6 DEF Groups
<1>2. Items(c) = {<<c, n>> : n \in M}
  BY DEF Items
<1>3. key = <<call[c].coll, p, groups[c][p].ts>> /\ key \in Key
  BY <1>1 DEF KeyOf, Key
<1> HIDE DEF M, p, key
<1>4. Items(c) \subseteq Item
  BY <1>1, <1>2 DEF Item
<1>5. DocsTyped /\ DOMAIN docs \subseteq Key
  BY CommonFacts
<1>6. /\ DOMAIN docs' = DOMAIN docs \cup {key}
      /\ \A k \in DOMAIN docs' : k # key => docs'[k] = docs[k]
      /\ IsABag(docs'[key])
      /\ DOMAIN docs'[key] = DOMAIN Document(key) \cup Items(c)
  BY <1>5, AfterUpsert DEF key
<1>7. DOMAIN docs' \subseteq Key /\ DocsTyped'
  <2>1. Item' = Item
    BY DEF Item
  <2>2. DOMAIN Document(key) \subseteq Item
    BY <1>5, DocumentType
  <2> QED
    BY <1>3, <1>4, <1>5, <1>6, <2>1, <2>2 DEF DocsTyped, BagToSet
<1>8. \A d, n : <<d, n>> \in Items(c) <=> d = c /\ n \in M
  BY <1>2
<1>9. ASSUME NEW d \in Call \ {c}, NEW n \in DOMAIN slice[d], NEW coll \in Coll
      PROVE  Copies(coll, <<d, n>>)' = Copies(coll, <<d, n>>)
  BY <1>5, <1>8, OneMore
<1>10. ASSUME NEW n \in DOMAIN slice[c], NEW coll \in Coll
       PROVE  IF slice[c][n].org = p /\ coll = call[c].coll
              THEN /\ IsFiniteSet(Copies(coll, <<c, n>>)') /\ Copies(coll, <<c, n>>)' # {}
                   /\ Cardinality(Copies(coll, <<c, n>>)') \in Nat
                   /\ Cardinality(Copies(coll, <<c, n>>)') <= heals[c] + 1
              ELSE Copies(coll, <<c, n>>)' = Copies(coll, <<c, n>>)
  <2>1. n \in Nat /\ (n \in M <=> slice[c][n].org = p)
    BY <1>1, CallFacts
  <2>2. CASE slice[c][n].org = p /\ coll = call[c].coll
    <3>1. PICK e : Copies(coll, <<c, n>>)' = Copies(coll, <<c, n>>) \cup {e}
      BY <1>5, <1>8, <2>1, <2>2, OneMore
    <3>2. ~Past(c, n, coll) /\ ~Returned(c)
      BY <2>2 DEF Past, Pending, Returned, At, p
    <3> DEFINE C == Copies(coll, <<c, n>>)
    <3>3. IsFiniteSet(C) /\ Cardinality(C) <= heals[c] + 0 /\ heals[c] \in Nat
      BY <3>2, CallFacts DEF CopiesOf
    <3> HIDE DEF C
    <3>4. /\ IsFiniteSet(C \cup {e}) /\ Cardinality(C) \in Nat
          /\ Cardinality(C \cup {e}) \in Nat /\ Cardinality(C \cup {e}) <= Cardinality(C) + 1
      <4>1. Cardinality(C) \in Nat
        BY <3>3, FS_CardinalityType
      <4>2. /\ IsFiniteSet(C \cup {e})
            /\ Cardinality(C \cup {e}) = IF e \in C THEN Cardinality(C) ELSE Cardinality(C) + 1
        BY <3>3, FS_AddElement
      <4> QED
        BY <4>1, <4>2
    <3>5. C' = C \cup {e}
      BY <3>1 DEF C
    <3>6. IsFiniteSet(C') /\ C' # {} /\ Cardinality(C') \in Nat /\ Cardinality(C') <= heals[c] + 1
      BY <3>3, <3>4, <3>5
    <3> QED
      BY <2>2, <3>6 DEF C
  <2>3. CASE ~(slice[c][n].org = p /\ coll = call[c].coll)
    BY <1>5, <1>8, <2>1, <2>3, OneMore
  <2> QED
    BY <2>2, <2>3
<1> QED
  BY <1>7, <1>9, <1>10 DEF p

(* A step that goes on after an upsert that added its counters.              *)
LEMMA UpsertGoesOn ==
  ASSUME IInv, NEW c \in Call, At(c, "upsert"), docs' = Counted(c),
         NEW where \in {"average", "error"}, Goes(c, where),
         UNCHANGED <<config, aggTime, last, slice, groups, heals, loop>>,
         failed' \in {failed, failed \cup {c}}, faults' \in 0 .. MaxFaults,
         where = "error" => c \in failed'
  PROVE  IInv'
<1> DEFINE rec == [call[c] EXCEPT !.at = where]
<1>1. /\ rec \in Calls /\ rec.at = where /\ rec.pos = call[c].pos /\ rec.todo = call[c].todo
      /\ rec.org = call[c].org /\ rec.coll = call[c].coll
      /\ call[c].at = "upsert" /\ call' = [call EXCEPT ![c] = rec]
  BY CallFacts DEF Calls, Where, At, Goes
<1> HIDE DEF rec
<1>2. call' \in [Call -> Calls] /\ call'[c] = rec /\ \A d \in Call \ {c} : call'[d] = call[d]
  BY <1>1, CommonFacts
<1>3. StepOf(c)
  <2>1. /\ aggTime' \in 1 .. aggTime /\ heals'[c] + aggTime' <= Hour /\ last' \in Time \cup {Unset}
        /\ groups' \in [Call -> [Org -> Groups]] /\ heals' \in [Call -> Nat]
    BY CommonFacts
  <2>2. call'[c].at # "none" /\ call'[c].pos <= Len(slice[c])
    BY <1>1, <1>2, CallFacts
  <2> QED
    BY <1>2, <2>1, <2>2 DEF StepOf
<1>4. GroupsOf(c)' /\ ErrorOf(c)'
  <2>1. GroupsOf(c)
    BY CallFacts
  <2>2. GroupsOf(c)'
    BY <1>1, <1>2, <2>1 DEF GroupsOf, Reached
  <2> QED
    BY <1>1, <1>2, <2>2 DEF ErrorOf, At
<1>5. ASSUME NEW n \in DOMAIN slice[c], NEW coll \in Coll
      PROVE  CopiesOf(c, n, coll)'
  <2>1. /\ CopiesOf(c, n, coll) /\ heals[c] \in Nat /\ heals' = heals /\ mixed' = mixed
        /\ call[c].coll \in {"own", "mixed"} /\ coll \in {"own", "mixed"}
    BY CallFacts DEF config, Calls, Coll
  <2>2. CASE slice[c][n].org = call[c].org /\ coll = call[c].coll
    <3>1. /\ IsFiniteSet(Copies(coll, <<c, n>>)') /\ Copies(coll, <<c, n>>)' # {}
          /\ Cardinality(Copies(coll, <<c, n>>)') \in Nat
          /\ Cardinality(Copies(coll, <<c, n>>)') <= heals[c] + 1
      BY <2>2, UpsertDocs
    <3>2. Past(c, n, coll)' \/ Returned(c)'
      <4>1. GroupsOf(c) /\ call[c].at = "upsert"
        BY <1>1, CallFacts
      <4>2. call[c].org \in Org \ call[c].todo
        BY <4>1 DEF GroupsOf, Reached
      <4> QED
        BY <1>1, <1>2, <2>1, <2>2, <4>2 DEF Past, Pending, Reached, Returned, At
    <3> DEFINE C == Copies(coll, <<c, n>>)
    <3>3. IsFiniteSet(C') /\ C' # {} /\ Cardinality(C') <= heals[c] + 1
      BY <3>1
    <3> HIDE DEF C
    <3>4. Cardinality(C') <= heals'[c] + IF Past(c, n, coll)' \/ Returned(c)' THEN 1 ELSE 0
      BY <2>1, <3>2, <3>3
    <3> QED
      BY <3>3, <3>4 DEF CopiesOf, C
  <2>3. CASE ~(slice[c][n].org = call[c].org /\ coll = call[c].coll)
    <3>1. Copies(coll, <<c, n>>)' = Copies(coll, <<c, n>>)
      BY <2>3, UpsertDocs
    <3>2. ~Returned(c) /\ ~At(c, "nil") /\ ~At(c, "nil")' /\ (where = "error" => Returned(c)')
      BY <1>1, <1>2 DEF Returned, At
    <3>3. /\ Past(c, n, coll) => Past(c, n, coll)' \/ where = "error"
          /\ Past(c, n, coll)' => Past(c, n, coll)
      <4>1. GroupsOf(c) /\ call[c].at = "upsert"
        BY <1>1, CallFacts
      <4>2. call[c].org \in Org \ call[c].todo
        BY <4>1 DEF GroupsOf, Reached
      <4> QED
        BY <1>1, <1>2, <2>1, <2>3, <4>2 DEF Past, Pending, Reached, At
    <3> QED
      BY <2>1, <3>1, <3>2, <3>3, CopiesKept
  <2> QED
    BY <2>2, <2>3
<1>6. ~At(c, "none")
  BY DEF At
<1> QED
  BY <1>3, <1>4, <1>5, <1>6, StepFrame, UpsertDocs

LEMMA UpsertStep ==
  ASSUME IInv, NEW c \in Call, Upsert(c)
  PROVE  IInv'
BY UpsertGoesOn, CommonFacts DEF Upsert

LEMMA UpsertFailsStep ==
  ASSUME IInv, NEW c \in Call, UpsertFails(c)
  PROVE  IInv'
<1>1. /\ call[c].at \in {"upsert", "average"}
      /\ failed' = failed \cup {c}
      /\ Goes(c, "error")
      /\ UNCHANGED <<config, aggTime, last, slice, groups, heals, loop>>
  BY DEF UpsertFails
<1>2. faults' \in 0 .. MaxFaults
  BY CommonFacts, MongoAggregateAssumption DEF UpsertFails
<1>3. docs' = docs \/ (At(c, "upsert") /\ docs' = Counted(c))
  BY DEF UpsertFails
<1>4. CASE At(c, "upsert") /\ docs' = Counted(c)
  BY <1>1, <1>2, <1>4, UpsertGoesOn
<1>5. CASE docs' = docs
  <2> DEFINE rec == [call[c] EXCEPT !.at = "error"]
  <2>1. /\ rec \in Calls /\ rec.at = "error" /\ rec.pos = call[c].pos
        /\ call' = [call EXCEPT ![c] = rec]
    BY <1>1, CallFacts DEF Calls, Where, Goes
  <2> HIDE DEF rec
  <2>2. call' \in [Call -> Calls] /\ call'[c] = rec /\ \A d \in Call \ {c} : call'[d] = call[d]
    BY <2>1, CommonFacts
  <2>3. StepOf(c)
    <3>1. /\ aggTime' \in 1 .. aggTime /\ heals'[c] + aggTime' <= Hour /\ last' \in Time \cup {Unset}
          /\ groups' \in [Call -> [Org -> Groups]] /\ heals' \in [Call -> Nat]
      BY <1>1, CommonFacts
    <3>2. call'[c].at # "none" /\ call'[c].pos <= Len(slice[c])
      BY <2>1, <2>2, CallFacts
    <3> QED
      BY <1>1, <1>2, <2>2, <3>1, <3>2 DEF StepOf
  <2>4. GroupsOf(c)' /\ ErrorOf(c)'
    <3>1. GroupsOf(c)
      BY CallFacts
    <3>2. GroupsOf(c)'
      BY <1>1, <2>1, <2>2, <3>1 DEF GroupsOf, Reached
    <3> QED
      BY <1>1, <3>2 DEF ErrorOf
  <2>5. ~At(c, "none") /\ ~At(c, "nil") /\ Returned(c)' /\ ~At(c, "nil")' /\ ~At(c, "group")'
    BY <1>1, <2>1, <2>2 DEF At, Returned
  <2>6. ASSUME NEW n \in DOMAIN slice[c], NEW coll \in Coll
        PROVE  CopiesOf(c, n, coll)'
    <3>1. Copies(coll, <<c, n>>)' = Copies(coll, <<c, n>>)
      BY <1>5, SameCopies
    <3>2. CopiesOf(c, n, coll) /\ heals[c] \in Nat /\ heals' = heals /\ mixed' = mixed
      BY <1>1, CallFacts DEF config
    <3>3. ~Past(c, n, coll)'
      BY <2>1, <2>2 DEF Past, Reached
    <3> QED
      BY <1>1, <2>5, <3>1, <3>2, <3>3, CopiesKept
  <2> QED
    BY <1>1, <1>5, <2>3, <2>4, <2>5, <2>6, StepFrame, DocsKept
<1> QED
  BY <1>3, <1>4, <1>5

LEMMA LessOfTwo ==
  ASSUME NEW x \in Nat, NEW y \in Nat, x <= y
  PROVE  Min({x, y}) = x
BY DEF Min

(* The aggregation time is halved, so a run never exceeds its bound.         *)
LEMMA SelfHealStep ==
  ASSUME IInv, NEW c \in Call, SelfHeal(c)
  PROVE  IInv'
<1> DEFINE rec == [call[c] EXCEPT !.at = "aggregate", !.pos = 0, !.todo = {}]
<1>1. /\ aggTime # 1 /\ aggTime' = Halve /\ last' = Unset
      /\ call' = [call EXCEPT ![c] = rec]
      /\ groups' = [groups EXCEPT ![c] = Reset]
      /\ heals' = [heals EXCEPT ![c] = Min({heals[c] + 1, Hour})]
      /\ UNCHANGED <<config, docs, slice, failed, loop, faults>>
      /\ call[c].at \in {"upsert", "average"}
  BY DEF SelfHeal, CanHeal, TooLarge, At
<1>2. /\ rec \in Calls /\ rec.at = "aggregate" /\ rec.pos = 0
  BY CallFacts DEF Calls, Where
<1> HIDE DEF rec
<1>3. aggTime \in 1 .. Hour /\ aggTime' \in 1 .. aggTime - 1 /\ Hour \in Nat
  <2>1. aggTime \in 1 .. Hour /\ Hour \in Nat
    BY CommonFacts
  <2>2. aggTime' = aggTime \div 2
    BY <1>1 DEF Halve
  <2>3. aggTime \div 2 \in Int /\ (aggTime % 2) \in 0 .. 1 /\ aggTime = 2 * (aggTime \div 2) + (aggTime % 2)
    BY <2>1, Quotient
  <2> QED
    BY <1>1, <2>1, <2>2, <2>3
<1>4. heals'[c] = heals[c] + 1 /\ heals' \in [Call -> Nat] /\ \A d \in Call \ {c} : heals'[d] = heals[d]
  <2>1. heals[c] \in Nat /\ heals[c] + aggTime <= Hour /\ heals \in [Call -> Nat]
    BY CommonFacts, CallFacts
  <2>2. heals[c] + 1 \in Nat /\ heals[c] + 1 <= Hour
    BY <1>3, <2>1
  <2>3. Min({heals[c] + 1, Hour}) = heals[c] + 1
    BY <1>3, <2>2, LessOfTwo
  <2> QED
    BY <1>1, <2>1, <2>2, <2>3
<1>5. /\ call' \in [Call -> Calls] /\ call'[c] = rec
      /\ groups' \in [Call -> [Org -> Groups]] /\ groups'[c] = Reset
      /\ \A d \in Call \ {c} : call'[d] = call[d] /\ groups'[d] = groups[d]
  <2>1. Reset \in [Org -> Groups]
    BY DEF Reset, NoGroup, Groups
  <2> QED
    BY <1>1, <1>2, <2>1, CommonFacts
<1>6. StepOf(c)
  <2>1. aggTime' \in 1 .. aggTime /\ heals'[c] + aggTime' <= Hour
    <3>1. heals[c] + aggTime <= Hour /\ heals[c] \in Nat
      BY CommonFacts, CallFacts
    <3> QED
      BY <1>3, <1>4, <3>1
  <2>2. call'[c].at # "none" /\ call'[c].pos <= Len(slice[c])
    BY <1>2, <1>5, CallFacts
  <2> QED
    BY <1>1, <1>4, <1>5, <2>1, <2>2, CommonFacts DEF StepOf
<1>7. GroupsOf(c)' /\ ErrorOf(c)'
  BY <1>2, <1>5 DEF GroupsOf, ErrorOf, Reached, At, Reset, NoGroup
<1>8. ~At(c, "none") /\ ~Returned(c) /\ ~At(c, "nil")'
  BY <1>1, <1>2, <1>5 DEF At, Returned
<1>9. ASSUME NEW n \in DOMAIN slice[c], NEW coll \in Coll
      PROVE  CopiesOf(c, n, coll)'
  <2>1. Copies(coll, <<c, n>>)' = Copies(coll, <<c, n>>)
    BY <1>1, SameCopies
  <2>2. /\ CopiesOf(c, n, coll) /\ heals[c] \in Nat /\ heals'[c] \in Nat /\ heals[c] < heals'[c]
        /\ heals[c] <= heals'[c] /\ mixed' = mixed
    BY <1>1, <1>4, CallFacts DEF config
  <2>3. ~Past(c, n, coll)'
    BY <1>2, <1>5 DEF Past, Reached
  <2> QED
    BY <1>1, <1>8, <2>1, <2>2, <2>3, CopiesKept
<1> QED
  BY <1>1, <1>6, <1>7, <1>8, <1>9, StepFrame, DocsKept

-----------------------------------------------------------------------------
(* The steps of the purge loop.                                              *)

LEMMA CallsAre == Call = 1 .. Len(Lengths) /\ Len(Lengths) \in Nat
BY MongoAggregateAssumption DEF Call

LEMMA StartWriteStep ==
  ASSUME IInv, StartWrite
  PROVE  IInv'
<1> PICK c : c = next + 1
  OBVIOUS
<1>1. /\ next \in Call \cup {0} /\ main \in {"idle", "writing"} /\ over \subseteq 1 .. next
      /\ next < Len(Lengths) /\ next' = c /\ main' = "writing"
      /\ UNCHANGED <<config, aggTime, last, docs, groups, heals, failed, over, faults>>
  BY DEF StartWrite, IInv, TypeOK
<1>2. c \in Call /\ next \in Nat /\ c \in Nat \ {0} /\ c > next /\ over \subseteq 1 .. c
  BY <1>1, CallsAre
<1>3. PICK s \in BoundedSeq(Record, Lengths[c]) :
        /\ slice' = [slice EXCEPT ![c] = s]
        /\ Goes(c, IF s = <<>> THEN "nil" ELSE "aggregate")
  BY <1>1 DEF StartWrite
<1>4. s \in Seq(Record) /\ Len(s) \in Nat
  <2>1. Lengths[c] \in Nat
    BY <1>2, MongoAggregateAssumption DEF Call
  <2>2. PICK m \in 0 .. Lengths[c] : s \in [1 .. m -> Record]
    BY <2>1 DEF BoundedSeq, SeqOf
  <2>3. m \in Nat
    BY <2>1
  <2>4. s \in Seq(Record)
    BY <2>2, <2>3
  <2> QED
    BY <2>4
<1>5. call[c].at = "none" /\ slice[c] = <<>> /\ call[c].pos = 0 /\ groups[c] = Reset
  BY <1>2 DEF IInv, Shapes, At
<1> DEFINE where == IF s = <<>> THEN "nil" ELSE "aggregate"
           rec   == [call[c] EXCEPT !.at = where]
<1>6. /\ rec \in Calls /\ rec.at = where /\ rec.pos = 0 /\ where \in {"nil", "aggregate"}
      /\ call' = [call EXCEPT ![c] = rec]
  BY <1>2, <1>3, <1>5, CallFacts DEF Calls, Where, Goes
<1>7. (where = "nil") = (s = <<>>)
  OBVIOUS
<1> HIDE DEF rec, where
<1>8. /\ call' \in [Call -> Calls] /\ call'[c] = rec /\ \A d \in Call \ {c} : call'[d] = call[d]
      /\ slice' \in [Call -> Seq(Record)] /\ slice'[c] = s /\ \A d \in Call \ {c} : slice'[d] = slice[d]
  <2>1. slice \in [Call -> Seq(Record)] /\ call \in [Call -> Calls]
    BY DEF IInv, Shapes
  <2> QED
    BY <1>2, <1>3, <1>4, <1>6, <2>1
<1>9. Item \subseteq Item' /\ \A n \in DOMAIN s : <<c, n>> \notin Item
  <2>1. \A d \in Call : d # c => DOMAIN slice'[d] = DOMAIN slice[d]
    BY <1>8
  <2>2. DOMAIN slice[c] = {}
    BY <1>5
  <2> QED
    BY <1>2, <2>1, <2>2 DEF Item
<1>10. GroupsFollow'
  <2> SUFFICES ASSUME NEW d \in Call
               PROVE  GroupsOf(d)'
    BY DEF GroupsFollow
  <2>1. CASE d # c
    BY <1>1, <1>8, <2>1, GroupsSame DEF IInv, GroupsFollow
  <2>2. CASE d = c
    <3>1. groups'[c] = Reset /\ call'[c].pos = 0 /\ call'[c].at \in {"nil", "aggregate"}
      BY <1>1, <1>5, <1>6, <1>8
    <3> QED
      BY <2>2, <3>1 DEF GroupsOf, Reached, Reset, NoGroup
  <2> QED
    BY <2>1, <2>2
<1>11. CopiesFollow'
  <2> SUFFICES ASSUME NEW d \in Call, NEW n \in DOMAIN slice'[d], NEW coll \in Coll
               PROVE  CopiesOf(d, n, coll)'
    BY DEF CopiesFollow
  <2>1. Copies(coll, <<d, n>>)' = Copies(coll, <<d, n>>) /\ mixed' = mixed /\ heals' = heals
    BY <1>1, SameCopies DEF config
  <2>2. CASE d # c
    <3>1. CopiesOf(d, n, coll)
      BY <1>8, <2>2 DEF IInv, CopiesFollow
    <3> QED
      BY <1>8, <2>1, <2>2, <3>1, CopiesSame
  <2>3. CASE d = c
    <3>1. Copies(coll, <<d, n>>)' = {}
      BY <1>8, <1>9, <2>1, <2>3, NoCopies, CommonFacts
    <3>2. call'[c].at = "aggregate"
      <4>1. s # <<>>
        BY <1>8, <2>3
      <4> QED
        BY <1>6, <1>7, <1>8, <4>1
    <3>3. heals'[c] \in Nat
      BY <1>2, <2>1, CallFacts
    <3>4. ~Past(c, n, coll)' /\ ~Returned(c)' /\ ~At(c, "nil")'
      BY <3>2 DEF Past, Reached, Returned, At
    <3> DEFINE C == Copies(coll, <<d, n>>)
    <3>5. IsFiniteSet(C') /\ Cardinality(C') = 0
      BY <3>1, FS_EmptySet
    <3> HIDE DEF C
    <3>6. Cardinality(C') <= heals'[c] + IF Past(c, n, coll)' \/ Returned(c)' THEN 1 ELSE 0
      BY <3>3, <3>4, <3>5
    <3> QED
      BY <2>3, <3>4, <3>5, <3>6 DEF CopiesOf, C
  <2> QED
    BY <2>2, <2>3
<1>12. ErrorMeans' /\ HealBound'
  <2>1. ASSUME NEW d \in Call, At(d, "error")'
        PROVE  At(d, "error")
    BY <1>6, <1>8, <2>1 DEF At
  <2> QED
    BY <1>1, <2>1 DEF IInv, ErrorMeans, ErrorOf, HealBound, config
<1>13. Shapes'
  <2>1. ASSUME NEW d \in Call
        PROVE  /\ d > next' => At(d, "none")'
               /\ At(d, "none")' => slice'[d] = <<>> /\ call'[d].pos = 0 /\ groups'[d] = Reset'
    <3>1. CASE d = c
      BY <1>1, <1>2, <1>6, <1>8, <3>1 DEF At
    <3>2. CASE d # c
      <4>1. d \in Nat /\ (d > c => d > next)
        BY <1>2, CallsAre
      <4> QED
        BY <1>1, <1>8, <3>2, <4>1 DEF IInv, Shapes, At, Reset
    <3> QED
      BY <3>1, <3>2
  <2> QED
    BY <1>1, <1>2, <1>8, <2>1 DEF IInv, Shapes, config
<1>14. TypeOK'
  <2>1. /\ aggTime' \in 1 .. Hour /\ last' \in Time \cup {Unset} /\ DOMAIN docs' \subseteq Key
        /\ heals' \in [Call -> 0 .. Hour]
        /\ over' \subseteq 1 .. next' /\ main' \in {"idle", "writing"} /\ next' \in Call \cup {0}
        /\ failed' \subseteq Call /\ faults' \in 0 .. MaxFaults
    BY <1>1, <1>2 DEF IInv, TypeOK
  <2>2. ASSUME NEW d \in Call
        PROVE  /\ slice'[d] \in Seq(Record)
               /\ call'[d] \in Calls /\ call'[d].pos \in 0 .. Len(slice'[d])
               /\ \A o \in Org : groups'[d][o] \in Groups /\ groups'[d][o].members \subseteq 1 .. call'[d].pos
    <3>1. CASE d = c
      BY <1>1, <1>4, <1>5, <1>6, <1>8, <3>1, CommonFacts DEF Reset, NoGroup
    <3>2. CASE d # c
      <4>1. /\ slice'[d] = slice[d] /\ call'[d] = call[d] /\ groups'[d] = groups[d]
        BY <1>1, <1>8, <3>2
      <4>2. \A o \in Org : groups[d][o] \in Groups /\ groups[d][o].members \subseteq 1 .. call[d].pos
        BY CommonFacts DEF IInv, TypeOK
      <4> QED
        BY <4>1, <4>2, CallFacts
    <3> QED
      BY <3>1, <3>2
  <2>3. \A k \in DOMAIN docs' : IsABag(docs'[k]) /\ BagToSet(docs'[k]) \subseteq Item'
    BY <1>1, <1>9, CommonFacts DEF DocsTyped
  <2> QED
    BY <2>1, <2>2, <2>3 DEF TypeOK, Calls, Where, Groups, Key, Coll, Time
<1> QED
  BY <1>10, <1>11, <1>12, <1>13, <1>14 DEF IInv

LEMMA LoopSteps ==
  ASSUME IInv, WriteDone \/ Deadline
  PROVE  IInv'
<1>1. /\ UNCHANGED <<config, aggTime, last, docs, slice, call, groups, heals, failed, next, faults>>
      /\ main' = "idle" /\ over' \in {over, over \cup {next}} /\ main = "writing"
  BY DEF WriteDone, Deadline
<1>2. over' \subseteq 1 .. next'
  <2>1. next # 0 /\ next \in Call \cup {0} /\ over \subseteq 1 .. next
    BY <1>1 DEF IInv, TypeOK, Shapes
  <2> QED
    BY <1>1, <2>1, CallsAre
<1>3. TypeOK'
  BY <1>1, <1>2 DEF IInv, TypeOK, Item, Key, Time
<1>4. Shapes' /\ HealBound' /\ ErrorMeans'
  BY <1>1 DEF IInv, Shapes, HealBound, ErrorMeans, ErrorOf, At, Reset, config
<1>5. GroupsFollow' /\ CopiesFollow'
  <2>1. ASSUME NEW d \in Call
        PROVE  GroupsOf(d)'
    BY <1>1, GroupsSame DEF IInv, GroupsFollow
  <2>2. ASSUME NEW d \in Call, NEW n \in DOMAIN slice[d], NEW coll \in Coll
        PROVE  CopiesOf(d, n, coll)'
    <3>1. CopiesOf(d, n, coll) /\ Copies(coll, <<d, n>>)' = Copies(coll, <<d, n>>) /\ mixed' = mixed
      BY <1>1, SameCopies DEF IInv, CopiesFollow, config
    <3> QED
      BY <1>1, <3>1, CopiesSame
  <2> QED
    BY <1>1, <2>1, <2>2 DEF GroupsFollow, CopiesFollow
<1> QED
  BY <1>3, <1>4, <1>5 DEF IInv

LEMMA StutterStep ==
  ASSUME IInv, UNCHANGED vars
  PROVE  IInv'
<1>1. UNCHANGED <<config, aggTime, last, docs, slice, call, groups, heals, failed, over, main, next, faults>>
  BY DEF vars, loop
<1>2. TypeOK'
  BY <1>1 DEF IInv, TypeOK, Item, Key, Time
<1>3. Shapes' /\ HealBound' /\ ErrorMeans'
  BY <1>1 DEF IInv, Shapes, HealBound, ErrorMeans, ErrorOf, At, Reset, config
<1>4. GroupsFollow' /\ CopiesFollow'
  <2>1. ASSUME NEW d \in Call
        PROVE  GroupsOf(d)'
    BY <1>1, GroupsSame DEF IInv, GroupsFollow
  <2>2. ASSUME NEW d \in Call, NEW n \in DOMAIN slice[d], NEW coll \in Coll
        PROVE  CopiesOf(d, n, coll)'
    <3>1. CopiesOf(d, n, coll) /\ Copies(coll, <<d, n>>)' = Copies(coll, <<d, n>>) /\ mixed' = mixed
      BY <1>1, SameCopies DEF IInv, CopiesFollow, config
    <3> QED
      BY <1>1, <3>1, CopiesSame
  <2> QED
    BY <1>1, <2>1, <2>2 DEF GroupsFollow, CopiesFollow
<1> QED
  BY <1>2, <1>3, <1>4 DEF IInv

LEMMA InitInv == Init => IInv
<1> SUFFICES ASSUME Init
             PROVE  IInv
  OBVIOUS
<1> USE DEF Init
<1>1. Reset \in [Org -> Groups] /\ \A o \in Org : Reset[o].members = {}
  BY DEF Reset, NoGroup, Groups
<1>2. /\ \A c \in Call : /\ call[c] = [at |-> "none", pos |-> 0, todo |-> {}, org |-> NoOrg, coll |-> "own"]
                         /\ slice[c] = <<>> /\ groups[c] = Reset /\ heals[c] = 0
      /\ [at |-> "none", pos |-> 0, todo |-> {}, org |-> NoOrg, coll |-> "own"] \in Calls
      /\ DOMAIN docs = {} /\ <<>> \in Seq(Record) /\ DOMAIN <<>> = {}
  BY DEF Calls, Where, Coll
<1>3. aggTime \in 1 .. Hour /\ Hour \in Nat /\ 0 .. MaxFaults = 0 .. MaxFaults /\ MaxFaults \in Nat
  BY MongoAggregateAssumption
<1>4. Shapes
  <2>1. /\ call \in [Call -> Calls] /\ groups \in [Call -> [Org -> Groups]]
        /\ slice \in [Call -> Seq(Record)]
    BY <1>1, <1>2
  <2> QED
    BY <1>2, <2>1 DEF Shapes, At, config
<1>5. TypeOK
  <2>1. heals \in [Call -> 0 .. Hour]
    BY <1>3
  <2>2. ASSUME NEW c \in Call
        PROVE  /\ slice[c] \in Seq(Record)
               /\ call[c].at \in {"none", "aggregate", "group", "upsert", "average", "nil", "error"}
               /\ call[c].pos \in 0 .. Len(slice[c])
               /\ call[c].todo \subseteq Org /\ call[c].org \in Org \cup {NoOrg} /\ call[c].coll \in Coll
               /\ \A o \in Org : groups[c][o].ts \in Nat \cup {Unset} /\ groups[c][o].members \subseteq 1 .. call[c].pos
    BY <1>1, <1>2 DEF Coll, Groups
  <2>3. /\ last \in Time \cup {Unset} /\ DOMAIN docs \subseteq Key
        /\ \A k \in DOMAIN docs : IsABag(docs[k]) /\ BagToSet(docs[k]) \subseteq Item
        /\ failed \subseteq Call /\ over \subseteq 1 .. next
        /\ main \in {"idle", "writing"} /\ next \in Call \cup {0} /\ faults \in 0 .. MaxFaults
    BY <1>2, <1>3
  <2> HIDE DEF Init
  <2> QED
    BY <1>3, <2>1, <2>2, <2>3 DEF TypeOK
<1>6. HealBound
  <2>1. ASSUME NEW c \in Call
        PROVE  heals[c] + aggTime <= Hour
    BY <1>2, <1>3
  <2> QED
    BY <2>1 DEF HealBound
<1>7. GroupsFollow
  BY <1>1, <1>2 DEF GroupsFollow, GroupsOf, Reached
<1>8. CopiesFollow /\ ErrorMeans
  BY <1>2 DEF CopiesFollow, ErrorMeans, ErrorOf, At
<1> QED
  BY <1>4, <1>5, <1>6, <1>7, <1>8 DEF IInv

LEMMA NextStep == IInv /\ [Next]_vars => IInv'
<1> SUFFICES ASSUME IInv, [Next]_vars
             PROVE  IInv'
  OBVIOUS
<1>1. CASE StartWrite
  BY <1>1, StartWriteStep
<1>2. CASE WriteDone \/ Deadline
  BY <1>2, LoopSteps
<1>3. ASSUME NEW c \in Call, WriteDataStep(c)
      PROVE  IInv'
  <2>1. CASE Aggregate(c)
    BY <2>1, AggregateStep
  <2>2. CASE Aggregated(c)
    BY <2>2, AggregatedStep
  <2>3. CASE NextGroup(c)
    BY <2>3, NextGroupStep
  <2>4. CASE Return(c)
    BY <2>4, ReturnStep
  <2>5. CASE Upsert(c)
    BY <2>5, UpsertStep
  <2>6. CASE AvgUpdate(c)
    BY <2>6, AvgUpdateStep
  <2>7. CASE UpsertFails(c)
    BY <2>7, UpsertFailsStep
  <2>8. CASE SelfHeal(c)
    BY <2>8, SelfHealStep
  <2>9. CASE CannotHeal(c)
    BY <2>9, CannotHealStep
  <2> QED
    BY <1>3, <2>1, <2>2, <2>3, <2>4, <2>5, <2>6, <2>7, <2>8, <2>9 DEF WriteDataStep
<1>4. CASE UNCHANGED vars
  BY <1>4, StutterStep
<1> QED
  BY <1>1, <1>2, <1>3, <1>4 DEF Next

-----------------------------------------------------------------------------
(* The theorems.                                                             *)

(* The calls, the groups they make and the copies in the documents keep to   *)
(* the invariant, whatever fails, times out or heals.                        *)
THEOREM Inductive == Spec => []IInv
<1> QED
  BY InitInv, NextStep, PTL DEF Spec

LEMMA CountsOnce == IInv => CountedOncePerRun
<1> SUFFICES ASSUME IInv, NEW i \in Item, NEW coll \in Coll
             PROVE  /\ IsFiniteSet(Copies(coll, i))
                    /\ Cardinality(Copies(coll, i)) <= 1 + heals[i[1]]
  BY DEF CountedOncePerRun, IInv
<1>1. PICK c \in Call : \E n \in DOMAIN slice[c] : i = <<c, n>>
  BY DEF Item
<1>2. PICK n \in DOMAIN slice[c] : i = <<c, n>>
  BY <1>1
<1>3. CopiesOf(c, n, coll) /\ heals[c] \in Nat /\ i[1] = c
  BY <1>2, CallFacts
<1> DEFINE C == Copies(coll, i)
<1>4. IsFiniteSet(C) /\ Cardinality(C) <= heals[c] + IF Past(c, n, coll) \/ Returned(c) THEN 1 ELSE 0
  BY <1>2, <1>3 DEF CopiesOf
<1> HIDE DEF C
<1>5. Cardinality(C) \in Nat
  BY <1>4, FS_CardinalityType
<1>6. Cardinality(C) <= 1 + heals[c]
  BY <1>3, <1>4, <1>5
<1> QED
  BY <1>3, <1>4, <1>6 DEF C

(* A collection counts a record at most once for each run of its WriteData:  *)
(* an upsert that failed after its counters were added, a deadline and the   *)
(* calls it leaves behind count no record twice.                             *)
THEOREM NeverCountedTwice == Spec => []CountedOncePerRun
<1> QED
  BY Inductive, CountsOnce, PTL

LEMMA NilCounts == IInv => NilMeansCounted
<1> SUFFICES ASSUME IInv, NEW c \in Call
             PROVE  /\ At(c, "nil") =>
                         \A n \in DOMAIN slice[c] : slice[c][n].org # NoOrg =>
                           Copies("own", <<c, n>>) # {} /\ (mixed => Copies("mixed", <<c, n>>) # {})
                    /\ At(c, "error") /\ healing => c \in failed \/ aggTime = 1
  BY DEF NilMeansCounted
<1>1. ASSUME At(c, "nil"), NEW n \in DOMAIN slice[c], slice[c][n].org # NoOrg
      PROVE  Copies("own", <<c, n>>) # {} /\ (mixed => Copies("mixed", <<c, n>>) # {})
  <2>1. slice[c][n].org \in Org
    BY <1>1, CallFacts
  <2>2. CopiesOf(c, n, "own") /\ CopiesOf(c, n, "mixed")
    BY CallFacts DEF Coll
  <2> QED
    BY <1>1, <2>1, <2>2 DEF CopiesOf
<1> QED
  BY <1>1, CallFacts DEF ErrorOf

(* WriteData returns nil only when each record with an organisation is       *)
(* counted, and a pump that may heal itself gives a document up for its size *)
(* only at the shortest aggregation time.                                    *)
THEOREM NilIsHonest == Spec => []NilMeansCounted
<1> QED
  BY Inductive, NilCounts, PTL

==============================================================================
