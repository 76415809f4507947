--------------------------- MODULE MongoAggregate ---------------------------
(***************************************************************************)
(* WriteData of the MongoDB aggregate pump: records are counted in one     *)
(* document per organisation and aggregation period.  A document that      *)
(* grows too large makes the pump halve its aggregation time and run       *)
(* WriteData again (self healing).                                         *)
(*                                                                         *)
(* The time of the last document is kept in a map of the package under the *)
(* URL of the database, the aggregation time in the pump: both outlive a   *)
(* call, and calls left behind by a timeout share them.                    *)
(*                                                                         *)
(* Time is counted in minutes.  A document is the bag of the records it    *)
(* counts, and its size the number of different ones: each brings entries  *)
(* of its own.  The second update of a document adds the lists and         *)
(* averages made of its entries.                                           *)
(***************************************************************************)
EXTENDS Integers, Sequences, Bags, SequencesExt, FiniteSetsExt

CONSTANTS
  Org,          \* organisations of the records
  NoOrg,        \* a record without one
  Record,       \* records [org, time]
  Hour,         \* the longest aggregation time, 60 in the code
  Configured,   \* aggregation times to start from
  Lengths,      \* bound: Lengths[c] is the longest slice of call c
  DocLimit,     \* entries a document may have
  ListLimit,    \* entries a document with its lists may have
  MaxFaults     \* bound: upserts that fail for another reason

ASSUME MongoAggregateAssumption ==
  /\ NoOrg \notin Org
  /\ Record \subseteq [org : Org \cup {NoOrg}, time : Nat]
  /\ Hour \in Nat \ {0}
  /\ Configured \subseteq 1 .. Hour
  /\ Lengths \in Seq(Nat)
  /\ DocLimit \in Nat /\ ListLimit \in Nat /\ ListLimit <= DocLimit
  /\ MaxFaults \in Nat

Call == DOMAIN Lengths
Time == {r.time : r \in Record}              \* of records
Unset == -1                                  \* time.Time{}
Coll == {"own", "mixed"}                     \* per organisation, and of all
Key  == Coll \X Org \X Nat                   \* of a document

VARIABLES
  mixed,     \* use_mixed_collection
  healing,   \* enable_aggregate_self_healing
  timed,     \* whether the pump has a timeout
  aggTime,   \* aggregation_time
  last,      \* lastDocumentTimestamp of the database
  docs,      \* the documents: a bag of records for the key of each
  slice,     \* slice[c]: the records [org, time] of call c
  call,      \* call[c]: where call c is
  groups,    \* groups[c]: what AggregateData has made of the slice so far
  heals,     \* history: the restarts of call c, counted up to Hour
  failed,    \* history: calls an upsert of which failed, but not for its size
  over,      \* the calls whose context is over
  main,      \* what the purge loop does
  next,      \* the call it waits for
  faults     \* upserts that failed for another reason

config == <<mixed, healing, timed>>
loop   == <<over, main, next>>
vars   == <<config, aggTime, last, docs, slice, call, groups, heals, failed, loop, faults>>

NoGroup == [ts |-> Unset, members |-> {}]
Reset   == [o \in Org |-> NoGroup]

Init ==
  /\ mixed \in BOOLEAN
  /\ healing \in BOOLEAN
  /\ timed \in BOOLEAN
  /\ aggTime \in Configured
  /\ last = Unset
  /\ docs = <<>>
  /\ slice = [c \in Call |-> <<>>]
  /\ call = [c \in Call |-> [at |-> "none", pos |-> 0, todo |-> {}, org |-> NoOrg, coll |-> "own"]]
  /\ groups = [c \in Call |-> Reset]
  /\ heals = [c \in Call |-> 0]
  /\ failed = {}
  /\ over = {}
  /\ main = "idle"
  /\ next = 0
  /\ faults = 0

At(c, where)   == call[c].at = where
Goes(c, where) == call' = [call EXCEPT ![c].at = where]

-----------------------------------------------------------------------------
(* The purge loop.                                                          *)

(* Graph and MCP records, which the pump leaves out, are not in the slice.  *)
StartWrite ==
  /\ main = "idle" /\ next < Len(Lengths)
  /\ next' = next + 1
  /\ main' = "writing"
  /\ \E s \in BoundedSeq(Record, Lengths[next']) :
       /\ slice' = [slice EXCEPT ![next'] = s]
       /\ Goes(next', IF s = <<>> THEN "nil" ELSE "aggregate")
  /\ UNCHANGED <<config, aggTime, last, docs, groups, heals, failed, over, faults>>

Returned(c) == call[c].at \in {"nil", "error"}

WriteDone ==
  /\ main = "writing" /\ Returned(next)
  /\ main' = "idle"
  /\ UNCHANGED <<config, aggTime, last, docs, slice, call, groups, heals, failed, over, next, faults>>

Deadline ==
  /\ timed /\ main = "writing"
  /\ over' = over \cup {next}
  /\ main' = "idle"
  /\ UNCHANGED <<config, aggTime, last, docs, slice, call, groups, heals, failed, next, faults>>

-----------------------------------------------------------------------------
(* AggregateData, record by record.                                         *)

(* setAggregateTimestamp: the time of the document for a record of time t,  *)
(* and the time remembered from then on.                                    *)
HourOf(t)    == t - (t % Hour)
Remembered(t) == IF last = Unset THEN t ELSE last

DocTime(t) ==
  IF aggTime = Hour THEN HourOf(t)
  ELSE IF Remembered(t) + aggTime > t THEN Remembered(t)
  ELSE t

Aggregate(c) ==
  /\ At(c, "aggregate") /\ call[c].pos < Len(slice[c])
  /\ LET n == call[c].pos + 1
         r == slice[c][n]
     IN /\ call' = [call EXCEPT ![c].pos = n]
        /\ IF r.org = NoOrg THEN UNCHANGED <<groups, last>>
           ELSE IF groups[c][r.org].members = {} THEN
             /\ groups' = [groups EXCEPT ![c][r.org] = [ts |-> DocTime(r.time), members |-> {n}]]
             /\ last' = IF aggTime = Hour THEN last ELSE DocTime(r.time)
           ELSE
             /\ groups' = [groups EXCEPT ![c][r.org].members = @ \cup {n}]
             /\ UNCHANGED last
  /\ UNCHANGED <<config, aggTime, docs, slice, heals, failed, loop, faults>>

Aggregated(c) ==
  /\ At(c, "aggregate") /\ call[c].pos = Len(slice[c])
  /\ call' = [call EXCEPT ![c].at = "group",
                          ![c].todo = {o \in Org : groups[c][o].members # {}}]
  /\ UNCHANGED <<config, aggTime, last, docs, slice, groups, heals, failed, loop, faults>>

-----------------------------------------------------------------------------
(* The groups are written in the order of a map.                            *)

NextGroup(c) ==
  /\ At(c, "group")
  /\ \E o \in call[c].todo :
       call' = [call EXCEPT ![c].at = "upsert", ![c].org = o, ![c].coll = "own",
                            ![c].todo = @ \ {o}]
  /\ UNCHANGED <<config, aggTime, last, docs, slice, groups, heals, failed, loop, faults>>

Return(c) ==
  /\ At(c, "group") /\ call[c].todo = {}
  /\ Goes(c, "nil")
  /\ UNCHANGED <<config, aggTime, last, docs, slice, groups, heals, failed, loop, faults>>

(* Mistake: the name of the mixed collection is not used.                   *)
KeyOfOwn(c) == <<"own", call[c].org, groups[c][call[c].org].ts>>

KeyOf(c)    == <<call[c].coll, call[c].org, groups[c][call[c].org].ts>>

Items(c)    == {<<c, n>> : n \in groups[c][call[c].org].members}
Document(k) == IF k \in DOMAIN docs THEN docs[k] ELSE EmptyBag
Entries(c)  == BagToSet(Document(KeyOf(c))) \cup Items(c)
Counted(c)  ==
  [k \in DOMAIN docs \cup {KeyOf(c)} |->
     IF k = KeyOf(c) THEN Document(k) (+) SetToBag(Items(c)) ELSE docs[k]]

(* DoAggregatedWriting: the counters are added, the averages set.           *)
Upsert(c) ==
  /\ At(c, "upsert") /\ c \notin over /\ Cardinality(Entries(c)) <= DocLimit
  /\ docs' = Counted(c)
  /\ Goes(c, "average")
  /\ UNCHANGED <<config, aggTime, last, slice, groups, heals, failed, loop, faults>>

(* Mistake: the mixed collection is written for the last group only.        *)
MixedNextLast(c) == mixed /\ call[c].coll = "own" /\ call[c].todo = {}

MixedNext(c) == mixed /\ call[c].coll = "own"

AvgUpdate(c) ==
  /\ At(c, "average") /\ c \notin over /\ Cardinality(Entries(c)) <= ListLimit
  /\ call' = IF MixedNext(c) THEN [call EXCEPT ![c].at = "upsert", ![c].coll = "mixed"]
             ELSE [call EXCEPT ![c].at = "group"]
  /\ UNCHANGED <<config, aggTime, last, docs, slice, groups, heals, failed, loop, faults>>

(* The context is over or the database cannot be reached; the counters may  *)
(* have been added all the same.                                            *)
UpsertFails(c) ==
  /\ call[c].at \in {"upsert", "average"}
  /\ IF c \in over THEN UNCHANGED faults ELSE faults < MaxFaults /\ faults' = faults + 1
  /\ docs' \in {docs} \cup IF At(c, "upsert") /\ Cardinality(Entries(c)) <= DocLimit
                           THEN {Counted(c)} ELSE {}
  /\ failed' = failed \cup {c}
  /\ Goes(c, "error")
  /\ UNCHANGED <<config, aggTime, last, slice, groups, heals, loop>>

TooLarge(c) ==
  /\ c \notin over
  /\ \/ At(c, "upsert") /\ Cardinality(Entries(c)) > DocLimit
     \/ At(c, "average") /\ Cardinality(Entries(c)) > ListLimit

CanHeal == healing /\ aggTime # 1

(* divideAggregationTime.                                                   *)
Halve == IF aggTime = 1 THEN 1 ELSE aggTime \div 2

(* ShouldSelfHeal and the second WriteData.                                 *)
SelfHeal(c) ==
  /\ TooLarge(c) /\ CanHeal
  /\ aggTime' = Halve
  /\ last' = Unset
  /\ call' = [call EXCEPT ![c].at = "aggregate", ![c].pos = 0, ![c].todo = {}]
  /\ groups' = [groups EXCEPT ![c] = Reset]
  /\ heals' = [heals EXCEPT ![c] = Min({@ + 1, Hour})]
  /\ UNCHANGED <<config, docs, slice, failed, loop, faults>>

(* Mistake: at one minute the same upsert is tried again.                   *)
CannotHealRetries(c) ==
  /\ TooLarge(c) /\ ~healing
  /\ Goes(c, "error")
  /\ UNCHANGED <<config, aggTime, last, docs, slice, groups, heals, failed, loop, faults>>

CannotHeal(c) ==
  /\ TooLarge(c) /\ ~CanHeal
  /\ Goes(c, "error")
  /\ UNCHANGED <<config, aggTime, last, docs, slice, groups, heals, failed, loop, faults>>

WriteDataStep(c) ==
  \/ Aggregate(c) \/ Aggregated(c) \/ NextGroup(c) \/ Return(c)
  \/ Upsert(c) \/ AvgUpdate(c) \/ UpsertFails(c) \/ SelfHeal(c) \/ CannotHeal(c)

Next == StartWrite \/ WriteDone \/ Deadline \/ \E c \in Call : WriteDataStep(c)

Spec == Init /\ [][Next]_vars

(* The goroutine of a call runs, and the database answers.                  *)
FairSpec == Spec /\ \A c \in Call : WF_vars(WriteDataStep(c))

-----------------------------------------------------------------------------
Item == UNION {{<<c, n>> : n \in DOMAIN slice[c]} : c \in Call}

TypeOK ==
  /\ aggTime \in 1 .. Hour
  /\ last \in Time \cup {Unset}
  /\ DOMAIN docs \subseteq Key
  /\ \A k \in DOMAIN docs : IsABag(docs[k]) /\ BagToSet(docs[k]) \subseteq Item
  /\ \A c \in Call :
       /\ slice[c] \in Seq(Record)
       /\ call[c].at \in {"none", "aggregate", "group", "upsert", "average", "nil", "error"}
       /\ call[c].pos \in 0 .. Len(slice[c])
       /\ call[c].todo \subseteq Org
       /\ call[c].org \in Org \cup {NoOrg}
       /\ call[c].coll \in Coll
       /\ \A o \in Org : groups[c][o].ts \in Nat \cup {Unset} /\ groups[c][o].members \subseteq 1 .. call[c].pos
  /\ heals \in [Call -> 0 .. Hour]
  /\ failed \subseteq Call /\ over \subseteq 1 .. next
  /\ main \in {"idle", "writing"} /\ next \in Call \cup {0}
  /\ faults \in 0 .. MaxFaults

InDocument(k, i) == IF i \in DOMAIN docs[k] THEN docs[k][i] ELSE 0

(* The copies of a record in the documents of a collection, numbered.       *)
Copies(coll, i) ==
  UNION {{k} \X (1 .. InDocument(k, i)) : k \in {k \in DOMAIN docs : k[1] = coll}}

(* A collection counts a record at most once for each time its WriteData    *)
(* ran: without self healing never twice.                                   *)
CountedOncePerRun ==
  /\ TypeOK
  /\ \A i \in Item, coll \in Coll :
       IsFiniteSet(Copies(coll, i)) /\ Cardinality(Copies(coll, i)) <= 1 + heals[i[1]]

(* A nil result means that each record with an organisation is counted in   *)
(* the collection of its organisation and in the mixed one, if it is used.  *)
(* An error without a failed upsert means a document that is too large      *)
(* even with the shortest aggregation time, if the pump may heal itself.    *)
NilMeansCounted ==
  \A c \in Call :
    /\ At(c, "nil") =>
         \A n \in DOMAIN slice[c] : slice[c][n].org # NoOrg =>
           Copies("own", <<c, n>>) # {} /\ (mixed => Copies("mixed", <<c, n>>) # {})
    /\ At(c, "error") /\ healing => c \in failed \/ aggTime = 1

(* Self healing ends: every WriteData returns.                              *)
WriteDataEnds == \A c \in Call : At(c, "aggregate") ~> Returned(c)

=============================================================================
