------------------------------ MODULE MongoWrite ------------------------------
(***************************************************************************)
(* WriteData of the pumps that write records to MongoDB: mongo.go,         *)
(* graph_mongo.go, mcp_mongo.go and mongo_selective.go.                    *)
(*                                                                         *)
(* AccumulateSet packs the records into batches of a bounded size.  The    *)
(* first three pumps insert every batch in a goroutine of its own and      *)
(* gather the results on a channel, returning at the first error; the      *)
(* selective pump inserts batch after batch, collection by collection, and *)
(* only logs errors.                                                       *)
(*                                                                         *)
(* One behaviour is one call.  A record is known by its position in the    *)
(* slice the pump is given; a batch is the set of its positions.           *)
(***************************************************************************)
EXTENDS Integers, Sequences, FiniteSets

CONSTANTS
  Item,                     \* [class, gone, size, org], see ItemAssumption
  Org,                      \* the organisations of records that have one
  NoOrg,
  MaxItems,                 \* bound: length of the slice
  MaxInsertBatchSizeBytes,
  MaxDocumentSizeBytes

(* class "nil" is a value that did not decode; gone is ResponseCode = -1;   *)
(* size is what getItemSizeBytes computes.                                  *)
ASSUME ItemAssumption ==
  /\ Item \subseteq [class : {"nil", "rest", "graph", "mcp"}, gone : BOOLEAN,
                     size : Nat, org : Org \cup {NoOrg}]
  /\ NoOrg \notin Org
  /\ MaxItems \in Nat
  /\ MaxInsertBatchSizeBytes \in Nat
  /\ MaxDocumentSizeBytes \in Nat

VARIABLES
  pump,      \* "mongo", "graph", "mcp" or "selective"
  slice,     \* the slice given to WriteData
  orgs,      \* the collections the selective pump has not come to yet
  pc,        \* where WriteData is
  data,      \* the positions given to AccumulateSet
  i,         \* its loop variable
  total,     \* accumulatorTotal
  current,   \* thisResultSet
  batches,   \* returnArray
  inserters, \* the goroutines, one for each batch
  errCh,     \* the channel
  received,  \* results received, or batches inserted by the selective pump
  result,    \* what WriteData returned
  written,   \* history: [position -> times it was inserted]
  cut,       \* history: positions whose raw request and response were replaced
  broken     \* history: batches whose Insert failed

input == <<pump, slice>>
acc   == <<data, i, total, current, batches>>
vars  == <<input, orgs, pc, acc, inserters, errCh, received, result,
           written, cut, broken>>

Pumps     == {"mongo", "graph", "mcp", "selective"}
Pos       == 1 .. Len(slice)
Batch     == 1 .. Len(batches)
Is(k, c)  == slice[k].class = c

Init ==
  /\ pump \in Pumps
  /\ slice \in UNION {[1 .. n -> Item] : n \in 0 .. MaxItems}
  /\ orgs = {}
  /\ pc = "select"
  /\ data = <<>>
  /\ i = 1
  /\ total = 0
  /\ current = {}
  /\ batches = <<>>
  /\ inserters = <<>>
  /\ errCh = <<>>
  /\ received = 0
  /\ result = "none"
  /\ written = [k \in Pos |-> 0]
  /\ cut = {}
  /\ broken = {}

-----------------------------------------------------------------------------
(* What WriteData does before it calls AccumulateSet.                       *)

Ascending(s) == \A m, n \in DOMAIN s : m < n => s[m] < s[n]

InOrder(S) == CHOOSE s \in [1 .. Cardinality(S) -> S] : Ascending(s)

(* MCP records go to the MCP pump only; the graph pump selects later.       *)
Selected ==
  CASE pump = "mongo" -> {k \in Pos : ~Is(k, "mcp")}
    [] pump = "graph" -> Pos
    [] pump = "mcp"   -> {k \in Pos : Is(k, "mcp")}

Return(r) == pc' = "returned" /\ result' = r

SelectRecords ==
  /\ pc = "select" /\ pump # "selective"
  /\ data' = InOrder(Selected)
  /\ IF Selected = {} /\ pump # "graph"
     THEN Return("nil")
     ELSE pc' = "accumulate" /\ UNCHANGED result
  /\ UNCHANGED <<input, orgs, i, total, current, batches, inserters, errCh,
                 received, written, cut, broken>>

(* The selective pump groups by organisation; a nil value fails its type    *)
(* assertion.                                                               *)
OrgsOfRecords == {slice[k].org : k \in {n \in Pos : ~Is(n, "mcp")}} \ {NoOrg}

GroupByOrg ==
  /\ pc = "select" /\ pump = "selective"
  /\ orgs' = OrgsOfRecords
  /\ IF \E k \in Pos : Is(k, "nil")
     THEN pc' = "panic" /\ UNCHANGED result
     ELSE IF orgs' = {} THEN Return("nil") ELSE pc' = "collection" /\ UNCHANGED result
  /\ UNCHANGED <<input, acc, inserters, errCh, received, written, cut, broken>>

NextCollection(o) ==
  /\ pc = "collection"
  /\ orgs' = orgs \ {o}
  /\ data' = InOrder({k \in Pos : ~Is(k, "mcp") /\ slice[k].org = o})
  /\ i' = 1 /\ total' = 0 /\ current' = {} /\ batches' = <<>>
  /\ received' = 0
  /\ pc' = "accumulate"
  /\ UNCHANGED <<input, inserters, errCh, result, written, cut, broken>>

-----------------------------------------------------------------------------
(* AccumulateSet, one iteration of its loop at a time.                      *)

(* shouldProcessItem, and processItem of the selective pump.                *)
Skips(k) ==
  \/ Is(k, "nil")
  \/ slice[k].gone
  \/ pump = "graph" /\ ~Is(k, "graph")

TooLarge(k) == slice[k].size > MaxDocumentSizeBytes

Fits(k) ==
  IF pump = "selective" THEN total + slice[k].size < MaxInsertBatchSizeBytes
                        ELSE total + slice[k].size <= MaxInsertBatchSizeBytes

SkipItem ==
  /\ pc = "accumulate" /\ i <= Len(data)
  /\ Skips(data[i]) \/ (pump = "selective" /\ TooLarge(data[i]))
  /\ i' = i + 1
  /\ UNCHANGED <<input, orgs, pc, data, total, current, batches, inserters, errCh,
                 received, result, written, cut, broken>>

(* Mistake: the test for the last item is one too early.                    *)
IsLastItemEarly == i = Len(data) - 1

IsLastItem == i = Len(data)

accumulate ==
  /\ pc = "accumulate" /\ i <= Len(data)
  /\ ~Skips(data[i])
  /\ pump = "selective" => ~TooLarge(data[i])
  /\ LET k      == data[i]
         fits   == Fits(k)
         set    == IF fits THEN current \cup {k} ELSE {k}
         closed == IF ~fits /\ current # {} THEN Append(batches, current) ELSE batches
     IN  /\ total' = IF fits THEN total + slice[k].size ELSE slice[k].size
         /\ current' = set
         /\ batches' = IF IsLastItem THEN Append(closed, set) ELSE closed
         /\ cut' = IF pump \in {"mongo", "mcp"} /\ TooLarge(k) THEN cut \cup {k} ELSE cut
  /\ i' = i + 1
  /\ UNCHANGED <<input, orgs, pc, data, inserters, errCh, received, result,
                 written, broken>>

(* Mistake: the remainder is appended even when the last item was.          *)
RemainderAlways == current # {} /\ pump # "selective"

(* The records that are still in thisResultSet when the loop ends.          *)
Remainder == current # {} /\ batches = <<>> /\ pump # "selective"

(* AccumulateSet returns and the goroutines are started.                    *)
StartInserts ==
  /\ pc = "accumulate" /\ i > Len(data)
  /\ batches' = IF Remainder THEN Append(batches, current) ELSE batches
  /\ inserters' = IF pump = "selective" THEN inserters
                  ELSE [b \in 1 .. Len(batches') |-> "insert"]
  /\ IF batches' = <<>> /\ pump # "selective"
     THEN Return("nil")
     ELSE pc' = "gather" /\ UNCHANGED result
  /\ UNCHANGED <<input, orgs, data, i, total, current, errCh, received,
                 written, cut, broken>>

-----------------------------------------------------------------------------
(* The goroutines and the loop that gathers their results.                  *)

(* The backend may insert a first part of a batch before it fails.          *)
Heads(S)    == {H \in SUBSET S : \A h \in H, k \in S : k < h => k \in H}
Written(S)  == [k \in Pos |-> IF k \in S THEN written[k] + 1 ELSE written[k]]

InsertBatch(b) ==
  /\ b \in DOMAIN inserters /\ inserters[b] = "insert"
  /\ \/ /\ written' = Written(batches[b])
        /\ inserters' = [inserters EXCEPT ![b] = "sendNil"]
        /\ UNCHANGED broken
     \/ /\ \E H \in Heads(batches[b]) : written' = Written(H)
        /\ inserters' = [inserters EXCEPT ![b] = "sendErr"]
        /\ broken' = broken \cup {b}
  /\ UNCHANGED <<input, orgs, pc, acc, errCh, received, result, cut>>

(* Mistake: the channel has room for one result.                            *)
ErrChCapacityOne == 1

ErrChCapacity == Len(batches)

(* The mongo pump goes on to send nil after it has sent its error.          *)
SendErr(b) ==
  /\ b \in DOMAIN inserters /\ inserters[b] = "sendErr"
  /\ Len(errCh) < ErrChCapacity
  /\ errCh' = Append(errCh, "err")
  /\ inserters' = [inserters EXCEPT ![b] = IF pump = "mongo" THEN "sendNil" ELSE "done"]
  /\ UNCHANGED <<input, orgs, pc, acc, received, result, written, cut, broken>>

SendNil(b) ==
  /\ b \in DOMAIN inserters /\ inserters[b] = "sendNil"
  /\ Len(errCh) < ErrChCapacity
  /\ errCh' = Append(errCh, "nil")
  /\ inserters' = [inserters EXCEPT ![b] = "done"]
  /\ UNCHANGED <<input, orgs, pc, acc, received, result, written, cut, broken>>

(* Mistake: an error is counted like any other result.                      *)
ReceiveCounting ==
  /\ pc = "gather" /\ pump # "selective"
  /\ received < Len(batches) /\ errCh # <<>>
  /\ errCh' = Tail(errCh)
  /\ received' = received + 1
  /\ UNCHANGED <<input, orgs, pc, acc, inserters, result, written, cut, broken>>

Receive ==
  /\ pc = "gather" /\ pump # "selective"
  /\ received < Len(batches) /\ errCh # <<>>
  /\ errCh' = Tail(errCh)
  /\ IF Head(errCh) = "err"
     THEN Return("err") /\ UNCHANGED received
     ELSE received' = received + 1 /\ UNCHANGED <<pc, result>>
  /\ UNCHANGED <<input, orgs, acc, inserters, written, cut, broken>>

AllReceived ==
  /\ pc = "gather" /\ pump # "selective"
  /\ received = Len(batches)
  /\ Return("nil")
  /\ UNCHANGED <<input, orgs, acc, inserters, errCh, received, written, cut, broken>>

(* The selective pump inserts the next batch itself and only logs an error. *)
InsertNext ==
  /\ pc = "gather" /\ pump = "selective"
  /\ received < Len(batches)
  /\ received' = received + 1
  /\ \/ /\ written' = Written(batches[received + 1])
        /\ UNCHANGED broken
     \/ /\ \E H \in Heads(batches[received + 1]) : written' = Written(H)
        /\ broken' = broken \cup {received + 1}
  /\ UNCHANGED <<input, orgs, pc, acc, inserters, errCh, result, cut>>

CollectionDone ==
  /\ pc = "gather" /\ pump = "selective"
  /\ received = Len(batches)
  /\ IF orgs = {} THEN Return("nil") ELSE pc' = "collection" /\ UNCHANGED result
  /\ UNCHANGED <<input, orgs, acc, inserters, errCh, received, written, cut, broken>>

WriteDataStep ==
  \/ SelectRecords \/ GroupByOrg \/ \E o \in orgs : NextCollection(o)
  \/ SkipItem \/ accumulate \/ StartInserts
  \/ Receive \/ AllReceived \/ InsertNext \/ CollectionDone

InserterStep(b) == InsertBatch(b) \/ SendErr(b) \/ SendNil(b)

Next == WriteDataStep \/ \E b \in 1 .. MaxItems : InserterStep(b)

Spec == Init /\ [][Next]_vars

(* Goroutines that can run do run, and the backend answers.                 *)
FairSpec ==
  Spec /\ WF_vars(WriteDataStep) /\ \A b \in 1 .. MaxItems : WF_vars(InserterStep(b))

-----------------------------------------------------------------------------
TypeOK ==
  /\ pump \in Pumps
  /\ slice \in Seq(Item)
  /\ orgs \subseteq Org
  /\ pc \in {"select", "collection", "accumulate", "gather", "returned", "panic"}
  /\ data \in Seq(Pos)
  /\ i \in 1 .. Len(data) + 1
  /\ total \in Nat
  /\ current \subseteq Pos
  /\ batches \in Seq(SUBSET Pos)
  /\ inserters \in Seq({"insert", "sendErr", "sendNil", "done"})
  /\ errCh \in Seq({"err", "nil"}) /\ Len(errCh) <= Len(batches)
  /\ received \in 0 .. Len(batches)
  /\ result \in {"none", "nil", "err"}
  /\ written \in [Pos -> Nat]
  /\ cut \subseteq Pos
  /\ broken \subseteq 1 .. MaxItems

SizeOf(S) ==
  LET upTo[n \in 0 .. Len(slice)] ==
        IF n = 0 THEN 0 ELSE upTo[n - 1] + (IF n \in S THEN slice[n].size ELSE 0)
  IN  upTo[Len(slice)]

(* A batch respects max_insert_batch_size_bytes, unless one record alone    *)
(* exceeds it (accumulate).                                                 *)
BatchFits ==
  \A b \in Batch : SizeOf(batches[b]) <= MaxInsertBatchSizeBytes \/ Cardinality(batches[b]) = 1

(* What the pump has to write.                                              *)
Wanted(k) ==
  /\ ~Is(k, "nil") /\ ~slice[k].gone
  /\ CASE pump = "mongo"     -> ~Is(k, "mcp")
       [] pump = "graph"     -> Is(k, "graph")
       [] pump = "mcp"       -> Is(k, "mcp")
       [] pump = "selective" -> ~Is(k, "mcp") /\ slice[k].org # NoOrg /\ ~TooLarge(k)

(* No record is inserted twice by a call, although batches are inserted     *)
(* concurrently and the selective pump runs AccumulateSet again and again.  *)
NoRecordTwice == TypeOK /\ \A k \in Pos : written[k] <= 1

(* WriteData reports success only when all of the batches were inserted,    *)
(* whatever the order in which the goroutines sent their results.           *)
HonestResult ==
  result = "nil" /\ pump # "selective" =>
    broken = {} /\ \A b \in Batch : \A k \in batches[b] : written[k] = 1

(* AccumulateSet forgets no record, provided the last one is not skipped,   *)
(* and its batches respect the limit (mongo.go:435-515).                    *)
Accumulated == pc \in {"gather", "returned"} /\ data # <<>>

LastKept ==
  ~Skips(data[Len(data)]) /\ (pump = "selective" => ~TooLarge(data[Len(data)]))

NothingForgotten ==
  /\ BatchFits
  /\ Accumulated /\ LastKept =>
       \A n \in 1 .. Len(data) :
         Wanted(data[n]) => \E b \in Batch : data[n] \in batches[b]

(* mongo.go:464, "Append the remaining result set to the return array if    *)
(* it's not empty".                                                         *)
RemainderAppended ==
  Accumulated /\ pump # "selective" =>
    \A k \in current : \E b \in Batch : k \in batches[b]

(* The goroutines of a call end, unless two batches of the mongo pump fail: *)
(* the channel has room for one result of each batch.                       *)
InsertersEnd ==
  pc = "gather" ~>
    \/ \A b \in DOMAIN inserters : inserters[b] = "done"
    \/ pump = "mongo" /\ Cardinality(broken) > 1

=============================================================================
